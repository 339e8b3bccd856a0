----------------------------- MODULE DelayedSends -----------------------------
(***************************************************************************)
(* What the rest of the firmware relies on when it hands messages to a      *)
(* LocoNetSendScheduler: a message sent now is on the wire at once, a       *)
(* delayed one not before its time, and of two delayed messages the one     *)
(* accepted first leaves first unless it is due later.                      *)
(***************************************************************************)
EXTENDS Integers, Sequences

CONSTANTS
  Messages,  \* what may be sent
  Delays,    \* how long a message may be delayed
  StartTime, \* bound: time since boot when the model begins
  MaxTime,   \* bound: and when its clock stops
  MaxSends   \* bound: how many messages are accepted

VARIABLES
  time,      \* since boot, in ms
  scheduled, \* delayed messages not yet sent, numbered as accepted
  accepted,  \* how many messages were accepted
  wire       \* what was sent

vars == <<time, scheduled, accepted, wire>>

Init ==
  /\ time = StartTime
  /\ scheduled = {}
  /\ accepted = 0
  /\ wire = <<>>

Tick ==
  /\ time < MaxTime
  /\ time' = time + 1
  /\ UNCHANGED <<scheduled, accepted, wire>>

Accept ==
  /\ accepted < MaxSends
  /\ accepted' = accepted + 1

SendNow(message) ==
  /\ Accept
  /\ wire' = Append(wire, message)
  /\ UNCHANGED <<time, scheduled>>

SendAfter(message, delay) ==
  /\ Accept
  /\ scheduled' = scheduled \cup
       {[number |-> accepted + 1, message |-> message, due |-> time + delay]}
  /\ UNCHANGED <<time, wire>>

\* entry would overtake an earlier one that is due no later.
Overtakes(entry) ==
  \E other \in scheduled : other.number < entry.number /\ other.due <= entry.due

Deliver(entry) ==
  /\ entry.due <= time
  /\ ~Overtakes(entry)
  /\ scheduled' = scheduled \ {entry}
  /\ wire' = Append(wire, entry.message)
  /\ UNCHANGED <<time, accepted>>

DeliverSome == \E entry \in scheduled : Deliver(entry)

Next ==
  \/ Tick
  \/ \E message \in Messages : SendNow(message)
  \/ \E message \in Messages, delay \in Delays : SendAfter(message, delay)
  \/ DeliverSome

Safety == Init /\ [][Next]_vars

\* And what is due is sent.
Spec == Safety /\ WF_vars(DeliverSome)
=============================================================================
