---------------------------- MODULE SendScheduler ----------------------------
(***************************************************************************)
(* PendingLocoNetSendScheduler, with the clock as it is: millis() is modulo *)
(* ClockRange (2^32 on the device, 49.7 days).  update() compares the time  *)
(* a message is due with the time of the pass as plain numbers.             *)
(*                                                                          *)
(* While the clock has not turned over this implements DelayedSends, for    *)
(* every set of messages and delays (SendSchedulerProofs).                  *)
(***************************************************************************)
EXTENDS Integers, Sequences

CONSTANTS
  Messages,   \* what may be sent
  Delays,     \* delays the encoders and the startup query ask for
  ClockRange, \* millis() runs from 0 to ClockRange - 1
  StartTime,  \* bound: time since boot when the model begins
  MaxTime,    \* bound: and when its clock stops
  MaxSends    \* bound: how many messages are accepted

ASSUME ClockAssumption ==
  /\ ClockRange \in Nat \ {0}
  /\ StartTime \in Nat
  /\ MaxTime \in Nat
  /\ StartTime <= MaxTime

ASSUME DelayAssumption == Delays \subseteq Nat

ASSUME BoundAssumption == MaxSends \in Nat

VARIABLES
  time,      \* since boot, in ms
  pc,        \* "loop", or "sending" inside update()
  pending,   \* pending_
  it,        \* the iterator of update()
  now,       \* the time update() read when it began
  wire,      \* what port_ was given
  \* history: nothing the program can see
  passBegan, \* the real time update() began
  accepted   \* how many messages were accepted

vars == <<time, pc, pending, it, now, wire, passBegan, accepted>>

\* Clock::nowMilliseconds
millis == time % ClockRange

\* PendingLocoNetSend; number and due (the real time) are history.
Entry ==
  [message : Messages, dueAt : 0..(ClockRange - 1), number : Nat, due : Nat]

Init ==
  /\ time = StartTime
  /\ pc = "loop"
  /\ pending = <<>>
  /\ it = 0
  /\ now = 0
  /\ wire = <<>>
  /\ passBegan = StartTime
  /\ accepted = 0

-----------------------------------------------------------------------------
(* The two operations of LocoNetSendScheduler. *)

Accept ==
  /\ pc = "loop"
  /\ accepted < MaxSends
  /\ accepted' = accepted + 1

SendNow(message) ==
  /\ Accept
  /\ wire' = Append(wire, message)
  /\ UNCHANGED <<time, pc, pending, it, now, passBegan>>

SendAfter(message, delay) ==
  /\ Accept
  /\ pending' = Append(pending,
       [message |-> message, dueAt |-> (millis + delay) % ClockRange,
        number |-> accepted + 1, due |-> time + delay])
  /\ UNCHANGED <<time, pc, it, now, wire, passBegan>>

-----------------------------------------------------------------------------
(* update(), one entry at a time. *)

Update ==
  /\ pc = "loop"
  /\ pc' = "sending"
  /\ it' = 1
  /\ now' = millis
  /\ passBegan' = time
  /\ UNCHANGED <<time, pending, wire, accepted>>

Skip ==
  /\ pc = "sending"
  /\ it <= Len(pending)
  /\ pending[it].dueAt > now
  /\ it' = it + 1
  /\ UNCHANGED <<time, pc, pending, now, wire, passBegan, accepted>>

\* Mutant of Erase: the last entry takes the place of the one that goes.
EraseBySwap(s, i) ==
  [k \in 1..(Len(s) - 1) |-> IF k = i THEN s[Len(s)] ELSE s[k]]

\* std::vector::erase
Erase(s, i) == [k \in 1..(Len(s) - 1) |-> IF k < i THEN s[k] ELSE s[k + 1]]

\* Mutant of Send: the iterator moves on over the entry that moved up.
SendThenStep ==
  /\ pc = "sending"
  /\ it <= Len(pending)
  /\ pending[it].dueAt <= now
  /\ wire' = Append(wire, pending[it].message)
  /\ pending' = Erase(pending, it)
  /\ it' = it + 1
  /\ UNCHANGED <<time, pc, now, passBegan, accepted>>

Send ==
  /\ pc = "sending"
  /\ it <= Len(pending)
  /\ pending[it].dueAt <= now
  /\ wire' = Append(wire, pending[it].message)
  /\ pending' = Erase(pending, it)
  /\ UNCHANGED <<time, pc, it, now, passBegan, accepted>>

UpdateEnds ==
  /\ pc = "sending"
  /\ it > Len(pending)
  /\ pc' = "loop"
  /\ it' = 0
  /\ now' = 0
  /\ UNCHANGED <<time, pending, wire, passBegan, accepted>>

Tick ==
  /\ time < MaxTime
  /\ time' = time + 1
  /\ UNCHANGED <<pc, pending, it, now, wire, passBegan, accepted>>

Loop == Update \/ Skip \/ Send \/ UpdateEnds

Callers ==
  \/ \E message \in Messages : SendNow(message)
  \/ \E message \in Messages, delay \in Delays : SendAfter(message, delay)

Next == Loop \/ Callers \/ Tick

Spec == Init /\ [][Next]_vars

\* loop() runs on.
FairSpec == Spec /\ WF_vars(Loop)

-----------------------------------------------------------------------------
\* No due time is beyond the turn of the clock.
ClockDoesNotTurn ==
  /\ MaxTime < ClockRange
  /\ \A delay \in Delays : MaxTime + delay < ClockRange

TypeOK ==
  /\ time \in Nat
  /\ pc \in {"loop", "sending"}
  /\ pending \in Seq(Entry)
  /\ it \in Nat
  /\ pc = "sending" => it # 0
  /\ now \in 0..(ClockRange - 1)
  /\ wire \in Seq(Messages)
  /\ passBegan \in Nat
  /\ accepted \in Nat

\* The messages DelayedSends has scheduled.
Scheduled ==
  {[number |-> pending[k].number, message |-> pending[k].message,
    due |-> pending[k].due] : k \in 1..Len(pending)}

DS == INSTANCE DelayedSends WITH scheduled <- Scheduled

\* A pass leaves nothing behind that was due when it began, although every send
\* moves the later entries up under the iterator.
PassesAreComplete ==
  [][UpdateEnds => \A k \in 1..Len(pending) : pending[k].due > passBegan]_vars

\* The scheduler keeps the promise of LocoNetSendScheduler: nothing early, no
\* overtaking, and everything in the end, whatever is accepted between passes
\* and however long a pass takes.
ImplementsDelayedSends == DS!Spec

\* PendingLocoNetSendScheduler.h: an off pulse "fires ~250ms later".
NothingIsEarly == [][Send => pending[it].due <= time]_vars
=============================================================================
