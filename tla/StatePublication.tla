-------------------------- MODULE StatePublication --------------------------
(***************************************************************************)
(* How MQTT clients learn where the turnouts are: TurnoutLocoNetDecoder     *)
(* publishes what changed, and LocoNetMessageRouter publishes everything it *)
(* knows every kStateRepublishIntervalMs, because PicoMQTT retains nothing. *)
(* One client that comes and goes stands for all of them: what it hears     *)
(* does not depend on the others.                                           *)
(*                                                                          *)
(* The clock runs for ever and is modulo ClockRange, as on the device.      *)
(***************************************************************************)
EXTENDS Integers, Sequences

CONSTANTS
  Addresses,                 \* turnouts the bus talks about
  kStateRepublishIntervalMs, \* from one full publication to the next
  ClockRange,                \* millis() runs from 0 to ClockRange - 1
  MaxPassTime,               \* longest time from one pass of loop() to the next
  MaxBurst                   \* bus messages in one ms, at most

Positions == {"closed", "thrown"}
Unknown == "unknown"

ASSUME TimerAssumption ==
  /\ kStateRepublishIntervalMs \in Nat \ {0}
  /\ MaxPassTime \in Nat \ {0}
  /\ MaxBurst \in Nat
  /\ ClockRange \in Nat
  /\ kStateRepublishIntervalMs + MaxPassTime < ClockRange

VARIABLES
  pc,                \* the part of loop() that runs
  clock,             \* millis()
  received,          \* bus messages not yet read
  lastKnownPosition, \* TurnoutLocoNetDecoder's map
  lastRepublishAt,   \* lastRepublishAtMilliseconds_
  subscribed,        \* the client is there
  view,              \* what it was told last, for each turnout
  \* history: nothing the program can see
  reported,          \* what the bus reported last, of what was read
  told,              \* turnouts it was told about since it subscribed
  age,               \* time since then, counted up to MaxAge
  passTime,          \* time since the last pass of loop()
  burst              \* bus messages in this ms

vars == <<pc, clock, received, lastKnownPosition, lastRepublishAt, subscribed,
          view, reported, told, age, passTime, burst>>

\* Every subscriber has heard everything by then.
MaxAge == kStateRepublishIntervalMs + MaxPassTime + 1

Init ==
  /\ pc = "mqtt"
  /\ clock = 0
  /\ received = <<>>
  /\ lastKnownPosition = [a \in Addresses |-> Unknown]
  /\ lastRepublishAt = 0
  /\ subscribed = FALSE
  /\ view = [a \in Addresses |-> Unknown]
  /\ reported = [a \in Addresses |-> Unknown]
  /\ told = {}
  /\ age = 0
  /\ passTime = 0
  /\ burst = 0

-----------------------------------------------------------------------------
(* PicoMqttPort::update: clients come and go while the broker runs. *)

Subscribe ==
  /\ pc = "mqtt"
  /\ ~subscribed
  /\ subscribed' = TRUE
  /\ told' = {}
  /\ age' = 0
  /\ pc' = "router"
  /\ UNCHANGED <<clock, received, lastKnownPosition, lastRepublishAt, view,
                 reported, passTime, burst>>

\* It keeps what it was told.
Leave ==
  /\ pc = "mqtt"
  /\ subscribed
  /\ subscribed' = FALSE
  /\ pc' = "router"
  /\ UNCHANGED <<clock, received, lastKnownPosition, lastRepublishAt, view,
                 reported, told, age, passTime, burst>>

NobodyMoves ==
  /\ pc = "mqtt"
  /\ pc' = "router"
  /\ UNCHANGED <<clock, received, lastKnownPosition, lastRepublishAt,
                 subscribed, view, reported, told, age, passTime, burst>>

-----------------------------------------------------------------------------
(* LocoNetMessageRouter::update *)

\* Publish(positions): one message for every turnout with a position.
Publish(positions) ==
  LET published == {a \in Addresses : positions[a] # Unknown} IN
    IF subscribed
    THEN /\ view' = [a \in Addresses |->
                       IF a \in published THEN positions[a] ELSE view[a]]
         /\ told' = told \cup published
    ELSE UNCHANGED <<view, told>>

\* Mutant of Decode: a change is published but not remembered.
DecodeWithoutRemembering ==
  /\ pc = "router"
  /\ received # <<>>
  /\ LET address == Head(received).address
         position == Head(received).position IN
       /\ reported' = [reported EXCEPT ![address] = position]
       /\ IF lastKnownPosition[address] = position
          THEN UNCHANGED <<lastKnownPosition, view, told>>
          ELSE /\ lastKnownPosition' =
                    IF lastKnownPosition[address] = Unknown
                    THEN [lastKnownPosition EXCEPT ![address] = position]
                    ELSE lastKnownPosition
               /\ Publish([a \in Addresses |->
                             IF a = address THEN position ELSE Unknown])
  /\ received' = Tail(received)
  /\ UNCHANGED <<pc, clock, lastRepublishAt, subscribed, age, passTime, burst>>

\* handleMessage() and emitIfChanged(): a change is published at once.
Decode ==
  /\ pc = "router"
  /\ received # <<>>
  /\ LET address == Head(received).address
         position == Head(received).position IN
       /\ reported' = [reported EXCEPT ![address] = position]
       /\ IF lastKnownPosition[address] = position
          THEN UNCHANGED <<lastKnownPosition, view, told>>
          ELSE /\ lastKnownPosition' = [lastKnownPosition EXCEPT ![address] = position]
               /\ Publish([a \in Addresses |->
                             IF a = address THEN position ELSE Unknown])
  /\ received' = Tail(received)
  /\ UNCHANGED <<pc, clock, lastRepublishAt, subscribed, age, passTime, burst>>

Drained ==
  /\ pc = "router"
  /\ received = <<>>
  /\ pc' = "republish"
  /\ UNCHANGED <<clock, received, lastKnownPosition, lastRepublishAt,
                 subscribed, view, reported, told, age, passTime, burst>>

\* Mutant of SinceRepublish: signed subtraction.
SinceRepublishSigned == clock - lastRepublishAt

\* Unsigned subtraction.
SinceRepublish == (clock - lastRepublishAt) % ClockRange

NotDue ==
  /\ pc = "republish"
  /\ SinceRepublish < kStateRepublishIntervalMs
  /\ pc' = "mqtt"
  /\ passTime' = 0
  /\ UNCHANGED <<clock, received, lastKnownPosition, lastRepublishAt,
                 subscribed, view, reported, told, age, burst>>

\* republishAllKnownStatesIfDue() past its guard; allKnownStates().
RepublishAllKnownStates ==
  /\ pc = "republish"
  /\ SinceRepublish >= kStateRepublishIntervalMs
  /\ lastRepublishAt' = clock
  /\ Publish(lastKnownPosition)
  /\ pc' = "mqtt"
  /\ passTime' = 0
  /\ UNCHANGED <<clock, received, lastKnownPosition, subscribed, reported, age,
                 burst>>

-----------------------------------------------------------------------------
(* The world. *)

BusMessage ==
  /\ burst < MaxBurst
  /\ burst' = burst + 1
  /\ \E address \in Addresses, position \in Positions :
       received' = Append(received, [address |-> address, position |-> position])
  /\ UNCHANGED <<pc, clock, lastKnownPosition, lastRepublishAt, subscribed,
                 view, reported, told, age, passTime>>

Tick ==
  /\ passTime < MaxPassTime
  /\ passTime' = passTime + 1
  /\ clock' = (clock + 1) % ClockRange
  /\ age' = IF age < MaxAge THEN age + 1 ELSE age
  /\ burst' = 0
  /\ UNCHANGED <<pc, received, lastKnownPosition, lastRepublishAt, subscribed,
                 view, reported, told>>

Mqtt == Subscribe \/ Leave \/ NobodyMoves
Router == Decode \/ Drained \/ NotDue \/ RepublishAllKnownStates
Loop == Mqtt \/ Router

Next == Loop \/ BusMessage \/ Tick

Spec == Init /\ [][Next]_vars

\* The loop runs on and time passes; nobody has to talk.
FairSpec == Spec /\ WF_vars(Loop) /\ WF_vars(Tick)

-----------------------------------------------------------------------------
TypeOK ==
  /\ pc \in {"mqtt", "router", "republish"}
  /\ clock \in 0..(ClockRange - 1)
  /\ received \in Seq([address : Addresses, position : Positions])
  /\ lastKnownPosition \in [Addresses -> Positions \cup {Unknown}]
  /\ lastRepublishAt \in 0..(ClockRange - 1)
  /\ subscribed \in BOOLEAN
  /\ view \in [Addresses -> Positions \cup {Unknown}]
  /\ reported \in [Addresses -> Positions \cup {Unknown}]
  /\ told \subseteq Addresses
  /\ age \in 0..MaxAge
  /\ passTime \in 0..MaxPassTime
  /\ burst \in 0..MaxBurst

\* What a client was told since it subscribed is what the bus reported last,
\* whether it heard of a change or of a periodic publication, and although it
\* may have been away in between.
ToldIsReported ==
  subscribed => \A a \in told : view[a] = reported[a]

\* A late subscriber knows everything one interval and one pass of loop()
\* after it subscribed, over the turn of millis() too.
LateSubscribersAreTold ==
  subscribed /\ age >= MaxAge
    => \A a \in Addresses : reported[a] # Unknown => a \in told

\* And if it stays, it is told in the end, whatever the bus does.
SubscribersAreToldInTheEnd ==
  \A a \in Addresses :
    (subscribed /\ reported[a] # Unknown) ~> (a \in told \/ ~subscribed)
=============================================================================
