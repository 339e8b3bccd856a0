----------------------- MODULE StatePublicationProofs -----------------------
(***************************************************************************)
(* StatePublication: for any number of turnouts, every interval, longest    *)
(* pass and turn of the clock, and any traffic, a client is told the truth, *)
(* and in time.                                                             *)
(***************************************************************************)
EXTENDS StatePublication, SequenceTheorems, TLAPS

\* What the decoder remembers is what the bus reported last, and so is what a
\* subscriber was told.
TruthInv ==
  /\ lastKnownPosition = reported
  /\ subscribed => \A a \in told : view[a] = reported[a]

\* The full publication comes once an interval, one pass late at most: so its
\* timer is never older than the clock can tell.
TimerInv == SinceRepublish < kStateRepublishIntervalMs + passTime

\* A turnout a subscriber was not told about has not been published since.
MissingInv ==
  \A a \in Addresses \ told :
    subscribed /\ reported[a] # Unknown => age <= SinceRepublish

-----------------------------------------------------------------------------
(* The clock. *)

\* Unsigned subtraction, without the remainder.
LEMMA SinceIs ==
  ASSUME NEW now \in 0..(ClockRange - 1), NEW then \in 0..(ClockRange - 1)
  PROVE  ((now - then) % ClockRange)
           = IF then <= now THEN now - then ELSE now - then + ClockRange
  <1>1. ClockRange \in Nat \ {0}
    BY TimerAssumption
  <1> DEFINE n == ClockRange
  <1>2. ASSUME NEW x \in 0..(n - 1)
        PROVE  (x % n) = x
    BY <1>1, <1>2, SMT
  <1>3. ASSUME NEW x \in Int, x < 0, -n <= x
        PROVE  (x % n) = x + n
    BY <1>1, <1>3, SMT
  <1>4. CASE then <= now
    <2>1. now - then \in 0..(n - 1)
      BY <1>1, <1>4
    <2> QED
      BY <1>4, <1>2, <2>1
  <1>5. CASE ~(then <= now)
    <2>1. now - then \in Int /\ now - then < 0 /\ -n <= now - then
      BY <1>1, <1>5
    <2> QED
      BY <1>5, <1>3, <2>1
  <1> QED
    BY <1>4, <1>5

\* The clock turns over after ClockRange - 1.
LEMMA NextIs ==
  ASSUME NEW now \in 0..(ClockRange - 1)
  PROVE  ((now + 1) % ClockRange) = IF now + 1 < ClockRange THEN now + 1 ELSE 0
  <1>1. ClockRange \in Nat \ {0}
    BY TimerAssumption
  <1> DEFINE n == ClockRange
  <1>2. CASE now + 1 < n
    <2>1. ASSUME NEW x \in 0..(n - 1)
          PROVE  (x % n) = x
      BY <1>1, <2>1, SMT
    <2>2. now + 1 \in 0..(n - 1)
      BY <1>1, <1>2
    <2> QED
      BY <1>2, <2>1, <2>2
  <1>3. CASE ~(now + 1 < n)
    <2>1. now + 1 = n
      BY <1>1, <1>3
    <2>2. (n % n) = 0
      BY <1>1, SMT
    <2> QED
      BY <1>3, <2>1, <2>2
  <1> QED
    BY <1>2, <1>3

\* An age is a number, and grows with the clock until it turns over itself.
LEMMA TimerGrows ==
  ASSUME TypeOK, SinceRepublish + 1 < ClockRange, lastRepublishAt' = lastRepublishAt,
         clock' = (clock + 1) % ClockRange
  PROVE  SinceRepublish' = SinceRepublish + 1
  <1>1. clock' \in 0..(ClockRange - 1)
    BY NextIs, TimerAssumption DEF TypeOK
  <1>2. ((clock' - lastRepublishAt) % ClockRange)
          = IF lastRepublishAt <= clock' THEN clock' - lastRepublishAt
            ELSE clock' - lastRepublishAt + ClockRange
    BY <1>1, SinceIs DEF TypeOK
  <1>3. SinceRepublish = IF lastRepublishAt <= clock THEN clock - lastRepublishAt
                         ELSE clock - lastRepublishAt + ClockRange
    BY SinceIs DEF TypeOK, SinceRepublish
  <1>4. clock' = IF clock + 1 < ClockRange THEN clock + 1 ELSE 0
    BY NextIs DEF TypeOK
  <1>5. SinceRepublish' = ((clock' - lastRepublishAt) % ClockRange)
    BY DEF SinceRepublish
  <1> QED
    BY <1>2, <1>3, <1>4, <1>5, TimerAssumption DEF TypeOK

\* The age of the timer, which is zero when it was just set.
LEMMA TimerIsANumber ==
  ASSUME TypeOK
  PROVE  SinceRepublish \in Nat /\ ((clock - clock) % ClockRange) = 0
  BY SinceIs, TimerAssumption DEF TypeOK, SinceRepublish

-----------------------------------------------------------------------------
\* The next message of the bus, and what is behind it.
LEMMA MessagesAreTyped ==
  ASSUME TypeOK, received # <<>>
  PROVE  /\ Head(received).address \in Addresses
         /\ Head(received).position \in Positions
         /\ Tail(received) \in Seq([address : Addresses, position : Positions])
  <1> DEFINE Messages == [address : Addresses, position : Positions]
  <1>1. received \in Seq(Messages)
    BY DEF TypeOK
  <1> HIDE DEF Messages
  <1>2. Head(received) \in Messages /\ Tail(received) \in Seq(Messages)
    BY <1>1, HeadTailProperties
  <1> USE DEF Messages
  <1> QED
    BY <1>2

\* What a publication leaves behind.
LEMMA PublishTypes ==
  ASSUME TypeOK, NEW positions \in [Addresses -> Positions \cup {Unknown}],
         Publish(positions)
  PROVE  /\ view' \in [Addresses -> Positions \cup {Unknown}]
         /\ told' \subseteq Addresses
  BY DEF TypeOK, Publish

\* The types at the start.
LEMMA TypeInit == Init => TypeOK
  <1> SUFFICES ASSUME Init
               PROVE  TypeOK
    OBVIOUS
  <1>1. subscribed \in BOOLEAN
    BY Zenon DEF Init
  <1> QED
    BY <1>1, TimerAssumption DEF Init, TypeOK, MaxAge

\* The types, of every step.
LEMMA TypeCorrect == Spec => []TypeOK
  <1> USE TimerAssumption
  <1>1. Init => TypeOK
    BY TypeInit
  <1>2. ASSUME TypeOK, [Next]_vars
        PROVE  TypeOK'
    <2> USE <1>2 DEF TypeOK
    <2>1. CASE Subscribe
      <3>1. subscribed' \in BOOLEAN
        BY <2>1, Zenon DEF Subscribe
      <3> QED
        BY <2>1, <3>1 DEF Subscribe, MaxAge
    <2>2. CASE Leave
      <3>1. subscribed' \in BOOLEAN
        BY <2>2, Zenon DEF Leave
      <3> QED
        BY <2>2, <3>1 DEF Leave
    <2>3. CASE NobodyMoves \/ Drained \/ NotDue
      BY <2>3 DEF NobodyMoves, Drained, NotDue
    <2>4. CASE Decode
      <3> DEFINE address == Head(received).address
                 position == Head(received).position
      <3>1. address \in Addresses /\ position \in Positions
            /\ received' \in Seq([address : Addresses, position : Positions])
        BY <2>4, MessagesAreTyped DEF Decode
      <3>2. reported' \in [Addresses -> Positions \cup {Unknown}]
            /\ lastKnownPosition' \in [Addresses -> Positions \cup {Unknown}]
        BY <2>4, <3>1 DEF Decode
      <3>3. view' \in [Addresses -> Positions \cup {Unknown}] /\ told' \subseteq Addresses
        BY <2>4, <3>1, PublishTypes DEF Decode
      <3> QED
        BY <2>4, <3>1, <3>2, <3>3 DEF Decode
    <2>5. CASE RepublishAllKnownStates
      <3>1. view' \in [Addresses -> Positions \cup {Unknown}] /\ told' \subseteq Addresses
        BY <2>5, PublishTypes DEF RepublishAllKnownStates
      <3> QED
        BY <2>5, <3>1 DEF RepublishAllKnownStates
    <2>6. CASE BusMessage
      <3>1. received' \in Seq([address : Addresses, position : Positions])
        BY <2>6 DEF BusMessage
      <3> QED
        BY <2>6, <3>1 DEF BusMessage
    <2>7. CASE Tick
      <3>1. clock' \in 0..(ClockRange - 1)
        BY <2>7, NextIs DEF Tick
      <3>2. age' \in 0..MaxAge /\ passTime' \in 0..MaxPassTime /\ burst' \in 0..MaxBurst
        BY <2>7 DEF Tick, MaxAge
      <3> QED
        BY <2>7, <3>1, <3>2 DEF Tick
    <2>8. CASE UNCHANGED vars
      BY <2>8 DEF vars
    <2> QED
      BY <2>1, <2>2, <2>3, <2>4, <2>5, <2>6, <2>7, <2>8 DEF Next, Loop, Mqtt, Router
  <1> QED
    BY <1>1, <1>2, PTL DEF Spec

-----------------------------------------------------------------------------
\* Every report is remembered, and told as it is.
LEMMA TruthSteps == TypeOK /\ TruthInv /\ [Next]_vars => TruthInv'
  <1> SUFFICES ASSUME TypeOK, TruthInv, [Next]_vars
               PROVE  TruthInv'
    OBVIOUS
  <1>1. CASE Decode
    <2> DEFINE address == Head(received).address
               position == Head(received).position
    <2>1. address \in Addresses /\ position \in Positions
      BY <1>1, MessagesAreTyped DEF Decode
    <2>2. reported' = [reported EXCEPT ![address] = position]
          /\ subscribed' = subscribed
      BY <1>1 DEF Decode
    <2>3. CASE lastKnownPosition[address] = position
      <3>1. UNCHANGED <<lastKnownPosition, view, told>>
        BY <1>1, <2>3 DEF Decode
      <3>2. reported' = reported
        BY <2>1, <2>2, <2>3 DEF TruthInv, TypeOK
      <3> QED
        BY <2>2, <3>1, <3>2 DEF TruthInv
    <2>4. CASE lastKnownPosition[address] # position
      <3> DEFINE change == [a \in Addresses |->
                              IF a = address THEN position ELSE Unknown]
      <3>1. lastKnownPosition' = [lastKnownPosition EXCEPT ![address] = position]
            /\ Publish(change)
        BY <1>1, <2>4 DEF Decode
      <3>2. lastKnownPosition' = reported'
        BY <2>2, <3>1 DEF TruthInv
      <3>3. ASSUME subscribed, NEW a \in told'
            PROVE  view'[a] = reported'[a]
        <4>1. {b \in Addresses : change[b] # Unknown} = {address}
          BY <2>1 DEF Positions, Unknown
        <4>2. /\ view' = [b \in Addresses |-> IF b \in {address} THEN change[b]
                                              ELSE view[b]]
              /\ told' = told \cup {address}
          BY <3>1, <3>3, <4>1 DEF Publish
        <4>3. a \in Addresses
          BY <2>1, <3>3, <4>2 DEF TypeOK
        <4> QED
          BY <2>1, <2>2, <3>3, <4>2, <4>3 DEF TruthInv, TypeOK
      <3> QED
        BY <2>2, <3>2, <3>3 DEF TruthInv
    <2> QED
      BY <2>3, <2>4
  <1>2. CASE RepublishAllKnownStates
    <2>1. Publish(lastKnownPosition)
          /\ UNCHANGED <<lastKnownPosition, reported, subscribed>>
      BY <1>2 DEF RepublishAllKnownStates
    <2>2. ASSUME subscribed, NEW a \in told'
          PROVE  view'[a] = reported'[a]
      BY <2>1, <2>2 DEF Publish, TruthInv, TypeOK
    <2> QED
      BY <2>1, <2>2 DEF TruthInv
  <1>3. CASE Subscribe
    BY <1>3 DEF Subscribe, TruthInv
  <1>4. CASE Leave
    BY <1>4 DEF Leave, TruthInv
  <1>5. CASE NobodyMoves \/ Drained \/ NotDue \/ BusMessage \/ Tick \/ UNCHANGED vars
    BY <1>5 DEF NobodyMoves, Drained, NotDue, BusMessage, Tick, vars, TruthInv
  <1> QED
    BY <1>1, <1>2, <1>3, <1>4, <1>5 DEF Next, Loop, Mqtt, Router

\* What a client was told since it subscribed is what the bus reported last.
THEOREM ToldTheTruth == Spec => []ToldIsReported
  <1>1. Init => TruthInv
    BY DEF Init, TruthInv
  <1>2. TruthInv => ToldIsReported
    BY DEF TruthInv, ToldIsReported
  <1> QED
    BY <1>1, <1>2, TypeCorrect, TruthSteps, PTL DEF Spec

-----------------------------------------------------------------------------
\* The timer is looked at in every pass, before it can turn over.
LEMMA TimerSteps == TypeOK /\ TypeOK' /\ TimerInv /\ [Next]_vars => TimerInv'
  <1> SUFFICES ASSUME TypeOK, TypeOK', TimerInv, [Next]_vars
               PROVE  TimerInv'
    OBVIOUS
  <1> USE TimerAssumption
  <1>1. CASE NotDue
    <2>1. SinceRepublish < kStateRepublishIntervalMs /\ passTime' = 0
          /\ UNCHANGED <<clock, lastRepublishAt>>
      BY <1>1 DEF NotDue
    <2>2. SinceRepublish' = SinceRepublish
      BY <2>1 DEF SinceRepublish
    <2> QED
      BY <2>1, <2>2, TimerIsANumber DEF TimerInv
  <1>2. CASE RepublishAllKnownStates
    <2>1. lastRepublishAt' = clock /\ clock' = clock /\ passTime' = 0
      BY <1>2 DEF RepublishAllKnownStates
    <2>2. SinceRepublish' = 0
      BY <2>1, TimerIsANumber DEF SinceRepublish
    <2> QED
      BY <2>1, <2>2 DEF TimerInv
  <1>3. CASE Tick
    <2>1. passTime < MaxPassTime /\ passTime' = passTime + 1
          /\ clock' = (clock + 1) % ClockRange /\ lastRepublishAt' = lastRepublishAt
      BY <1>3 DEF Tick
    <2>2. SinceRepublish' = SinceRepublish + 1
      BY <2>1, TimerGrows, TimerIsANumber DEF TimerInv, TypeOK
    <2> QED
      BY <2>1, <2>2, TimerIsANumber DEF TimerInv, TypeOK
  <1>4. CASE \/ Subscribe \/ Leave \/ NobodyMoves \/ Decode \/ Drained \/ BusMessage
             \/ UNCHANGED vars
    BY <1>4 DEF Subscribe, Leave, NobodyMoves, Decode, Drained, BusMessage, vars,
                TimerInv, SinceRepublish
  <1> QED
    BY <1>1, <1>2, <1>3, <1>4 DEF Next, Loop, Mqtt, Router

\* Whoever is still missing a turnout subscribed after the last full publication.
LEMMA MissingSteps ==
  TypeOK /\ TypeOK' /\ TruthInv /\ TimerInv /\ MissingInv /\ [Next]_vars => MissingInv'
  <1> SUFFICES ASSUME TypeOK, TypeOK', TruthInv, TimerInv, MissingInv, [Next]_vars,
                      NEW a \in Addresses, a \notin told',
                      subscribed', reported'[a] # Unknown
               PROVE  age' <= SinceRepublish'
    BY DEF MissingInv
  <1> USE TimerAssumption
  <1>1. CASE Subscribe
    <2>1. age' = 0 /\ UNCHANGED <<clock, lastRepublishAt>>
      BY <1>1 DEF Subscribe
    <2> QED
      BY <2>1, TimerIsANumber DEF SinceRepublish
  <1>2. CASE Decode
    <2> DEFINE address == Head(received).address
               position == Head(received).position
    <2>1. address \in Addresses /\ position \in Positions
      BY <1>2, MessagesAreTyped DEF Decode
    <2>2. subscribed /\ UNCHANGED <<clock, lastRepublishAt, age>>
          /\ reported' = [reported EXCEPT ![address] = position]
      BY <1>2 DEF Decode
    <2>3. a \notin told /\ reported[a] # Unknown
      <3>1. CASE lastKnownPosition[address] = position
        <4>1. told' = told /\ reported' = reported
          BY <1>2, <2>1, <2>2, <3>1 DEF Decode, TruthInv, TypeOK
        <4> QED
          BY <4>1
      <3>2. CASE lastKnownPosition[address] # position
        <4>1. told' = told \cup {b \in Addresses :
                 [c \in Addresses |-> IF c = address THEN position ELSE Unknown][b]
                    # Unknown}
          BY <1>2, <2>2, <3>2 DEF Decode, Publish
        <4>2. address \in told'
          BY <2>1, <4>1 DEF Positions, Unknown
        <4>3. a # address /\ a \notin told
          BY <4>1, <4>2
        <4> QED
          BY <2>2, <4>3 DEF TypeOK
      <3> QED
        BY <3>1, <3>2
    <2> QED
      BY <2>2, <2>3 DEF MissingInv, SinceRepublish
  <1>3. CASE RepublishAllKnownStates
    <2>1. subscribed /\ Publish(lastKnownPosition) /\ reported' = reported
      BY <1>3 DEF RepublishAllKnownStates
    <2>2. a \in told'
      BY <2>1 DEF Publish, TruthInv
    <2> QED
      BY <2>2
  <1>4. CASE Tick
    <2>1. /\ passTime < MaxPassTime
          /\ age' = IF age < MaxAge THEN age + 1 ELSE age
          /\ clock' = (clock + 1) % ClockRange
          /\ UNCHANGED <<lastRepublishAt, told, subscribed, reported>>
      BY <1>4 DEF Tick
    <2>2. SinceRepublish' = SinceRepublish + 1
      BY <2>1, TimerGrows, TimerIsANumber DEF TimerInv, TypeOK
    <2>3. age <= SinceRepublish
      BY <2>1 DEF MissingInv
    <2> QED
      BY <2>1, <2>2, <2>3, TimerIsANumber DEF TypeOK, MaxAge
  <1>5. CASE \/ Leave \/ NobodyMoves \/ Drained \/ NotDue \/ BusMessage
             \/ UNCHANGED vars
    <2>1. UNCHANGED <<clock, lastRepublishAt, age, told, reported>>
          /\ subscribed
      BY <1>5 DEF Leave, NobodyMoves, Drained, NotDue, BusMessage, vars
    <2> QED
      BY <2>1 DEF MissingInv, SinceRepublish
  <1> QED
    BY <1>1, <1>2, <1>3, <1>4, <1>5 DEF Next, Loop, Mqtt, Router

\* A subscriber knows everything one interval and one pass after it came.
THEOREM LateSubscribersTold == Spec => []LateSubscribersAreTold
  <1>1. Init => TruthInv /\ TimerInv /\ MissingInv
    <2>1. Init => TypeOK
      BY TypeInit
    <2>2. Init => TruthInv /\ MissingInv
      BY DEF Init, TruthInv, MissingInv
    <2>3. Init => TimerInv
      BY <2>1, TimerIsANumber, TimerAssumption DEF Init, TimerInv, SinceRepublish
    <2> QED
      BY <2>2, <2>3
  <1>2. TypeOK /\ TimerInv /\ MissingInv => LateSubscribersAreTold
    BY TimerIsANumber, TimerAssumption
       DEF TypeOK, TimerInv, MissingInv, LateSubscribersAreTold, MaxAge
  <1> QED
    BY <1>1, <1>2, TypeCorrect, TruthSteps, TimerSteps, MissingSteps, PTL DEF Spec
=============================================================================
