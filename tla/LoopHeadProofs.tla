--------------------------- MODULE LoopHeadProofs ---------------------------
(***************************************************************************)
(* LoopHead: the LED and the retries keep their bounds for every window,    *)
(* interval, longest pass and turn of the clock, at any age of a timer.     *)
(***************************************************************************)
EXTENDS LoopHead, TLAPS

USE DEF RetryBound, ConnectBound, ServeBound, LongestMessageAge, UpTo

\* The type of every variable.
Types ==
  /\ pc \in {"led", "wifi", "broker", "mdns", "router"}
  /\ millis \in 0..(ClockRange - 1)
  /\ lit \in BOOLEAN
  /\ litSince \in 0..(ClockRange - 1)
  /\ wifiAttemptAt \in 0..(ClockRange - 1)
  /\ mqttBegun \in BOOLEAN
  /\ mdnsBegun \in BOOLEAN
  /\ mdnsAttemptAt \in 0..(ClockRange - 1)
  /\ mdnsWorks \in BOOLEAN
  /\ accessPoint \in BOOLEAN
  /\ association \in {"none", "started", "done"}
  /\ associating \in 0..AssociationMs
  /\ passAge \in 0..MaxPassMs
  /\ sinceMessage \in Nat
  /\ upFor \in Nat
  /\ mdnsWaits \in Nat

\* A lit LED knows its age, and has not outlived the pass that may turn it off.
LedInv ==
  /\ lit => /\ Since(litSince) = sinceMessage
            /\ sinceMessage < kFlashDurationMs + passAge
  /\ ~lit => sinceMessage >= kFlashDurationMs

\* The longest time since a step of loop() was last taken, when the steps in
\* ahead lie between the start of a pass and that step.
Unseen(ahead) == IF pc \in ahead THEN MaxPassMs + passAge ELSE passAge

MdnsAhead == {"wifi", "broker", "mdns"}
WifiAhead == {"wifi"}
BrokerAhead == {"wifi", "broker"}

\* mDNS waits since the last look at its timer, or no longer than the timer runs.
\* The second case is what a turn of the clock takes the timer back to.
MdnsInv ==
  /\ mdnsBegun = mdnsWorks
  /\ ~IsConnected \/ mdnsWorks => mdnsWaits = 0
  /\ \/ mdnsWaits <= Unseen(MdnsAhead)
     \/ /\ Since(mdnsAttemptAt) < kRetryIntervalMs + Unseen(MdnsAhead)
        /\ mdnsWaits <= Since(mdnsAttemptAt) + 2 * MaxPassMs

\* The access point is up since the last look at the timer, or no longer than
\* the timer runs, or the driver is about to finish what the last retry began.
OutageInv ==
  /\ ~accessPoint => association = "none" /\ upFor = 0
  /\ \/ IsConnected
     \/ upFor <= Unseen(WifiAhead)
     \/ /\ Since(wifiAttemptAt) < kRetryIntervalMs + Unseen(WifiAhead)
        /\ upFor <= Since(wifiAttemptAt) + 2 * MaxPassMs
     \/ /\ association = "started"
        /\ Since(wifiAttemptAt) = associating
        /\ upFor <= RetryBound + associating

\* A device that has just connected has the broker's step before it.
BrokerInv == ~mqttBegun => upFor <= ConnectBound + Unseen(BrokerAhead)

-----------------------------------------------------------------------------
(* The clock. *)

\* Unsigned subtraction, without the remainder.
LEMMA SinceIs ==
  ASSUME NEW m \in 0..(ClockRange - 1), NEW t \in 0..(ClockRange - 1)
  PROVE  ((m - t) % ClockRange) = IF t <= m THEN m - t ELSE m - t + ClockRange
  <1>1. ClockRange \in Nat \ {0}
    BY TimerAssumption, ClockAssumption
  <1> DEFINE n == ClockRange
  <1>2. ASSUME NEW x \in 0..(n - 1)
        PROVE  (x % n) = x
    BY <1>1, <1>2, SMT
  <1>3. ASSUME NEW x \in Int, x < 0, -n <= x
        PROVE  (x % n) = x + n
    BY <1>1, <1>3, SMT
  <1>4. CASE t <= m
    <2>1. m - t \in 0..(n - 1)
      BY <1>1, <1>4
    <2> QED
      BY <1>4, <1>2, <2>1
  <1>5. CASE ~(t <= m)
    <2>1. m - t \in Int /\ m - t < 0 /\ -n <= m - t
      BY <1>1, <1>5
    <2> QED
      BY <1>5, <1>3, <2>1
  <1> QED
    BY <1>4, <1>5

\* The clock turns over after ClockRange - 1.
LEMMA NextIs ==
  ASSUME NEW m \in 0..(ClockRange - 1)
  PROVE  ((m + 1) % ClockRange) = IF m + 1 < ClockRange THEN m + 1 ELSE 0
  <1>1. ClockRange \in Nat \ {0}
    BY TimerAssumption, ClockAssumption
  <1> DEFINE n == ClockRange
  <1>2. CASE m + 1 < n
    <2>1. ASSUME NEW x \in 0..(n - 1)
          PROVE  (x % n) = x
      BY <1>1, <2>1, SMT
    <2>2. m + 1 \in 0..(n - 1)
      BY <1>1, <1>2
    <2> QED
      BY <1>2, <2>1, <2>2
  <1>3. CASE ~(m + 1 < n)
    <2>1. m + 1 = n
      BY <1>1, <1>3
    <2>2. (n % n) = 0
      BY <1>1, SMT
    <2> QED
      BY <1>3, <2>1, <2>2
  <1> QED
    BY <1>2, <1>3

\* An age is on the clock; that of the present is zero.
LEMMA AgesAreOnTheClock ==
  ASSUME Types, NEW t \in 0..(ClockRange - 1)
  PROVE  Since(t) \in 0..(ClockRange - 1) /\ Since(millis) = 0
  BY SinceIs, TimerAssumption, ClockAssumption DEF Types, Since

\* Every age grows with the clock, until it turns over itself.
LEMMA AgesGrow ==
  ASSUME Types, millis' = (millis + 1) % ClockRange,
         NEW t \in 0..(ClockRange - 1), Since(t) + 1 < ClockRange
  PROVE  ((millis' - t) % ClockRange) = Since(t) + 1
  <1>1. millis' \in 0..(ClockRange - 1)
    BY NextIs, TimerAssumption, ClockAssumption DEF Types
  <1>2. ((millis' - t) % ClockRange)
          = IF t <= millis' THEN millis' - t ELSE millis' - t + ClockRange
    BY <1>1, SinceIs
  <1>3. Since(t) = IF t <= millis THEN millis - t ELSE millis - t + ClockRange
    BY SinceIs DEF Types, Since
  <1>4. millis' = IF millis + 1 < ClockRange THEN millis + 1 ELSE 0
    BY NextIs DEF Types
  <1> QED
    BY <1>2, <1>3, <1>4, ClockAssumption DEF Types

-----------------------------------------------------------------------------
\* The types, of every step.
LEMMA TypesHold == Spec => []Types
  <1> USE TimerAssumption, ClockAssumption
  <1>1. ASSUME Init
        PROVE  Types
    <2>1. lit \in BOOLEAN /\ mqttBegun \in BOOLEAN /\ mdnsBegun \in BOOLEAN
          /\ mdnsWorks \in BOOLEAN /\ accessPoint \in BOOLEAN
      BY <1>1, Zenon DEF Init
    <2> QED
      BY <1>1, <2>1 DEF Init, Types
  <1>2. ASSUME Types, [Next]_vars
        PROVE  Types'
    <2> USE <1>2 DEF Types
    <2>1. CASE LedUpdate
      <3>1. lit' \in BOOLEAN
        BY <2>1, Zenon DEF LedUpdate
      <3> QED
        BY <2>1, <3>1 DEF LedUpdate, network, driver
    <2>2. CASE WifiUpdate
      BY <2>2 DEF WifiUpdate, WifiBegin, led, driver, ages
    <2>3. CASE BrokerBegin
      <3>1. mqttBegun' \in BOOLEAN
        BY <2>3, Zenon DEF BrokerBegin
      <3> QED
        BY <2>3, <3>1 DEF BrokerBegin, led, driver, ages
    <2>4. CASE MdnsBegin
      <3>1. mdnsBegun' \in BOOLEAN /\ mdnsWorks' \in BOOLEAN
        BY <2>4, Zenon DEF MdnsBegin
      <3> QED
        BY <2>4, <3>1 DEF MdnsBegin, led, driver
    <2>5. CASE Message
      BY <2>5 DEF Message, network, driver
    <2>6. CASE PassEnds
      BY <2>6 DEF PassEnds, led, network, driver, ages
    <2>7. CASE AccessPointComesUp
      BY <2>7 DEF AccessPointComesUp, led, network
    <2>8. CASE AccessPointGoesDown
      <3>1. accessPoint' \in BOOLEAN
        BY <2>8, Zenon DEF AccessPointGoesDown
      <3> QED
        BY <2>8, <3>1 DEF AccessPointGoesDown, led, network
    <2>9. CASE DriverRetries
      BY <2>9 DEF DriverRetries, led, network, ages
    <2>10. CASE Associated
      BY <2>10 DEF Associated, led, network, ages
    <2>11. CASE Tick
      <3>1. millis' \in 0..(ClockRange - 1)
        BY <2>11, NextIs DEF Tick
      <3>2. passAge' \in 0..MaxPassMs /\ associating' \in 0..AssociationMs
        BY <2>11 DEF Tick
      <3>3. sinceMessage' \in Nat /\ upFor' \in Nat /\ mdnsWaits' \in Nat
        BY <2>11 DEF Tick
      <3> QED
        BY <2>11, <3>1, <3>2, <3>3 DEF Tick, led, network
    <2>12. CASE UNCHANGED vars
      BY <2>12 DEF vars, led, network, driver, ages
    <2> QED
      BY <2>1, <2>2, <2>3, <2>4, <2>5, <2>6, <2>7, <2>8, <2>9, <2>10, <2>11,
         <2>12 DEF Next, Loop, World, Driver
  <1> QED
    BY <1>1, <1>2, PTL DEF Spec

-----------------------------------------------------------------------------
\* The LED: a message starts a window, and the first step of a pass ends it.
LEMMA LedSteps == Types /\ Types' /\ LedInv /\ [Next]_vars => LedInv'
  <1> SUFFICES ASSUME Types, Types', LedInv, [Next]_vars
               PROVE  LedInv'
    OBVIOUS
  <1> USE TimerAssumption, ClockAssumption
  <1>1. CASE LedUpdate
    <2>1. UNCHANGED <<millis, litSince, sinceMessage>> /\ passAge' = 0
      BY <1>1 DEF LedUpdate
    <2>2. CASE lit /\ ~LedIsDue
      <3>1. lit'
        BY <1>1, <2>2 DEF LedUpdate
      <3> QED
        BY <2>1, <2>2, <3>1, AgesAreOnTheClock DEF LedInv, LedIsDue, Since, Types
    <2>3. CASE ~(lit /\ ~LedIsDue)
      <3>1. ~lit'
        BY <1>1, <2>3 DEF LedUpdate
      <3> QED
        BY <2>1, <2>3, <3>1, AgesAreOnTheClock DEF LedInv, LedIsDue, Since, Types
    <2> QED
      BY <2>2, <2>3
  <1>2. CASE Message
    <2>1. /\ lit' /\ litSince' = millis /\ millis' = millis
          /\ sinceMessage' = 0 /\ passAge' = passAge
      BY <1>2 DEF Message
    <2>2. Since(millis) = 0
      BY AgesAreOnTheClock DEF Types
    <2>3. Since(litSince)' = 0
      BY <2>1, <2>2 DEF Since
    <2> QED
      BY <2>1, <2>3 DEF LedInv, Types
  <1>3. CASE Tick
    <2>1. /\ millis' = (millis + 1) % ClockRange
          /\ passAge' = passAge + 1
          /\ sinceMessage' = UpTo(LongestMessageAge, sinceMessage + 1)
          /\ lit' = lit /\ litSince' = litSince
          /\ passAge < MaxPassMs
      BY <1>3 DEF Tick, led
    <2>2. CASE lit
      <3>1. Since(litSince) = sinceMessage
            /\ sinceMessage < kFlashDurationMs + passAge
        BY <2>2 DEF LedInv
      <3>2. Since(litSince) + 1 < ClockRange /\ sinceMessage' = sinceMessage + 1
        BY <2>1, <3>1 DEF Types
      <3>3. ((millis' - litSince) % ClockRange) = Since(litSince) + 1
        BY <2>1, <3>2, AgesGrow DEF Types
      <3>4. Since(litSince)' = sinceMessage'
        BY <2>1, <3>1, <3>2, <3>3 DEF Since
      <3> QED
        BY <2>1, <2>2, <3>1, <3>2, <3>4 DEF LedInv, Types
    <2>3. CASE ~lit
      <3>1. sinceMessage >= kFlashDurationMs
        BY <2>3 DEF LedInv
      <3> QED
        BY <2>1, <2>3, <3>1 DEF LedInv, Types
    <2> QED
      BY <2>2, <2>3
  <1>4. CASE UNCHANGED <<millis, led, passAge, sinceMessage>>
    BY <1>4 DEF LedInv, led, Since
  <1>5. [Next]_vars => \/ LedUpdate \/ Message \/ Tick
                       \/ UNCHANGED <<millis, led, passAge, sinceMessage>>
    BY DEF Next, Loop, World, Driver, WifiUpdate, BrokerBegin, MdnsBegin,
           PassEnds, AccessPointComesUp, AccessPointGoesDown, DriverRetries,
           Associated, vars, ages
  <1> QED
    BY <1>1, <1>2, <1>3, <1>4, <1>5

\* Every message is seen for the whole window, and no longer than a pass more.
THEOREM MessagesSeen == Spec => []MessagesAreSeen
  <1>1. Init => LedInv
    BY TimerAssumption DEF Init, LedInv
  <1>2. Types /\ LedInv => MessagesAreSeen
    BY TimerAssumption DEF Types, LedInv, MessagesAreSeen
  <1> QED
    BY <1>1, <1>2, TypesHold, LedSteps, PTL DEF Spec

-----------------------------------------------------------------------------
\* mDNS: its timer is looked at in every pass.
LEMMA MdnsSteps == Types /\ Types' /\ MdnsInv /\ [Next]_vars => MdnsInv'
  <1> SUFFICES ASSUME Types, Types', MdnsInv, [Next]_vars
               PROVE  MdnsInv'
    OBVIOUS
  <1> USE TimerAssumption, ClockAssumption
  <1> DEFINE age == Since(mdnsAttemptAt)
             seen == Unseen(MdnsAhead)
  <1>1. CASE MdnsBegin
    <2>1. CASE ~mdnsBegun /\ IsConnected /\ Since(mdnsAttemptAt) >= kRetryIntervalMs
      <3>1. mdnsBegun' = mdnsWorks' /\ mdnsWaits' = 0 /\ passAge' \in Nat
            /\ pc' = "router"
        BY <1>1, <2>1 DEF MdnsBegin, Types
      <3> QED
        BY <3>1 DEF MdnsInv, Unseen, MdnsAhead
    <2>2. CASE ~(~mdnsBegun /\ IsConnected /\ Since(mdnsAttemptAt) >= kRetryIntervalMs)
      <3>1. /\ UNCHANGED <<mdnsBegun, mdnsWorks, mdnsWaits, mdnsAttemptAt, millis>>
            /\ UNCHANGED <<association, passAge>>
            /\ pc = "mdns" /\ pc' = "router"
        BY <1>1, <2>2 DEF MdnsBegin, driver
      <3>2. age \in Nat /\ seen = MaxPassMs + passAge
        BY <3>1, AgesAreOnTheClock DEF Types, Unseen, MdnsAhead
      <3>3. mdnsWaits = 0 \/ age < kRetryIntervalMs
        <4>1. ~mdnsBegun \/ mdnsWorks
          BY Zenon DEF MdnsInv
        <4> QED
          BY <2>2, <3>2, <4>1 DEF MdnsInv
      <3>4. mdnsWaits <= age + 2 * MaxPassMs
        BY <3>2, <3>3 DEF MdnsInv, Types
      <3>5. mdnsWaits <= passAge \/ age < kRetryIntervalMs + passAge
        BY <3>2, <3>3 DEF Types
      <3>6. Unseen(MdnsAhead)' = passAge /\ Since(mdnsAttemptAt)' = age
        BY <3>1 DEF Unseen, MdnsAhead, Since
      <3> QED
        BY <3>1, <3>4, <3>5, <3>6 DEF MdnsInv, IsConnected
    <2> QED
      BY <2>1, <2>2
  <1>2. CASE Tick
    <2>1. /\ millis' = (millis + 1) % ClockRange
          /\ passAge' = passAge + 1 /\ passAge < MaxPassMs
          /\ mdnsWaits' = IF IsConnected /\ ~mdnsWorks
                          THEN UpTo(RetryBound + 1, mdnsWaits + 1) ELSE 0
          /\ UNCHANGED <<pc, mdnsBegun, mdnsWorks, mdnsAttemptAt, association>>
      BY <1>2 DEF Tick, network
    <2>2. mdnsWaits' <= mdnsWaits + 1 /\ seen \in Nat /\ seen < 2 * MaxPassMs
      BY <2>1 DEF Types, Unseen
    <2>3. Unseen(MdnsAhead)' = seen + 1
      BY <2>1 DEF Types, Unseen
    <2>4. ~IsConnected' \/ mdnsWorks' => mdnsWaits' = 0
      BY <2>1 DEF IsConnected
    <2>5. CASE mdnsWaits <= seen
      BY <2>1, <2>2, <2>3, <2>4, <2>5 DEF MdnsInv, Types
    <2>6. CASE age < kRetryIntervalMs + seen /\ mdnsWaits <= age + 2 * MaxPassMs
      <3>1. age \in Nat /\ age + 1 < ClockRange
        BY <2>2, <2>6, AgesAreOnTheClock DEF Types
      <3>2. Since(mdnsAttemptAt)' = age + 1
        BY <2>1, <3>1, AgesGrow DEF Types, Since
      <3> QED
        BY <2>1, <2>2, <2>3, <2>4, <2>6, <3>1, <3>2 DEF MdnsInv, Types
    <2> QED
      BY <2>5, <2>6 DEF MdnsInv
  <1>3. CASE LedUpdate
    <2>1. /\ UNCHANGED <<millis, mdnsBegun, mdnsWorks, mdnsWaits, mdnsAttemptAt>>
          /\ association' = association
          /\ pc = "led" /\ pc' = "wifi" /\ passAge' = 0
      BY <1>3 DEF LedUpdate, network, driver
    <2>2. seen <= MaxPassMs /\ seen \in Nat /\ Unseen(MdnsAhead)' = MaxPassMs
          /\ Since(mdnsAttemptAt)' = age /\ age \in Nat
      BY <2>1, AgesAreOnTheClock DEF Types, Unseen, MdnsAhead, Since
    <2> QED
      BY <2>1, <2>2 DEF MdnsInv, IsConnected, Types
  <1>4. CASE AccessPointGoesDown
    <2>1. /\ association' = "none" /\ mdnsWaits' = 0
          /\ UNCHANGED <<pc, passAge, mdnsBegun, mdnsWorks>>
      BY <1>4 DEF AccessPointGoesDown, network
    <2>2. Unseen(MdnsAhead)' = seen /\ seen >= 0
      BY <2>1 DEF Types, Unseen
    <2> QED
      BY <2>1, <2>2 DEF MdnsInv
  <1>5. CASE \/ WifiUpdate \/ BrokerBegin \/ PassEnds
             \/ Message \/ AccessPointComesUp \/ DriverRetries \/ Associated
             \/ UNCHANGED vars
    <2>1. UNCHANGED <<millis, mdnsBegun, mdnsWorks, mdnsWaits, mdnsAttemptAt, passAge>>
      BY <1>5 DEF WifiUpdate, BrokerBegin, PassEnds, Message, AccessPointComesUp,
                  DriverRetries, Associated, vars, network, ages
    <2>2. pc' \in MdnsAhead <=> pc \in MdnsAhead
      BY <1>5 DEF WifiUpdate, BrokerBegin, PassEnds, Message, AccessPointComesUp,
                  DriverRetries, Associated, vars, MdnsAhead
    <2>3. IsConnected' /\ ~IsConnected => Associated
      BY <1>5 DEF WifiUpdate, WifiBegin, BrokerBegin, PassEnds, Message,
                  AccessPointComesUp, DriverRetries, vars, driver, IsConnected
    <2>4. IsConnected' \/ ~IsConnected
      BY <1>5 DEF WifiUpdate, BrokerBegin, PassEnds, Message, AccessPointComesUp,
                  DriverRetries, Associated, vars, driver, IsConnected
    <2>5. Unseen(MdnsAhead)' = seen /\ Since(mdnsAttemptAt)' = age
      BY <2>1, <2>2 DEF Unseen, Since
    <2> QED
      BY <2>1, <2>4, <2>5 DEF MdnsInv
  <1> QED
    BY <1>1, <1>2, <1>3, <1>4, <1>5 DEF Next, Loop, World, Driver

\* mDNS is tried in time, whatever age its timer has.
THEOREM MdnsRetried == Spec => []MdnsIsRetried
  <1>1. Init => MdnsInv
    <2> SUFFICES ASSUME Init
                 PROVE  MdnsInv
      OBVIOUS
    <2>1. mdnsBegun = mdnsWorks
      BY Zenon DEF Init
    <2>2. mdnsWaits = 0 /\ Unseen(MdnsAhead) >= 0
      BY TimerAssumption DEF Init, Unseen
    <2> QED
      BY <2>1, <2>2 DEF MdnsInv
  <1>2. ASSUME Types, MdnsInv
        PROVE  MdnsIsRetried
    <2>1. Since(mdnsAttemptAt) \in Nat /\ Unseen(MdnsAhead) <= 2 * MaxPassMs
          /\ Unseen(MdnsAhead) \in Nat
      BY <1>2, TimerAssumption, AgesAreOnTheClock DEF Types, Unseen
    <2> QED
      BY <1>2, <2>1, TimerAssumption DEF MdnsInv, Types, MdnsIsRetried
  <1> QED
    BY <1>1, <1>2, TypesHold, MdnsSteps, PTL DEF Spec

-----------------------------------------------------------------------------
\* The outage: what WiFi.begin() starts is done before the next retry is due.
LEMMA OutageSteps == Types /\ Types' /\ OutageInv /\ [Next]_vars => OutageInv'
  <1> SUFFICES ASSUME Types, Types', OutageInv, [Next]_vars
               PROVE  OutageInv'
    OBVIOUS
  <1> USE TimerAssumption, ClockAssumption
  <1> DEFINE age == Since(wifiAttemptAt)
             seen == Unseen(WifiAhead)
  <1>0. age \in Nat /\ seen \in Nat /\ seen <= 2 * MaxPassMs
    BY AgesAreOnTheClock DEF Types, Unseen
  <1>1. CASE WifiUpdate
    <2>1. /\ UNCHANGED <<millis, upFor, passAge, accessPoint>>
          /\ pc = "wifi" /\ pc' = "broker"
      BY <1>1 DEF WifiUpdate, WifiBegin, driver, ages
    <2>2. seen = MaxPassMs + passAge /\ Unseen(WifiAhead)' = passAge
      BY <2>1 DEF Unseen, WifiAhead
    <2>3. CASE ~IsConnected /\ age >= kRetryIntervalMs
      <3>1. /\ association' = IF accessPoint THEN "started" ELSE "none"
            /\ associating' = 0 /\ wifiAttemptAt' = millis
        BY <1>1, <2>3 DEF WifiUpdate, WifiBegin
      <3>2. ~(association = "started" /\ age = associating)
        BY <2>3 DEF Types
      <3>3. upFor <= RetryBound
        BY <1>0, <2>3, <3>2 DEF OutageInv, Types
      <3>4. Since(wifiAttemptAt)' = 0
        BY <2>1, <3>1, AgesAreOnTheClock DEF Types, Since
      <3> QED
        BY <2>1, <2>2, <3>1, <3>3, <3>4 DEF OutageInv, Types
    <2>4. CASE ~(~IsConnected /\ age >= kRetryIntervalMs)
      <3>1. UNCHANGED <<association, associating, wifiAttemptAt>>
        BY <1>1, <2>4 DEF WifiUpdate, driver
      <3>2. Since(wifiAttemptAt)' = age
        BY <2>1, <3>1 DEF Since
      <3>3. IsConnected \/ age < kRetryIntervalMs + passAge
        BY <1>0, <2>4 DEF Types
      <3> QED
        BY <1>0, <2>1, <2>2, <3>1, <3>2, <3>3 DEF OutageInv, IsConnected, Types
    <2> QED
      BY <2>3, <2>4
  <1>2. CASE Tick
    <2>1. /\ millis' = (millis + 1) % ClockRange
          /\ passAge' = passAge + 1 /\ passAge < MaxPassMs
          /\ upFor' = IF accessPoint THEN UpTo(ServeBound + 1, upFor + 1) ELSE 0
          /\ association = "started" => associating < AssociationMs
                                        /\ associating' = associating + 1
          /\ UNCHANGED <<pc, wifiAttemptAt, accessPoint, association>>
      BY <1>2 DEF Tick, network
    <2>2. upFor' <= upFor + 1 /\ seen < 2 * MaxPassMs
          /\ Unseen(WifiAhead)' = seen + 1
      BY <2>1 DEF Types, Unseen
    <2>3. ~accessPoint' => association' = "none" /\ upFor' = 0
      BY <2>1 DEF OutageInv
    <2>4. CASE IsConnected
      BY <2>1, <2>3, <2>4 DEF OutageInv, IsConnected
    <2>5. CASE upFor <= seen
      <3>1. upFor' <= Unseen(WifiAhead)'
        BY <1>0, <2>2, <2>5 DEF Types
      <3> QED
        BY <2>3, <3>1 DEF OutageInv
    <2>6. CASE age < kRetryIntervalMs + seen /\ upFor <= age + 2 * MaxPassMs
      <3>1. age + 1 < ClockRange
        BY <1>0, <2>2, <2>6
      <3>2. Since(wifiAttemptAt)' = age + 1
        BY <2>1, <3>1, AgesGrow DEF Types, Since
      <3>3. /\ Since(wifiAttemptAt)' < kRetryIntervalMs + Unseen(WifiAhead)'
            /\ upFor' <= Since(wifiAttemptAt)' + 2 * MaxPassMs
        BY <1>0, <2>2, <2>6, <3>2 DEF Types
      <3> QED
        BY <2>3, <3>3 DEF OutageInv
    <2>7. CASE association = "started" /\ age = associating
               /\ upFor <= RetryBound + associating
      <3>1. age + 1 < ClockRange
        BY <1>0, <2>1, <2>7 DEF Types
      <3>2. Since(wifiAttemptAt)' = age + 1
        BY <2>1, <3>1, AgesGrow DEF Types, Since
      <3>3. /\ Since(wifiAttemptAt)' = associating'
            /\ upFor' <= RetryBound + associating'
        BY <2>1, <2>2, <2>7, <3>2 DEF Types
      <3> QED
        BY <2>1, <2>3, <2>7, <3>3 DEF OutageInv
    <2> QED
      BY <2>4, <2>5, <2>6, <2>7 DEF OutageInv
  <1>3. CASE LedUpdate
    <2>1. /\ UNCHANGED <<millis, wifiAttemptAt, upFor, driver>>
          /\ pc = "led" /\ pc' = "wifi" /\ passAge' = 0
      BY <1>3 DEF LedUpdate, network
    <2>2. seen <= MaxPassMs /\ Unseen(WifiAhead)' = MaxPassMs
          /\ Since(wifiAttemptAt)' = age
      BY <2>1 DEF Types, Unseen, WifiAhead, Since
    <2> QED
      BY <1>0, <2>1, <2>2 DEF OutageInv, IsConnected, Types, driver
  <1>4. CASE AccessPointComesUp \/ AccessPointGoesDown
    <2>1. upFor' = 0 /\ UNCHANGED <<pc, passAge>>
      BY <1>4 DEF AccessPointComesUp, AccessPointGoesDown
    <2>2. ~accessPoint' => association' = "none"
      BY <1>4 DEF AccessPointComesUp, AccessPointGoesDown
    <2>3. Unseen(WifiAhead)' = seen
      BY <2>1 DEF Unseen
    <2> QED
      BY <1>0, <2>1, <2>2, <2>3 DEF OutageInv
  <1>5. CASE DriverRetries \/ Associated
    <2>1. UNCHANGED <<pc, passAge, millis, wifiAttemptAt, accessPoint, upFor>>
      BY <1>5 DEF DriverRetries, Associated, network, ages
    <2>2. Unseen(WifiAhead)' = seen /\ Since(wifiAttemptAt)' = age
      BY <2>1 DEF Unseen, Since
    <2>3. accessPoint
      BY <1>5 DEF DriverRetries, Associated, OutageInv, Types
    <2>4. IsConnected' \/ (~IsConnected /\ association = "none")
      BY <1>5 DEF DriverRetries, Associated, IsConnected
    <2> QED
      BY <2>1, <2>2, <2>3, <2>4 DEF OutageInv
  <1>6. CASE BrokerBegin \/ MdnsBegin \/ PassEnds \/ Message \/ UNCHANGED vars
    <2>1. UNCHANGED <<millis, wifiAttemptAt, driver, upFor, passAge>>
      BY <1>6 DEF BrokerBegin, MdnsBegin, PassEnds, Message, vars, network, ages
    <2>2. pc' \in WifiAhead <=> pc \in WifiAhead
      BY <1>6 DEF BrokerBegin, MdnsBegin, PassEnds, Message, vars, WifiAhead
    <2>3. Unseen(WifiAhead)' = seen /\ Since(wifiAttemptAt)' = age
      BY <2>1, <2>2 DEF Unseen, Since
    <2> QED
      BY <2>1, <2>3 DEF OutageInv, IsConnected, driver
  <1> QED
    BY <1>1, <1>2, <1>3, <1>4, <1>5, <1>6 DEF Next, Loop, World, Driver

\* While the device is not connected, the access point is not up for long.
LEMMA OutageIsBounded ==
  ASSUME Types, OutageInv, ~IsConnected
  PROVE  upFor <= ConnectBound
  <1>1. Since(wifiAttemptAt) \in Nat /\ Unseen(WifiAhead) <= 2 * MaxPassMs
        /\ Unseen(WifiAhead) \in Nat
    BY TimerAssumption, AgesAreOnTheClock DEF Types, Unseen
  <1> QED
    BY <1>1, TimerAssumption DEF OutageInv, Types

\* The invariant of the outage holds of every behaviour.
LEMMA OutageHolds == Spec => [](Types /\ OutageInv)
  <1>1. Init => OutageInv
    BY TimerAssumption DEF Init, OutageInv, Unseen
  <1> QED
    BY <1>1, TypesHold, OutageSteps, PTL DEF Spec

\* An access point that stays up has the device back in time.
THEOREM OutagesAreOver == Spec => []OutagesEnd
  <1>1. ASSUME Types, OutageInv
        PROVE  OutagesEnd
    BY <1>1, OutageIsBounded, TimerAssumption DEF Types, OutagesEnd
  <1> QED
    BY <1>1, OutageHolds, PTL

-----------------------------------------------------------------------------
\* The broker: its step comes within two passes of the connection.
LEMMA BrokerSteps ==
  Types /\ Types' /\ OutageInv /\ BrokerInv /\ [Next]_vars => BrokerInv'
  <1> SUFFICES ASSUME Types, Types', OutageInv, BrokerInv, [Next]_vars, ~mqttBegun'
               PROVE  upFor' <= ConnectBound + Unseen(BrokerAhead)'
    BY DEF BrokerInv
  <1> USE TimerAssumption
  <1> DEFINE seen == Unseen(BrokerAhead)
  <1>0. seen \in Nat /\ Unseen(BrokerAhead)' \in Nat
    <2>1. seen \in Nat
      BY DEF Types, Unseen
    <2>2. Unseen(BrokerAhead)' \in {MaxPassMs + passAge', passAge'}
      BY Zenon DEF Unseen
    <2>3. passAge' \in Nat
      BY DEF Types
    <2> QED
      BY <2>1, <2>2, <2>3
  <1>1. CASE BrokerBegin
    <2>1. ~IsConnected /\ upFor' = upFor
      BY <1>1 DEF BrokerBegin, ages
    <2> QED
      BY <1>0, <2>1, OutageIsBounded DEF Types
  <1>2. CASE Tick
    <2>1. /\ passAge' = passAge + 1 /\ pc' = pc /\ ~mqttBegun
          /\ upFor' = IF accessPoint THEN UpTo(ServeBound + 1, upFor + 1) ELSE 0
      BY <1>2 DEF Tick, network
    <2>2. upFor' <= upFor + 1 /\ Unseen(BrokerAhead)' = seen + 1
      BY <2>1 DEF Types, Unseen
    <2> QED
      BY <1>0, <2>1, <2>2 DEF BrokerInv, Types
  <1>3. CASE LedUpdate
    <2>1. UNCHANGED <<upFor, mqttBegun>> /\ pc = "led" /\ pc' = "wifi" /\ passAge' = 0
      BY <1>3 DEF LedUpdate, network
    <2>2. seen <= Unseen(BrokerAhead)'
      BY <2>1 DEF Types, Unseen, BrokerAhead
    <2> QED
      BY <1>0, <2>1, <2>2 DEF BrokerInv, Types
  <1>4. CASE AccessPointComesUp \/ AccessPointGoesDown
    <2>1. upFor' = 0
      BY <1>4 DEF AccessPointComesUp, AccessPointGoesDown
    <2> QED
      BY <1>0, <2>1
  <1>5. CASE \/ WifiUpdate \/ MdnsBegin \/ PassEnds \/ Message
             \/ DriverRetries \/ Associated \/ UNCHANGED vars
    <2>1. UNCHANGED <<mqttBegun, upFor, passAge>>
      BY <1>5 DEF WifiUpdate, MdnsBegin, PassEnds, Message, DriverRetries,
                  Associated, vars, network, ages
    <2>2. pc' \in BrokerAhead <=> pc \in BrokerAhead
      BY <1>5 DEF WifiUpdate, MdnsBegin, PassEnds, Message, DriverRetries,
                  Associated, vars, BrokerAhead
    <2>3. Unseen(BrokerAhead)' = seen
      BY <2>1, <2>2 DEF Unseen
    <2> QED
      BY <2>1, <2>3 DEF BrokerInv
  <1> QED
    BY <1>1, <1>2, <1>3, <1>4, <1>5 DEF Next, Loop, World, Driver

\* The broker is begun in time, in whatever pass the connection comes.
THEOREM BrokerServed == Spec => []BrokerIsServed
  <1>1. Init => BrokerInv
    BY TimerAssumption DEF Init, BrokerInv, Unseen
  <1>2. ASSUME Types, BrokerInv
        PROVE  BrokerIsServed
    <2>1. Unseen(BrokerAhead) \in Nat /\ Unseen(BrokerAhead) <= 2 * MaxPassMs
      BY <1>2, TimerAssumption DEF Types, Unseen
    <2> QED
      BY <1>2, <2>1, TimerAssumption DEF Types, BrokerInv, BrokerIsServed
  <1> QED
    BY <1>1, <1>2, OutageHolds, BrokerSteps, PTL DEF Spec
=============================================================================
