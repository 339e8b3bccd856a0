-------------------------- MODULE SetupButtonProofs --------------------------
(***************************************************************************)
(* SetupButton: whatever the hold, the settle time and the longest gap      *)
(* between two polls, and wherever millis() turns over, only a hold makes   *)
(* the request, and every hold does.                                        *)
(***************************************************************************)
EXTENDS SetupButton, TLAPS

\* The polls that saw the contact closed, and open again: what the program has
\* of them is modulo the clock.
ClosedSeenAt == time - Since(holdStart)
OpenSeenAt == time - Since(releaseStart)

\* Until the request is made, a poll is never far away.
PollInv ==
  /\ changedAt <= time
  /\ lastPoll <= time
  /\ ~requested => time - lastPoll <= MaxPollGap

\* A hold began before it was seen; until a release is seen, the contact has not
\* been open at a poll.
HoldInv ==
  holding =>
    /\ ~requested
    /\ StartTime <= ClosedSeenAt
    /\ ClosedSeenAt <= lastPoll
    /\ firstClosed <= ClosedSeenAt
    /\ longestGap < kReleaseSettleMs + 2 * MaxPollGap
    /\ ~releasing => pressed \/ lastPoll <= changedAt

\* A release was seen at most one poll after the contact last opened, and has
\* not settled.
ReleaseInv ==
  holding /\ releasing =>
    /\ ClosedSeenAt <= OpenSeenAt
    /\ OpenSeenAt <= lastPoll
    /\ lastPoll < OpenSeenAt + kReleaseSettleMs
    /\ OpenSeenAt <= changedAt + MaxPollGap

\* A contact that is closed was not polled yet, or is being measured.
PressInv ==
  pressed /\ ~requested =>
    \/ lastPoll <= changedAt
    \/ holding /\ ~releasing /\ ClosedSeenAt <= changedAt + MaxPollGap

\* After a hold that was long enough, it is measured as one.
LongHoldInv ==
  ~pressed /\ ~requested /\ lastHold >= kHoldDurationMs + MaxPollGap =>
    /\ holding
    /\ ClosedSeenAt <= changedAt - kHoldDurationMs
    /\ releasing => changedAt <= OpenSeenAt

ButtonInv == PollInv /\ HoldInv /\ ReleaseInv /\ PressInv /\ LongHoldInv

-----------------------------------------------------------------------------
(* The clock. *)

\* Quotient and remainder determine a number, and are determined by it.
LEMMA Division ==
  ASSUME NEW n \in Nat \ {0}, NEW t \in Nat
  PROVE  /\ (t % n) \in 0..(n - 1)
         /\ (t \div n) \in Int
         /\ t = n * (t \div n) + (t % n)
  BY SMT

\* A number is its remainder, but for a multiple of the divisor.
LEMMA Remainder ==
  ASSUME NEW n \in Nat \ {0}, NEW q \in Int, NEW r \in 0..(n - 1)
  PROVE  ((n * q + r) % n) = r
  BY SMT

\* The remainder grows by one, and turns over.
LEMMA NextIs ==
  ASSUME NEW n \in Nat \ {0}, NEW t \in Nat
  PROVE  ((t + 1) % n) = IF (t % n) + 1 < n THEN (t % n) + 1 ELSE 0
  <1> DEFINE q == t \div n
             r == t % n
  <1>1. r \in 0..(n - 1) /\ q \in Int /\ t = n * q + r
    BY Division
  <1>2. CASE r + 1 < n
    <2>1. r + 1 \in 0..(n - 1)
      BY <1>1, <1>2
    <2>2. ((n * q + (r + 1)) % n) = r + 1
      BY <1>1, <2>1, Remainder
    <2>3. t + 1 = n * q + (r + 1)
      BY <1>1, SMT
    <2> QED
      BY <1>2, <2>2, <2>3
  <1>3. CASE ~(r + 1 < n)
    <2>1. r + 1 = n
      BY <1>1, <1>3
    <2>2. ((n * (q + 1) + 0) % n) = 0
      <3>1. q + 1 \in Int /\ 0 \in 0..(n - 1)
        BY <1>1
      <3> QED
        BY <3>1, Remainder
    <2>3. t + 1 = n * (q + 1) + 0
      BY <1>1, <2>1, SMT
    <2> QED
      BY <1>3, <2>2, <2>3
  <1> QED
    BY <1>2, <1>3

\* Unsigned subtraction, without the remainder.
LEMMA SinceIs ==
  ASSUME NEW now \in 0..(ClockRange - 1), NEW then \in 0..(ClockRange - 1)
  PROVE  ((now - then) % ClockRange)
           = IF then <= now THEN now - then ELSE now - then + ClockRange
  <1>1. ClockRange \in Nat \ {0}
    BY ClockAssumption
  <1> DEFINE n == ClockRange
  <1>2. ASSUME NEW x \in 0..(n - 1)
        PROVE  (x % n) = x
    BY <1>1, <1>2, SMT
  <1>3. ASSUME NEW x \in Int, x < 0, -n <= x
        PROVE  (x % n) = x + n
    BY <1>1, <1>3, SMT
  <1>4. CASE then <= now
    <2>1. now - then \in 0..(n - 1)
      BY <1>1, <1>4
    <2> QED
      BY <1>4, <1>2, <2>1
  <1>5. CASE ~(then <= now)
    <2>1. now - then \in Int /\ now - then < 0 /\ -n <= now - then
      BY <1>1, <1>5
    <2> QED
      BY <1>5, <1>3, <2>1
  <1> QED
    BY <1>4, <1>5

\* millis() is on the clock.
LEMMA MillisIsOnTheClock ==
  ASSUME TypeOK
  PROVE  millis \in 0..(ClockRange - 1)
  <1>1. ClockRange \in Nat \ {0} /\ time \in Nat
    BY ClockAssumption DEF TypeOK, Moments
  <1> QED
    BY <1>1, Division DEF millis

\* The moments the program has seen do not come later than now; a poll that
\* sees something sees it now.
LEMMA SeenIsPast ==
  ASSUME TypeOK, NEW start \in 0..(ClockRange - 1)
  PROVE  Since(start) \in Nat /\ Since(millis) = 0
  BY MillisIsOnTheClock, SinceIs, ClockAssumption DEF Since

\* The age of a moment that can still be told grows with the time.
LEMMA AgesGrow ==
  ASSUME TypeOK, time' = time + 1, NEW start \in 0..(ClockRange - 1),
         Since(start) + 1 < ClockRange
  PROVE  ((millis' - start) % ClockRange) = Since(start) + 1
  <1>1. ClockRange \in Nat \ {0} /\ time \in Nat
    BY ClockAssumption DEF TypeOK, Moments
  <1>2. millis \in 0..(ClockRange - 1)
    BY MillisIsOnTheClock
  <1>3. millis' = IF millis + 1 < ClockRange THEN millis + 1 ELSE 0
    BY <1>1, NextIs DEF millis
  <1>4. millis' \in 0..(ClockRange - 1)
    BY <1>1, <1>2, <1>3
  <1>5. ((millis' - start) % ClockRange)
          = IF start <= millis' THEN millis' - start ELSE millis' - start + ClockRange
    BY <1>4, SinceIs
  <1>6. Since(start) = IF start <= millis THEN millis - start
                       ELSE millis - start + ClockRange
    BY <1>2, SinceIs DEF Since
  <1> QED
    BY <1>1, <1>2, <1>3, <1>5, <1>6

\* What the program measures as held is the time between the two polls.
LEMMA HeldForIs ==
  ASSUME TypeOK, ClosedSeenAt <= OpenSeenAt
  PROVE  HeldFor = OpenSeenAt - ClosedSeenAt
  <1>1. millis \in 0..(ClockRange - 1) /\ holdStart \in 0..(ClockRange - 1)
        /\ releaseStart \in 0..(ClockRange - 1) /\ ClockRange \in Nat
    BY MillisIsOnTheClock, ClockAssumption DEF TypeOK
  <1>2. Since(holdStart) = IF holdStart <= millis THEN millis - holdStart
                           ELSE millis - holdStart + ClockRange
    BY <1>1, SinceIs DEF Since
  <1>3. Since(releaseStart) = IF releaseStart <= millis THEN millis - releaseStart
                              ELSE millis - releaseStart + ClockRange
    BY <1>1, SinceIs DEF Since
  <1>4. HeldFor = IF holdStart <= releaseStart THEN releaseStart - holdStart
                  ELSE releaseStart - holdStart + ClockRange
    BY <1>1, SinceIs DEF HeldFor
  <1>5. time \in Int
    BY ClockAssumption DEF TypeOK, Moments
  <1>6. Since(releaseStart) <= Since(holdStart)
    BY <1>1, <1>2, <1>3, <1>5 DEF ClosedSeenAt, OpenSeenAt
  <1> QED
    BY <1>1, <1>2, <1>3, <1>4, <1>5, <1>6 DEF ClosedSeenAt, OpenSeenAt

-----------------------------------------------------------------------------
\* What the program can see of time does not lie ahead.
Timely == changedAt <= time /\ lastPoll <= time

\* The types are kept as long as no recorded time lies ahead.
LEMMA TypesHold == Spec => [](TypeOK /\ Timely)
  <1> USE TimerAssumption, ClockAssumption
  <1>1. Init => TypeOK /\ Timely
    <2> SUFFICES ASSUME Init
                 PROVE  TypeOK /\ Timely
      OBVIOUS
    <2>1. pressed \in BOOLEAN /\ holding \in BOOLEAN /\ releasing \in BOOLEAN
          /\ requested \in BOOLEAN
      BY Zenon DEF Init
    <2> QED
      BY <2>1 DEF Init, TypeOK, Moments, Timely
  <1>2. ASSUME TypeOK, Timely, [Next]_vars
        PROVE  (TypeOK /\ Timely)'
    <2> USE <1>2 DEF TypeOK, Timely, Moments
    <2>0. millis \in 0..(ClockRange - 1)
      BY MillisIsOnTheClock
    <2>1. CASE HandleActive
      <3>1. holding' \in BOOLEAN /\ releasing' \in BOOLEAN
        BY <2>1, Zenon DEF HandleActive
      <3> QED
        BY <2>0, <2>1, <3>1 DEF HandleActive
    <2>2. CASE Idle \/ NotSettled
      BY <2>2 DEF Idle, NotSettled, program
    <2>3. CASE ReleaseSeen
      <3>1. releasing' \in BOOLEAN
        BY <2>3, Zenon DEF ReleaseSeen
      <3> QED
        BY <2>0, <2>3, <3>1 DEF ReleaseSeen
    <2>4. CASE FinishRelease
      <3>1. holding' \in BOOLEAN /\ releasing' \in BOOLEAN
        BY <2>4, Zenon DEF FinishRelease
      <3>2. requested' \in BOOLEAN
        BY <2>4 DEF FinishRelease
      <3> QED
        BY <2>4, <3>1, <3>2 DEF FinishRelease
    <2>5. CASE Press
      <3>1. pressed' \in BOOLEAN
        BY <2>5, Zenon DEF Press
      <3>2. longestGap' \in Nat
        BY <2>5 DEF Press
      <3> QED
        BY <2>5, <3>1, <3>2 DEF Press, program
    <2>6. CASE Release
      <3>1. pressed' \in BOOLEAN
        BY <2>6, Zenon DEF Release
      <3> QED
        BY <2>6, <3>1 DEF Release, program
    <2>7. CASE Tick
      BY <2>7 DEF Tick, program
    <2>8. CASE UNCHANGED vars
      BY <2>8 DEF vars, program
    <2> QED
      BY <2>1, <2>2, <2>3, <2>4, <2>5, <2>6, <2>7, <2>8 DEF Next, Update
  <1> QED
    BY <1>1, <1>2, PTL DEF Spec

\* The type invariant.
THEOREM TypeCorrect == Spec => []TypeOK
  BY TypesHold, PTL

-----------------------------------------------------------------------------
\* Both moments are numbers, and stay where they are while the time does.
LEMMA SeenIsKept ==
  ASSUME TypeOK
  PROVE  /\ ClosedSeenAt \in Int /\ ClosedSeenAt <= time
         /\ OpenSeenAt \in Int /\ OpenSeenAt <= time
         /\ time' = time /\ holdStart' = holdStart => ClosedSeenAt' = ClosedSeenAt
         /\ time' = time /\ releaseStart' = releaseStart => OpenSeenAt' = OpenSeenAt
  <1>1. time \in Nat
    BY ClockAssumption DEF TypeOK, Moments
  <1>2. Since(holdStart) \in Nat /\ Since(releaseStart) \in Nat
    BY SeenIsPast DEF TypeOK
  <1>3. ClosedSeenAt \in Int /\ ClosedSeenAt <= time
    BY <1>1, <1>2 DEF ClosedSeenAt
  <1>4. OpenSeenAt \in Int /\ OpenSeenAt <= time
    BY <1>1, <1>2 DEF OpenSeenAt
  <1>5. time' = time /\ holdStart' = holdStart => ClosedSeenAt' = ClosedSeenAt
    BY DEF ClosedSeenAt, Since, millis
  <1>6. time' = time /\ releaseStart' = releaseStart => OpenSeenAt' = OpenSeenAt
    BY DEF OpenSeenAt, Since, millis
  <1> QED
    BY <1>3, <1>4, <1>5, <1>6

\* What a poll sees, it sees now.
LEMMA SeenIsNow ==
  ASSUME TypeOK, time' = time
  PROVE  /\ holdStart' = millis => ClosedSeenAt' = time
         /\ releaseStart' = millis => OpenSeenAt' = time
  <1>1. time \in Nat
    BY ClockAssumption DEF TypeOK, Moments
  <1>2. Since(millis) = 0
    BY MillisIsOnTheClock, SeenIsPast
  <1>3. ASSUME holdStart' = millis
        PROVE  ClosedSeenAt' = time
    <2>1. Since(holdStart)' = Since(millis)
      BY <1>3 DEF Since, millis
    <2> QED
      BY <1>1, <1>2, <2>1 DEF ClosedSeenAt
  <1>4. ASSUME releaseStart' = millis
        PROVE  OpenSeenAt' = time
    <2>1. Since(releaseStart)' = Since(millis)
      BY <1>4 DEF Since, millis
    <2> QED
      BY <1>1, <1>2, <2>1 DEF OpenSeenAt
  <1> QED
    BY <1>3, <1>4

\* As long as the clock cannot have come around, the moments stay where they
\* are while the time passes.
LEMMA SeenStays ==
  ASSUME TypeOK, Tick
  PROVE  /\ StartTime <= ClosedSeenAt => ClosedSeenAt' = ClosedSeenAt
         /\ StartTime <= OpenSeenAt => OpenSeenAt' = OpenSeenAt
  <1> USE ClockAssumption
  <1>1. time \in Nat /\ time < MaxTime /\ time' = time + 1
        /\ holdStart' = holdStart /\ releaseStart' = releaseStart
    BY DEF Tick, TypeOK, Moments, program
  <1>2. Since(holdStart) \in Nat /\ Since(releaseStart) \in Nat
    BY SeenIsPast DEF TypeOK
  <1>3. ASSUME StartTime <= ClosedSeenAt
        PROVE  ClosedSeenAt' = ClosedSeenAt
    <2>1. Since(holdStart) + 1 < ClockRange
      BY <1>1, <1>2, <1>3 DEF ClosedSeenAt
    <2>2. Since(holdStart)' = Since(holdStart) + 1
      BY <1>1, <2>1, AgesGrow DEF TypeOK, Since
    <2> QED
      BY <1>1, <1>2, <2>2 DEF ClosedSeenAt
  <1>4. ASSUME StartTime <= OpenSeenAt
        PROVE  OpenSeenAt' = OpenSeenAt
    <2>1. Since(releaseStart) + 1 < ClockRange
      BY <1>1, <1>2, <1>4 DEF OpenSeenAt
    <2>2. Since(releaseStart)' = Since(releaseStart) + 1
      BY <1>1, <2>1, AgesGrow DEF TypeOK, Since
    <2> QED
      BY <1>1, <1>2, <2>2 DEF OpenSeenAt
  <1> QED
    BY <1>3, <1>4

\* The numbers the invariant compares.
LEMMA Numbers ==
  ASSUME TypeOK
  PROVE  /\ {time, lastPoll, changedAt, firstClosed} \subseteq Nat
         /\ {longestGap, lastHold} \subseteq Nat
         /\ {ClosedSeenAt, OpenSeenAt} \subseteq Int
         /\ {kHoldDurationMs, kReleaseSettleMs, MaxPollGap} \subseteq Nat \ {0}
         /\ StartTime \in Nat /\ StartTime <= time
  BY SeenIsKept, TimerAssumption, ClockAssumption DEF TypeOK, Moments

USE DEF PollInv, HoldInv, ReleaseInv, PressInv, LongHoldInv

\* Every step of the button and of its polls keeps the invariant.
LEMMA ButtonSteps == TypeOK /\ TypeOK' /\ ButtonInv /\ [Next]_vars => ButtonInv'
  <1> SUFFICES ASSUME TypeOK, TypeOK', ButtonInv, [Next]_vars
               PROVE  ButtonInv'
    OBVIOUS
  <1> USE Numbers DEF ButtonInv
  <1>0. /\ ClosedSeenAt <= time /\ OpenSeenAt <= time
        /\ time' = time /\ holdStart' = holdStart => ClosedSeenAt' = ClosedSeenAt
        /\ time' = time /\ releaseStart' = releaseStart => OpenSeenAt' = OpenSeenAt
        /\ time' = time /\ holdStart' = millis => ClosedSeenAt' = time
        /\ time' = time /\ releaseStart' = millis => OpenSeenAt' = time
    BY SeenIsKept, SeenIsNow
  <1>1. CASE HandleActive
    <2>1. CASE holding
      BY <1>0, <1>1, <2>1 DEF HandleActive
    <2>2. CASE ~holding
      BY <1>0, <1>1, <2>2 DEF HandleActive
    <2> QED
      BY <2>1, <2>2
  <1>2. CASE Idle
    BY <1>0, <1>2 DEF Idle, program
  <1>3. CASE ReleaseSeen
    BY <1>0, <1>3 DEF ReleaseSeen
  <1>4. CASE NotSettled
    <2>1. Since(releaseStart) = time - OpenSeenAt
      BY SeenIsPast DEF OpenSeenAt, TypeOK
    <2> QED
      BY <1>0, <1>4, <2>1 DEF NotSettled, program
  <1>5. CASE FinishRelease
    <2>1. ASSUME lastHold >= kHoldDurationMs + MaxPollGap
          PROVE  requested'
      <3>1. holding /\ releasing /\ ~pressed /\ ~requested
        BY <1>5 DEF FinishRelease
      <3>2. OpenSeenAt - ClosedSeenAt >= kHoldDurationMs
            /\ ClosedSeenAt <= OpenSeenAt
        BY <2>1, <3>1
      <3>3. HeldFor >= kHoldDurationMs
        BY <3>2, HeldForIs
      <3> QED
        BY <1>5, <3>3 DEF FinishRelease
    <2> QED
      BY <1>0, <1>5, <2>1 DEF FinishRelease
  <1>6. CASE Press
    BY <1>0, <1>6 DEF Press, program
  <1>7. CASE Release
    BY <1>0, <1>7 DEF Release, program
  <1>8. CASE Tick
    <2>1. /\ StartTime <= ClosedSeenAt => ClosedSeenAt' = ClosedSeenAt
          /\ StartTime <= OpenSeenAt => OpenSeenAt' = OpenSeenAt
      BY <1>8, SeenStays
    <2> QED
      BY <1>8, <2>1 DEF Tick, program
  <1>9. CASE UNCHANGED vars
    BY <1>0, <1>9 DEF vars, program
  <1> QED
    BY <1>1, <1>2, <1>3, <1>4, <1>5, <1>6, <1>7, <1>8, <1>9 DEF Next, Update

\* The invariant holds of every behaviour.
LEMMA ButtonCorrect == Spec => [](TypeOK /\ ButtonInv)
  <1>1. Init => TypeOK /\ ButtonInv
    <2> SUFFICES ASSUME Init
                 PROVE  TypeOK /\ ButtonInv
      OBVIOUS
    <2>1. pressed \in BOOLEAN /\ holding \in BOOLEAN /\ releasing \in BOOLEAN
          /\ requested \in BOOLEAN
      BY Zenon DEF Init
    <2>2. TypeOK
      BY <2>1, TimerAssumption, ClockAssumption DEF Init, TypeOK, Moments
    <2> QED
      BY <2>2, Numbers DEF Init, ButtonInv
  <1> QED
    BY <1>1, TypeCorrect, ButtonSteps, PTL DEF Spec

-----------------------------------------------------------------------------
\* A request was held for, by the contact itself.
THEOREM RequestsHeld == Spec => RequestsAreHeld
  <1>1. ASSUME TypeOK, ButtonInv, FinishRelease, requested'
        PROVE  changedAt - firstClosed >= kHoldDurationMs - MaxPollGap
    <2>1. holding /\ releasing /\ HeldFor >= kHoldDurationMs
      BY <1>1 DEF FinishRelease
    <2>2. ClosedSeenAt <= OpenSeenAt /\ OpenSeenAt <= changedAt + MaxPollGap
          /\ firstClosed <= ClosedSeenAt
      BY <1>1, <2>1 DEF ButtonInv
    <2>3. OpenSeenAt - ClosedSeenAt >= kHoldDurationMs
      BY <1>1, <2>1, <2>2, HeldForIs
    <2> QED
      BY <1>1, <2>2, <2>3, Numbers
  <1>2. TypeOK /\ ButtonInv
          => [FinishRelease /\ requested'
                => changedAt - firstClosed >= kHoldDurationMs - MaxPollGap]_vars
    BY <1>1
  <1> QED
    BY <1>2, ButtonCorrect, PTL DEF RequestsAreHeld

\* A hold is one hold: between what is added up there was no more than a bounce.
THEOREM PressesNotAddedUp == Spec => PressesAreNotAddedUp
  <1>1. TypeOK /\ ButtonInv
          => [FinishRelease /\ requested'
                => longestGap < kReleaseSettleMs + 2 * MaxPollGap]_vars
    BY DEF ButtonInv, FinishRelease
  <1> QED
    BY <1>1, ButtonCorrect, PTL DEF PressesAreNotAddedUp

\* A hold that was long enough has led to the request once it is settled.
THEOREM HoldsNotMissed == Spec => []HoldsAreNotMissed
  <1>1. TypeOK /\ ButtonInv => HoldsAreNotMissed
    <2> SUFFICES ASSUME TypeOK, ButtonInv, ~pressed, ~requested,
                        lastHold >= kHoldDurationMs + MaxPollGap, ReleaseIsOver
                 PROVE  FALSE
      BY DEF HoldsAreNotMissed
    <2>1. holding /\ lastPoll <= time /\ time - lastPoll <= MaxPollGap
      BY DEF ButtonInv
    <2>2. time - changedAt > kReleaseSettleMs + 2 * MaxPollGap
      BY DEF ReleaseIsOver
    <2>3. CASE releasing
      BY <2>1, <2>2, <2>3, Numbers DEF ButtonInv
    <2>4. CASE ~releasing
      BY <2>1, <2>2, <2>4, Numbers DEF ButtonInv
    <2> QED
      BY <2>3, <2>4
  <1> QED
    BY <1>1, ButtonCorrect, PTL
=============================================================================
