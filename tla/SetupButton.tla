----------------------------- MODULE SetupButton -----------------------------
(***************************************************************************)
(* ButtonSetupModeTrigger: holding the BOOT button asks for the wireless    *)
(* setup mode.  The button is a contact that may close and open at any      *)
(* moment, bouncing included; the program only sees it when loop() comes    *)
(* around to update().  Between two polls the loop may be held up, by       *)
(* WiFiClient::connect among others.                                        *)
(*                                                                          *)
(* millis() is modulo ClockRange here (2^32 on the device).                 *)
(***************************************************************************)
EXTENDS Integers

CONSTANTS
  kHoldDurationMs,  \* how long the button is to be held
  kReleaseSettleMs, \* how long it is to stay released
  ClockRange,       \* millis() runs from 0 to ClockRange - 1
  MaxPollGap,       \* longest time from one update() to the next
  StartTime,        \* bound: time since boot when the model begins
  MaxTime           \* bound: and when its clock stops

ASSUME TimerAssumption ==
  /\ kHoldDurationMs \in Nat \ {0}
  /\ kReleaseSettleMs \in Nat \ {0}
  /\ MaxPollGap \in Nat \ {0}

\* No two times the program compares are a whole turn of the clock apart.
ASSUME ClockAssumption ==
  /\ StartTime \in Nat
  /\ MaxTime \in Nat
  /\ ClockRange \in Nat
  /\ StartTime <= MaxTime
  /\ MaxTime - StartTime < ClockRange

VARIABLES
  time,         \* since boot, in ms
  pressed,      \* the contact is closed
  holding,      \* holding_
  holdStart,    \* holdStartMs_
  releasing,    \* releasing_
  releaseStart, \* releaseStartMs_
  requested,    \* the stored request; the device restarts when it is made
  \* history: nothing the program can see
  lastPoll,     \* when update() last ran
  changedAt,    \* when the contact last closed or opened
  firstClosed,  \* when the hold that is being measured really began
  longestGap,   \* the longest time the contact was open since
  lastHold      \* how long it was closed before it last opened

program == <<holding, holdStart, releasing, releaseStart, requested>>
vars == <<time, pressed, program, lastPoll, changedAt, firstClosed,
          longestGap, lastHold>>

\* Mutant of millis: a clock that never turns over.
unboundedMillis == time

\* Clock::nowMilliseconds
millis == time % ClockRange

\* Unsigned subtraction.
Since(start) == (millis - start) % ClockRange

Init ==
  /\ time = StartTime
  /\ pressed = FALSE
  /\ holding = FALSE
  /\ holdStart = 0
  /\ releasing = FALSE
  /\ releaseStart = 0
  /\ requested = FALSE
  /\ lastPoll = time
  /\ changedAt = time
  /\ firstClosed = time
  /\ longestGap = 0
  /\ lastHold = 0

-----------------------------------------------------------------------------
(* update() *)

\* Mutant of HandleActive: a release under way is not cancelled.
HandleActiveKeepsRelease ==
  /\ ~requested
  /\ pressed
  /\ holding' = TRUE
  /\ IF holding
     THEN UNCHANGED <<holdStart, firstClosed, longestGap>>
     ELSE /\ holdStart' = millis
          /\ firstClosed' = changedAt
          /\ longestGap' = 0
  /\ lastPoll' = time
  /\ UNCHANGED <<time, pressed, releasing, releaseStart, requested, changedAt,
                 lastHold>>

HandleActive ==
  /\ ~requested
  /\ pressed
  /\ holding' = TRUE
  /\ IF holding
     THEN UNCHANGED <<holdStart, firstClosed, longestGap>>
     ELSE /\ holdStart' = millis
          /\ firstClosed' = changedAt
          /\ longestGap' = 0
  /\ releasing' = FALSE
  /\ lastPoll' = time
  /\ UNCHANGED <<time, pressed, releaseStart, requested, changedAt, lastHold>>

Idle ==
  /\ ~requested
  /\ ~pressed
  /\ ~holding
  /\ lastPoll' = time
  /\ UNCHANGED <<time, pressed, program, changedAt, firstClosed, longestGap,
                 lastHold>>

ReleaseSeen ==
  /\ ~requested
  /\ ~pressed
  /\ holding
  /\ ~releasing
  /\ releasing' = TRUE
  /\ releaseStart' = millis
  /\ lastPoll' = time
  /\ UNCHANGED <<time, pressed, holding, holdStart, requested, changedAt,
                 firstClosed, longestGap, lastHold>>

NotSettled ==
  /\ ~requested
  /\ ~pressed
  /\ holding
  /\ releasing
  /\ Since(releaseStart) < kReleaseSettleMs
  /\ lastPoll' = time
  /\ UNCHANGED <<time, pressed, program, changedAt, firstClosed, longestGap,
                 lastHold>>

\* Mutant of HeldFor: the settle time counts as held.
HeldUntilSettled == Since(holdStart)

\* heldFor
HeldFor == (releaseStart - holdStart) % ClockRange

\* Mutant of FinishRelease: a hold that was too short is not forgotten.
FinishReleaseForgetsNothing ==
  /\ ~requested
  /\ ~pressed
  /\ holding
  /\ releasing
  /\ Since(releaseStart) >= kReleaseSettleMs
  /\ holding' = (HeldFor < kHoldDurationMs)
  /\ releasing' = FALSE
  /\ requested' = (HeldFor >= kHoldDurationMs)
  /\ lastPoll' = time
  /\ UNCHANGED <<time, pressed, holdStart, releaseStart, changedAt,
                 firstClosed, longestGap, lastHold>>

\* finishReleaseIfSettled(); main.cpp restarts the device on a request.
FinishRelease ==
  /\ ~requested
  /\ ~pressed
  /\ holding
  /\ releasing
  /\ Since(releaseStart) >= kReleaseSettleMs
  /\ holding' = FALSE
  /\ releasing' = FALSE
  /\ requested' = (HeldFor >= kHoldDurationMs)
  /\ lastPoll' = time
  /\ UNCHANGED <<time, pressed, holdStart, releaseStart, changedAt,
                 firstClosed, longestGap, lastHold>>

Update == HandleActive \/ Idle \/ ReleaseSeen \/ NotSettled \/ FinishRelease

-----------------------------------------------------------------------------
(* The world. *)

\* The contact closes or opens.
Press ==
  /\ ~pressed
  /\ pressed' = TRUE
  /\ changedAt' = time
  /\ longestGap' = IF time - changedAt > longestGap THEN time - changedAt
                   ELSE longestGap
  /\ UNCHANGED <<time, program, lastPoll, firstClosed, lastHold>>

Release ==
  /\ pressed
  /\ pressed' = FALSE
  /\ changedAt' = time
  /\ lastHold' = time - changedAt
  /\ UNCHANGED <<time, program, lastPoll, firstClosed, longestGap>>

Tick ==
  /\ time < MaxTime
  /\ requested \/ time - lastPoll < MaxPollGap
  /\ time' = time + 1
  /\ UNCHANGED <<pressed, program, lastPoll, changedAt, firstClosed,
                 longestGap, lastHold>>

Next == Update \/ Press \/ Release \/ Tick

Spec == Init /\ [][Next]_vars

-----------------------------------------------------------------------------
Moments == StartTime..MaxTime

TypeOK ==
  /\ time \in Moments
  /\ pressed \in BOOLEAN
  /\ holding \in BOOLEAN
  /\ holdStart \in 0..(ClockRange - 1)
  /\ releasing \in BOOLEAN
  /\ releaseStart \in 0..(ClockRange - 1)
  /\ requested \in BOOLEAN
  /\ lastPoll \in Moments
  /\ changedAt \in Moments
  /\ firstClosed \in Moments
  /\ longestGap \in Nat
  /\ lastHold \in Nat

\* When the request is made: the contact has opened for good, and it had closed
\* at least kHoldDurationMs, less one poll, before.  Over the turn of millis().
RequestsAreHeld ==
  [][FinishRelease /\ requested'
       => changedAt - firstClosed >= kHoldDurationMs - MaxPollGap]_vars

\* Several presses are not added up: in what is measured as one hold, the
\* contact was never open for longer than a bounce, the settle time and the two
\* polls that may lie around it.
PressesAreNotAddedUp ==
  [][FinishRelease /\ requested'
       => longestGap < kReleaseSettleMs + 2 * MaxPollGap]_vars

ReleaseIsOver == time - changedAt > kReleaseSettleMs + 2 * MaxPollGap

\* Nor is a hold missed: one clean hold that was a poll longer than
\* kHoldDurationMs has led to the request once the release has settled,
\* whatever bounced before it.
HoldsAreNotMissed ==
  ~pressed /\ lastHold >= kHoldDurationMs + MaxPollGap /\ ReleaseIsOver => requested
=============================================================================
