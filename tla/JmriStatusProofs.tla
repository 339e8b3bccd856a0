-------------------------- MODULE JmriStatusProofs --------------------------
(***************************************************************************)
(* JmriStatus: for every republish interval and any number of breaks, false *)
(* readings and updates, a wrong status lasts one interval at most.         *)
(***************************************************************************)
EXTENDS JmriStatus, TLAPS

\* The type invariant, with the order of the recorded times.
LEMMA TypeCorrect == Spec => []TypeOK
  <1>1. ASSUME Init
        PROVE  TypeOK
    <2>1. link \in BOOLEAN /\ steadyPass \in BOOLEAN
      BY <1>1, Zenon DEF Init
    <2> QED
      BY <1>1, <2>1 DEF Init, TypeOK
  <1>2. ASSUME TypeOK, [Next]_vars
        PROVE  TypeOK'
    <2> USE <1>2 DEF TypeOK
    <2>1. ASSUME NEW reading \in BOOLEAN, IsConnected(reading)
          PROVE  glitches' \in Nat /\ steadyPass' \in BOOLEAN
      <3>1. CASE UNCHANGED <<glitches, steadyPass>>
        BY <3>1
      <3>2. CASE glitches' = glitches + 1 /\ steadyPass' = FALSE
        <4>1. steadyPass' \in BOOLEAN
          BY <3>2, Zenon
        <4> QED
          BY <3>2, <4>1
      <3> QED
        BY <2>1, <3>1, <3>2 DEF IsConnected
    <2>2. CASE Update
      BY <2>2 DEF Update
    <2>3. CASE Unchanged
      BY <2>3, <2>1 DEF Unchanged
    <2>4. CASE Changed
      BY <2>4, <2>1 DEF Changed, Payload
    <2>5. CASE PublishChange
      BY <2>5, <2>1 DEF PublishChange, Publish, Payload
    <2>6. CASE NotDue
      BY <2>6 DEF NotDue, Done
    <2>7. CASE Republish
      BY <2>7, <2>1 DEF Republish, Publish, Payload, Done
    <2>8. CASE Tick
      BY <2>8 DEF Tick
    <2>9. CASE LinkChanges
      BY <2>9 DEF LinkChanges
    <2>10. CASE UNCHANGED vars
      BY <2>10 DEF vars
    <2> QED
      BY <2>2, <2>3, <2>4, <2>5, <2>6, <2>7, <2>8, <2>9, <2>10 DEF Next, Loop
  <1> QED
    BY <1>1, <1>2, PTL DEF Spec

-----------------------------------------------------------------------------
\* Nothing is recorded for a time that has not come.
TimesArePast ==
  /\ lastPublishedAt <= now
  /\ lastPassAt <= now
  /\ disturbedAt <= now

\* What an undisturbed update() remembers is the state of the link.
Remembered ==
  /\ pc \in {"publishChange", "republishIfDue"} /\ steadyPass
       => lastKnownConnected = Payload(link)
  /\ pc = "loop" /\ steadyPass
       => lastKnownConnected \in {Payload(link), Nothing}

\* The last publication was made before the end of a disturbed update().
PublishedWhenDisturbed == disturbedAt # Never /\ lastPublishedAt <= disturbedAt

\* Clients were told something else than what is remembered only if the update()
\* that told them was disturbed.
MismatchIsExplained ==
  payload # lastKnownConnected
    => \/ PublishedWhenDisturbed
       \/ pc = "publishChange"
       \/ pc = "republishIfDue" /\ ~steadyPass

StatusInv ==
  TimesArePast /\ Remembered /\ MismatchIsExplained /\ NeverSilentForLong

\* StatusInv is inductive.
LEMMA StatusStep ==
  ASSUME TypeOK, StatusInv, [Next]_vars
  PROVE  StatusInv'
  <1> USE IntervalAssumption DEF TypeOK, StatusInv
  <1>1. CASE Update
    <2>1. TimesArePast' /\ Remembered' /\ NeverSilentForLong'
      BY <1>1 DEF Update, TimesArePast, Remembered, NeverSilentForLong
    <2>2. MismatchIsExplained'
      BY <1>1 DEF Update, MismatchIsExplained, PublishedWhenDisturbed
    <2> QED
      BY <2>1, <2>2
  <1>2. CASE Unchanged
    <2>1. PICK connected \in BOOLEAN :
            IsConnected(connected) /\ lastKnownConnected = Payload(connected)
      BY <1>2 DEF Unchanged
    <2>2. steadyPass' => connected = link
      BY <2>1 DEF IsConnected
    <2>3. TimesArePast' /\ NeverSilentForLong'
      BY <1>2 DEF Unchanged, TimesArePast, NeverSilentForLong
    <2>4. Remembered'
      BY <1>2, <2>1, <2>2 DEF Unchanged, Remembered, Payload
    <2>5. MismatchIsExplained'
      BY <1>2 DEF Unchanged, MismatchIsExplained, PublishedWhenDisturbed
    <2> QED
      BY <2>3, <2>4, <2>5
  <1>3. CASE Changed
    <2>1. PICK connected \in BOOLEAN :
            IsConnected(connected) /\ lastKnownConnected' = Payload(connected)
      BY <1>3 DEF Changed
    <2>2. steadyPass' => connected = link
      BY <2>1 DEF IsConnected
    <2>3. TimesArePast' /\ NeverSilentForLong'
      BY <1>3 DEF Changed, TimesArePast, NeverSilentForLong
    <2>4. Remembered'
      BY <1>3, <2>1, <2>2 DEF Changed, Remembered, Payload
    <2>5. MismatchIsExplained'
      BY <1>3 DEF Changed, MismatchIsExplained
    <2> QED
      BY <2>3, <2>4, <2>5
  <1>4. ASSUME NEW connected \in BOOLEAN, IsConnected(connected)
        PROVE  steadyPass' => steadyPass /\ connected = link
    BY <1>4 DEF IsConnected
  <1>5. CASE PublishChange
    <2>1. PICK connected \in BOOLEAN :
            IsConnected(connected) /\ payload' = Payload(connected)
      BY <1>5 DEF PublishChange, Publish
    <2>2. steadyPass' => steadyPass /\ connected = link
      BY <2>1, <1>4
    <2>3. TimesArePast' /\ NeverSilentForLong'
      BY <1>5 DEF PublishChange, Publish, TimesArePast, NeverSilentForLong
    <2>4. Remembered'
      BY <1>5, <2>2 DEF PublishChange, Publish, Remembered, Payload
    <2>5. MismatchIsExplained'
      BY <1>5, <2>1, <2>2
      DEF PublishChange, Publish, Remembered, MismatchIsExplained, Payload
    <2> QED
      BY <2>3, <2>4, <2>5
  <1>6. CASE NotDue
    <2>1. TimesArePast' /\ NeverSilentForLong'
      BY <1>6 DEF NotDue, Done, TimesArePast, NeverSilentForLong
    <2>2. Remembered'
      BY <1>6 DEF NotDue, Done, Remembered, Payload
    <2>3. MismatchIsExplained'
      BY <1>6 DEF NotDue, Done, MismatchIsExplained, PublishedWhenDisturbed,
                  TimesArePast, Never
    <2> QED
      BY <2>1, <2>2, <2>3
  <1>7. CASE Republish
    <2>1. PICK connected \in BOOLEAN :
            IsConnected(connected) /\ payload' = Payload(connected)
      BY <1>7 DEF Republish, Publish
    <2>2. steadyPass' => steadyPass /\ connected = link
      BY <2>1, <1>4
    <2>3. TimesArePast' /\ NeverSilentForLong'
      BY <1>7 DEF Republish, Publish, Done, TimesArePast, NeverSilentForLong
    <2>4. Remembered'
      BY <1>7, <2>2 DEF Republish, Publish, Done, Remembered, Payload
    <2>5. MismatchIsExplained'
      BY <1>7, <2>1, <2>2
      DEF Republish, Publish, Done, Remembered, MismatchIsExplained,
          PublishedWhenDisturbed, Payload, Never
    <2> QED
      BY <2>3, <2>4, <2>5
  <1>8. CASE Tick
    BY <1>8 DEF Tick, TimesArePast, Remembered, MismatchIsExplained,
                PublishedWhenDisturbed, NeverSilentForLong, Payload
  <1>9. CASE LinkChanges
    BY <1>9 DEF LinkChanges, TimesArePast, Remembered, MismatchIsExplained,
                PublishedWhenDisturbed, NeverSilentForLong
  <1>10. CASE UNCHANGED vars
    BY <1>10 DEF vars, TimesArePast, Remembered, MismatchIsExplained,
                 PublishedWhenDisturbed, NeverSilentForLong
  <1> QED
    BY <1>1, <1>2, <1>3, <1>5, <1>6, <1>7, <1>8, <1>9, <1>10 DEF Next, Loop

\* StatusInv holds in every state.
LEMMA StatusInvariant == Spec => []StatusInv
  <1>1. Init => StatusInv
    BY IntervalAssumption
    DEF Init, StatusInv, TimesArePast, Remembered, MismatchIsExplained,
        NeverSilentForLong, Never
  <1>2. TypeOK /\ StatusInv /\ [Next]_vars => StatusInv'
    BY StatusStep
  <1> QED
    BY <1>1, <1>2, TypeCorrect, PTL DEF Spec

\* JmriConnectionStatusPublisher tells clients the status that an undisturbed
\* update() saw, one republish interval after the last disturbed one at the
\* latest.
THEOREM StatusCorrect == Spec => []ChangesArePublished
  <1>1. TypeOK /\ StatusInv => ChangesArePublished
    <2> SUFFICES ASSUME TypeOK, StatusInv, pc = "loop", steadyPass, Undisturbed
                 PROVE  payload \in {Payload(link), Nothing}
      BY DEF ChangesArePublished
    <2>1. payload = lastKnownConnected
      <3> SUFFICES ASSUME PublishedWhenDisturbed
                   PROVE  FALSE
        BY DEF StatusInv, MismatchIsExplained
      <3> QED
        BY IntervalAssumption
        DEF StatusInv, NeverSilentForLong, PublishedWhenDisturbed, Undisturbed, TypeOK
    <2> QED
      BY <2>1 DEF StatusInv, Remembered
  <1> QED
    BY <1>1, TypeCorrect, StatusInvariant, PTL

\* No update() ends with a publication that was an interval old when it began.
THEOREM NeverSilent == Spec => []NeverSilentForLong
  <1>1. StatusInv => NeverSilentForLong
    BY DEF StatusInv
  <1> QED
    BY <1>1, StatusInvariant, PTL
=============================================================================
