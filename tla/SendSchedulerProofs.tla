------------------------- MODULE SendSchedulerProofs -------------------------
(***************************************************************************)
(* As long as millis() has not turned over, PendingLocoNetSendScheduler     *)
(* implements DelayedSends and leaves nothing behind that is due, for every *)
(* set of messages and delays and however the calls and passes interleave.  *)
(***************************************************************************)
EXTENDS SendScheduler, TLAPS

\* Entries are numbered in the order they are kept in.
Numbered ==
  /\ \A i, j \in 1..Len(pending) : i < j => pending[i].number < pending[j].number
  /\ \A k \in 1..Len(pending) : pending[k].number <= accepted

\* What update() compares is what is meant.
Exact == \A k \in 1..Len(pending) : pending[k].dueAt = pending[k].due

\* What the iterator has passed over is not due in this pass.
PassedOver ==
  pc = "sending" =>
    /\ now = passBegan
    /\ passBegan <= time
    /\ \A k \in 1..Len(pending) : k < it => pending[k].due > now

IInv ==
  /\ TypeOK
  /\ time <= MaxTime
  /\ Numbered
  /\ Exact
  /\ PassedOver

\* Erase keeps the type of its argument and moves the entries behind i up.
LEMMA EraseFacts ==
  ASSUME NEW S, NEW s \in Seq(S), NEW i \in 1..Len(s)
  PROVE  /\ Erase(s, i) \in Seq(S)
         /\ Len(Erase(s, i)) = Len(s) - 1
         /\ \A k \in 1..(Len(s) - 1) :
              Erase(s, i)[k] = IF k < i THEN s[k] ELSE s[k + 1]
  <1> DEFINE n == Len(s) - 1
  <1>1. n \in Nat
    OBVIOUS
  <1>2. \A k \in 1..n : (IF k < i THEN s[k] ELSE s[k + 1]) \in S
    OBVIOUS
  <1>3. Erase(s, i) = [k \in 1..n |-> IF k < i THEN s[k] ELSE s[k + 1]]
    BY DEF Erase
  <1> HIDE DEF n
  <1>4. /\ Erase(s, i) \in Seq(S)
        /\ Len(Erase(s, i)) = n
    BY <1>1, <1>2, <1>3
  <1>5. QED
    BY <1>3, <1>4 DEF n

\* What is known of every pending entry.
LEMMA EntryFacts ==
  ASSUME pending \in Seq(Entry), NEW k \in 1..Len(pending)
  PROVE  /\ pending[k].message \in Messages
         /\ pending[k].number \in Nat
         /\ pending[k].due \in Nat
  <1>1. pending[k] \in Entry
    OBVIOUS
  <1>2. QED
    BY <1>1 DEF Entry

\* Every scheduler starts with nothing pending.
LEMMA InitInvariant == ClockDoesNotTurn /\ Init => IInv
  <1> SUFFICES ASSUME ClockDoesNotTurn, Init PROVE IInv
    OBVIOUS
  <1>1. pending \in Seq(Entry) /\ wire \in Seq(Messages) /\ Len(pending) = 0
    BY DEF Init
  <1>2. TypeOK
    BY <1>1, ClockAssumption DEF Init, TypeOK
  <1>3. QED
    BY <1>1, <1>2, ClockAssumption DEF Init, IInv, Numbered, Exact, PassedOver

\* While the clock does not turn, no step breaks the invariant.
LEMMA StepInvariant == ClockDoesNotTurn /\ IInv /\ [Next]_vars => IInv'
  <1> SUFFICES ASSUME ClockDoesNotTurn, IInv, [Next]_vars PROVE IInv'
    OBVIOUS
  <1> USE ClockAssumption, DelayAssumption
  <1>T. /\ TypeOK
        /\ time <= MaxTime
        /\ Numbered
        /\ Exact
        /\ PassedOver
    BY DEF IInv
  <1>S. pending \in Seq(Entry) /\ wire \in Seq(Messages)
    BY <1>T DEF TypeOK
  <1>M. millis = time
    BY <1>T DEF TypeOK, millis, ClockDoesNotTurn
  <1>1. ASSUME NEW message \in Messages, SendNow(message) PROVE IInv'
    <2>1. wire' \in Seq(Messages)
      BY <1>1, <1>S DEF SendNow
    <2>2. TypeOK'
      BY <1>1, <1>T, <2>1 DEF SendNow, Accept, TypeOK
    <2>3. Numbered'
      <3>1. \A k \in 1..Len(pending) : pending[k].number \in Nat
        BY <1>S, EntryFacts
      <3>2. accepted \in Nat /\ accepted' = accepted + 1
        BY <1>1, <1>T DEF SendNow, Accept, TypeOK
      <3>3. QED
        BY <1>1, <1>T, <3>1, <3>2 DEF SendNow, Numbered
    <2>4. QED
      BY <1>1, <1>T, <2>2, <2>3 DEF SendNow, IInv, Exact, PassedOver
  <1>2. ASSUME NEW message \in Messages, NEW delay \in Delays,
               SendAfter(message, delay)
        PROVE IInv'
    <2> DEFINE entry == [message |-> message, dueAt |-> time + delay,
                         number |-> accepted + 1, due |-> time + delay]
    <2>1. (millis + delay) % ClockRange = time + delay
      BY <1>T, <1>M DEF TypeOK, ClockDoesNotTurn
    <2>2. pending' = Append(pending, entry)
      BY <1>2, <2>1 DEF SendAfter
    <2>3. entry \in Entry
      BY <1>T DEF TypeOK, Entry, ClockDoesNotTurn
    <2>4. pc = "loop" /\ accepted' = accepted + 1 /\ accepted \in Nat
      BY <1>2, <1>T DEF SendAfter, Accept, TypeOK
    <2>5. entry.due = entry.dueAt /\ entry.number = accepted + 1
      OBVIOUS
    <2> HIDE DEF entry
    <2>6. /\ pending' \in Seq(Entry)
          /\ Len(pending') = Len(pending) + 1
          /\ \A k \in 1..Len(pending) : pending'[k] = pending[k]
          /\ pending'[Len(pending) + 1] = entry
      BY <1>S, <2>2, <2>3
    <2>7. TypeOK'
      BY <1>2, <1>T, <2>4, <2>6 DEF SendAfter, TypeOK
    <2>8. Numbered'
      <3>1. \A k \in 1..Len(pending) : pending[k].number \in Nat
        BY <1>S, EntryFacts
      <3>2. \A k \in 1..Len(pending) : pending[k].number < pending'[Len(pending) + 1].number
        BY <1>T, <2>4, <2>5, <2>6, <3>1 DEF Numbered
      <3>3. ASSUME NEW i \in 1..Len(pending'), NEW j \in 1..Len(pending'), i < j
            PROVE  pending'[i].number < pending'[j].number
        <4>1. CASE j = Len(pending) + 1
          BY <4>1, <1>S, <2>6, <3>2, <3>3
        <4>2. CASE j # Len(pending) + 1
          <5>1. i \in 1..Len(pending) /\ j \in 1..Len(pending)
            BY <4>2, <1>S, <2>6, <3>3
          <5>2. QED
            BY <5>1, <1>T, <2>6, <3>3 DEF Numbered
        <4>3. QED
          BY <4>1, <4>2
      <3>4. ASSUME NEW k \in 1..Len(pending') PROVE pending'[k].number <= accepted'
        <4>1. CASE k = Len(pending) + 1
          BY <4>1, <2>4, <2>5, <2>6
        <4>2. CASE k # Len(pending) + 1
          <5>1. k \in 1..Len(pending)
            BY <4>2, <1>S, <2>6
          <5>2. pending'[k] = pending[k] /\ pending[k].number <= accepted
            BY <5>1, <1>T, <2>6 DEF Numbered
          <5>3. QED
            BY <5>1, <5>2, <2>4, <3>1
        <4>3. QED
          BY <4>1, <4>2
      <3>5. QED
        BY <3>3, <3>4 DEF Numbered
    <2>9. Exact'
      BY <1>S, <1>T, <2>5, <2>6 DEF Exact
    <2>10. PassedOver' /\ (time <= MaxTime)'
      BY <1>2, <1>T, <2>4 DEF SendAfter, PassedOver
    <2>11. QED
      BY <2>7, <2>8, <2>9, <2>10 DEF IInv
  <1>3. CASE Update
    <2>1. TypeOK'
      BY <1>3, <1>T, <1>M DEF Update, TypeOK, ClockDoesNotTurn
    <2>2. PassedOver'
      BY <1>3, <1>T, <1>M, <1>S DEF Update, PassedOver, TypeOK
    <2>3. QED
      BY <1>3, <1>T, <2>1, <2>2 DEF Update, IInv, Numbered, Exact
  <1>4. CASE Skip
    <2>1. TypeOK'
      BY <1>4, <1>T DEF Skip, TypeOK
    <2>2. PassedOver'
      BY <1>4, <1>T, <1>S DEF Skip, PassedOver, Exact, TypeOK
    <2>3. QED
      BY <1>4, <1>T, <2>1, <2>2 DEF Skip, IInv, Numbered, Exact
  <1>5. CASE Send
    <2>1. it \in 1..Len(pending) /\ pc = "sending" /\ it \in Nat
      BY <1>5, <1>T, <1>S DEF Send, TypeOK
    <2>2. pending' = Erase(pending, it)
      BY <1>5 DEF Send
    <2>3. /\ pending' \in Seq(Entry)
          /\ Len(pending') = Len(pending) - 1
          /\ \A k \in 1..(Len(pending) - 1) :
               pending'[k] = IF k < it THEN pending[k] ELSE pending[k + 1]
      BY <1>S, <2>1, <2>2, EraseFacts
    <2>4. wire' \in Seq(Messages)
      <3>1. pending[it].message \in Messages
        BY <1>S, <2>1, EntryFacts
      <3>2. QED
        BY <1>5, <1>S, <3>1 DEF Send
    <2>5. TypeOK'
      BY <1>5, <1>T, <2>3, <2>4 DEF Send, TypeOK
    <2>6. Numbered'
      <3>1. \A k \in 1..Len(pending) : pending[k].number \in Nat
        BY <1>S, EntryFacts
      <3>2. accepted' = accepted
        BY <1>5 DEF Send
      <3> DEFINE old(k) == IF k < it THEN k ELSE k + 1
      <3>3. ASSUME NEW k \in 1..Len(pending')
            PROVE  old(k) \in 1..Len(pending) /\ pending'[k] = pending[old(k)]
        BY <1>S, <2>1, <2>3
      <3>4. \A i, j \in 1..Len(pending') : i < j => old(i) < old(j)
        BY <2>1
      <3> HIDE DEF old
      <3>5. QED
        BY <1>T, <3>2, <3>3, <3>4 DEF Numbered
    <2>7. Exact'
      BY <1>S, <1>T, <2>1, <2>3 DEF Exact
    <2>8. PassedOver'
      <3>1. \A k \in 1..Len(pending') : k < it' => pending'[k].due > now'
        BY <1>5, <1>S, <1>T, <2>1, <2>3 DEF Send, PassedOver
      <3>2. QED
        BY <1>5, <1>T, <2>1, <3>1 DEF Send, PassedOver
    <2>9. QED
      BY <1>5, <1>T, <2>5, <2>6, <2>7, <2>8 DEF Send, IInv
  <1>6. CASE UpdateEnds
    <2>1. TypeOK'
      BY <1>6, <1>T DEF UpdateEnds, TypeOK
    <2>2. QED
      BY <1>6, <1>T, <2>1 DEF UpdateEnds, IInv, Numbered, Exact, PassedOver
  <1>7. CASE Tick
    <2>1. TypeOK' /\ (time <= MaxTime)'
      BY <1>7, <1>T DEF Tick, TypeOK
    <2>2. PassedOver'
      BY <1>7, <1>T DEF Tick, PassedOver, TypeOK
    <2>3. QED
      BY <1>7, <1>T, <2>1, <2>2 DEF Tick, IInv, Numbered, Exact
  <1>8. CASE UNCHANGED vars
    BY <1>8, <1>T DEF vars, IInv, TypeOK, Numbered, Exact, PassedOver
  <1>9. QED
    BY <1>1, <1>2, <1>3, <1>4, <1>5, <1>6, <1>7, <1>8 DEF Next, Loop, Callers

\* The invariant of every run in which the clock does not turn.
LEMMA SchedulerInvariant == ClockDoesNotTurn => (Spec => []IInv)
  <1> SUFFICES ASSUME ClockDoesNotTurn PROVE Spec => []IInv
    OBVIOUS
  <1>1. Init => IInv
    BY InitInvariant
  <1>2. IInv /\ [Next]_vars => IInv'
    BY StepInvariant
  <1>3. QED
    BY <1>1, <1>2, PTL DEF Spec

-----------------------------------------------------------------------------
(* A step of the scheduler is a step of DelayedSends, or none of its        *)
(* business.                                                                *)

\* What a pending entry stands for.
Meaning(entry) ==
  [number |-> entry.number, message |-> entry.message, due |-> entry.due]

\* The entry Send sends is one DelayedSends may deliver next: it is due, and no
\* earlier one that is due no later is left.
LEMMA SendDelivers ==
  ASSUME IInv, Send PROVE DS!Deliver(Meaning(pending[it])) /\ Meaning(pending[it]) \in Scheduled
  <1> DEFINE entry == Meaning(pending[it])
  <1>T. TypeOK /\ Numbered /\ Exact /\ PassedOver
    BY DEF IInv
  <1>S. pending \in Seq(Entry)
    BY <1>T DEF TypeOK
  <1>1. it \in 1..Len(pending) /\ pc = "sending"
    BY <1>T, <1>S DEF Send, TypeOK
  <1>2. \A k \in 1..Len(pending) : pending[k].number \in Nat /\ pending[k].due \in Nat
    BY <1>S, EntryFacts
  <1>3. entry \in Scheduled
    BY <1>1 DEF Scheduled, Meaning
  <1>4. entry.due <= time
    BY <1>T, <1>1, <1>2, <1>S DEF Send, Exact, PassedOver, TypeOK, Meaning
  <1>5. ~DS!Overtakes(entry)
    <2> SUFFICES ASSUME NEW other \in Scheduled, other.number < entry.number
                 PROVE  ~(other.due <= entry.due)
      BY DEF DS!Overtakes
    <2>1. PICK k \in 1..Len(pending) : other = Meaning(pending[k])
      BY DEF Scheduled, Meaning
    <2>2. k < it
      BY <1>1, <1>2, <1>T, <1>S, <2>1 DEF Numbered, Meaning
    <2>3. pending[k].due > now
      BY <1>1, <1>T, <2>2 DEF PassedOver
    <2>4. pending[it].due <= now
      BY <1>T, <1>1 DEF Send, Exact
    <2>5. QED
      BY <1>1, <1>2, <1>T, <2>1, <2>3, <2>4 DEF TypeOK, Meaning
  <1>6. Scheduled' = Scheduled \ {entry}
    <2>1. /\ Len(pending') = Len(pending) - 1
          /\ \A k \in 1..(Len(pending) - 1) :
               pending'[k] = IF k < it THEN pending[k] ELSE pending[k + 1]
      BY <1>S, <1>1, EraseFacts DEF Send
    <2>2. Scheduled' = {Meaning(pending'[k]) : k \in 1..Len(pending')}
      BY DEF Scheduled, Meaning
    <2>3. Scheduled = {Meaning(pending[k]) : k \in 1..Len(pending)}
      BY DEF Scheduled, Meaning
    <2>4. ASSUME NEW k \in 1..Len(pending')
          PROVE  Meaning(pending'[k]) \in Scheduled /\ Meaning(pending'[k]) # entry
      <3>1. PICK j \in 1..Len(pending) : j # it /\ pending'[k] = pending[j]
        <4>1. CASE k < it
          BY <4>1, <1>1, <1>S, <2>1
        <4>2. CASE ~(k < it)
          <5>1. k + 1 \in 1..Len(pending) /\ k + 1 # it
            BY <4>2, <1>1, <1>S, <2>1
          <5>2. QED
            BY <4>2, <5>1, <2>1
        <4>3. QED
          BY <4>1, <4>2
      <3>2. pending[j].number # pending[it].number
        BY <1>1, <1>2, <1>T, <3>1 DEF Numbered
      <3>3. QED
        BY <2>3, <3>1, <3>2 DEF Meaning
    <2>5. ASSUME NEW k \in 1..Len(pending), Meaning(pending[k]) # entry
          PROVE  Meaning(pending[k]) \in Scheduled'
      <3>1. k # it
        BY <2>5
      <3>2. CASE k < it
        BY <3>2, <1>1, <1>S, <2>1, <2>2
      <3>3. CASE k > it
        <4>1. k - 1 \in 1..Len(pending') /\ pending'[k - 1] = pending[k]
          BY <3>3, <1>1, <1>S, <2>1
        <4>2. QED
          BY <2>2, <4>1
      <3>4. QED
        BY <1>1, <3>1, <3>2, <3>3
    <2>6. QED
      BY <2>2, <2>3, <2>4, <2>5
  <1>7. wire' = Append(wire, entry.message)
    BY DEF Send, Meaning
  <1>8. UNCHANGED <<time, accepted>>
    BY DEF Send
  <1>9. QED
    BY <1>3, <1>4, <1>5, <1>6, <1>7, <1>8 DEF DS!Deliver

\* Every step maps to a step or a stutter.
LEMMA StepRefines == ClockDoesNotTurn /\ IInv /\ [Next]_vars => [DS!Next]_(DS!vars)
  <1> SUFFICES ASSUME ClockDoesNotTurn, IInv, [Next]_vars
               PROVE  [DS!Next]_(DS!vars)
    OBVIOUS
  <1>S. pending \in Seq(Entry)
    BY DEF IInv, TypeOK
  <1>1. ASSUME NEW message \in Messages, SendNow(message) PROVE DS!Next
    <2>1. Scheduled' = Scheduled
      BY <1>1 DEF SendNow, Scheduled
    <2>2. DS!SendNow(message)
      BY <1>1, <2>1 DEF SendNow, Accept, DS!SendNow, DS!Accept
    <2>3. QED
      BY <2>2 DEF DS!Next
  <1>2. ASSUME NEW message \in Messages, NEW delay \in Delays,
               SendAfter(message, delay)
        PROVE DS!Next
    <2> DEFINE entry == [message |-> message,
                         dueAt |-> (millis + delay) % ClockRange,
                         number |-> accepted + 1, due |-> time + delay]
    <2>1. pending' = Append(pending, entry)
      BY <1>2 DEF SendAfter
    <2>2. Meaning(entry) = [number |-> accepted + 1, message |-> message,
                            due |-> time + delay]
      BY DEF Meaning
    <2> HIDE DEF entry
    <2>3. /\ Len(pending') = Len(pending) + 1
          /\ \A k \in 1..Len(pending) : pending'[k] = pending[k]
          /\ pending'[Len(pending) + 1] = entry
          /\ Len(pending) \in Nat
      BY <1>S, <2>1
    <2>4. Scheduled' = {Meaning(pending'[k]) : k \in 1..Len(pending')}
      BY DEF Scheduled, Meaning
    <2>5. Scheduled = {Meaning(pending[k]) : k \in 1..Len(pending)}
      BY DEF Scheduled, Meaning
    <2>6. Scheduled' = Scheduled \cup {Meaning(entry)}
      BY <2>3, <2>4, <2>5
    <2>7. DS!SendAfter(message, delay)
      BY <1>2, <2>2, <2>6 DEF SendAfter, Accept, DS!SendAfter, DS!Accept
    <2>8. QED
      BY <2>7 DEF DS!Next
  <1>3. CASE Send
    BY <1>3, SendDelivers DEF DS!Next, DS!DeliverSome
  <1>4. CASE Update \/ Skip \/ UpdateEnds
    BY <1>4 DEF Update, Skip, UpdateEnds, DS!vars, Scheduled
  <1>5. CASE Tick
    BY <1>5 DEF Tick, DS!Next, DS!Tick, Scheduled
  <1>6. CASE UNCHANGED vars
    BY <1>6 DEF vars, DS!vars, Scheduled
  <1>7. QED
    BY <1>1, <1>2, <1>3, <1>4, <1>5, <1>6 DEF Next, Loop, Callers

\* PendingLocoNetSendScheduler keeps the safety promise of DelayedSends, the
\* part of ImplementsDelayedSends that is not about fairness, as long as the
\* clock does not turn over: nothing leaves early and nothing overtakes.
THEOREM SchedulerImplements == ClockDoesNotTurn => (Spec => DS!Safety)
  <1> SUFFICES ASSUME ClockDoesNotTurn PROVE Spec => DS!Safety
    OBVIOUS
  <1>1. Init => DS!Init
    BY DEF Init, DS!Init, Scheduled
  <1>2. Spec => []IInv
    BY SchedulerInvariant
  <1>3. IInv /\ [Next]_vars => [DS!Next]_(DS!vars)
    BY StepRefines
  <1>4. QED
    BY <1>1, <1>2, <1>3, PTL DEF Spec, DS!Safety

\* And no pass leaves anything behind that was due when it began.
THEOREM CompletePasses == ClockDoesNotTurn => (Spec => PassesAreComplete)
  <1> SUFFICES ASSUME ClockDoesNotTurn PROVE Spec => PassesAreComplete
    OBVIOUS
  <1>1. Spec => []IInv
    BY SchedulerInvariant
  <1>2. IInv /\ [Next]_vars =>
          [UpdateEnds => \A k \in 1..Len(pending) : pending[k].due > passBegan]_vars
    <2> SUFFICES ASSUME IInv, UpdateEnds, NEW k \in 1..Len(pending)
                 PROVE  pending[k].due > passBegan
      OBVIOUS
    <2>1. pending \in Seq(Entry) /\ it \in Nat /\ PassedOver
      BY DEF IInv, TypeOK
    <2>2. k < it
      BY <2>1 DEF UpdateEnds
    <2>3. QED
      BY <2>1, <2>2 DEF UpdateEnds, PassedOver
  <1>3. QED
    BY <1>1, <1>2, PTL DEF Spec, PassesAreComplete
=============================================================================
