------------------------- MODULE CommissioningProofs -------------------------
(***************************************************************************)
(* Commissioning: for every set of values, forms and serial commands, and   *)
(* any number of saves, power losses, requests and ports that throw, flash  *)
(* holds a prefix of the new configuration over the old one, normal mode    *)
(* runs a configuration as it was chosen, and a request for setup mode is   *)
(* honoured once, or lost in the one place where it can be.                 *)
(***************************************************************************)
EXTENDS Commissioning, TLAPS

-----------------------------------------------------------------------------
(* The four keys. *)

\* There are four keys, and no two of them are the same.
LEMMA KeyFacts ==
  /\ Len(Keys) = 4
  /\ \A i \in 1..4 : Keys[i] \in Fields
  /\ \A i, j \in 1..4 : Keys[i] = Keys[j] => i = j
  /\ \A f \in Fields : \E i \in 1..4 : f = Keys[i]
  <1>1. Len(Keys) = 4
    BY DEF Keys
  <1>2. \A i, j \in 1..4 : Keys[i] = Keys[j] => i = j
    BY DEF Keys
  <1> QED
    BY <1>1, <1>2 DEF Fields

\* A configuration is determined by its four keys.
LEMMA SameConfig ==
  ASSUME NEW c \in Config, NEW d \in Config, \A i \in 1..4 : c[Keys[i]] = d[Keys[i]]
  PROVE  c = d
  <1>1. \A f \in Fields : c[f] = d[f]
    BY KeyFacts
  <1> QED
    BY <1>1 DEF Config

\* A line that is understood came through the buffer whole, and sets a field to
\* a value it may have.
LEMMA SetCommandsAreWhole ==
  ASSUME NEW typed \in SerialLines, IsSetCommand(Received(typed))
  PROVE  /\ Received(typed).field \in Fields
         /\ Received(typed).value \in Values
  <1>1. CASE typed.length <= kMaxBufferedBytes
    <2>1. Received(typed) = typed
      BY <1>1 DEF Received
    <2>2. typed.field \in Fields /\ typed.value \in Texts(typed.field)
      BY InputAssumption
    <2> QED
      BY <2>1, <2>2 DEF IsSetCommand, Texts
  <1>2. CASE ~(typed.length <= kMaxBufferedBytes)
    <2>1. Received(typed).length = kMaxBufferedBytes
      BY <1>2 DEF Received
    <2>2. kMaxBufferedBytes <= kMaxLineLength
      BY <2>1 DEF IsSetCommand, IsParsed
    <2> QED
      BY <2>2, BufferAssumption
  <1> QED
    BY <1>1, <1>2

\* A form that is accepted is a configuration.
LEMMA AcceptedFormsAreConfigs ==
  ASSUME NEW form \in Forms, WouldAccept(form)
  PROVE  form \in Config
  <1>1. /\ form \in [Fields -> Texts("jmri_port")]
        /\ \A f \in Fields : form[f] \in Texts(f)
    BY InputAssumption
  <1>2. \A f \in Fields : form[f] \in Values \cup {Empty}
    BY <1>1 DEF WouldAccept, Texts
  <1> QED
    BY <1>1, <1>2 DEF Config

-----------------------------------------------------------------------------
(* Types. *)

\* The type invariant of the boot modes, both front doors and flash.
THEOREM ConfigTypes == Spec => []TypeOK
  <1> USE KeyFacts
  <1>1. ASSUME Init
        PROVE  TypeOK
    <2>1. Unset \in Config /\ nvs \in Config
      BY <1>1, InputAssumption DEF Init, Unset, Config
    <2>2. /\ setupReq \in BOOLEAN /\ wasRequested \in BOOLEAN
          /\ torn \in BOOLEAN /\ wanted \in BOOLEAN /\ forgotten \in BOOLEAN
      BY <1>1, Zenon DEF Init
    <2> QED
      BY <1>1, <2>1, <2>2 DEF Init, TypeOK, NotSaving
  <1>2. ASSUME TypeOK, [Next]_vars
        PROVE  TypeOK'
    <2> USE <1>2 DEF TypeOK, flash, ram, history, counters
    <2>u. Unset \in Config
      BY DEF Unset, Config
    <2>b. ASSUME NEW new \in Config, BeginSave(new)
          PROVE  /\ saves' \in Nat /\ saving' \in 0..Len(Keys)
                 /\ chosen' \in Config /\ before' \in Config /\ torn' \in BOOLEAN
      <3>1. torn' \in BOOLEAN
        BY <2>b, Zenon DEF BeginSave
      <3> QED
        BY <2>b, <3>1 DEF BeginSave
    <2>1. CASE Boot
      <3>1. wasRequested' \in BOOLEAN
        BY <2>1, Zenon DEF Boot
      <3> QED
        BY <2>1, <3>1 DEF Boot
    <2>2. CASE SelectBootMode
      <3>1. mode' \in {"WirelessSetup", "NeedsCommissioning", "Normal"}
        BY <2>2 DEF SelectBootMode, SelectedMode
      <3>2. wanted' \in BOOLEAN /\ wasRequested' \in BOOLEAN
        BY <2>2, Zenon DEF SelectBootMode
      <3> QED
        BY <2>2, <3>1, <3>2 DEF SelectBootMode
    <2>3. CASE RequestSetupMode
      <3>1. setupReq' \in BOOLEAN /\ wanted' \in BOOLEAN /\ forgotten' \in BOOLEAN
        BY <2>3, Zenon DEF RequestSetupMode
      <3>2. requests' \in Nat
        BY <2>3 DEF RequestSetupMode
      <3> QED
        BY <2>3, <3>1, <3>2 DEF RequestSetupMode
    <2>4. CASE Restart
      BY <2>4, <2>u DEF Restart
    <2>5. CASE PutKey
      <3>1. nvs' \in Config
        BY <2>5 DEF PutKey, Config
      <3>2. saving' \in 0..Len(Keys)
        BY <2>5 DEF PutKey, NotSaving
      <3> QED
        BY <2>5, <3>1, <3>2 DEF PutKey
    <2>6. CASE SetField
      <3>1. PICK line \in {Received(typed) : typed \in SerialLines} :
              /\ IsSetCommand(line)
              /\ pending' = [pending EXCEPT ![line.field] = line.value]
              /\ entered' = entered \cup {line.field}
        BY <2>6, Zenon DEF SetField
      <3>2. line.field \in Fields /\ line.value \in Values
        BY <3>1, SetCommandsAreWhole
      <3>3. pending' \in Config /\ entered' \subseteq Fields
        BY <3>1, <3>2 DEF Config
      <3> QED
        BY <2>6, <3>3 DEF SetField
    <2>7. CASE Save
      BY <2>7, <2>b DEF Save
    <2>8. CASE Submit
      <3>1. PICK form \in Forms : WouldAccept(form) /\ BeginSave(form)
        BY <2>8 DEF Submit
      <3>2. form \in Config
        BY <3>1, AcceptedFormsAreConfigs
      <3> QED
        BY <2>8, <2>b, <3>1, <3>2 DEF Submit
    <2>9. CASE PowerLoss
      <3>1. torn' \in BOOLEAN /\ forgotten' \in BOOLEAN /\ wasRequested' \in BOOLEAN
        BY <2>9, Zenon DEF PowerLoss
      <3> QED
        BY <2>9, <2>u, <3>1 DEF PowerLoss, NotSaving
    <2>10. CASE PortThrows
      BY <2>10, <2>u DEF PortThrows
    <2>11. CASE Consume
      BY <2>11 DEF Consume
    <2>12. CASE UNCHANGED vars
      BY <2>12 DEF vars
    <2> QED
      BY <1>2, <2>1, <2>2, <2>3, <2>4, <2>5, <2>6, <2>7, <2>8, <2>9, <2>10, <2>11,
         <2>12
      DEF Next, Program, User
  <1> QED
    BY <1>1, <1>2, PTL DEF Spec

\* No part of a line that was too long for the buffer is ever pending, saved,
\* stored or run.
THEOREM NothingCutOff == Spec => []NothingIsCutOff
  <1>1. TypeOK => NothingIsCutOff
    BY ValueAssumption DEF TypeOK, Config, NothingIsCutOff
  <1> QED
    BY <1>1, ConfigTypes, PTL

-----------------------------------------------------------------------------
(* A request for setup mode. *)

\* Whoever waits for setup mode has a request in flash, or in the RAM of the
\* boot that has just cleared it there, or has been forgotten by a boot that lost
\* its power with it; and neither flash nor RAM holds one that nobody waits for.
RequestInv ==
  /\ wanted /\ ~forgotten => setupReq \/ (mode = "select" /\ wasRequested)
  /\ forgotten => wanted
  /\ setupReq => wanted /\ ~forgotten
  /\ mode = "consume" => wasRequested = setupReq
  /\ mode = "select" /\ wasRequested => wanted /\ ~forgotten
  /\ mode \in {"select", "WirelessSetup", "NeedsCommissioning", "Normal"} => ~setupReq

\* The steps keep the request and its wish together.
LEMMA RequestStep ==
  ASSUME TypeOK, RequestInv, [Next]_vars
  PROVE  RequestInv'
  <1> USE DEF RequestInv, flash, ram, history, counters
  <1>1. CASE Boot
    BY <1>1 DEF Boot
  <1>2. CASE Consume
    BY <1>2 DEF Consume
  <1>3. CASE SelectBootMode
    <2>1. CASE wasRequested
      <3>1. mode' = "WirelessSetup"
        BY <1>3, <2>1 DEF SelectBootMode, SelectedMode
      <3> QED
        BY <1>3, <2>1, <3>1 DEF SelectBootMode
    <2>2. CASE ~wasRequested
      <3>1. mode' \in {"NeedsCommissioning", "Normal"}
        BY <1>3, <2>2 DEF SelectBootMode, SelectedMode
      <3> QED
        BY <1>3, <2>2, <3>1 DEF SelectBootMode
    <2> QED
      BY <2>1, <2>2
  <1>4. CASE RequestSetupMode
    BY <1>4 DEF RequestSetupMode
  <1>5. CASE Restart
    BY <1>5 DEF Restart
  <1>6. CASE PutKey
    BY <1>6 DEF PutKey
  <1>7. CASE SetField
    BY <1>7 DEF SetField
  <1>8. CASE Save
    BY <1>8 DEF Save
  <1>9. CASE Submit
    BY <1>9 DEF Submit
  <1>10. CASE PowerLoss
    BY <1>10 DEF PowerLoss
  <1>11. CASE PortThrows
    BY <1>11 DEF PortThrows
  <1>12. CASE UNCHANGED vars
    BY <1>12 DEF vars
  <1> QED
    BY <1>1, <1>2, <1>3, <1>4, <1>5, <1>6, <1>7, <1>8, <1>9, <1>10, <1>11, <1>12
    DEF Next, Program, User

\* RequestInv holds in every state.
LEMMA RequestInvariant == Spec => []RequestInv
  <1>1. Init => RequestInv
    BY DEF Init, RequestInv
  <1>2. TypeOK /\ RequestInv /\ [Next]_vars => RequestInv'
    BY RequestStep
  <1> QED
    BY <1>1, <1>2, ConfigTypes, PTL DEF Spec

\* Through any number of restarts and power losses, a board runs in another mode
\* while somebody waits for setup mode exactly when the power went between
\* putBool(false) in consumeIfRequested() and the portal.
THEOREM RequestsHonoured == Spec => []RequestsAreHonoured
  <1>1. RequestInv => RequestsAreHonoured
    BY DEF RequestInv, RequestsAreHonoured
  <1> QED
    BY <1>1, RequestInvariant, PTL

\* The portal comes up only for somebody who waits for it: consumeIfRequested()
\* has cleared the request before selectBootMode() sees it, so no later boot, for
\* whatever reason, finds it again.
THEOREM SetupModeAskedFor == Spec => SetupModeIsAskedFor
  <1>1. ASSUME RequestInv, [Next]_vars, mode # "WirelessSetup",
               mode' = "WirelessSetup"
        PROVE  wanted
    <2> USE <1>1 DEF flash, ram, history, counters
    <2>1. CASE SelectBootMode
      <3>1. wasRequested
        BY <2>1 DEF SelectBootMode, SelectedMode
      <3> QED
        BY <2>1, <3>1 DEF SelectBootMode, RequestInv
    <2>2. CASE Boot \/ Consume \/ Restart \/ RequestSetupMode \/ PowerLoss \/ PortThrows
      BY <2>2 DEF Boot, Consume, Restart, RequestSetupMode, PowerLoss, PortThrows
    <2>3. CASE PutKey
      BY <2>3 DEF PutKey
    <2>4. CASE SetField \/ Save \/ Submit \/ UNCHANGED vars
      BY <2>4 DEF SetField, Save, Submit, vars
    <2> QED
      BY <2>1, <2>2, <2>3, <2>4 DEF Next, Program, User
  <1>2. RequestInv /\ [Next]_vars
          => [mode # "WirelessSetup" /\ mode' = "WirelessSetup" => wanted]_vars
    BY <1>1
  <1> QED
    BY <1>2, RequestInvariant, PTL DEF Spec, SetupModeIsAskedFor

-----------------------------------------------------------------------------
(* Flash, put by put. *)

\* The first n keys are those of the configuration that is saved, the others
\* those that were stored before.
Mixture(n) ==
  \A i \in 1..4 : nvs[Keys[i]] = IF i <= n THEN chosen[Keys[i]] ELSE before[Keys[i]]

\* How far the save has come; and what ran it: a save that is not torn has
\* come to its end before anything else happens.
FlashInv ==
  \E n \in 0..4 :
    /\ Mixture(n)
    /\ saving # NotSaving => n = saving - 1
    /\ saving = NotSaving /\ ~torn => n = 4

\* What setup() loaded is what is stored until the next restart, save on
\* the bench or power loss.
LoadedInv ==
  /\ saving # NotSaving => mode \in {"WirelessSetup", "NeedsCommissioning"}
  /\ mode \in {"consume", "select", "Normal"} => config = nvs

\* BeginSave starts from the stored configuration.
LEMMA FlashBegins ==
  ASSUME TypeOK, NEW new \in Config, BeginSave(new), UNCHANGED nvs
  PROVE  FlashInv'
  <1>1. nvs' = before' /\ saving' = 1
    BY DEF BeginSave
  <1>2. Mixture(0)'
    BY <1>1 DEF Mixture
  <1>3. saving' # NotSaving /\ 0 = saving' - 1 /\ 0 \in 0..4
    BY <1>1 DEF NotSaving
  <1> QED
    BY <1>2, <1>3 DEF FlashInv

\* One put takes the mixture one key further.
LEMMA FlashPut ==
  ASSUME TypeOK, FlashInv, PutKey
  PROVE  FlashInv'
  <1>1. saving \in 1..4 /\ Len(Keys) = 4
    BY KeyFacts DEF PutKey, TypeOK, NotSaving
  <1>2. Mixture(saving - 1)
    BY DEF FlashInv, PutKey
  <1>3. /\ nvs' = [nvs EXCEPT ![Keys[saving]] = chosen[Keys[saving]]]
        /\ saving' = IF saving = 4 THEN NotSaving ELSE saving + 1
        /\ UNCHANGED <<chosen, before, torn>>
    BY <1>1 DEF PutKey, history
  <1>4. \A i \in 1..4 :
          nvs'[Keys[i]] = IF i = saving THEN chosen[Keys[i]] ELSE nvs[Keys[i]]
    <2> SUFFICES ASSUME NEW i \in 1..4
                 PROVE  nvs'[Keys[i]]
                          = IF i = saving THEN chosen[Keys[i]] ELSE nvs[Keys[i]]
      OBVIOUS
    <2>1. nvs \in [Fields -> Values \cup {Empty}] /\ Keys[i] \in Fields
      BY KeyFacts DEF TypeOK, Config
    <2>2. i # saving => Keys[i] # Keys[saving]
      BY <1>1, KeyFacts
    <2> QED
      BY <1>3, <2>1, <2>2
  <1>5. PICK n \in 1..4 : n = saving
    BY <1>1
  <1>6. Mixture(n)'
    BY <1>1, <1>2, <1>3, <1>4, <1>5 DEF Mixture
  <1>7. /\ saving' # NotSaving => n = saving' - 1
        /\ saving' = NotSaving => n = 4
    BY <1>1, <1>3, <1>5 DEF NotSaving
  <1>8. n \in 0..4 /\ UNCHANGED torn
    BY <1>3, <1>5
  <1> QED
    BY <1>6, <1>7, <1>8, Zenon DEF FlashInv

\* Every step keeps flash a mixture, and what was loaded what is stored.
LEMMA FlashStep ==
  ASSUME TypeOK, TypeOK', FlashInv, LoadedInv, [Next]_vars
  PROVE  FlashInv' /\ LoadedInv'
  <1> USE DEF LoadedInv, flash, ram, history, counters
  \* Steps that leave flash and the save alone.
  <1>u. ASSUME UNCHANGED <<nvs, chosen, before, saving, torn>>
        PROVE  FlashInv'
    BY <1>u DEF FlashInv, Mixture
  <1>1. CASE Boot
    BY <1>1, <1>u DEF Boot
  <1>2. CASE SelectBootMode
    <2>1. FlashInv'
      BY <1>2, <1>u DEF SelectBootMode
    <2>2. mode = "select" /\ UNCHANGED <<saving, config, nvs>>
      BY <1>2 DEF SelectBootMode
    <2> QED
      BY <2>1, <2>2
  <1>3. CASE RequestSetupMode
    BY <1>3, <1>u DEF RequestSetupMode
  <1>4. CASE Restart
    BY <1>4, <1>u DEF Restart
  <1>5. CASE PutKey
    <2>1. FlashInv'
      BY <1>5, FlashPut
    <2>2. /\ mode \in {"WirelessSetup", "NeedsCommissioning"}
          /\ \/ mode' = mode
             \/ mode' = "restart" /\ saving' = NotSaving
      BY <1>5 DEF PutKey
    <2> QED
      BY <2>1, <2>2
  <1>6. CASE SetField
    BY <1>6, <1>u DEF SetField
  <1>7. CASE Save
    <2>1. pending \in Config /\ BeginSave(pending) /\ UNCHANGED <<nvs, mode, config>>
      BY <1>7 DEF Save, TypeOK
    <2>2. mode = "NeedsCommissioning"
      BY <1>7 DEF Save
    <2> QED
      BY <2>1, <2>2, FlashBegins
  <1>8. CASE Submit
    <2>1. PICK form \in Forms : WouldAccept(form) /\ BeginSave(form)
      BY <1>8 DEF Submit
    <2>2. /\ form \in Config /\ mode = "WirelessSetup"
          /\ UNCHANGED <<nvs, mode, config>>
      BY <1>8, <2>1, AcceptedFormsAreConfigs DEF Submit
    <2> QED
      BY <2>1, <2>2, FlashBegins
  <1>9. CASE PowerLoss
    <2>1. /\ UNCHANGED <<nvs, chosen, before>> /\ saving' = NotSaving
          /\ torn' = (torn \/ saving # NotSaving) /\ mode' = "boot"
      BY <1>9 DEF PowerLoss
    <2>2. PICK n \in 0..4 : /\ Mixture(n)
                            /\ saving = NotSaving /\ ~torn => n = 4
      BY DEF FlashInv
    <2>3. Mixture(n)' /\ (~torn' => n = 4)
      BY <2>1, <2>2 DEF Mixture
    <2> QED
      BY <2>1, <2>2, <2>3 DEF FlashInv
  <1>10. CASE PortThrows
    BY <1>10, <1>u DEF PortThrows
  <1>11. CASE Consume
    BY <1>11, <1>u DEF Consume
  <1>12. CASE UNCHANGED vars
    BY <1>12, <1>u DEF vars
  <1> QED
    BY <1>1, <1>2, <1>3, <1>4, <1>5, <1>6, <1>7, <1>8, <1>9, <1>10, <1>11, <1>12
    DEF Next, Program, User

\* FlashInv and LoadedInv hold in every state.
LEMMA FlashInvariant == Spec => [](FlashInv /\ LoadedInv)
  <1>1. Init => FlashInv /\ LoadedInv
    <2> SUFFICES ASSUME Init
                 PROVE  FlashInv /\ LoadedInv
      OBVIOUS
    <2>1. Mixture(4)
      BY DEF Init, Mixture
    <2> QED
      BY <2>1 DEF Init, FlashInv, LoadedInv
  <1>2. /\ TypeOK /\ TypeOK' /\ (FlashInv /\ LoadedInv) /\ [Next]_vars
        => (FlashInv /\ LoadedInv)'
    BY FlashStep
  <1> QED
    BY <1>1, <1>2, ConfigTypes, PTL DEF Spec

\* A save that came to its end stored the configuration it was given.
LEMMA WholeSave ==
  ASSUME TypeOK, FlashInv, saving = NotSaving, ~torn
  PROVE  nvs = chosen
  <1>1. Mixture(4)
    BY DEF FlashInv
  <1>2. \A i \in 1..4 : nvs[Keys[i]] = chosen[Keys[i]]
    BY <1>1 DEF Mixture
  <1> QED
    BY <1>2, SameConfig DEF TypeOK

\* Wherever the power goes during save(), flash holds the first keys of the new
\* configuration and the rest of the old one.
THEOREM SavesAreOrdered == Spec => []TornIsAPrefix
  <1>1. TypeOK /\ FlashInv => TornIsAPrefix
    <2> SUFFICES ASSUME TypeOK, FlashInv, saving = NotSaving
                 PROVE  \E n \in 0..Len(Keys) :
                          /\ \A i \in 1..Len(Keys) :
                               nvs[Keys[i]] = IF i <= n THEN chosen[Keys[i]]
                                              ELSE before[Keys[i]]
                          /\ ~torn => nvs = chosen
      BY DEF TornIsAPrefix
    <2>1. PICK n \in 0..4 : Mixture(n)
      BY DEF FlashInv
    <2>2. ~torn => nvs = chosen
      BY WholeSave
    <2> QED
      BY <2>1, <2>2, KeyFacts DEF Mixture
  <1> QED
    BY <1>1, ConfigTypes, FlashInvariant, PTL

\* Normal mode never runs a mixture unless the power went during the save.
THEOREM NormalRunsChosen == Spec => []NormalRunsAChosenConfig
  <1>1. TypeOK /\ FlashInv /\ LoadedInv => NormalRunsAChosenConfig
    <2> SUFFICES ASSUME TypeOK, FlashInv, LoadedInv, mode = "Normal", ~torn
                 PROVE  config = chosen
      BY DEF NormalRunsAChosenConfig
    <2>1. saving = NotSaving /\ config = nvs
      BY DEF LoadedInv
    <2> QED
      BY <2>1, WholeSave
  <1> QED
    BY <1>1, ConfigTypes, FlashInvariant, PTL
=============================================================================
