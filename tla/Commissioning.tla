---------------------------- MODULE Commissioning ----------------------------
(***************************************************************************)
(* How a board gets its configuration: the boot mode main.cpp selects, the  *)
(* two front doors (bench serial and the captive portal's form), and what   *)
(* NvsConfigStore and NvsSetupModeRequestStore keep in flash.  The power    *)
(* may go at any moment; flash keeps each key that was put, and a save puts *)
(* four of them.                                                            *)
(*                                                                          *)
(* A member of Values stands for any text or port the front doors accept.   *)
(* They also get lines longer than the buffers on their way, ports that are *)
(* none, and ports with more digits than std::stoul takes: it throws, and   *)
(* nothing catches what it throws, which restarts the board.                *)
(***************************************************************************)
EXTENDS Naturals, Sequences, FiniteSets

CONSTANTS
  Values,         \* what a field may be set to
  Empty,          \* an unset field: "" or, for the port, 0
  CutOff,         \* what the buffer kept of a value that was too long
  NotAPort,       \* a port that is not a number from 1 to 65535
  HugePort,       \* digits that do not fit into 32 bits
  kMaxBufferedBytes, kMaxLineLength,
  SerialLines,    \* set lines a technician may type: [field, value, length]
  Forms,          \* forms a browser may submit
  MaxSaves,       \* bound: how often a configuration is saved
  MaxPowerLosses, \* bound: how often the power goes
  MaxRequests     \* bound: how often setup mode is asked for

\* The keys, in the order save() puts them.
Keys == <<"ssid", "password", "jmri_host", "jmri_port">>
Fields == {Keys[i] : i \in 1..Len(Keys)}
Config == [Fields -> Values \cup {Empty}]

ASSUME ValueAssumption ==
  /\ {Empty, CutOff, NotAPort, HugePort} \cap Values = {}
  /\ CutOff # Empty

\* What may stand where a field's value is expected.
Texts(field) ==
  Values \cup {Empty} \cup IF field = "jmri_port" THEN {NotAPort, HugePort} ELSE {}

ASSUME InputAssumption ==
  /\ \A line \in SerialLines :
       /\ line.field \in Fields
       /\ line.value \in Texts(line.field)
       /\ line.length \in Nat
  /\ \A form \in Forms :
       /\ form \in [Fields -> Texts("jmri_port")]
       /\ \A f \in Fields : form[f] \in Texts(f)

\* EspUartPort.h leaves it to SerialCommissioningAdapter to reject what its
\* buffer cut off.
ASSUME BufferAssumption ==
  /\ kMaxBufferedBytes \in Nat
  /\ kMaxLineLength \in Nat
  /\ kMaxLineLength < kMaxBufferedBytes

ASSUME BoundAssumption ==
  /\ MaxSaves \in Nat
  /\ MaxPowerLosses \in Nat
  /\ MaxRequests \in Nat

Unset == [f \in Fields |-> Empty]

\* LocoNetAdapterConfig::isComplete
IsComplete(config) == \A f \in Fields : config[f] # Empty

-----------------------------------------------------------------------------
(* What the front doors make of their input. *)

\* EspUartPort::readLine, through LineAssembler: the end of a long line is gone.
Received(line) ==
  IF line.length <= kMaxBufferedBytes THEN line
  ELSE [field |-> line.field, value |-> CutOff, length |-> kMaxBufferedBytes]

\* Mutant of IsParsed: the buffer's limit is taken for the command's.
IsParsedWhenReceived(line) == line.length <= kMaxBufferedBytes

\* SerialCommissioningAdapter::parseLine
IsParsed(line) == line.length <= kMaxLineLength

\* parseCommandLine: a set command with a value; everything else is unknown.
IsSetCommand(line) == IsParsed(line) /\ line.value \notin {Empty, NotAPort, HugePort}

\* parseNetworkPort throws.
PortOverflows(line) ==
  IsParsed(line) /\ line.field = "jmri_port" /\ line.value = HugePort

\* WebFormCommissioningAdapter::wouldAccept
WouldAccept(form) ==
  form["jmri_port"] \notin {NotAPort, HugePort} /\ IsComplete(form)

-----------------------------------------------------------------------------
NotSaving == 0

VARIABLES
  mode,        \* what runs
  nvs,         \* the namespace's configuration keys
  setupReq,    \* its setup_req key
  config,      \* what setup() loaded
  pending,     \* CommissioningSession's pending_
  saving,      \* the key save() puts next, or NotSaving
  wasRequested, \* what consumeIfRequested() read and will return
  \* history: nothing the program can see
  entered,     \* the fields set since the session began
  before,      \* the stored configuration when the save began
  chosen,      \* the configuration the last save was given
  torn,        \* power went during that save
  wanted,      \* setup mode was asked for and has not come up since
  forgotten,   \* and the power went when flash no longer knew it
  saves, powerLosses, requests

flash == <<nvs, setupReq>>
ram == <<config, pending, saving, wasRequested>>
history == <<entered, before, chosen, torn, wanted, forgotten>>
counters == <<saves, powerLosses, requests>>
vars == <<mode, flash, ram, history, counters>>

Init ==
  /\ mode = "boot"
  /\ nvs \in {Unset} \cup {form \in Forms : form \in Config}
  /\ setupReq = FALSE
  /\ config = Unset
  /\ pending = Unset
  /\ saving = NotSaving
  /\ wasRequested = FALSE
  /\ entered = {}
  /\ before = nvs
  /\ chosen = nvs
  /\ torn = FALSE
  /\ wanted = FALSE
  /\ forgotten = FALSE
  /\ saves = 0
  /\ powerLosses = 0
  /\ requests = 0

-----------------------------------------------------------------------------
(* setup(): selectBootMode(load(), consumeIfRequested()).  The request is    *)
(* cleared in flash before anything is made of it.                          *)

\* load() reads the configuration, getBool() the request.  C++ leaves the order
\* of the two arguments open; they concern different keys.
Boot ==
  /\ mode = "boot"
  /\ mode' = "consume"
  /\ config' = nvs
  /\ wasRequested' = setupReq
  /\ UNCHANGED <<flash, pending, saving, history, counters>>

\* Mutant of Consume: the request is read but not cleared.
ConsumeWithoutClearing ==
  /\ mode = "consume"
  /\ mode' = "select"
  /\ UNCHANGED <<flash, ram, history, counters>>

\* consumeIfRequested() puts FALSE and returns.
Consume ==
  /\ mode = "consume"
  /\ mode' = "select"
  /\ setupReq' = FALSE
  /\ UNCHANGED <<nvs, ram, history, counters>>

\* Mutant of SelectedMode: an incomplete configuration goes before a request.
SelectedUnlessIncomplete(stored, requested) ==
  CASE ~IsComplete(stored) -> "NeedsCommissioning"
    [] IsComplete(stored) /\ requested -> "WirelessSetup"
    [] OTHER -> "Normal"

\* selectBootMode()
SelectedMode(stored, requested) ==
  CASE requested -> "WirelessSetup"
    [] ~requested /\ ~IsComplete(stored) -> "NeedsCommissioning"
    [] OTHER -> "Normal"

\* It returns, and the mode it selects comes up: the captive portal, or the
\* serial session, or the bridge.
SelectBootMode ==
  /\ mode = "select"
  /\ mode' = SelectedMode(config, wasRequested)
  /\ wanted' = (wanted /\ mode' # "WirelessSetup")
  /\ wasRequested' = FALSE
  /\ UNCHANGED <<flash, config, pending, saving, entered, before, chosen, torn,
                 forgotten, counters>>

-----------------------------------------------------------------------------
(* The button, in both modes that watch it (SetupButton): request(), then   *)
(* ESP.restart().                                                           *)

RequestSetupMode ==
  /\ mode \in {"NeedsCommissioning", "Normal"}
  /\ saving = NotSaving
  /\ requests < MaxRequests
  /\ requests' = requests + 1
  /\ setupReq' = TRUE
  /\ wanted' = TRUE
  /\ forgotten' = FALSE
  /\ mode' = "restart"
  /\ UNCHANGED <<nvs, ram, entered, before, chosen, torn, saves, powerLosses>>

\* ESP.restart(), by the button or after a form was saved: RAM is lost.
Restart ==
  /\ mode = "restart"
  /\ mode' = "boot"
  /\ config' = Unset
  /\ pending' = Unset
  /\ entered' = {}
  /\ UNCHANGED <<flash, saving, wasRequested, before, chosen, torn, wanted,
                 forgotten, counters>>

-----------------------------------------------------------------------------
(* NvsConfigStore::save: one put after the other. *)

BeginSave(newConfig) ==
  /\ saves < MaxSaves
  /\ saves' = saves + 1
  /\ saving' = 1
  /\ chosen' = newConfig
  /\ before' = nvs
  /\ torn' = FALSE

\* Mutant of PutKey: the last key is forgotten.
PutAllButThePort ==
  /\ saving # NotSaving
  /\ nvs' = IF saving = Len(Keys) THEN nvs
            ELSE [nvs EXCEPT ![Keys[saving]] = chosen[Keys[saving]]]
  /\ saving' = IF saving = Len(Keys) THEN NotSaving ELSE saving + 1
  /\ mode' = IF saving = Len(Keys) /\ mode = "WirelessSetup" THEN "restart" ELSE mode
  /\ UNCHANGED <<setupReq, config, pending, wasRequested, history, counters>>

\* The captive portal reboots when the last key is put; the serial session
\* goes on.
PutKey ==
  /\ saving # NotSaving
  /\ nvs' = [nvs EXCEPT ![Keys[saving]] = chosen[Keys[saving]]]
  /\ saving' = IF saving = Len(Keys) THEN NotSaving ELSE saving + 1
  /\ mode' = IF saving = Len(Keys) /\ mode = "WirelessSetup" THEN "restart" ELSE mode
  /\ UNCHANGED <<setupReq, config, pending, wasRequested, history, counters>>

-----------------------------------------------------------------------------
(* CommissioningSession::apply *)

SetField ==
  /\ mode = "NeedsCommissioning"
  /\ saving = NotSaving
  /\ \E line \in {Received(typed) : typed \in SerialLines} :
       /\ IsSetCommand(line)
       /\ pending' = [pending EXCEPT ![line.field] = line.value]
       /\ entered' = entered \cup {line.field}
  /\ UNCHANGED <<mode, flash, config, saving, wasRequested, before, chosen, torn,
                 wanted, forgotten, counters>>

Save ==
  /\ mode = "NeedsCommissioning"
  /\ saving = NotSaving
  /\ BeginSave(pending)
  /\ UNCHANGED <<mode, flash, config, pending, wasRequested, entered, wanted,
                 forgotten, powerLosses, requests>>

-----------------------------------------------------------------------------
(* CaptivePortalServer::handleSubmit; a form that is not accepted is        *)
(* answered and changes nothing.                                            *)

\* Mutant of Submit: any configuration is saved.
SubmitAnything ==
  /\ mode = "WirelessSetup"
  /\ saving = NotSaving
  /\ \E form \in Forms : form \in Config /\ BeginSave(form)
  /\ UNCHANGED <<mode, flash, config, pending, wasRequested, entered, wanted,
                 forgotten, powerLosses, requests>>

Submit ==
  /\ mode = "WirelessSetup"
  /\ saving = NotSaving
  /\ \E form \in Forms :
       /\ WouldAccept(form)
       /\ BeginSave(form)
  /\ UNCHANGED <<mode, flash, config, pending, wasRequested, entered, wanted,
                 forgotten, powerLosses, requests>>

-----------------------------------------------------------------------------
(* std::out_of_range, in either front door: the board starts over, and      *)
(* neither answers.                                                         *)

PortThrows ==
  /\ saving = NotSaving
  /\ \/ /\ mode = "NeedsCommissioning"
        /\ \E typed \in SerialLines : PortOverflows(Received(typed))
     \/ /\ mode = "WirelessSetup"
        /\ \E form \in Forms : form["jmri_port"] = HugePort
  /\ mode' = "boot"
  /\ config' = Unset
  /\ pending' = Unset
  /\ entered' = {}
  /\ UNCHANGED <<flash, saving, wasRequested, before, chosen, torn, wanted,
                 forgotten, counters>>

-----------------------------------------------------------------------------
(* The power goes and comes back: RAM is lost. *)

PowerLoss ==
  /\ powerLosses < MaxPowerLosses
  /\ powerLosses' = powerLosses + 1
  /\ mode' = "boot"
  /\ config' = Unset
  /\ pending' = Unset
  /\ saving' = NotSaving
  /\ wasRequested' = FALSE
  /\ entered' = {}
  /\ torn' = (torn \/ saving # NotSaving)
  /\ forgotten' = (forgotten \/ (mode = "select" /\ wasRequested))
  /\ UNCHANGED <<flash, before, chosen, wanted, saves, requests>>

Program == Boot \/ Consume \/ SelectBootMode \/ Restart \/ PutKey
User == RequestSetupMode \/ SetField \/ Save \/ Submit \/ PortThrows

Next == Program \/ User \/ PowerLoss

Spec == Init /\ [][Next]_vars

\* The program runs on; nobody has to press, type or submit anything.
FairSpec == Spec /\ WF_vars(Program)

-----------------------------------------------------------------------------
TypeOK ==
  /\ mode \in {"boot", "consume", "select", "WirelessSetup",
               "NeedsCommissioning", "Normal", "restart"}
  /\ nvs \in Config
  /\ setupReq \in BOOLEAN
  /\ config \in Config
  /\ pending \in Config
  /\ saving \in 0..Len(Keys)
  /\ wasRequested \in BOOLEAN
  /\ entered \subseteq Fields
  /\ before \in Config
  /\ chosen \in Config
  /\ torn \in BOOLEAN
  /\ wanted \in BOOLEAN
  /\ forgotten \in BOOLEAN
  /\ saves \in Nat
  /\ powerLosses \in Nat
  /\ requests \in Nat

\* A board in normal mode runs a configuration somebody chose, as a whole,
\* unless the power went while that one was being saved.
NormalRunsAChosenConfig ==
  mode = "Normal" /\ ~torn => config = chosen

\* And then it is a complete mixture: each field is the one that was stored or
\* the one that was being saved, and those that were put come first.
TornIsAPrefix ==
  saving = NotSaving =>
    \E n \in 0..Len(Keys) :
      /\ \A i \in 1..Len(Keys) :
           nvs[Keys[i]] = IF i <= n THEN chosen[Keys[i]] ELSE before[Keys[i]]
      /\ ~torn => nvs = chosen

\* A request for setup mode survives restarts and power losses, with one
\* exception: consumeIfRequested() clears it in flash before the portal is up, and
\* when the power goes in between, the next boot knows nothing of it.  Then, and
\* only then, does a board run in another mode while somebody waits for this one.
RequestsAreHonoured ==
  mode \in {"NeedsCommissioning", "Normal"} => (wanted <=> forgotten)

\* Nor is a request honoured twice: the portal comes up only for somebody who
\* still waits for it, however the board was restarted after it came up before.
SetupModeIsAskedFor ==
  [][mode # "WirelessSetup" /\ mode' = "WirelessSetup" => wanted]_vars

\* What was too long for a buffer on its way is refused as a whole: no part of it
\* is ever shown, saved or run, although the buffer's limit is not the one that
\* is checked.
NothingIsCutOff ==
  \A f \in Fields : CutOff \notin {pending[f], chosen[f], nvs[f], config[f]}

\* A form that was accepted ends in normal mode with that configuration,
\* without anybody's help, unless the power goes.
FormsEndInNormalMode ==
  \A form \in Forms :
    (mode = "WirelessSetup" /\ saving # NotSaving /\ chosen = form)
      ~> (mode = "Normal" /\ config = form) \/ powerLosses > 0

\* README: a board commissioned before the JMRI fields existed "needs a one-time
\* trip through either path above to add them".  A session that has set them
\* then saves a complete configuration, if what was stored had the rest.
SavingAddsFields ==
  [][Save /\ {f \in Fields : nvs[f] = Empty} \subseteq entered
       => IsComplete(pending)]_vars
=============================================================================
