--------------------------- MODULE TurnoutBridge ---------------------------
(***************************************************************************)
(* The turnout bridge of Loco2MQTT in Normal boot mode: the part of loop()  *)
(* that talks to the layout.  One pass of the loop runs, in this order,     *)
(*                                                                          *)
(*   mqtt       PicoMqttPort::update            commands are queued         *)
(*   scheduler  PendingLocoNetSendScheduler     what is due is sent         *)
(*   router     LocoNetMessageRouter            bus messages are decoded    *)
(*   query      TurnoutTableStartupQuery        all turnouts are asked      *)
(*   commands   MqttCommandRouter               commands become SW_REQs     *)
(*                                                                          *)
(* over a WiFiClientLineStream that reconnects by itself from inside        *)
(* readLine and writeLine.  The rest of the world (the clock, the TCP link, *)
(* the command station behind JMRI, other throttles) moves at any point     *)
(* between two steps of the device.                                         *)
(*                                                                          *)
(* The clock is not reduced modulo 2^32 here; see SendScheduler for that.   *)
(***************************************************************************)
EXTENDS Integers, Sequences, FiniteSets

CONSTANTS
  kMinTurnoutAddress,   \* first address the startup query asks for
  kMaxTurnoutAddress,   \* last address the startup query asks for
  kQueryStaggerMs,      \* distance between two requests of one query
  kStableConnectionMs,  \* debounce of the startup query
  kOffPulseDelayMs,     \* from the on message of a command to its off message
  kReconnectIntervalMs, \* distance between two connection attempts
  kMaxPendingCommands,  \* capacity of PicoMqttPort's queue
  HighestAddress,       \* 2048 in the code: the last valid turnout address
  TurnoutCommands,      \* what MQTT clients may ask for
  MaxTime,              \* bound: the clock stops here
  MaxDrops,             \* bound: how often the link breaks
  MaxGlitches,          \* bound: false "not connected" readings
  MaxCommands,          \* bound: commands published by MQTT clients
  MaxThrottle,          \* bound: commands of other throttles
  MaxStrays             \* bound: acks to queries of other clients

Closed == "closed"
Thrown == "thrown"
Unknown == "unknown"
Positions == {Closed, Thrown}
Addresses == 1..HighestAddress

\* The number of turnouts one startup query asks for.
QuerySize == kMaxTurnoutAddress - kMinTurnoutAddress + 1

ASSUME AddressAssumption ==
  /\ kMinTurnoutAddress \in Nat \ {0}
  /\ kMaxTurnoutAddress \in Nat
  /\ HighestAddress \in Nat
  /\ kMinTurnoutAddress <= kMaxTurnoutAddress
  /\ kMaxTurnoutAddress <= HighestAddress

ASSUME TimerAssumption ==
  /\ kQueryStaggerMs \in Nat
  /\ kStableConnectionMs \in Nat
  /\ kOffPulseDelayMs \in Nat
  /\ kReconnectIntervalMs \in Nat

\* The requests of one query have all left the scheduler when the debounce of
\* the next one is over: 47 * 20 ms against 2000 ms in the code.  Nothing in
\* the code states it; the order of the acks rests on it.
ASSUME StaggerAssumption ==
  (QuerySize - 1) * kQueryStaggerMs <= kStableConnectionMs

ASSUME CommandAssumption ==
  /\ kMaxPendingCommands \in Nat \ {0}
  /\ TurnoutCommands \subseteq [address : Nat, position : Positions]

ASSUME BoundAssumption ==
  /\ MaxTime \in Nat
  /\ MaxDrops \in Nat
  /\ MaxGlitches \in Nat
  /\ MaxCommands \in Nat
  /\ MaxThrottle \in Nat
  /\ MaxStrays \in Nat

(***************************************************************************)
(* LocoNet messages.  "request" is a history number that is not on the      *)
(* wire: startup queries number their requests 1, 2, ... and an ack carries *)
(* the number of the request it answers.  0 stands for none.                *)
(***************************************************************************)
SwReq(address, position, on) ==
  [opcode |-> "SW_REQ", address |-> address, position |-> position,
   on |-> on, request |-> 0]

SwState(address, request) ==
  [opcode |-> "SW_STATE", address |-> address, position |-> Unknown,
   on |-> FALSE, request |-> request]

\* No address: OPC_LONG_ACK carries none.
LongAck(position, request) ==
  [opcode |-> "LONG_ACK", address |-> 0, position |-> position,
   on |-> FALSE, request |-> request]

\* What the device sends, and what of the bus traffic it looks at.  OtherThrottle
\* stands for OPC_SW_REQ and OPC_SW_REP alike: both decode the same way.
Outgoing ==
  [opcode : {"SW_REQ"}, address : Addresses, position : Positions,
   on : BOOLEAN, request : {0}]
  \cup [opcode : {"SW_STATE"}, address : Addresses, position : {Unknown},
        on : {FALSE}, request : Nat \ {0}]

Incoming ==
  [opcode : {"SW_REQ"}, address : Addresses, position : Positions,
   on : BOOLEAN, request : {0}]
  \cup [opcode : {"LONG_ACK"}, address : {0}, position : Positions,
        on : {FALSE}, request : Nat]

Entry == [message : Outgoing, dueAt : Nat]

NoTime == -1

VARIABLES
  pc,                    \* the handler of loop() that runs
  now,                   \* millis()
  \* PendingLocoNetSendScheduler
  pending,               \* pending_: what is to be sent, and when
  it,                    \* the iterator of update()
  tickNow,               \* the time update() read when it began
  \* TurnoutTableStartupQuery
  connectedSince,        \* connectedSinceMilliseconds_
  queriedThisConnection, \* queriedThisConnection_
  \* PendingTurnoutStateAcks
  pendingAddresses,      \* addresses whose ack is still expected
  \* TurnoutLocoNetDecoder
  lastKnownPosition,     \* what is also the last state published over MQTT
  \* PicoMqttPort
  pendingCommands,       \* set commands not yet drained
  \* WiFiClientLineStream
  link,                  \* the TCP connection exists
  lastConnectAttemptAt,  \* lastConnectAttemptAtMillis_
  fromStation,           \* received, not yet read
  toStation,             \* written, not yet processed by the command station
  \* the layout
  layout,                \* where each turnout really is
  energised,             \* the outputs that are on
  \* history: nothing the program can see
  asked,                 \* asked[n] is the address request number n asks for
  claimed,               \* expectations used up so far
  intact,                \* no frame was lost and no stray ack arrived yet
  linkQueried,           \* a query was made since this connection was opened
  overtaken,             \* turnouts others moved while a pulse was under way
  latest,                \* the valid command published last, if there was one
  \* how much of each bound is used
  drops, glitches, commands, throttled, strays

device   == <<pending, it, tickNow, connectedSince, queriedThisConnection,
              pendingAddresses, lastKnownPosition, pendingCommands>>
stream   == <<link, lastConnectAttemptAt, fromStation, toStation>>
railway  == <<layout, energised>>
history  == <<asked, claimed, intact, linkQueried, overtaken, latest>>
counters == <<drops, glitches, commands, throttled, strays>>
vars     == <<pc, now, device, stream, railway, history, counters>>

-----------------------------------------------------------------------------
(* Sequences. *)

Prefix(s, n) == [k \in 1..n |-> s[k]]

\* Mutant of Erase: the first entry goes, whichever was sent.
EraseFirst(s, i) == Tail(s)

\* std::vector::erase
Erase(s, i) == [k \in 1..(Len(s) - 1) |-> IF k < i THEN s[k] ELSE s[k + 1]]

-----------------------------------------------------------------------------
(* WiFiClientLineStream. *)

\* WiFiClient::connected() is never TRUE without a connection, and may once in
\* a while be FALSE with one.
ReadConnected(reading) ==
  /\ reading => link
  /\ glitches' = IF link /\ ~reading THEN glitches + 1 ELSE glitches
  /\ glitches' <= MaxGlitches

\* reconnectIfDue() past its guard: stop() throws away what was received.  The
\* station may still process some of what was written before; which part is
\* for the callers to say ("kept").
\* WiFi.status() is free, so an attempt that is due need not be made.
Reconnect(success) ==
  /\ ReadConnected(FALSE)
  /\ now - lastConnectAttemptAt >= kReconnectIntervalMs
  /\ lastConnectAttemptAt' = now
  /\ fromStation' = <<>>
  /\ link' = success
  /\ linkQueried' = FALSE

NoReconnect ==
  UNCHANGED <<link, lastConnectAttemptAt, fromStation, linkQueried>>

\* Stopping the client now, with that much of toStation kept, loses nothing.
NothingLost(kept) == fromStation = <<>> /\ kept = Len(toStation)

\* writeLine(): the message is written, silently dropped, written to a fresh
\* connection, or dropped because the fresh connection failed or reads as
\* not connected at once.
WriteLine(message) ==
  \/ /\ NoReconnect
     /\ ReadConnected(TRUE)
     /\ toStation' = Append(toStation, message)
     /\ UNCHANGED intact
  \/ /\ NoReconnect
     /\ ReadConnected(FALSE)
     /\ intact' = FALSE
     /\ UNCHANGED toStation
  \/ \E kept \in 0..Len(toStation) :
       /\ Reconnect(TRUE)
       /\ toStation' = Append(Prefix(toStation, kept), message)
       /\ intact' = (intact /\ NothingLost(kept))
  \/ \E success \in BOOLEAN, kept \in 0..Len(toStation) :
       /\ Reconnect(success)
       /\ toStation' = Prefix(toStation, kept)
       /\ intact' = FALSE

-----------------------------------------------------------------------------
Init ==
  /\ pc = "mqtt"
  /\ now = 0
  /\ pending = <<>>
  /\ it = 0
  /\ tickNow = 0
  /\ connectedSince = NoTime
  /\ queriedThisConnection = FALSE
  /\ pendingAddresses = <<>>
  /\ lastKnownPosition = [a \in Addresses |-> Unknown]
  /\ pendingCommands = <<>>
  /\ link = FALSE
  /\ lastConnectAttemptAt = 0
  /\ fromStation = <<>>
  /\ toStation = <<>>
  /\ layout \in [Addresses -> Positions]
  /\ energised = {}
  /\ asked = <<>>
  /\ claimed = 0
  /\ intact = TRUE
  /\ linkQueried = FALSE
  /\ overtaken = {}
  /\ latest = {}
  /\ drops = 0
  /\ glitches = 0
  /\ commands = 0
  /\ throttled = 0
  /\ strays = 0

-----------------------------------------------------------------------------
(* PicoMqttPort::update: the broker hands over any number of set commands.  *)
(* A full queue loses its oldest entry.                                     *)

\* Mutant of Queued: a full queue refuses the newest command.
QueuedUnlessFull(command) ==
  IF Len(pendingCommands) >= kMaxPendingCommands
  THEN pendingCommands ELSE Append(pendingCommands, command)

\* The callback of loconet/+/+/set.
Queued(command) ==
  Append(IF Len(pendingCommands) >= kMaxPendingCommands
         THEN Tail(pendingCommands) ELSE pendingCommands, command)

MqttReceive ==
  /\ pc = "mqtt"
  /\ commands < MaxCommands
  /\ \E command \in TurnoutCommands :
       /\ pendingCommands' = Queued(command)
       /\ latest' = IF command.address \in Addresses THEN {command} ELSE {}
  /\ commands' = commands + 1
  /\ UNCHANGED <<pc, now, pending, it, tickNow, connectedSince,
                 queriedThisConnection, pendingAddresses, lastKnownPosition,
                 stream, railway, asked, claimed, intact, linkQueried, overtaken,
                 drops, glitches, throttled, strays>>

MqttDone ==
  /\ pc = "mqtt"
  /\ pc' = "scheduler"
  /\ UNCHANGED <<now, device, stream, railway, history, counters>>

-----------------------------------------------------------------------------
(* PendingLocoNetSendScheduler::update, one vector entry at a time.  The    *)
(* clock is read once, before the loop; every send may reconnect.           *)

SchedulerBegin ==
  /\ pc = "scheduler"
  /\ pc' = "sending"
  /\ it' = 1
  /\ tickNow' = now
  /\ UNCHANGED <<now, pending, connectedSince, queriedThisConnection,
                 pendingAddresses, lastKnownPosition, pendingCommands,
                 stream, railway, history, counters>>

SchedulerSkip ==
  /\ pc = "sending"
  /\ it <= Len(pending)
  /\ pending[it].dueAt > tickNow
  /\ it' = it + 1
  /\ UNCHANGED <<pc, now, pending, tickNow, connectedSince,
                 queriedThisConnection, pendingAddresses, lastKnownPosition,
                 pendingCommands, stream, railway, history, counters>>

SchedulerSend ==
  /\ pc = "sending"
  /\ it <= Len(pending)
  /\ pending[it].dueAt <= tickNow
  /\ WriteLine(pending[it].message)
  /\ pending' = Erase(pending, it)
  /\ UNCHANGED <<pc, now, it, tickNow, connectedSince, queriedThisConnection,
                 pendingAddresses, lastKnownPosition, pendingCommands,
                 railway, asked, claimed, overtaken, latest, drops, commands,
                 throttled, strays>>

SchedulerDone ==
  /\ pc = "sending"
  /\ it > Len(pending)
  /\ pc' = "router"
  /\ it' = 0
  /\ tickNow' = 0
  /\ UNCHANGED <<now, pending, connectedSince, queriedThisConnection,
                 pendingAddresses, lastKnownPosition, pendingCommands,
                 stream, railway, history, counters>>

-----------------------------------------------------------------------------
(* LocoNetMessageRouter::update and TurnoutLocoNetDecoder, one message at a *)
(* time.  The periodic republish changes nothing kept here: it publishes    *)
(* lastKnownPosition once more.                                             *)

\* Mutant of EmitIfChanged: a position once known is never corrected.
EmitFirstOnly(address, position) ==
  lastKnownPosition' =
    IF lastKnownPosition[address] = Unknown
    THEN [lastKnownPosition EXCEPT ![address] = position]
    ELSE lastKnownPosition

\* emitIfChanged(): the map is set, and published when it changed.
EmitIfChanged(address, position) ==
  lastKnownPosition' = [lastKnownPosition EXCEPT ![address] = position]

\* decodeSwitchMessage(): on and off messages alike.
RouterSwitchMessage ==
  /\ pc = "router"
  /\ fromStation # <<>>
  /\ LET message == Head(fromStation) IN
       /\ message.opcode = "SW_REQ"
       /\ EmitIfChanged(message.address, message.position)
  /\ fromStation' = Tail(fromStation)
  /\ UNCHANGED <<pc, now, pending, it, tickNow, connectedSince,
                 queriedThisConnection, pendingAddresses, pendingCommands,
                 link, lastConnectAttemptAt, toStation, railway, history,
                 counters>>

\* Mutant of RouterStateAck: the newest expectation is claimed, not the oldest.
RouterStateAckNewest ==
  /\ pc = "router"
  /\ fromStation # <<>>
  /\ LET message == Head(fromStation) IN
       /\ message.opcode = "LONG_ACK"
       /\ IF pendingAddresses = <<>>
          THEN UNCHANGED <<pendingAddresses, lastKnownPosition, claimed>>
          ELSE /\ pendingAddresses' = Prefix(pendingAddresses, Len(pendingAddresses) - 1)
               /\ claimed' = claimed + 1
               /\ EmitIfChanged(pendingAddresses[Len(pendingAddresses)], message.position)
  /\ fromStation' = Tail(fromStation)
  /\ UNCHANGED <<pc, now, pending, it, tickNow, connectedSince,
                 queriedThisConnection, pendingCommands, link,
                 lastConnectAttemptAt, toStation, railway, asked, intact,
                 linkQueried, overtaken, latest, counters>>

\* decodeStateAck(): the first expected address is claimed, if there is one.
RouterStateAck ==
  /\ pc = "router"
  /\ fromStation # <<>>
  /\ LET message == Head(fromStation) IN
       /\ message.opcode = "LONG_ACK"
       /\ IF pendingAddresses = <<>>
          THEN UNCHANGED <<pendingAddresses, lastKnownPosition, claimed>>
          ELSE /\ pendingAddresses' = Tail(pendingAddresses)
               /\ claimed' = claimed + 1
               /\ EmitIfChanged(Head(pendingAddresses), message.position)
  /\ fromStation' = Tail(fromStation)
  /\ UNCHANGED <<pc, now, pending, it, tickNow, connectedSince,
                 queriedThisConnection, pendingCommands, link,
                 lastConnectAttemptAt, toStation, railway, asked, intact,
                 linkQueried, overtaken, latest, counters>>

\* readLine() reconnects before it reads.
RouterReconnect ==
  /\ pc = "router"
  /\ \E success \in BOOLEAN, kept \in 0..Len(toStation) :
       /\ Reconnect(success)
       /\ toStation' = Prefix(toStation, kept)
       /\ intact' = (intact /\ NothingLost(kept))
  /\ UNCHANGED <<pc, now, device, railway, asked, claimed, overtaken, latest,
                 drops, commands, throttled, strays>>

RouterDone ==
  /\ pc = "router"
  /\ fromStation = <<>>
  /\ pc' = "query"
  /\ UNCHANGED <<now, device, stream, railway, history, counters>>

-----------------------------------------------------------------------------
(* TurnoutTableStartupQuery::update. *)

\* Mutant of QueryReset: the start of the debounce is not reset.
QueryResetKeepsTime ==
  /\ pc = "query"
  /\ ReadConnected(FALSE)
  /\ UNCHANGED connectedSince
  /\ queriedThisConnection' = FALSE
  /\ pc' = "commands"
  /\ UNCHANGED <<now, pending, it, tickNow, pendingAddresses,
                 lastKnownPosition, pendingCommands, stream, railway, history,
                 drops, commands, throttled, strays>>

\* resetForNextConnection()
QueryReset ==
  /\ pc = "query"
  /\ ReadConnected(FALSE)
  /\ connectedSince' = NoTime
  /\ queriedThisConnection' = FALSE
  /\ pc' = "commands"
  /\ UNCHANGED <<now, pending, it, tickNow, pendingAddresses,
                 lastKnownPosition, pendingCommands, stream, railway, history,
                 drops, commands, throttled, strays>>

\* connectedSinceMilliseconds_ once readyToQuery() has set it.
ConnectedSinceSet == IF connectedSince = NoTime THEN now ELSE connectedSince

\* Mutant of ReadyToQuery: no debounce.
ReadyAtOnce == ~queriedThisConnection

ReadyToQuery ==
  /\ ~queriedThisConnection
  /\ now - ConnectedSinceSet >= kStableConnectionMs

QueryWait ==
  /\ pc = "query"
  /\ ReadConnected(TRUE)
  /\ ~ReadyToQuery
  /\ connectedSince' = ConnectedSinceSet
  /\ pc' = "commands"
  /\ UNCHANGED <<now, pending, it, tickNow, queriedThisConnection,
                 pendingAddresses, lastKnownPosition, pendingCommands, stream,
                 railway, history, drops, commands, throttled, strays>>

\* The addresses one query asks for, in order.
QueryAddresses == [i \in 1..QuerySize |-> kMinTurnoutAddress + i - 1]

\* What one query hands to the scheduler.
QueryBatch ==
  [i \in 1..QuerySize |->
     [message |-> SwState(QueryAddresses[i], Len(asked) + i),
      dueAt |-> now + (i - 1) * kQueryStaggerMs]]

\* Mutant of QueryAllTurnouts: the query is not remembered.
QueryAgainAndAgain ==
  /\ pc = "query"
  /\ ReadConnected(TRUE)
  /\ ReadyToQuery
  /\ connectedSince' = ConnectedSinceSet
  /\ UNCHANGED queriedThisConnection
  /\ pendingAddresses' = pendingAddresses \o QueryAddresses
  /\ pending' = pending \o QueryBatch
  /\ asked' = asked \o QueryAddresses
  /\ linkQueried' = TRUE
  /\ pc' = "commands"
  /\ UNCHANGED <<now, it, tickNow, lastKnownPosition, pendingCommands, stream,
                 railway, claimed, intact, overtaken, latest, drops, commands,
                 throttled, strays>>

\* Mutant of QueryAllTurnouts: no ack is expected.
QueryWithoutExpecting ==
  /\ pc = "query"
  /\ ReadConnected(TRUE)
  /\ ReadyToQuery
  /\ connectedSince' = ConnectedSinceSet
  /\ queriedThisConnection' = TRUE
  /\ UNCHANGED pendingAddresses
  /\ pending' = pending \o QueryBatch
  /\ asked' = asked \o QueryAddresses
  /\ linkQueried' = TRUE
  /\ pc' = "commands"
  /\ UNCHANGED <<now, it, tickNow, lastKnownPosition, pendingCommands, stream,
                 railway, claimed, intact, overtaken, latest, drops, commands,
                 throttled, strays>>

\* queryAllTurnouts(): every ack is expected at once, the requests trickle.
QueryAllTurnouts ==
  /\ pc = "query"
  /\ ReadConnected(TRUE)
  /\ ReadyToQuery
  /\ connectedSince' = ConnectedSinceSet
  /\ queriedThisConnection' = TRUE
  /\ pendingAddresses' = pendingAddresses \o QueryAddresses
  /\ pending' = pending \o QueryBatch
  /\ asked' = asked \o QueryAddresses
  /\ linkQueried' = TRUE
  /\ pc' = "commands"
  /\ UNCHANGED <<now, it, tickNow, lastKnownPosition, pendingCommands, stream,
                 railway, claimed, intact, overtaken, latest, drops, commands,
                 throttled, strays>>

-----------------------------------------------------------------------------
(* MqttCommandRouter::update and TurnoutLocoNetEncoder, one command at a    *)
(* time: on now, off kOffPulseDelayMs later.                                *)

CommandRejected ==
  /\ pc = "commands"
  /\ pendingCommands # <<>>
  /\ Head(pendingCommands).address \notin Addresses
  /\ pendingCommands' = Tail(pendingCommands)
  /\ UNCHANGED <<pc, now, pending, it, tickNow, connectedSince,
                 queriedThisConnection, pendingAddresses, lastKnownPosition,
                 stream, railway, history, counters>>

\* Mutant of CommandAccepted: addresses are not checked.
CommandUnchecked ==
  /\ pc = "commands"
  /\ pendingCommands # <<>>
  /\ LET command == Head(pendingCommands) IN
       /\ WriteLine(SwReq(command.address, command.position, TRUE))
       /\ pending' =
            Append(pending,
                   [message |-> SwReq(command.address, command.position, FALSE),
                    dueAt |-> now + kOffPulseDelayMs])
  /\ pendingCommands' = Tail(pendingCommands)
  /\ UNCHANGED <<pc, now, it, tickNow, connectedSince, queriedThisConnection,
                 pendingAddresses, lastKnownPosition, railway, asked,
                 claimed, overtaken, latest, drops, commands, throttled,
                 strays>>

CommandAccepted ==
  /\ pc = "commands"
  /\ pendingCommands # <<>>
  /\ LET command == Head(pendingCommands) IN
       /\ command.address \in Addresses
       /\ WriteLine(SwReq(command.address, command.position, TRUE))
       /\ pending' =
            Append(pending,
                   [message |-> SwReq(command.address, command.position, FALSE),
                    dueAt |-> now + kOffPulseDelayMs])
  /\ pendingCommands' = Tail(pendingCommands)
  /\ UNCHANGED <<pc, now, it, tickNow, connectedSince, queriedThisConnection,
                 pendingAddresses, lastKnownPosition, railway, asked,
                 claimed, overtaken, latest, drops, commands, throttled,
                 strays>>

CommandsDone ==
  /\ pc = "commands"
  /\ pendingCommands = <<>>
  /\ pc' = "mqtt"
  /\ UNCHANGED <<now, device, stream, railway, history, counters>>

-----------------------------------------------------------------------------
(* The world outside the device. *)

Tick ==
  /\ now < MaxTime
  /\ now' = now + 1
  /\ UNCHANGED <<pc, device, stream, railway, history, counters>>

\* The connection breaks: the ends of both directions are lost.
LinkBreaks ==
  /\ link
  /\ drops < MaxDrops
  /\ drops' = drops + 1
  /\ link' = FALSE
  /\ \E received \in 0..Len(fromStation), kept \in 0..Len(toStation) :
       /\ fromStation' = Prefix(fromStation, received)
       /\ toStation' = Prefix(toStation, kept)
       /\ intact' = (intact /\ received = Len(fromStation)
                            /\ kept = Len(toStation))
  /\ UNCHANGED <<pc, now, device, lastConnectAttemptAt, railway, asked,
                 claimed, linkQueried, overtaken, latest, glitches, commands,
                 throttled, strays>>

\* What JMRI sends to its client, if it has one.
SentToDevice(message) ==
  fromStation' = IF link THEN Append(fromStation, message) ELSE fromStation

\* The station answers the requests one at a time and in order.
StationAnswers ==
  /\ toStation # <<>>
  /\ LET message == Head(toStation) IN
       /\ message.opcode = "SW_STATE"
       /\ SentToDevice(LongAck(layout[message.address], message.request))
  /\ toStation' = Tail(toStation)
  /\ intact' = (intact /\ link)
  /\ UNCHANGED <<pc, now, device, link, lastConnectAttemptAt, railway, asked,
                 claimed, linkQueried, overtaken, latest, counters>>

\* It carries out a command, and JMRI echoes it as bus traffic.
StationSwitches ==
  /\ toStation # <<>>
  /\ LET message == Head(toStation)
         output == <<message.address, message.position>> IN
       /\ message.opcode = "SW_REQ"
       /\ IF message.on
          THEN /\ layout' = [layout EXCEPT ![message.address] = message.position]
               /\ energised' = energised \cup {output}
          ELSE /\ energised' = energised \ {output}
               /\ UNCHANGED layout
       /\ SentToDevice(message)
  /\ toStation' = Tail(toStation)
  /\ intact' = (intact /\ link)
  /\ UNCHANGED <<pc, now, device, link, lastConnectAttemptAt, asked, claimed,
                 linkQueried, overtaken, latest, counters>>

\* The off message of a command for this turnout has not reached the station.
IsOffFor(message, address) ==
  message.opcode = "SW_REQ" /\ ~message.on /\ message.address = address

PulseUnderWay(address) ==
  \/ \E k \in 1..Len(pending) : IsOffFor(pending[k].message, address)
  \/ \E k \in 1..Len(toStation) : IsOffFor(toStation[k], address)

\* Another throttle moves a turnout, seen by the device if it is connected.
OtherThrottle ==
  /\ throttled < MaxThrottle
  /\ throttled' = throttled + 1
  /\ \E address \in Addresses, position \in Positions :
       /\ layout' = [layout EXCEPT ![address] = position]
       /\ SentToDevice(SwReq(address, position, TRUE))
       /\ overtaken' = IF PulseUnderWay(address)
                       THEN overtaken \cup {address} ELSE overtaken
  /\ UNCHANGED <<pc, now, device, link, lastConnectAttemptAt, toStation,
                 energised, asked, claimed, intact, linkQueried, latest, drops,
                 glitches, commands, strays>>

\* The ack to some other client's state query.
StrayAck ==
  /\ link
  /\ strays < MaxStrays
  /\ strays' = strays + 1
  /\ \E position \in Positions : SentToDevice(LongAck(position, 0))
  /\ intact' = FALSE
  /\ UNCHANGED <<pc, now, device, link, lastConnectAttemptAt, toStation,
                 railway, asked, claimed, linkQueried, overtaken, latest, drops,
                 glitches, commands, throttled>>

-----------------------------------------------------------------------------
Scheduler == SchedulerBegin \/ SchedulerSkip \/ SchedulerSend \/ SchedulerDone
Router == RouterSwitchMessage \/ RouterStateAck \/ RouterReconnect \/ RouterDone
Query == QueryReset \/ QueryWait \/ QueryAllTurnouts
CommandRouter == CommandRejected \/ CommandAccepted \/ CommandsDone
Loop == MqttReceive \/ MqttDone \/ Scheduler \/ Router \/ Query \/ CommandRouter
Station == StationAnswers \/ StationSwitches
World == Tick \/ LinkBreaks \/ Station \/ OtherThrottle \/ StrayAck

Next == Loop \/ World

Spec == Init /\ [][Next]_vars

-----------------------------------------------------------------------------
(* What the device may rely on: the loop keeps running, time passes and the *)
(* command station works off what it is sent.  Nothing is assumed of the    *)
(* link, of the other clients or of WiFi.                                   *)

Fairness == WF_vars(Loop) /\ WF_vars(Tick) /\ WF_vars(Station)

FairSpec == Spec /\ Fairness

-----------------------------------------------------------------------------
(* Types. *)

TypeOK ==
  /\ pc \in {"mqtt", "scheduler", "sending", "router", "query", "commands"}
  /\ now \in Nat
  /\ pending \in Seq(Entry)
  /\ it \in Nat
  /\ pc = "sending" => it # 0
  /\ tickNow \in Nat
  /\ connectedSince \in Nat \cup {NoTime}
  /\ queriedThisConnection \in BOOLEAN
  /\ pendingAddresses \in Seq(Addresses)
  /\ lastKnownPosition \in [Addresses -> Positions \cup {Unknown}]
  /\ pendingCommands \in Seq(TurnoutCommands)
  /\ link \in BOOLEAN
  /\ lastConnectAttemptAt \in Nat
  /\ fromStation \in Seq(Incoming)
  /\ toStation \in Seq(Outgoing)
  /\ layout \in [Addresses -> Positions]
  /\ energised \subseteq Addresses \X Positions
  /\ asked \in Seq(Addresses)
  /\ claimed \in Nat
  /\ intact \in BOOLEAN
  /\ linkQueried \in BOOLEAN
  /\ overtaken \subseteq Addresses
  /\ latest \subseteq TurnoutCommands
  /\ drops \in Nat
  /\ glitches \in Nat
  /\ commands \in Nat
  /\ throttled \in Nat
  /\ strays \in Nat

-----------------------------------------------------------------------------
(* The life of a numbered request: pending, then toStation, then an ack in  *)
(* fromStation.                                                             *)

PendingNumber(k) == pending[k].message.request
SentNumber(k) == toStation[k].request
AckNumber(k) == fromStation[k].request

\* Requests leave in the order in which their acks are expected, and the acks
\* come back in that order, whatever is lost on the way: no query overtakes an
\* earlier one in the scheduler, and no dropped frame reorders the others.
RequestsInOrder ==
  /\ \A i, j \in 1..Len(pending) :
       i < j /\ PendingNumber(i) # 0 /\ PendingNumber(j) # 0
         => PendingNumber(i) < PendingNumber(j)
  /\ \A i, j \in 1..Len(toStation) :
       i < j /\ SentNumber(i) # 0 /\ SentNumber(j) # 0
         => SentNumber(i) < SentNumber(j)
  /\ \A i, j \in 1..Len(fromStation) :
       i < j /\ AckNumber(i) # 0 /\ AckNumber(j) # 0
         => AckNumber(i) < AckNumber(j)
  /\ \A i \in 1..Len(toStation), j \in 1..Len(pending) :
       SentNumber(i) # 0 /\ PendingNumber(j) # 0
         => SentNumber(i) < PendingNumber(j)
  /\ \A i \in 1..Len(fromStation), j \in 1..Len(toStation) :
       AckNumber(i) # 0 /\ SentNumber(j) # 0 => AckNumber(i) < SentNumber(j)
  /\ \A i \in 1..Len(fromStation), j \in 1..Len(pending) :
       AckNumber(i) # 0 /\ PendingNumber(j) # 0
         => AckNumber(i) < PendingNumber(j)

\* A request carries the address it was numbered for.
RequestsNameTheirAddress ==
  /\ \A k \in 1..Len(pending) : PendingNumber(k) # 0
       => /\ PendingNumber(k) <= Len(asked)
          /\ pending[k].message.address = asked[PendingNumber(k)]
  /\ \A k \in 1..Len(toStation) : SentNumber(k) # 0
       => /\ SentNumber(k) <= Len(asked)
          /\ toStation[k].address = asked[SentNumber(k)]
  /\ \A k \in 1..Len(fromStation) : AckNumber(k) <= Len(asked)

\* The scheduler holds requests in the order in which they become due, and what
\* update() has passed over is not due in this pass.
RequestsDueInOrder ==
  /\ \A i, j \in 1..Len(pending) :
       i < j /\ PendingNumber(i) # 0 /\ PendingNumber(j) # 0
         => pending[i].dueAt <= pending[j].dueAt
  /\ pc = "sending" =>
       \A k \in 1..Len(pending) : k < it => pending[k].dueAt > tickNow

\* No request is due later than the debounce that is still to be waited out
\* before the next query.
RequestsDueBeforeNextQuery ==
  \A k \in 1..Len(pending) : PendingNumber(k) # 0
    => /\ pending[k].dueAt <= now + kStableConnectionMs
       /\ ~queriedThisConnection /\ connectedSince # NoTime
            => pending[k].dueAt <= connectedSince + kStableConnectionMs

\* PendingTurnoutStateAcks holds the addresses of the numbers not yet claimed.
ExpectationsAreNumbered ==
  /\ Len(pendingAddresses) + claimed = Len(asked)
  /\ \A i \in 1..Len(pendingAddresses) : pendingAddresses[i] = asked[claimed + i]

InFlight(n) ==
  \/ \E k \in 1..Len(pending) : PendingNumber(k) = n
  \/ \E k \in 1..Len(toStation) : SentNumber(k) = n
  \/ \E k \in 1..Len(fromStation) : AckNumber(k) = n

\* While nothing is lost, exactly the unclaimed numbers are under way, and every
\* ack answers one of them.
NothingIsMissing ==
  intact =>
    /\ \A n \in (claimed + 1)..Len(asked) : InFlight(n)
    /\ \A k \in 1..Len(pending) : PendingNumber(k) # 0 => PendingNumber(k) > claimed
    /\ \A k \in 1..Len(toStation) : SentNumber(k) # 0 => SentNumber(k) > claimed
    /\ \A k \in 1..Len(fromStation) :
         fromStation[k].opcode = "LONG_ACK" => AckNumber(k) > claimed

\* The first ack in line answers a request for the address that
\* PendingTurnoutStateAcks will credit it to.
NextAckMatches ==
  fromStation # <<>> /\ AckNumber(1) # 0
    => /\ pendingAddresses # <<>>
       /\ Head(pendingAddresses) = asked[AckNumber(1)]

\* As long as no frame was lost and no other client asked for states, every
\* OPC_LONG_ACK is credited to the turnout it is about, through every
\* interleaving of queries, commands and bus traffic.
AcksAreCredited == intact => NextAckMatches

\* The inductive invariant behind RequestsInOrder and AcksAreCredited.
OrderInv ==
  /\ RequestsInOrder
  /\ RequestsNameTheirAddress
  /\ RequestsDueInOrder
  /\ RequestsDueBeforeNextQuery

CreditInv == ExpectationsAreNumbered /\ NothingIsMissing

\* An output that is on has its off message still to come: scheduled, or on
\* its way to the station.
ReleaseIsComing ==
  intact =>
    \A output \in energised :
      \/ \E k \in 1..Len(pending) :
           pending[k].message = SwReq(output[1], output[2], FALSE)
      \/ \E k \in 1..Len(toStation) :
           toStation[k] = SwReq(output[1], output[2], FALSE)

\* Nothing is under way in either direction.
Quiet == pending = <<>> /\ toStation = <<>> /\ fromStation = <<>>

\* Once this connection was queried and everything has settled, what was
\* published is where the turnouts are, although others moved them while the
\* device was not connected.  The exception is a turnout somebody moved during
\* a pulse of ours.
QueryResyncs ==
  intact /\ link /\ linkQueried /\ Quiet
    => \A a \in (kMinTurnoutAddress..kMaxTurnoutAddress) \ overtaken :
         lastKnownPosition[a] = layout[a]

\* However many commands a full queue dropped, the one published last moves its
\* turnout, and what the clients are told in the end is that position: nothing
\* queued, sent or echoed earlier comes after it.
LatestCommandIsCarriedOut ==
  intact /\ throttled = 0 /\ Quiet /\ pendingCommands = <<>>
    => \A command \in latest :
         /\ layout[command.address] = command.position
         /\ lastKnownPosition[command.address] = command.position

\* A connection is queried once, as long as connected() tells the truth.
OneQueryPerConnection ==
  [][QueryAllTurnouts /\ glitches' = 0 => ~linkQueried]_vars

\* Every request is answered and credited, however it interleaves with other
\* traffic, unless something is lost; requests that would be due only after
\* the end of the modelled time are left out.
EveryRequestIsCredited ==
  \A n \in 1..(QuerySize * 2) :
    (n <= Len(asked) /\ now + (QuerySize - 1) * kQueryStaggerMs <= MaxTime)
      ~> (claimed >= n \/ ~intact)

-----------------------------------------------------------------------------
(* What the code's comments and documents say, without the provisos above.  *)

\* README: "the firmware tracks request order to match each ack back to the
\* turnout it was for"; TurnoutTableStartupQuery.h knows of stray acks within one
\* query only.  So when the link broke and everything was asked for anew, the acks
\* of the new query are credited to the turnouts they are about.
LaterQueriesMatch ==
  fromStation # <<>> /\ AckNumber(1) > QuerySize => NextAckMatches
=============================================================================
