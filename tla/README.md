# Loco2MQTT in TLA+

Loco2MQTT is firmware for an ESP32 that mirrors the turnouts of a model
railway to MQTT and carries out MQTT commands on the LocoNet bus, for the time
being over a TCP connection to JMRI. These modules model its control: the
cooperative `loop()`, the timers, the connection that heals itself from inside
reads and writes, and what survives a power loss. The firmware has no threads;
what makes it hard is that the clock, the TCP link, the command station, other
throttles, MQTT clients, a technician's finger and the power supply all act
between any two of its steps.

Paths below are relative to `src/lib/Loco2MqttCore/src/` unless they start with
`src/`.

## Inventory

| Component | State it keeps | Operations | Correct when |
|---|---|---|---|
| `TurnoutTableStartupQuery`, `PendingTurnoutStateAcks` | start of the debounce, `queriedThisConnection_`, FIFO of addresses | `update`, `expect`, `claimNext` | every connection is queried once; every `OPC_LONG_ACK` is credited to the turnout it is about |
| `PendingLocoNetSendScheduler` | vector of (message, due time) | `sendNow`, `sendAfter`, `update` | nothing early, nothing lost, no overtaking |
| `LocoNetMessageRouter`, `TurnoutLocoNetDecoder` | last known positions, time of the last republication | `update`, `decode`, `allKnownStates` | clients hold what the bus reported last; late ones are told before long |
| `MqttCommandRouter`, `TurnoutLocoNetEncoder`, `PicoMqttPort` | queue of at most 32 commands | `receiveCommand`, `update`, `encode` | a valid command is one on and one off message; the output is released; the newest command is carried out |
| `WiFiClientLineStream` | socket, time of the last attempt, partial line | `readLine`, `writeLine`, `isConnected` | reconnects every 5 s at most; a line is whole |
| `LocoNetOverTcpPort`, `LocoNetOverTcpCodec`, `LineAssembler` | partial line | `receive`, `send`, `feed` | the router sees the messages of a connection, in order, and nothing else |
| `JmriConnectionStatusPublisher` | last known status, time of the last publication | `update` | clients know the status of the link |
| `ButtonSetupModeTrigger` | hold and release times | `update` | a request means one long hold |
| boot mode, `CommissioningSession`, `WebFormCommissioningAdapter`, the parsers, the NVS stores | flash keys, pending configuration | `setup`, `apply`, `handleSubmission`, `request`, `consumeIfRequested` | normal mode runs a configuration somebody chose; a request is honoured once, or lost only with the power of the boot that clears it; nothing cut off is stored |
| `EspWifiPort`, `EspMdnsPort`, latches of `loop()` | retry times, `mqttBegun`, `mdnsBegun` | `update`, `begin` | an outage ends in bounded time; broker and mDNS come up |
| `ActivityLed`, `FlashingMessageLog`, `LocoNetMessageLogger` | lit or not, since when | `flash`, `update`, `record` | the LED shows every message for its window |
| `LocoNetEsp32Port`, renderers | | | see "Not modelled" |

How they interact (`src/src/main.cpp`, `loop()`): one pass calls, in this
order, the LED, the button, WiFi, the broker, the scheduler, the router, the
status publisher, the startup query and the command router. The query and the
commands fill the scheduler; the scheduler writes to the line stream; the router
reads from it, takes expected addresses from `PendingTurnoutStateAcks` and
publishes. Reads and writes alike may replace the connection, and nobody is told:
`TurnoutTableStartupQuery` and `JmriConnectionStatusPublisher` poll
`isConnected()`, which is known to be FALSE now and then on a healthy socket
(`application/TurnoutTableStartupQuery.h:23-35`). A button request is written to flash and
the board restarts; the next `setup()` consumes it.

The hazards of this code are listed with their lines in `PROJECT.json`.

## Modules

| Module | Models | Composes |
|---|---|---|
| `TurnoutBridge` | one pass of `loop()` from the broker to the command router over the line stream, with the layout around it | scheduler, router, decoder, query, acks, command path, stream |
| `MCTurnoutBridge` | TLC's command sets | `TurnoutBridge` |
| `TurnoutBridgeProofs` | inductive invariants and theorems | `TurnoutBridge` |
| `DelayedSends` | what a `LocoNetSendScheduler` promises | |
| `SendScheduler` | `PendingLocoNetSendScheduler` with the clock modulo its range | implements `DelayedSends` |
| `SendSchedulerProofs` | the refinement, for every value of the constants | `SendScheduler` |
| `StatePublication`, `StatePublicationProofs` | change detection, publication and republication to a client that comes and goes | |
| `JmriStatus`, `JmriStatusProofs` | `JmriConnectionStatusPublisher` | |
| `SetupButton`, `SetupButtonProofs` | `ButtonSetupModeTrigger` and a bouncing contact | |
| `Commissioning`, `MCCommissioning`, `CommissioningProofs` | boot modes, both front doors and their parsers, flash and the power | |
| `SwitchFrames` | the bytes of switch messages and the text of a command, as operators | |
| `FrameChannel` | what line stream, assembler and codec together promise the router | |
| `LineTransport`, `MCLineTransport` | `WiFiClientLineStream`, `LineAssembler`, `LocoNetOverTcpCodec` and `LocoNetOverTcpPort`, token by token | `SwitchFrames`; implements `FrameChannel` |
| `LineTransportProofs` | the encoders and the decoder for every turnout, the inductive invariant of the lines, the safety part of the refinement | `LineTransport` |
| `LoopHead`, `LoopHeadProofs` | the first half of a pass in normal mode: LED, WiFi, the two latches; and the LED's messages | |

### Correspondence

`PROJECT.json` maps each definition to its lines. Names follow the source
(`pendingAddresses` is `pendingAddresses_`). In particular:

- `TurnoutBridge`: `pc` is the handler of `loop()` that runs; `pending`, `it`
  and `tickNow` are the vector, the iterator and the local `now` of
  `PendingLocoNetSendScheduler::update`. The scheduler sends one entry per
  action, the router reads one message per action and the command router
  drains one command per action, so the world moves between them, as it does
  whenever TCP is involved. `WriteLine` has one disjunct for each way a write ends: written,
  dropped, written to a fresh connection, dropped although an attempt was made.
  `fromStation` and `toStation` are the two directions of the connection; a
  break keeps a prefix of each. `intact` is history: no frame was lost and
  no stray ack arrived; so is `latest`, the valid command clients published last.
- Requests carry a history number that is not on the wire. The n-th address ever
  put into `PendingTurnoutStateAcks` has number n (`asked[n]`), and the n-th
  expectation claimed is number n (`claimed`), so "credited to the right
  turnout" can be stated although acks carry no address.
- `JmriStatus` makes a step of each reading of `isConnected()`, because the code
  reads it once to decide and once more for every payload.
- `SetupButton` separates the contact (`Press`, `Release`) from the poll. A
  request ends the behaviour: `main.cpp` restarts the board.
- `Commissioning` puts one key per step. A boot has three steps, and the power may
  go before each: `Boot` reads the configuration and the request, `Consume` is
  `putBool(false)` in `consumeIfRequested`, which is persisted there and then, and with
  `SelectBootMode` the mode `selectBootMode` chose comes up. Between the
  last two only RAM (`wasRequested`) knows of the request. `wanted` and `forgotten` are history:
  somebody waits for setup mode; and the power went in that window. A line has a
  field, a kind of value and a length: `Received` is what `EspUartPort` hands on,
  `IsParsed` the check in `SerialCommissioningAdapter`. `PortThrows` is
  `std::stoul` on digits beyond 32 bits, which nothing catches.
- `LineTransport`: `wire` is what the server sent and the device has not read,
  `buffer` is `LineAssembler::buffer_`. `pc` is "reading" inside the while of `readLine`,
  where bytes may arrive between two `feed` calls. The recursion of
  `LocoNetOverTcpPort::receive` is one more round of `ReadLine`. An LF
  carries `means`, which is history and not on the wire: what the line it ends was
  sent for. The refinement mapping takes what the LFs on the wire mean, without the
  lines that mean nothing to the router, for `FrameChannel`'s queue: an entry leaves it with
  the LF that ends its line, and what the device made of the bytes has to agree. A command's line means what
  the MQTT client asked for, so encoder, codec, server, assembler and decoder
  all stand between the two sides.
- `SwitchFrames` writes masks and shifts as `%` and `\div`, and the checksum as
  the parity of each bit.
- `LoopHead`: `pc` is the statement of `loop()` that comes next. The driver's
  `association` is `WiFi.status()`; it changes between any two statements. The ages
  are history and saturate, so that time itself needs no bound.

### Abstractions

- A message is its opcode, address, position and on bit. `OtherThrottle` stands
  for `OPC_SW_REQ` and `OPC_SW_REP`, which are decoded alike. Frames that are
  too short, sensor reports and acks to other opcodes change no state there;
  `SwitchFrames` has their bytes.
- In `TurnoutBridge` lines arrive whole; `LineTransport` shows that this is what
  the router may assume. There the text is cut into words, bytes of two digits, half
  bytes, CR and LF, and the limit of the assembler falls between two of them. The
  server answers at once; `TurnoutBridge` has the delays.
- `LimitAssumption` in `LineTransport` is not idle: if the assembler had no room for
  more than one data line, a message whose LF was lost with its connection would
  swallow the next connection's greeting and count as whole. The
  firmware has room for 256 bytes, and a line takes 20.
- `TrafficAssumption` and `NumeralAssumption` in `LineTransport` say what lines mean: bus
  traffic means what the decoder makes of its bytes when nothing has come between, and
  the opcodes it looks at belong to messages of four bytes at most; a command asks for
  the turnout its topic names.
- `LoopHead` assumes that an association takes less than the retry interval
  (`TimerAssumption`); `EspWifiPort` would otherwise abort each one by the next.
- A handler reads the clock once where the code may read it twice within one
  handler (`readyToQuery`, `republishAllKnownStatesIfDue`); `queryAllTurnouts`
  computes its due times from one reading, as if the 48 calls took no time.
- `TurnoutBridge` counts time without bound; `SendScheduler`, `StatePublication`
  and `SetupButton` count modulo the range of `millis()`.
- WiFi is part of the link: `Reconnect` need not be taken when it is due, which
  is `WiFi.status() != WL_CONNECTED`.
- Values of configuration fields are set or empty, with two different set values.

## Runs

All bounds are CONSTANTS with a comment at their declaration.

| Run | Asks | Bounds, and why they are enough |
|---|---|---|
| `BridgeAcks` | do requests and acks keep their order, are acks credited to the right turnout, does a query resynchronise, is a connection queried once | two turnouts (order shows with two), 5 ms with a 1 ms debounce and stagger and a 2 ms reconnect interval: two queries and a reconnect between them; one break, one false reading, one foreign command, one stray ack |
| `BridgeTraffic` | types; is every output released; does the newest command win; is every request answered and credited | two turnouts, one of them commanded, and an invalid address; two commands against a queue of one, so that one is dropped; no break. Requests due after the clock stops are left out of the liveness property |
| `SendScheduler` | does the vector and its iterator implement `DelayedSends`; are passes complete | three messages of two kinds with delays 0, 1 and 3: equal due times, inversions and an entry behind an erased one |
| `StatePublication` | is a late client told, and told the truth | two turnouts, an interval of two ticks, a clock that turns over every four; no bound on the time |
| `JmriStatus` | are changes published; is a client told in time | an interval of 3, 9 ms (three intervals), three false readings |
| `SetupButton` | does a request mean one full hold; is none missed | a hold of 4, a settle time of 2, polls at most 2 apart, `millis()` turning over in the middle of the run |
| `Commissioning` | what is in flash after power losses and ports that throw; is a request honoured, and once; is nothing cut off stored; does a form end in normal mode | three saves, two power losses, two requests, so that one can be lost and made again, every field with two values; lines up to the command's limit, up to the buffer's and beyond |
| `LineTransport` | is a line that reaches its end taken for what it was sent for; are switch messages handed over as by a queue | three connections, so that what two cut ones left meets a third; two messages or commands; a limit of 7 tokens, the least that works; addresses on both sides of the boundary between the two address bytes and, from a command, the last one, a line that is too long, one without a valid checksum, one with another opcode |
| `LoopHead` | is every message seen; does an outage end; do broker and mDNS come up | a window of 2, an interval of 3, a clock that turns over every 7 and passes of at most 1: timers older than a turn; no bound on the time |

`CHECK_DEADLOCK FALSE` is set for `Commissioning`: once the bounds on
saves, requests and power losses are used up, a board in normal mode waits for
nobody, and so does a portal nobody submits a form to.

Every property has a mutant: a definition next to the one it would replace, with
a bug somebody could have made there, under which TLC finds the property
violated. They are named in a comment that starts with "Mutant of".

### Disagreements with the documents

Three more runs each check what a comment or a document says and the code does
not do. `PROJECT.json` quotes the lines.

| Run | Counterexample |
|---|---|
| `BridgeAcksClaim` | the link breaks while a query is being answered; `resetForNextConnection` leaves the expectations of the lost requests, and the acks of the second query, on the next connection, are credited to the wrong turnouts. The reconnect interval (4) is longer than debounce and query together (1 + 1), as in the firmware (5000 against 2000 + 940), and the property is about the second query only |
| `SendSchedulerClaim` | `millis()` turns over between the on and the off message; the off message is sent at once |
| `CommissioningClaim` | adding the JMRI fields over the serial line erases the WiFi credentials |

The provisos of the other properties name what the code does not promise either:

- `QueryResyncs` leaves out a turnout that somebody moves during a pulse of
  ours: `decodeSwitchMessage` takes the echo of our off message for a report of
  the old position, and nothing corrects it.
- `QueryResyncs` has the premise that the query was made on this connection: a
  link that breaks and is restored between two polls of
  `TurnoutTableStartupQuery::update` is taken for the one already queried.
- `RequestsAreHonoured` has an exception, and says that it is the only one:
  `consumeIfRequested` clears the request in flash before the portal is up. When
  the power goes in between, the next boot runs normal mode or waits for commissioning,
  although somebody who held the button still waits for setup mode. The window is short, and
  holding the button again is the way out; `src/README.md:215-219` does not mention it.
- `LatestCommandIsCarriedOut` speaks of the newest command only: a full queue drops
  an older one, also when it is for another turnout.
- `MdnsIsRetried` and `OutagesEnd` allow one retry interval and four passes: the
  code compares ages modulo the turn of the clock, and an attempt that is just a
  full turn old looks like a fresh one.
- `ReleaseIsComing` holds while no frame was lost: an off message that becomes
  due while the link is down is dropped by `writeLine`, after the scheduler has
  erased it, and the output stays on.
- `ChangesArePublished` allows one republish interval of a wrong status after a
  link broke between the two readings of one `update()`.
- `RequestsAreHeld` allows one poll less than the hold: the button is timed
  from poll to poll, so a pass that is held up (`WiFiClient::connect` blocks)
  may measure a shorter press as a full hold.

## Fairness

- `BridgeTraffic`: `loop()` runs on, time passes and the command station works
  off what it is sent (`turnout/PendingTurnoutStateAcks.h:8-14` states that it
  answers one request at a time, in order). Nothing is assumed of the link, of
  WiFi or of other clients.
- `SendScheduler`: `loop()` runs on; the fairness of `DelayedSends` follows.
- `StatePublication`: `loop()` runs on and time passes. Clients and the bus
  need not do anything. Bus messages per millisecond are bounded, as they are on
  a 16.66 kbps bus; without that `LocoNetMessageRouter::update` need never return.
- `LineTransport`: `loop()` comes back to the router for ever. The server need not
  send, and connections may break at any time; what was sent on one that lasts is handed over.
- `LoopHead` states no fairness: its bounds on time are safety properties, of a
  clock that cannot run on while a pass or an association takes longer than it may.
- `Commissioning`: the program runs on. Nobody has to press or submit.

Arduino calls `loop()` for ever and no handler waits for another, which is what
the weak fairness of `Loop` says.

## Proofs

`tlapm` checks the following for every value of the constants that satisfies the
named assumptions.

- `TurnoutBridgeProofs`
  - `TypeCorrect`: `Spec => []TypeOK`.
  - `OrderCorrect`: `Spec => []RequestsInOrder`. Not inductive by itself. A
    request number may overtake another in three places, so `OrderInv`
    adds: requests carry the address they were numbered for; the scheduler
    holds requests by due time, and what the iterator has passed over is not due
    in this pass; and no request is due later than the end of the debounce the
    next query still has to wait out. The last part is where `StaggerAssumption`,
    (QuerySize - 1) * kQueryStaggerMs <= kStableConnectionMs, is used. The firmware meets it with
    47 * 20 against 2000, and nothing in the code says that it must. `OrderInvariant` states the whole of it.
  - `CreditCorrect`: `Spec => []AcksAreCredited`. From `OrderInv` and
    `CreditInv` (`CreditInvariant`): the FIFO holds exactly the addresses of the numbers not yet claimed,
    and while nothing was lost exactly those numbers are under way. The first ack in
    line then carries the least number under way, which is the next one
    claimed.
  - `OneQueryCorrect`: `Spec => OneQueryPerConnection`, from the invariant that
    a connection that was queried is remembered as long as no reading was false.
  - `ReleaseCorrect`: `Spec => []ReleaseIsComing`. Only off messages wait in the
    scheduler, and (`ReleaseInv`) every on message on the wire, like every output that
    is on, has its off message behind it, on the wire or in the scheduler, as long as
    nothing was cut off.
  - `ResyncCorrect`: `Spec => []QueryResyncs`, and `LatestCommandCorrect`:
    `Spec => []LatestCommandIsCarriedOut`, both from `Whereabouts` (`WhereaboutsCorrect`).
    What the properties say of a quiet system, `Whereabouts` says of a busy one, by looking at
    the last message in each queue that matters to a turnout: `Drained(queue, S, x, p)` means that when
    `queue` has been worked off, the messages in `S` leave p, which is x when there are none.
    `PulseInv`: the last on message for a turnout and the last off message agree, unless
    somebody moved it during a pulse; for that, off messages wait in the order in which
    they become due (`OffsDueInOrder`). `SyncInv`: on a connection that was queried, a turnout for which
    neither a request nor a pulse is under way will be heard to be where it is.
    `CommandInv`: the command published last is the last in the
    queue, or its turnout goes where it says and will be heard to be there.
- `SendSchedulerProofs`: `SchedulerImplements` is `Spec => DS!Safety` and
  `CompletePasses` is `Spec => PassesAreComplete`, both as long as no due time lies
  beyond the turn of the clock (`ClockDoesNotTurn`). The invariant: entries are
  numbered in the order they are kept, the time compared is the time meant, and
  what the iterator has passed over is not due in this pass. From it, the
  entry `Send` sends overtakes none that is due no later.
- `JmriStatusProofs`: `StatusCorrect` and `NeverSilent`. `StatusInvariant` says for
  each step of `update()` what a payload that differs from the remembered value
  implies: the pass that published it was disturbed, and when.
- `CommissioningProofs`: `RequestsHonoured` and `SetupModeAskedFor`, both from
  `RequestInv`: whoever waits for setup mode has a request in flash, or in the RAM of
  the boot that has cleared it there, or has been forgotten by a boot that lost its power in
  between; and no request is anywhere that nobody waits for. `SavesAreOrdered` and
  `NormalRunsChosen`. Their invariant `FlashInv` says how many keys of the new
  configuration lie over the old one at every put; `LoadedInv`, that normal mode
  runs what is stored. `NothingCutOff` follows from the types, and these from
  `BufferAssumption`, kMaxLineLength < kMaxBufferedBytes: 128 against 256, in two
  classes that do not know each other.
- `LineTransportProofs`
  - `CommandsReadBack`, the decoder reads from an encoded
    command the address and position it was made from, for all 2048 addresses; and
    `RequestsNameOneTurnout`, no two turnouts have the same state request. Both rest on
    `AddressBytes`: low and high part of an address determine it.
  - `TypesCorrect` and `LinesCorrect`: `Spec => []LinesKeepTheirMeaning`, which is
    inductive together with `TypeOK`. It says of the one sequence
    `buffer \o wire` that each stretch the assembler will hold when an LF comes is
    taken for what that LF means, and that a full assembler holds nothing the decoder
    would take for a message. Both halves are needed: tokens beyond the limit are
    dropped one by one, and each drop has to leave the line what it was. The steps are
    lemmas of their own: whole messages (`SoundReceive`) are appended (`SoundConcat`),
    a greeting is appended behind the part of a line an earlier connection left
    (`SoundWord`), a cut keeps a first part and perhaps half a byte (`SoundPrefix`,
    `SoundHalf`), a token is moved or dropped (`FeedMoves`, `SoundDrop`), a line is
    taken out (`SoundRest`). `LimitAssumption` is used in `SoundReceive`: a message
    of four bytes fits with a token to spare, so that an assembler that is full never
    holds just a message; a longer message that is cut at the limit has an opcode
    the decoder does not look at (`PartOfMessage`).
  - `TransportKeepsFrames`: `Spec => Channel!Safety`, the refinement of
    `FrameChannel` without its fairness. `TakenForWhatItMeans` is the step that
    matters: what `FinishLine` hands over is the head of the abstract queue.
  - `Without` is recursive, as a function. What it does is proved by induction all
    the same: `LeastNatural`, from the library's well-foundedness of < on the
    naturals, gives `GrowingSequences`, that a set of sequences that has the empty one and
    is closed under `Append` has all of them. `WithoutConcat` and the others follow.

- `StatePublicationProofs`: `ToldTheTruth` and `LateSubscribersTold`. `TruthInv`: what the
  decoder remembers is what the bus reported last, and so is what a subscriber
  was told. `TimerInv`: the republication timer is never older than the interval and
  one pass, so the turn of the clock cannot hide that it has run out.
  `MissingInv`: a turnout a subscriber was not told about has not been published since.
- `SetupButtonProofs`: `TypeCorrect`, `RequestsHeld`, `PressesNotAddedUp` and
  `HoldsNotMissed`. The trigger keeps its times modulo the range of the clock.
  `ClosedSeenAt` and `OpenSeenAt` recover the moments the polls saw; that this is
  possible rests on `ClockAssumption`: less than one turn of the clock between
  `StartTime` and `MaxTime`. `LongHoldInv` is the part about a hold that has lasted long enough.
- `LoopHeadProofs`: `MessagesSeen`, `MdnsRetried`, `OutagesAreOver` and `BrokerServed`.
  Each timer is looked at once in every pass, so how far it can be overdue
  depends on whether the pass has come by it yet (`Unseen`). A timer one whole turn
  of the clock old would look new; the bounds exclude it.
  `TimerAssumption` says that an association takes less than kRetryIntervalMs:
  nothing in the code says so, and a slower one is started over for ever.

The assumptions on constants are stated with the constants and evaluated by TLC
in every run.

Only model-checked: liveness (`EveryRequestIsCredited`, `SubscribersAreToldInTheEnd`,
`FormsEndInNormalMode`) and the fairness of the two abstract specifications
(`ImplementsDelayedSends`, `ImplementsFrameChannel`). The provers have no rule for
fairness and ENABLED. Every invariant and every action property that the passing runs check is proved.

## Not modelled

- `LocoNetEsp32Port`: not wired in while the JMRI transport is in use.
- The words of a command line, the answers to it, `SetupFormRenderer`, the serial
  log: wording and layout. What the parsers refuse, cut off or throw at is in
  `Commissioning`.
- The depth of the recursion in `LocoNetOverTcpPort::receive`, and how many messages
  arrive while `LocoNetMessageRouter::update` drains: neither is bounded by
  anything in the repository.
- `src/lib/Catch2`: the vendored test framework, by far the largest part of the
  sources by lines. It runs on the build host, and is no part of the device. The tests under
  `src/test` were read for what they expect.

## Plan

Done: `TurnoutBridge`, `SendScheduler` against `DelayedSends`, `StatePublication`, `JmriStatus`,
`SetupButton`, `Commissioning`, `LineTransport` against `FrameChannel`, `SwitchFrames`,
`LoopHead`, and the proof modules named above. Left:

1. `SetupCycle`: the button, the stored request and the boot modes composed;
   an abstract specification of the boot cycle that both implement.
2. What the checksum detects: that no message with one damaged digit is taken
   for another, for every message.
