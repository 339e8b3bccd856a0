---------------------------- MODULE LineTransport ----------------------------
(***************************************************************************)
(* LocoNetOverTcpPort over WiFiClientLineStream: lines of text from JMRI's  *)
(* LocoNetOverTcp server become switch messages again, while connections    *)
(* break in the middle of a line and LineAssembler keeps what it had.       *)
(*                                                                          *)
(* The text is cut into tokens: a word, a byte of two hexadecimal digits, a *)
(* byte of which one digit arrived, CR and LF.  The server answers at once  *)
(* (TurnoutBridge has the delays), and reconnects are possible whenever the *)
(* code looks for one (TurnoutBridge has their interval).                   *)
(***************************************************************************)
EXTENDS SwitchFrames

CONSTANTS
  kMaxBufferedBytes, \* LineAssembler's limit, counted in tokens
  Traffic,           \* what happens on the bus: [bytes, event]
  Commands,          \* set commands from MQTT: [numeral, payload, asks]
  QueriedAddresses,  \* what the startup query asks for
  ClosedTurnouts,    \* the turnouts that are closed, for the answers
  MaxConnections,    \* bound: connections the device makes or tries
  MaxSends           \* bound: messages and commands

\* A line with a four byte message fits into the assembler, with room to spare:
\* 20 bytes against 256.  Without the room, a message whose LF was lost with the
\* connection would swallow the greeting of the next one and count as whole.
ASSUME LimitAssumption == kMaxBufferedBytes \in Nat /\ kMaxBufferedBytes >= 7

ASSUME TurnoutAssumption ==
  QueriedAddresses \subseteq Addresses /\ ClosedTurnouts \subseteq Addresses

\* What happens on the bus means what the decoder takes it for when it gets the
\* bytes as they are.  The opcodes it looks at are those of four byte messages.
ASSUME TrafficAssumption ==
  \A message \in Traffic :
    /\ message.bytes \in Seq(0..255)
    /\ message.event = IF HasValidChecksum(message.bytes)
                       THEN EventFrom(message.bytes) ELSE NoEvent
    /\ message.bytes # <<>> /\ CanDecode(message.bytes) => Len(message.bytes) <= 4

\* A command asks for the turnout its topic names in decimal, or for none.
ASSUME NumeralAssumption ==
  \A command \in Commands :
    command.asks = IF IsCommand("turnout", command.numeral, command.payload)
                   THEN ValueOf(command.numeral) ELSE 0

ASSUME TransportBoundAssumption == MaxConnections \in Nat /\ MaxSends \in Nat

\* The elements of s that are not x, in their order.
Without(s, x) ==
  LET kept[n \in 0..Len(s)] ==
        IF n = 0 THEN <<>>
        ELSE IF s[n] = x THEN kept[n - 1] ELSE Append(kept[n - 1], s[n])
  IN  kept[Len(s)]

\* "means" is history and not on the wire: what the line an LF ends stands for.
Word(text) == [kind |-> text, value |-> 0, means |-> NoEvent]
Byte(value) == [kind |-> "byte", value |-> value, means |-> NoEvent]
HalfByte == [kind |-> "half", value |-> 0, means |-> NoEvent]
CR == [kind |-> "CR", value |-> 0, means |-> NoEvent]
LF(event) == [kind |-> "LF", value |-> 0, means |-> event]

Line(text, event) == text \o <<CR, LF(event)>>

Greeting == Line(<<Word("VERSION")>>, NoEvent)
SentOk == Line(<<Word("SENT")>>, NoEvent)

\* A message in words: RECEIVE and its bytes.
Received(bytes) == <<Word("RECEIVE")>> \o [k \in 1..Len(bytes) |-> Byte(bytes[k])]
Receive(bytes, event) == Line(Received(bytes), event)

VARIABLES
  pc,          \* "idle", or "reading" inside readLine()
  link,        \* the TCP connection exists
  wire,        \* sent by the server, not yet read
  buffer,      \* LineAssembler's buffer_
  connections, \* connection attempts so far
  sends,       \* how much of MaxSends is used
  delivered    \* history: what the decoder made of the lines read

vars == <<pc, link, wire, buffer, connections, sends, delivered>>

Init ==
  /\ pc = "idle"
  /\ link = FALSE
  /\ wire = <<>>
  /\ buffer = <<>>
  /\ connections = 0
  /\ sends = 0
  /\ delivered = <<>>

-----------------------------------------------------------------------------
(* WiFiClientLineStream and LineAssembler. *)

\* reconnectIfDue(), at the start of readLine() and writeLine(): stop() drops
\* what was received, not what the assembler holds.  connected() may be FALSE
\* although the connection exists.
Reconnect ==
  /\ pc = "idle"
  /\ connections < MaxConnections
  /\ connections' = connections + 1
  /\ link' \in BOOLEAN
  /\ wire' = IF link' THEN Greeting ELSE <<>>
  /\ UNCHANGED <<pc, buffer, sends, delivered>>

ReadLine ==
  /\ pc = "idle"
  /\ pc' = "reading"
  /\ UNCHANGED <<link, wire, buffer, connections, sends, delivered>>

NothingAvailable ==
  /\ pc = "reading"
  /\ wire = <<>>
  /\ pc' = "idle"
  /\ UNCHANGED <<link, wire, buffer, connections, sends, delivered>>

\* Mutant of Terminator: lines end in CR, as was assumed once.
CarriageReturn == "CR"

Terminator == "LF"

\* Mutant of Feed: a line may be of any length.
FeedUnlimited ==
  /\ pc = "reading"
  /\ wire # <<>>
  /\ Head(wire).kind # Terminator
  /\ buffer' = Append(buffer, Head(wire))
  /\ wire' = Tail(wire)
  /\ UNCHANGED <<pc, link, connections, sends, delivered>>

Feed ==
  /\ pc = "reading"
  /\ wire # <<>>
  /\ Head(wire).kind # Terminator
  /\ buffer' = IF Len(buffer) < kMaxBufferedBytes
               THEN Append(buffer, Head(wire)) ELSE buffer
  /\ wire' = Tail(wire)
  /\ UNCHANGED <<pc, link, connections, sends, delivered>>

\* The bytes of a line, <<>> for one that is no data line or has another word
\* or half a byte in it.
BytesOf(line) ==
  LET body == Without(Tail(line), CR) IN
  IF \A k \in 1..Len(body) : body[k].kind = "byte"
  THEN [k \in 1..Len(body) |-> body[k].value] ELSE <<>>

\* Mutant of EventOf: the checksum is not looked at.
EventOfUnchecked(line) ==
  IF line # <<>> /\ Head(line) = Word("RECEIVE") THEN EventFrom(BytesOf(line))
  ELSE NoEvent

\* decodeLine(), and the guards of the router: what a whole line stands for.
EventOf(line) ==
  IF line # <<>> /\ Head(line) = Word("RECEIVE") /\ HasValidChecksum(BytesOf(line))
  THEN EventFrom(BytesOf(line)) ELSE NoEvent

\* Mutant of FinishLine: the line is not taken out of the buffer.
FinishLineOnly ==
  /\ pc = "reading"
  /\ wire # <<>>
  /\ Head(wire).kind = Terminator
  /\ UNCHANGED buffer
  /\ wire' = Tail(wire)
  /\ delivered' = IF EventOf(buffer) = NoEvent THEN delivered
                  ELSE Append(delivered, EventOf(buffer))
  /\ pc' = "idle"
  /\ UNCHANGED <<link, connections, sends>>

\* A line is complete: what is no event is skipped, and readLine() is called
\* again either way.
FinishLine ==
  /\ pc = "reading"
  /\ wire # <<>>
  /\ Head(wire).kind = Terminator
  /\ buffer' = <<>>
  /\ wire' = Tail(wire)
  /\ delivered' = IF EventOf(buffer) = NoEvent THEN delivered
                  ELSE Append(delivered, EventOf(buffer))
  /\ pc' = "idle"
  /\ UNCHANGED <<link, connections, sends>>

-----------------------------------------------------------------------------
(* The server, and what the device writes to it. *)

Sent(lines) ==
  /\ link
  /\ sends < MaxSends
  /\ sends' = sends + 1
  /\ wire' = wire \o lines
  /\ UNCHANGED <<pc, link, buffer, connections, delivered>>

\* The command station reads the two address bytes of a request.
StationAddress(bytes) == bytes[2] + 128 * (bytes[3] % 16) + 1

StationAck(address) ==
  WithChecksum(<<kOpcLongAck, kSwitchStateAckCode,
                 IF address \in ClosedTurnouts THEN 48 ELSE 0>>)

BusTraffic ==
  \E message \in Traffic : Sent(Receive(message.bytes, message.event))

\* encodeSend(): JMRI confirms it and repeats the message as bus traffic.  What
\* it means is what the MQTT client asked for, however it was encoded.
Command ==
  /\ pc = "idle"
  /\ \E command \in Commands, on \in BOOLEAN :
       /\ IsCommand("turnout", command.numeral, command.payload)
       /\ Sent(SentOk \o Receive(SwReqFrame(ValueOf(command.numeral),
                                            command.payload, on),
                                 SwitchEvent(command.asks, command.payload)))

Query ==
  /\ pc = "idle"
  /\ \E address \in QueriedAddresses :
       LET request == SwStateFrame(address) IN
       Sent(SentOk \o Receive(request, NoEvent)
              \o Receive(StationAck(StationAddress(request)),
                         AckEvent(IF address \in ClosedTurnouts THEN Closed ELSE Thrown)))

\* The connection breaks: of what was under way, a first part arrives, and of
\* the byte behind it perhaps one digit.
LinkBreaks ==
  /\ link
  /\ link' = FALSE
  /\ \E kept \in 0..Len(wire) :
       LET received == SubSeq(wire, 1, kept) IN
       \/ wire' = received
       \/ /\ kept < Len(wire) /\ wire[kept + 1].kind = "byte"
          /\ wire' = Append(received, HalfByte)
  /\ UNCHANGED <<pc, buffer, connections, sends, delivered>>

-----------------------------------------------------------------------------
Reader == ReadLine \/ NothingAvailable \/ Feed \/ FinishLine

Next == Reconnect \/ Reader \/ BusTraffic \/ Command \/ Query \/ LinkBreaks

\* loop() comes back to the router for ever.
Spec == Init /\ [][Next]_vars /\ WF_vars(Reader)

-----------------------------------------------------------------------------
Events ==
  ({message.event : message \in Traffic} \ {NoEvent})
  \cup {SwitchEvent(command.asks, command.payload) :
          command \in {c \in Commands : c.asks # 0}}
  \cup {AckEvent(position) : position \in Positions}

\* What is on the wire or in the assembler.
Tokens ==
  [kind : {"VERSION", "SENT", "RECEIVE", "byte", "half", "CR"}, value : Nat,
   means : {NoEvent}]
  \cup [kind : {"LF"}, value : {0}, means : Events \cup {NoEvent}]

\* The types, and that the assembler never holds more than its limit, however
\* long a line gets.
TypeOK ==
  /\ pc \in {"idle", "reading"}
  /\ link \in BOOLEAN
  /\ wire \in Seq(Tokens)
  /\ buffer \in Seq(Tokens) /\ Len(buffer) <= kMaxBufferedBytes
  /\ connections \in 0..MaxConnections
  /\ sends \in 0..MaxSends
  /\ delivered \in Seq(Events)

\* What the assembler holds of a line when all of it has been fed.
Held(line) ==
  IF Len(line) <= kMaxBufferedBytes THEN line ELSE SubSeq(line, 1, kMaxBufferedBytes)

HasNoEnd(tokens) == \A k \in 1..Len(tokens) : tokens[k].kind # "LF"

\* Each line in s will be taken for what its LF says, however the lines of two
\* connections have run into one another, and what fills the assembler, where
\* the rest of the line is dropped, is no switch message.
IsSound(s) ==
  \A i \in 0..Len(s) : \A j \in i..Len(s) :
    /\ i = 0 \/ s[i].kind = "LF"
    /\ HasNoEnd(SubSeq(s, i + 1, j))
    =>
    LET held == Held(SubSeq(s, i + 1, j)) IN
    /\ Len(held) = kMaxBufferedBytes => EventOf(held) = NoEvent
    /\ j < Len(s) /\ s[j + 1].kind = "LF" => EventOf(held) = s[j + 1].means

\* What is in the assembler, with what is on the wire behind it, is a sequence of
\* lines that mean what they were sent for; the assembler has no whole line, and
\* a connection that exists ends in one, so that the next line starts afresh.
LinesKeepTheirMeaning ==
  LET pending == buffer \o wire IN
  /\ IsSound(pending)
  /\ HasNoEnd(buffer)
  /\ link => pending = <<>> \/ Last(pending).kind = "LF"

\* The switch messages that are whole on the wire.
Meanings(tokens) == Without([k \in 1..Len(tokens) |-> tokens[k].means], NoEvent)

Channel == INSTANCE FrameChannel WITH
  Frames <- Events,
  open <- link,
  queue <- Meanings(wire)

\* Every switch message of a connection that does not break reaches the
\* decoder, in order, as what was meant at the other end; greetings, confirmations,
\* other traffic, lines cut by the limit and the part of a line an earlier
\* connection left in the assembler are neither taken for one nor in its way.
ImplementsFrameChannel == Channel!Spec
=============================================================================
