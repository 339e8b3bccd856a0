---------------------------- MODULE SwitchFrames ----------------------------
(***************************************************************************)
(* The bytes behind the messages of TurnoutBridge: how a turnout command is *)
(* read from MQTT, how the device's two encoders put an address into two    *)
(* 7 bit bytes, and how TurnoutLocoNetDecoder takes it out again.           *)
(*                                                                          *)
(* A byte is a number below 256; a numeral is a sequence of its characters, *)
(* where 0..9 are the digits and NoDigit is any other character.            *)
(***************************************************************************)
EXTENDS Integers, Sequences, FiniteSets, SequencesExt

Closed == "closed"
Thrown == "thrown"
Positions == {Closed, Thrown}

kOpcSwReq == 176   \* 0xB0
kOpcSwRep == 177   \* 0xB1
kOpcLongAck == 180 \* 0xB4
kOpcSwState == 188 \* 0xBC
kClosedBit == 32
kOutputOnBit == 16
kSwRepInputs == 64
kSwitchStateAckCode == 60

\* TurnoutAddress: LocoNet switches are numbered from 1 on.
HighestAddress == 2048
Addresses == 1..HighestAddress

\* byte & bit, for a bit given as a power of two.
HasBit(byte, bit) == (byte \div bit) % 2 = 1

\* computeLocoNetChecksum(): exclusive or with 0xFF.  A bit of the exclusive or
\* of all bytes is set when an odd number of them have it.
Checksum(bytes) ==
  LET IsOdd(bit) ==
        Cardinality({k \in 1..Len(bytes) : HasBit(bytes[k], bit)}) % 2 = 1
      Inverted(bit) == IF IsOdd(bit) THEN 0 ELSE bit
  IN  Inverted(1) + Inverted(2) + Inverted(4) + Inverted(8)
        + Inverted(16) + Inverted(32) + Inverted(64) + Inverted(128)

WithChecksum(bytes) == Append(bytes, Checksum(bytes))

HasValidChecksum(bytes) ==
  Len(bytes) >= 2 /\ Checksum(Front(bytes)) = Last(bytes)

-----------------------------------------------------------------------------
(* The encoders. *)

\* Mutant of AddressHigh: the turnouts from 1025 on wrap around.
AddressHighNarrow(address) == ((address - 1) \div 128) % 8

AddressLow(address) == (address - 1) % 128
AddressHigh(address) == ((address - 1) \div 128) % 16

\* buildSwReq()
SwReqFrame(address, position, on) ==
  WithChecksum(<<kOpcSwReq, AddressLow(address),
                 AddressHigh(address)
                   + (IF position = Closed THEN kClosedBit ELSE 0)
                   + (IF on THEN kOutputOnBit ELSE 0)>>)

\* TurnoutStateRequestEncoder::encode()
SwStateFrame(address) ==
  WithChecksum(<<kOpcSwState, AddressLow(address), AddressHigh(address)>>)

-----------------------------------------------------------------------------
(* The decoder. *)

CanDecode(bytes) == bytes[1] \in {kOpcSwReq, kOpcSwRep, kOpcLongAck}

AddressFrom(bytes) == (bytes[3] % 16) * 128 + (bytes[2] % 128) + 1

PositionFrom(bytes) == IF HasBit(bytes[3], kClosedBit) THEN Closed ELSE Thrown

IsSensorReport(bytes) == bytes[1] = kOpcSwRep /\ HasBit(bytes[3], kSwRepInputs)

\* What the decoder takes a frame for, before it looks up the address an ack
\* is for and whether the position is new.
NoEvent == [kind |-> "none", address |-> 0, position |-> Thrown]
SwitchEvent(address, position) ==
  [kind |-> "switch", address |-> address, position |-> position]
AckEvent(position) == [kind |-> "ack", address |-> 0, position |-> position]

\* Mutant of EventFrom: LocoNetMessageRouter forwards every opcode.
EventFromAny(bytes) ==
  IF Len(bytes) < 4 THEN NoEvent
  ELSE SwitchEvent(AddressFrom(bytes), PositionFrom(bytes))

\* handleMessage() and decode()
EventFrom(bytes) ==
  IF Len(bytes) < 4 \/ ~CanDecode(bytes) THEN NoEvent
  ELSE IF bytes[1] = kOpcLongAck
       THEN IF bytes[2] = kSwitchStateAckCode THEN AckEvent(PositionFrom(bytes))
            ELSE NoEvent
       ELSE IF IsSensorReport(bytes) THEN NoEvent
            ELSE SwitchEvent(AddressFrom(bytes), PositionFrom(bytes))

-----------------------------------------------------------------------------
(* TurnoutMqttCommandDecoder: a topic's address segment and a payload. *)

NoDigit == 10

IsValidAddressShape(numeral) ==
  Len(numeral) \in 1..4 /\ \A k \in 1..Len(numeral) : numeral[k] \in 0..9

ValueOf(numeral) == FoldLeft(LAMBDA value, digit : value * 10 + digit, 0, numeral)

\* decode() has a command for this segment and payload.
IsCommand(deviceType, numeral, payload) ==
  /\ deviceType = "turnout"
  /\ IsValidAddressShape(numeral)
  /\ ValueOf(numeral) \in Addresses
  /\ payload \in Positions
=============================================================================
