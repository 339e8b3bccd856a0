--------------------------- MODULE MCLineTransport ---------------------------
(* TLC's instance of LineTransport: what JMRI's server reports of the bus.    *)
EXTENDS LineTransport

\* What another throttle or a turnout says, as the LocoNet specification lays
\* it out.
Report(opcode, address, position) ==
  [bytes |-> WithChecksum(<<opcode, (address - 1) % 128,
               (address - 1) \div 128 + (IF position = Closed THEN 32 ELSE 16)>>),
   event |-> SwitchEvent(address, position)]

NotForUs(bytes) == [bytes |-> bytes, event |-> NoEvent]

\* Addresses on both sides of the boundary between the two address bytes.
BusMessages ==
  {Report(kOpcSwRep, 128, Closed), Report(kOpcSwReq, 129, Thrown)}
  \cup {NotForUs(bytes) : bytes \in
         {WithChecksum(<<kOpcSwRep, 5, kSwRepInputs + 16>>), \* sensor report
          WithChecksum(<<kOpcLongAck, 57, 0>>),  \* ack to something else
          WithChecksum(<<129>>),                 \* short
          <<kOpcSwRep, 0, 48, 0>>,               \* damaged
          \* too long, and what the limit leaves of it has a valid checksum
          WithChecksum(<<229, 8, 0, 0, 0>>) \o <<0, 0>>}}

\* "0001", "1025", "2048"; "0000" and "2049" are out of range, "12a" is no number,
\* "00001" too long.
SetCommands ==
  {[numeral |-> <<0, 0, 0, 1>>, payload |-> Closed, asks |-> 1],
   [numeral |-> <<1, 0, 2, 5>>, payload |-> Thrown, asks |-> 1025],
   [numeral |-> <<2, 0, 4, 8>>, payload |-> Closed, asks |-> 2048],
   [numeral |-> <<0, 0, 0, 0>>, payload |-> Closed, asks |-> 0],
   [numeral |-> <<2, 0, 4, 9>>, payload |-> Thrown, asks |-> 0],
   [numeral |-> <<1, 2, NoDigit>>, payload |-> Closed, asks |-> 0],
   [numeral |-> <<0, 0, 0, 0, 1>>, payload |-> Closed, asks |-> 0],
   [numeral |-> <<1>>, payload |-> "TOGGLE", asks |-> 0]}
=============================================================================
