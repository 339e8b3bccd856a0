------------------------ MODULE TurnoutBridgeProofs ------------------------
(***************************************************************************)
(* Proofs about TurnoutBridge, for every value of its constants.            *)
(***************************************************************************)
EXTENDS TurnoutBridge, SequenceTheorems, TLAPS

-----------------------------------------------------------------------------
(* Sequences. *)

\* A prefix keeps the elements it has in their places.
LEMMA PrefixProperties ==
  ASSUME NEW S, NEW s \in Seq(S), NEW n \in 0..Len(s)
  PROVE  /\ Prefix(s, n) \in Seq(S)
         /\ Len(Prefix(s, n)) = n
         /\ \A k \in 1..n : Prefix(s, n)[k] = s[k]
  BY DEF Prefix

\* All of a sequence is the sequence.
LEMMA PrefixAll ==
  ASSUME NEW S, NEW s \in Seq(S)
  PROVE  Prefix(s, Len(s)) = s
  BY DEF Prefix

\* Erasing an entry keeps the ones before it and moves the ones behind it up.
LEMMA EraseProperties ==
  ASSUME NEW S, NEW s \in Seq(S), NEW i \in 1..Len(s)
  PROVE  /\ Erase(s, i) \in Seq(S)
         /\ Len(Erase(s, i)) = Len(s) - 1
         /\ \A k \in 1..(Len(s) - 1) :
              Erase(s, i)[k] = IF k < i THEN s[k] ELSE s[k + 1]
  BY DEF Erase

\* A concatenation is the one sequence and then the other.
LEMMA ConcatSplit ==
  ASSUME NEW S, NEW s \in Seq(S), NEW t \in Seq(S)
  PROVE  /\ Len(s \o t) = Len(s) + Len(t)
         /\ \A k \in 1..Len(s) : (s \o t)[k] = s[k]
         /\ \A i \in 1..Len(t) : (s \o t)[Len(s) + i] = t[i]
  OBVIOUS

-----------------------------------------------------------------------------
(* Types. *)

\* What a query adds is well typed.
LEMMA QueryTypes ==
  ASSUME TypeOK
  PROVE  /\ QuerySize \in Nat \ {0}
         /\ QueryAddresses \in Seq(Addresses)
         /\ Len(QueryAddresses) = QuerySize
         /\ QueryBatch \in Seq(Entry)
         /\ Len(QueryBatch) = QuerySize
  <1>1. QuerySize \in Nat \ {0}
    BY AddressAssumption DEF QuerySize
  <1>2. /\ QueryAddresses \in Seq(Addresses)
        /\ Len(QueryAddresses) = QuerySize
    <2>1. \A i \in 1..QuerySize : kMinTurnoutAddress + i - 1 \in Addresses
      BY AddressAssumption DEF QuerySize, Addresses
    <2> QED
      BY <1>1, <2>1 DEF QueryAddresses
  <1>3. /\ QueryBatch \in Seq(Entry)
        /\ Len(QueryBatch) = QuerySize
    <2>1. \A i \in 1..QuerySize : QueryAddresses[i] \in Addresses
      BY <1>1, <1>2
    <2>2. \A i \in 1..QuerySize : (i - 1) * kQueryStaggerMs \in Nat
      BY <1>1, TimerAssumption
    <2>3. \A i \in 1..QuerySize :
            SwState(QueryAddresses[i], Len(asked) + i) \in Outgoing
      BY <1>1, <2>1 DEF TypeOK, SwState, Outgoing
    <2>4. \A i \in 1..QuerySize :
            [message |-> SwState(QueryAddresses[i], Len(asked) + i),
             dueAt |-> now + (i - 1) * kQueryStaggerMs] \in Entry
      BY <2>2, <2>3 DEF TypeOK, Entry
    <2> QED
      BY <1>1, <2>4 DEF QueryBatch
  <1> QED
    BY <1>1, <1>2, <1>3

\* writeLine() keeps the types of what it changes.
LEMMA WriteLineTypes ==
  ASSUME TypeOK, NEW message \in Outgoing, WriteLine(message)
  PROVE  /\ link' \in BOOLEAN
         /\ lastConnectAttemptAt' \in Nat
         /\ fromStation' \in Seq(Incoming)
         /\ toStation' \in Seq(Outgoing)
         /\ intact' \in BOOLEAN
         /\ linkQueried' \in BOOLEAN
         /\ glitches' \in Nat
  <1>g. ASSUME NEW reading \in BOOLEAN, ReadConnected(reading)
        PROVE  glitches' \in Nat
    <2>1. glitches \in Nat
      BY DEF TypeOK
    <2> QED
      BY <1>g, <2>1 DEF ReadConnected
  <1>s. ASSUME NoReconnect
        PROVE  /\ link' \in BOOLEAN
               /\ lastConnectAttemptAt' \in Nat
               /\ fromStation' \in Seq(Incoming)
               /\ linkQueried' \in BOOLEAN
    BY <1>s DEF NoReconnect, TypeOK
  <1>1. CASE NoReconnect /\ ReadConnected(TRUE)
             /\ toStation' = Append(toStation, message) /\ UNCHANGED intact
    <2>1. intact' \in BOOLEAN
      BY <1>1, Zenon DEF TypeOK
    <2>2. toStation' \in Seq(Outgoing)
      BY <1>1 DEF TypeOK
    <2> QED
      BY <1>1, <1>g, <1>s, <2>1, <2>2
  <1>2. CASE NoReconnect /\ ReadConnected(FALSE)
             /\ intact' = FALSE /\ UNCHANGED toStation
    <2>1. intact' \in BOOLEAN
      BY <1>2, Zenon
    <2>2. toStation' \in Seq(Outgoing)
      BY <1>2 DEF TypeOK
    <2> QED
      BY <1>2, <1>g, <1>s, <2>1, <2>2
  <1>3. ASSUME NEW kept \in 0..Len(toStation), NEW success \in BOOLEAN,
               Reconnect(success), intact' \in BOOLEAN,
               \/ toStation' = Prefix(toStation, kept)
               \/ toStation' = Append(Prefix(toStation, kept), message)
        PROVE  /\ link' \in BOOLEAN
               /\ lastConnectAttemptAt' \in Nat
               /\ fromStation' \in Seq(Incoming)
               /\ toStation' \in Seq(Outgoing)
               /\ intact' \in BOOLEAN
               /\ linkQueried' \in BOOLEAN
               /\ glitches' \in Nat
    <2>1. Prefix(toStation, kept) \in Seq(Outgoing)
      BY PrefixProperties DEF TypeOK
    <2>2. toStation' \in Seq(Outgoing)
      BY <1>3, <2>1
    <2>3. glitches' \in Nat
      BY <1>3, <1>g DEF Reconnect
    <2>4. link' \in BOOLEAN /\ linkQueried' \in BOOLEAN
      BY <1>3, Zenon DEF Reconnect
    <2>5. lastConnectAttemptAt' \in Nat /\ fromStation' \in Seq(Incoming)
      BY <1>3 DEF Reconnect, TypeOK
    <2> QED
      BY <1>3, <2>2, <2>3, <2>4, <2>5
  <1>4. ASSUME NEW kept \in 0..Len(toStation), Reconnect(TRUE),
               toStation' = Append(Prefix(toStation, kept), message),
               intact' = (intact /\ NothingLost(kept))
        PROVE  intact' \in BOOLEAN
    BY <1>4
  <1> QED
    BY <1>1, <1>2, <1>3, <1>4 DEF WriteLine

\* TypeOK is inductive.
THEOREM TypeCorrect == Spec => []TypeOK
  <1> USE DEF device, stream, railway, history, counters
  <1>1. ASSUME Init
        PROVE  TypeOK
    <2>1. lastKnownPosition \in [Addresses -> Positions \cup {Unknown}]
      BY <1>1 DEF Init
    <2>2. /\ queriedThisConnection \in BOOLEAN
          /\ link \in BOOLEAN
          /\ intact \in BOOLEAN
          /\ linkQueried \in BOOLEAN
      BY <1>1, Zenon DEF Init
    <2>3. energised \subseteq Addresses \X Positions /\ overtaken \subseteq Addresses
      BY <1>1 DEF Init
    <2> QED
      BY <1>1, <2>1, <2>2, <2>3 DEF Init, TypeOK
  <1>2. ASSUME TypeOK, [Next]_vars
        PROVE  TypeOK'
    <2> USE <1>2
    <2>1. CASE MqttReceive
      <3>1. PICK command \in TurnoutCommands :
              /\ pendingCommands' =
                   Append(IF Len(pendingCommands) >= kMaxPendingCommands
                          THEN Tail(pendingCommands) ELSE pendingCommands, command)
              /\ latest' \subseteq TurnoutCommands
        BY <2>1 DEF MqttReceive, Queued
      <3>2. CASE Len(pendingCommands) >= kMaxPendingCommands
        <4>1. pendingCommands # <<>>
          BY <3>2, CommandAssumption DEF TypeOK
        <4>2. Tail(pendingCommands) \in Seq(TurnoutCommands)
          BY <4>1 DEF TypeOK
        <4>3. pendingCommands' \in Seq(TurnoutCommands)
          BY <3>1, <3>2, <4>2
        <4> QED
          BY <2>1, <3>1, <4>3 DEF TypeOK, MqttReceive
      <3>3. CASE ~(Len(pendingCommands) >= kMaxPendingCommands)
        <4>1. pendingCommands' \in Seq(TurnoutCommands)
          BY <3>1, <3>3 DEF TypeOK
        <4> QED
          BY <2>1, <3>1, <4>1 DEF TypeOK, MqttReceive
      <3> QED
        BY <3>2, <3>3
    <2>2. CASE MqttDone
      BY <2>2 DEF TypeOK, MqttDone
    <2>3. CASE SchedulerBegin
      BY <2>3 DEF TypeOK, SchedulerBegin
    <2>4. CASE SchedulerSkip
      BY <2>4 DEF TypeOK, SchedulerSkip
    <2>5. CASE SchedulerSend
      <3>1. pending[it] \in Entry /\ Erase(pending, it) \in Seq(Entry)
        <4>1. it \in 1..Len(pending) /\ pending \in Seq(Entry)
          <5>1. /\ pending \in Seq(Entry)
                /\ it \in Nat
                /\ pc = "sending" => it # 0
            BY DEF TypeOK
          <5> QED
            BY <2>5, <5>1 DEF SchedulerSend
        <4> QED
          BY <4>1, EraseProperties
      <3>2. pending[it].message \in Outgoing
        BY <3>1 DEF Entry
      <3> QED
        BY <2>5, <3>1, <3>2, WriteLineTypes DEF TypeOK, SchedulerSend
    <2>6. CASE SchedulerDone
      BY <2>6 DEF TypeOK, SchedulerDone
    <2>7. CASE RouterSwitchMessage
      <3>1. Head(fromStation) \in Incoming /\ Tail(fromStation) \in Seq(Incoming)
        BY <2>7 DEF TypeOK, RouterSwitchMessage
      <3>2. Head(fromStation).position \in Positions
        BY <3>1 DEF Incoming
      <3>3. lastKnownPosition' \in [Addresses -> Positions \cup {Unknown}]
        BY <2>7, <3>2 DEF TypeOK, RouterSwitchMessage, EmitIfChanged
      <3> QED
        BY <2>7, <3>1, <3>3 DEF TypeOK, RouterSwitchMessage
    <2>8. CASE RouterStateAck
      <3>1. Head(fromStation) \in Incoming /\ Tail(fromStation) \in Seq(Incoming)
        BY <2>8 DEF TypeOK, RouterStateAck
      <3>2. Head(fromStation).position \in Positions
        BY <3>1 DEF Incoming
      <3>3. /\ lastKnownPosition' \in [Addresses -> Positions \cup {Unknown}]
            /\ pendingAddresses' \in Seq(Addresses)
            /\ claimed' \in Nat
        <4>1. CASE pendingAddresses = <<>>
          BY <2>8, <4>1 DEF TypeOK, RouterStateAck
        <4>2. CASE pendingAddresses # <<>>
          <5>1. /\ pendingAddresses' = Tail(pendingAddresses)
                /\ claimed' = claimed + 1
                /\ lastKnownPosition' =
                     [lastKnownPosition EXCEPT ![Head(pendingAddresses)]
                        = Head(fromStation).position]
            BY <2>8, <4>2 DEF RouterStateAck, EmitIfChanged
          <5> QED
            BY <3>2, <4>2, <5>1 DEF TypeOK
        <4> QED
          BY <4>1, <4>2
      <3> QED
        BY <2>8, <3>1, <3>3 DEF TypeOK, RouterStateAck
    <2>9. CASE RouterReconnect
      <3>1. PICK success \in BOOLEAN, kept \in 0..Len(toStation) :
              /\ Reconnect(success)
              /\ toStation' = Prefix(toStation, kept)
              /\ intact' = (intact /\ NothingLost(kept))
        BY <2>9 DEF RouterReconnect
      <3>2. toStation' \in Seq(Outgoing)
        BY <3>1, PrefixProperties DEF TypeOK
      <3>3. link' \in BOOLEAN /\ linkQueried' \in BOOLEAN /\ intact' \in BOOLEAN
        BY <3>1, Zenon DEF Reconnect, TypeOK
      <3>4. /\ lastConnectAttemptAt' \in Nat
            /\ fromStation' \in Seq(Incoming)
            /\ glitches' \in Nat
        BY <3>1 DEF Reconnect, ReadConnected, TypeOK
      <3> QED
        BY <2>9, <3>2, <3>3, <3>4 DEF TypeOK, RouterReconnect
    <2>10. CASE RouterDone
      BY <2>10 DEF TypeOK, RouterDone
    <2>11. CASE QueryReset
      <3>1. queriedThisConnection' \in BOOLEAN
        BY <2>11, Zenon DEF QueryReset
      <3>2. glitches' \in Nat
        BY <2>11 DEF QueryReset, ReadConnected, TypeOK
      <3> QED
        BY <2>11, <3>1, <3>2 DEF TypeOK, QueryReset
    <2>12. CASE QueryWait
      <3>1. glitches' \in Nat
        BY <2>12 DEF QueryWait, ReadConnected, TypeOK
      <3> QED
        BY <2>12, <3>1 DEF TypeOK, QueryWait, ConnectedSinceSet
    <2>13. CASE QueryAllTurnouts
      <3>1. queriedThisConnection' \in BOOLEAN /\ linkQueried' \in BOOLEAN
        BY <2>13, Zenon DEF QueryAllTurnouts
      <3>2. glitches' \in Nat
        BY <2>13 DEF QueryAllTurnouts, ReadConnected, TypeOK
      <3>3. /\ pending' \in Seq(Entry)
            /\ pendingAddresses' \in Seq(Addresses)
            /\ asked' \in Seq(Addresses)
        BY <2>13, QueryTypes DEF TypeOK, QueryAllTurnouts
      <3> QED
        BY <2>13, <3>1, <3>2, <3>3
        DEF TypeOK, QueryAllTurnouts, ConnectedSinceSet
    <2>14. CASE CommandRejected
      BY <2>14 DEF TypeOK, CommandRejected
    <2>15. CASE CommandAccepted
      <3> DEFINE command == Head(pendingCommands)
                 off == SwReq(command.address, command.position, FALSE)
      <3>1. command \in TurnoutCommands /\ Tail(pendingCommands) \in Seq(TurnoutCommands)
        BY <2>15 DEF TypeOK, CommandAccepted
      <3>2. SwReq(command.address, command.position, TRUE) \in Outgoing
            /\ off \in Outgoing
        BY <2>15, <3>1, CommandAssumption DEF CommandAccepted, SwReq, Outgoing
      <3>3. [message |-> off, dueAt |-> now + kOffPulseDelayMs] \in Entry
        <4>1. now + kOffPulseDelayMs \in Nat
          BY TimerAssumption DEF TypeOK
        <4> HIDE DEF off
        <4> QED
          BY <3>2, <4>1 DEF Entry
      <3>4. pending' \in Seq(Entry)
        BY <2>15, <3>3 DEF TypeOK, CommandAccepted
      <3> QED
        BY <2>15, <3>1, <3>2, <3>4, WriteLineTypes DEF TypeOK, CommandAccepted
    <2>16. CASE CommandsDone
      BY <2>16 DEF TypeOK, CommandsDone
    <2>17. CASE Tick
      BY <2>17 DEF TypeOK, Tick
    <2>18. CASE LinkBreaks
      <3>1. PICK received \in 0..Len(fromStation), kept \in 0..Len(toStation) :
              /\ fromStation' = Prefix(fromStation, received)
              /\ toStation' = Prefix(toStation, kept)
              /\ intact' = (intact /\ received = Len(fromStation)
                                   /\ kept = Len(toStation))
        BY <2>18 DEF LinkBreaks
      <3>2. fromStation' \in Seq(Incoming) /\ toStation' \in Seq(Outgoing)
        BY <3>1, PrefixProperties DEF TypeOK
      <3>3. intact' \in BOOLEAN /\ link' \in BOOLEAN
        BY <2>18, <3>1, Zenon DEF LinkBreaks
      <3> QED
        BY <2>18, <3>2, <3>3 DEF TypeOK, LinkBreaks
    <2>19. CASE StationAnswers
      <3> DEFINE message == Head(toStation)
      <3>1. message \in Outgoing /\ Tail(toStation) \in Seq(Outgoing)
        BY <2>19 DEF TypeOK, StationAnswers
      <3>2. message.address \in Addresses /\ message.request \in Nat
        BY <2>19, <3>1 DEF StationAnswers, Outgoing
      <3>3. LongAck(layout[message.address], message.request) \in Incoming
        BY <3>2 DEF TypeOK, LongAck, Incoming
      <3>4. fromStation' \in Seq(Incoming)
        BY <2>19, <3>3 DEF TypeOK, StationAnswers, SentToDevice
      <3>5. intact' \in BOOLEAN
        BY <2>19, Zenon DEF StationAnswers
      <3> QED
        BY <2>19, <3>1, <3>4, <3>5 DEF TypeOK, StationAnswers
    <2>20. CASE StationSwitches
      <3> DEFINE message == Head(toStation)
      <3>1. message \in Outgoing /\ Tail(toStation) \in Seq(Outgoing)
        BY <2>20 DEF TypeOK, StationSwitches
      <3>2. message \in Incoming
        BY <2>20, <3>1 DEF StationSwitches, Outgoing, Incoming
      <3>3. message.address \in Addresses /\ message.position \in Positions
        BY <2>20, <3>1 DEF StationSwitches, Outgoing
      <3>4. layout' \in [Addresses -> Positions]
        BY <2>20, <3>3 DEF TypeOK, StationSwitches
      <3>5. energised' \subseteq Addresses \X Positions
        BY <2>20, <3>3 DEF TypeOK, StationSwitches
      <3>6. fromStation' \in Seq(Incoming)
        BY <2>20, <3>2 DEF TypeOK, StationSwitches, SentToDevice
      <3>7. intact' \in BOOLEAN
        BY <2>20, Zenon DEF StationSwitches
      <3> QED
        BY <2>20, <3>1, <3>4, <3>5, <3>6, <3>7 DEF TypeOK, StationSwitches
    <2>21. CASE OtherThrottle
      <3>1. PICK address \in Addresses, position \in Positions :
              /\ layout' = [layout EXCEPT ![address] = position]
              /\ SentToDevice(SwReq(address, position, TRUE))
              /\ overtaken' = IF PulseUnderWay(address)
                              THEN overtaken \cup {address} ELSE overtaken
        BY <2>21 DEF OtherThrottle
      <3>2. SwReq(address, position, TRUE) \in Incoming
        BY DEF SwReq, Incoming
      <3>3. fromStation' \in Seq(Incoming)
        <4> DEFINE echo == SwReq(address, position, TRUE)
        <4>1. fromStation' = Append(fromStation, echo) \/ fromStation' = fromStation
          BY <3>1 DEF SentToDevice
        <4>2. echo \in Incoming
          BY <3>2
        <4> HIDE DEF echo
        <4> QED
          <5>1. fromStation \in Seq(Incoming)
            BY DEF TypeOK
          <5>2. Append(fromStation, echo) \in Seq(Incoming)
            BY <4>2, <5>1
          <5> QED
            BY <4>1, <5>1, <5>2
      <3>4. layout' \in [Addresses -> Positions] /\ overtaken' \subseteq Addresses
        BY <3>1 DEF TypeOK
      <3> QED
        BY <2>21, <3>3, <3>4 DEF TypeOK, OtherThrottle
    <2>22. CASE StrayAck
      <3>1. PICK position \in Positions : SentToDevice(LongAck(position, 0))
        BY <2>22 DEF StrayAck
      <3>2. LongAck(position, 0) \in Incoming
        BY DEF LongAck, Incoming
      <3>3. fromStation' \in Seq(Incoming)
        <4>1. fromStation' = Append(fromStation, LongAck(position, 0))
          BY <2>22, <3>1 DEF StrayAck, SentToDevice
        <4> QED
          BY <3>2, <4>1 DEF TypeOK
      <3>4. intact' \in BOOLEAN
        BY <2>22, Zenon DEF StrayAck
      <3> QED
        BY <2>22, <3>3, <3>4 DEF TypeOK, StrayAck
    <2>23. CASE UNCHANGED vars
      BY <2>23 DEF TypeOK, vars
    <2> QED
      BY <2>1, <2>2, <2>3, <2>4, <2>5, <2>6, <2>7, <2>8, <2>9, <2>10, <2>11, <2>12, <2>13, <2>14, <2>15, <2>16, <2>17, <2>18, <2>19, <2>20, <2>21, <2>22, <2>23
      DEF Next, Loop, World, Scheduler, Router, Query, CommandRouter, Station
  <1> QED
    BY <1>1, <1>2, PTL DEF Spec

-----------------------------------------------------------------------------
(* The order of requests. *)

\* Numbers and due times are numbers.
LEMMA NumberTypes ==
  ASSUME TypeOK
  PROVE  /\ Len(pending) \in Nat /\ Len(toStation) \in Nat
         /\ Len(fromStation) \in Nat /\ Len(asked) \in Nat
         /\ \A k \in 1..Len(pending) :
              PendingNumber(k) \in Nat /\ pending[k].dueAt \in Nat
         /\ \A k \in 1..Len(toStation) : SentNumber(k) \in Nat
         /\ \A k \in 1..Len(fromStation) : AckNumber(k) \in Nat
  <1>1. /\ \A m \in Outgoing : m.request \in Nat
        /\ \A m \in Incoming : m.request \in Nat
    <2>1. ASSUME NEW m \in Outgoing
          PROVE  m.request \in Nat
      <3>1. m.request \in {0} \/ m.request \in Nat \ {0}
        BY <2>1 DEF Outgoing
      <3> QED
        BY <3>1
    <2>2. ASSUME NEW m \in Incoming
          PROVE  m.request \in Nat
      <3>1. m.request \in {0} \/ m.request \in Nat
        BY <2>2 DEF Incoming
      <3> QED
        BY <3>1
    <2> QED
      BY <2>1, <2>2
  <1>2. \A k \in 1..Len(pending) : pending[k] \in Entry
    BY DEF TypeOK
  <1>3. \A k \in 1..Len(toStation) : toStation[k] \in Outgoing
    BY DEF TypeOK
  <1>4. \A k \in 1..Len(fromStation) : fromStation[k] \in Incoming
    BY DEF TypeOK
  <1>5. /\ Len(pending) \in Nat /\ Len(toStation) \in Nat
        /\ Len(fromStation) \in Nat /\ Len(asked) \in Nat
    BY DEF TypeOK
  <1> QED
    BY <1>1, <1>2, <1>3, <1>4, <1>5 DEF Entry, PendingNumber, SentNumber, AckNumber

\* Whatever becomes of the connection, writeLine() keeps a prefix of what was
\* written and adds at most the message; only an ordinary write loses nothing.
LEMMA WriteLineEffect ==
  ASSUME TypeOK, NEW message \in Outgoing, WriteLine(message)
  PROVE  /\ fromStation' = fromStation \/ fromStation' = <<>>
         /\ \E kept \in 0..Len(toStation) :
              /\ \/ Len(toStation') = kept
                 \/ Len(toStation') = kept + 1 /\ toStation'[kept + 1] = message
              /\ \A k \in 1..kept : toStation'[k] = toStation[k]
         /\ intact' => /\ intact
                       /\ toStation' = Append(toStation, message)
                       /\ fromStation' = fromStation
  <1>s. toStation \in Seq(Outgoing) /\ Len(toStation) \in Nat
    BY DEF TypeOK
  <1>1. ASSUME NoReconnect, toStation' = Append(toStation, message), UNCHANGED intact
        PROVE  /\ fromStation' = fromStation
               /\ Len(toStation') = Len(toStation) + 1
               /\ toStation'[Len(toStation) + 1] = message
               /\ \A k \in 1..Len(toStation) : toStation'[k] = toStation[k]
               /\ intact' => intact
    BY <1>1, <1>s DEF NoReconnect
  <1>2. ASSUME NoReconnect, UNCHANGED toStation
        PROVE  fromStation' = fromStation
    BY <1>2 DEF NoReconnect
  <1>3. ASSUME NEW kept \in 0..Len(toStation),
               Reconnect(TRUE),
               toStation' = Append(Prefix(toStation, kept), message),
               intact' = (intact /\ NothingLost(kept))
        PROVE  /\ fromStation' = <<>>
               /\ Len(toStation') = kept + 1 /\ toStation'[kept + 1] = message
               /\ \A k \in 1..kept : toStation'[k] = toStation[k]
               /\ intact' => /\ intact
                             /\ toStation' = Append(toStation, message)
                             /\ fromStation' = fromStation
    <2>1. fromStation' = <<>>
      BY <1>3 DEF Reconnect
    <2>2. /\ Prefix(toStation, kept) \in Seq(Outgoing)
          /\ Len(Prefix(toStation, kept)) = kept
          /\ \A k \in 1..kept : Prefix(toStation, kept)[k] = toStation[k]
      BY <1>s, PrefixProperties
    <2>3. ASSUME intact'
          PROVE  /\ intact
                 /\ toStation' = Append(toStation, message)
                 /\ fromStation' = fromStation
      <3>1. intact /\ NothingLost(kept)
        BY <1>3, <2>3
      <3> QED
        BY <1>3, <1>s, <2>1, <3>1, PrefixAll DEF NothingLost
    <2> QED
      BY <1>3, <2>1, <2>2, <2>3
  <1>4. ASSUME NEW kept \in 0..Len(toStation),
               NEW success \in BOOLEAN,
               Reconnect(success),
               toStation' = Prefix(toStation, kept)
        PROVE  /\ fromStation' = <<>>
               /\ Len(toStation') = kept
               /\ \A k \in 1..kept : toStation'[k] = toStation[k]
    BY <1>4, <1>s, PrefixProperties DEF Reconnect
  <1>a. CASE NoReconnect /\ toStation' = Append(toStation, message) /\ UNCHANGED intact
    BY <1>a, <1>1, <1>s
  <1>b. CASE NoReconnect /\ intact' = FALSE /\ UNCHANGED toStation
    BY <1>b, <1>2, <1>s
  <1>c. CASE \E kept \in 0..Len(toStation) :
               /\ Reconnect(TRUE)
               /\ toStation' = Append(Prefix(toStation, kept), message)
               /\ intact' = (intact /\ NothingLost(kept))
    <2>1. PICK kept \in 0..Len(toStation) :
               /\ Reconnect(TRUE)
               /\ toStation' = Append(Prefix(toStation, kept), message)
               /\ intact' = (intact /\ NothingLost(kept))
      BY <1>c
    <2> QED
      BY <2>1, <1>3
  <1>d. CASE \E success \in BOOLEAN, kept \in 0..Len(toStation) :
               /\ Reconnect(success)
               /\ toStation' = Prefix(toStation, kept)
               /\ intact' = FALSE
    BY <1>d, <1>4
  <1> QED
    BY <1>a, <1>b, <1>c, <1>d DEF WriteLine

\* Steps that touch neither a message nor a number.
LEMMA OrderUntouched ==
  ASSUME RequestsInOrder, RequestsNameTheirAddress,
         UNCHANGED <<pending, toStation, fromStation, asked>>
  PROVE  RequestsInOrder' /\ RequestsNameTheirAddress'
  BY DEF RequestsInOrder, RequestsNameTheirAddress, PendingNumber, SentNumber, AckNumber

\* Steps that lose the ends of both channels, or read the first message.
LEMMA OrderAfterLoss ==
  ASSUME TypeOK, TypeOK', RequestsInOrder, RequestsNameTheirAddress,
         UNCHANGED <<pending, asked>>,
         NEW shift \in {0, 1},
         \A k \in 1..Len(toStation') :
           k \in 1..Len(toStation) /\ toStation'[k] = toStation[k],
         \A k \in 1..Len(fromStation') :
           k + shift \in 1..Len(fromStation) /\ fromStation'[k] = fromStation[k + shift]
  PROVE  RequestsInOrder' /\ RequestsNameTheirAddress'
  <1>1. /\ \A k \in 1..Len(toStation') : SentNumber(k)' = SentNumber(k)
        /\ \A k \in 1..Len(fromStation') : AckNumber(k)' = AckNumber(k + shift)
        /\ \A k \in 1..Len(pending') : PendingNumber(k)' = PendingNumber(k)
    BY DEF SentNumber, AckNumber, PendingNumber
  <1>2. Len(toStation') \in Nat /\ Len(fromStation') \in Nat
    <2>1. toStation' \in Seq(Outgoing) /\ fromStation' \in Seq(Incoming)
      BY DEF TypeOK
    <2> QED
      BY <2>1
  <1>3. RequestsInOrder'
    BY <1>1, <1>2, NumberTypes DEF RequestsInOrder
  <1>4. RequestsNameTheirAddress'
    BY <1>1, <1>2, NumberTypes DEF RequestsNameTheirAddress
  <1> QED
    BY <1>3, <1>4

\* Sending the entry at the iterator: nothing numbered is still in front of it.
LEMMA OrderAfterSend ==
  ASSUME TypeOK, TypeOK', OrderInv, SchedulerSend
  PROVE  RequestsInOrder' /\ RequestsNameTheirAddress'
  <1>1. /\ it \in 1..Len(pending)
        /\ pending[it].dueAt <= tickNow
        /\ WriteLine(pending[it].message)
        /\ pending' = Erase(pending, it)
        /\ UNCHANGED asked
        /\ pc = "sending"
    BY DEF TypeOK, SchedulerSend
  <1>2. /\ pending \in Seq(Entry) /\ pending[it].message \in Outgoing
        /\ tickNow \in Nat
    <2>1. pending \in Seq(Entry) /\ tickNow \in Nat
      BY DEF TypeOK
    <2>2. pending[it] \in Entry
      BY <1>1, <2>1
    <2> QED
      BY <2>1, <2>2 DEF Entry
  <1>3. /\ Len(pending') = Len(pending) - 1
        /\ \A k \in 1..Len(pending') :
             PendingNumber(k)' = IF k < it THEN PendingNumber(k) ELSE PendingNumber(k + 1)
        /\ \A k \in 1..Len(pending') :
             pending'[k] = IF k < it THEN pending[k] ELSE pending[k + 1]
    BY <1>1, <1>2, EraseProperties DEF PendingNumber
  <1>4. \A k \in 1..Len(pending) : k < it => PendingNumber(k) = 0 \/ PendingNumber(it) = 0
    <2> SUFFICES ASSUME NEW k \in 1..Len(pending), k < it,
                        PendingNumber(k) # 0, PendingNumber(it) # 0
                 PROVE  FALSE
      OBVIOUS
    <2>1. pending[k].dueAt <= pending[it].dueAt
      BY <1>1 DEF OrderInv, RequestsDueInOrder
    <2>2. pending[k].dueAt > tickNow
      BY <1>1 DEF OrderInv, RequestsDueInOrder
    <2>3. pending[k].dueAt \in Nat /\ pending[it].dueAt \in Nat
      <3>1. pending[k] \in Entry /\ pending[it] \in Entry
        BY <1>1, <1>2
      <3> QED
        BY <3>1 DEF Entry
    <2> QED
      BY <1>1, <1>2, <2>1, <2>2, <2>3
  <1>5. PICK kept \in 0..Len(toStation) :
          /\ \/ Len(toStation') = kept
             \/ Len(toStation') = kept + 1 /\ toStation'[kept + 1] = pending[it].message
          /\ \A k \in 1..kept : toStation'[k] = toStation[k]
    BY <1>1, <1>2, WriteLineEffect
  <1>6. \A k \in 1..Len(toStation') :
          \/ k \in 1..Len(toStation) /\ k <= kept /\ toStation'[k] = toStation[k]
               /\ SentNumber(k)' = SentNumber(k)
          \/ k = kept + 1 /\ toStation'[k] = pending[it].message
               /\ SentNumber(k)' = PendingNumber(it)
    BY <1>5, NumberTypes DEF SentNumber, PendingNumber
  <1>7. \A k \in 1..Len(fromStation') :
          k \in 1..Len(fromStation) /\ AckNumber(k)' = AckNumber(k)
    <2>1. fromStation' = fromStation \/ fromStation' = <<>>
      BY <1>1, <1>2, WriteLineEffect
    <2> QED
      BY <2>1 DEF AckNumber
  <1>8. Len(toStation') \in Nat /\ Len(fromStation') \in Nat
    <2>1. toStation' \in Seq(Outgoing) /\ fromStation' \in Seq(Incoming)
      BY DEF TypeOK
    <2> QED
      BY <2>1
  <1>9. RequestsInOrder'
    <2> USE DEF OrderInv, RequestsInOrder
    <2>1. (\A i, j \in 1..Len(pending) :
             i < j /\ PendingNumber(i) # 0 /\ PendingNumber(j) # 0
               => PendingNumber(i) < PendingNumber(j))'
      BY <1>1, <1>3, NumberTypes
    <2>2. (\A i, j \in 1..Len(toStation) :
             i < j /\ SentNumber(i) # 0 /\ SentNumber(j) # 0
               => SentNumber(i) < SentNumber(j))'
      BY <1>1, <1>5, <1>6, <1>8, NumberTypes
    <2>3. (\A i, j \in 1..Len(fromStation) :
             i < j /\ AckNumber(i) # 0 /\ AckNumber(j) # 0
               => AckNumber(i) < AckNumber(j))'
      BY <1>7, <1>8, NumberTypes
    <2>4. (\A i \in 1..Len(toStation), j \in 1..Len(pending) :
             SentNumber(i) # 0 /\ PendingNumber(j) # 0
               => SentNumber(i) < PendingNumber(j))'
      BY <1>1, <1>3, <1>4, <1>6, <1>8, NumberTypes
    <2>5. (\A i \in 1..Len(fromStation), j \in 1..Len(toStation) :
             AckNumber(i) # 0 /\ SentNumber(j) # 0 => AckNumber(i) < SentNumber(j))'
      BY <1>1, <1>6, <1>7, <1>8, NumberTypes
    <2>6. (\A i \in 1..Len(fromStation), j \in 1..Len(pending) :
             AckNumber(i) # 0 /\ PendingNumber(j) # 0
               => AckNumber(i) < PendingNumber(j))'
      <3> SUFFICES ASSUME NEW i \in 1..Len(fromStation'), NEW j \in 1..Len(pending'),
                          AckNumber(i)' # 0, PendingNumber(j)' # 0
                   PROVE  AckNumber(i)' < PendingNumber(j)'
        OBVIOUS
      <3>1. i \in 1..Len(fromStation) /\ AckNumber(i)' = AckNumber(i)
        BY <1>7
      <3>2. \E k \in 1..Len(pending) : PendingNumber(j)' = PendingNumber(k)
        BY <1>1, <1>3, NumberTypes
      <3> QED
        BY <3>1, <3>2
    <2> QED
      BY <2>1, <2>2, <2>3, <2>4, <2>5, <2>6
  <1>10. RequestsNameTheirAddress'
    <2> USE DEF OrderInv, RequestsNameTheirAddress
    <2>1. ASSUME NEW k \in 1..Len(pending'), PendingNumber(k)' # 0
          PROVE  /\ PendingNumber(k)' <= Len(asked')
                 /\ pending'[k].message.address = asked'[PendingNumber(k)']
      <3>1. PICK j \in 1..Len(pending) :
              PendingNumber(k)' = PendingNumber(j) /\ pending'[k] = pending[j]
        <4>1. k \in 1..Len(pending) /\ k + 1 \in 1..Len(pending)
          BY <1>3, NumberTypes
        <4>2. CASE k < it
          BY <1>3, <4>1, <4>2
        <4>3. CASE ~(k < it)
          BY <1>3, <4>1, <4>3
        <4> QED
          BY <4>2, <4>3
      <3> QED
        BY <1>1, <2>1, <3>1
    <2>2. ASSUME NEW k \in 1..Len(toStation'), SentNumber(k)' # 0
          PROVE  /\ SentNumber(k)' <= Len(asked')
                 /\ toStation'[k].address = asked'[SentNumber(k)']
      BY <1>1, <1>6, <2>2
    <2>3. ASSUME NEW k \in 1..Len(fromStation')
          PROVE  AckNumber(k)' <= Len(asked')
      BY <1>1, <1>7, <2>3
    <2> QED
      BY <2>1, <2>2, <2>3
  <1> QED
    BY <1>9, <1>10

\* An answer takes the number of the request it answers.
LEMMA OrderAfterAnswer ==
  ASSUME TypeOK, TypeOK', OrderInv, toStation # <<>>,
         UNCHANGED <<pending, asked>>, toStation' = Tail(toStation),
         NEW message, message.request = Head(toStation).request,
         SentToDevice(message)
  PROVE  RequestsInOrder' /\ RequestsNameTheirAddress'
  <1>1. /\ Len(toStation') = Len(toStation) - 1
        /\ \A k \in 1..Len(toStation') :
             /\ k + 1 \in 1..Len(toStation)
             /\ toStation'[k] = toStation[k + 1]
             /\ SentNumber(k)' = SentNumber(k + 1)
        /\ 1 \in 1..Len(toStation)
        /\ message.request = SentNumber(1)
    <2>1. toStation \in Seq(Outgoing)
      BY DEF TypeOK
    <2> QED
      BY <2>1 DEF SentNumber
  <1>2. \A k \in 1..Len(fromStation') :
          \/ k \in 1..Len(fromStation) /\ AckNumber(k)' = AckNumber(k)
          \/ k = Len(fromStation) + 1 /\ AckNumber(k)' = SentNumber(1)
    <2>1. fromStation \in Seq(Incoming)
      BY DEF TypeOK
    <2>2. CASE fromStation' = fromStation
      BY <2>1, <2>2 DEF AckNumber
    <2>3. CASE fromStation' = Append(fromStation, message)
      BY <1>1, <2>1, <2>3 DEF AckNumber
    <2> QED
      BY <2>2, <2>3 DEF SentToDevice
  <1>3. \A k \in 1..Len(pending') : PendingNumber(k)' = PendingNumber(k)
    BY DEF PendingNumber
  <1>4. Len(toStation') \in Nat /\ Len(fromStation') \in Nat
    <2>1. toStation' \in Seq(Outgoing) /\ fromStation' \in Seq(Incoming)
      BY DEF TypeOK
    <2> QED
      BY <2>1
  <1>5. RequestsInOrder'
    <2> USE DEF OrderInv, RequestsInOrder
    <2>1. (\A i, j \in 1..Len(toStation) :
             i < j /\ SentNumber(i) # 0 /\ SentNumber(j) # 0
               => SentNumber(i) < SentNumber(j))'
      BY <1>1, <1>4, NumberTypes
    <2>2. (\A i, j \in 1..Len(fromStation) :
             i < j /\ AckNumber(i) # 0 /\ AckNumber(j) # 0
               => AckNumber(i) < AckNumber(j))'
      <3> SUFFICES ASSUME NEW i \in 1..Len(fromStation'), NEW j \in 1..Len(fromStation'),
                          i < j, AckNumber(i)' # 0, AckNumber(j)' # 0
                   PROVE  AckNumber(i)' < AckNumber(j)'
        OBVIOUS
      <3>1. i \in 1..Len(fromStation) /\ AckNumber(i)' = AckNumber(i)
        BY <1>2, <1>4, NumberTypes
      <3>2. CASE j \in 1..Len(fromStation) /\ AckNumber(j)' = AckNumber(j)
        BY <3>1, <3>2
      <3>3. CASE AckNumber(j)' = SentNumber(1)
        BY <1>1, <3>1, <3>3
      <3> QED
        BY <1>2, <3>2, <3>3
    <2>3. (\A i \in 1..Len(fromStation), j \in 1..Len(toStation) :
             AckNumber(i) # 0 /\ SentNumber(j) # 0 => AckNumber(i) < SentNumber(j))'
      BY <1>1, <1>2, <1>4, NumberTypes
    <2>4. (\A i \in 1..Len(toStation), j \in 1..Len(pending) :
             SentNumber(i) # 0 /\ PendingNumber(j) # 0
               => SentNumber(i) < PendingNumber(j))'
      BY <1>1, <1>3, <1>4, NumberTypes
    <2>5. (\A i \in 1..Len(fromStation), j \in 1..Len(pending) :
             AckNumber(i) # 0 /\ PendingNumber(j) # 0
               => AckNumber(i) < PendingNumber(j))'
      BY <1>1, <1>2, <1>3, <1>4, NumberTypes
    <2> QED
      BY <1>3, <2>1, <2>2, <2>3, <2>4, <2>5
  <1>6. RequestsNameTheirAddress'
    <2> USE DEF OrderInv, RequestsNameTheirAddress
    <2>1. ASSUME NEW k \in 1..Len(toStation'), SentNumber(k)' # 0
          PROVE  /\ SentNumber(k)' <= Len(asked')
                 /\ toStation'[k].address = asked'[SentNumber(k)']
      BY <1>1, <2>1
    <2>2. ASSUME NEW k \in 1..Len(fromStation')
          PROVE  AckNumber(k)' <= Len(asked')
      BY <1>1, <1>2, <2>2, NumberTypes
    <2> QED
      BY <1>3, <2>1, <2>2
  <1> QED
    BY <1>5, <1>6

\* Bus traffic without a number may arrive at any time.
LEMMA OrderAfterTraffic ==
  ASSUME TypeOK, TypeOK', OrderInv,
         UNCHANGED <<pending, asked, toStation>>,
         NEW message, message.request = 0, SentToDevice(message)
  PROVE  RequestsInOrder' /\ RequestsNameTheirAddress'
  <1>1. \A k \in 1..Len(fromStation') :
          \/ k \in 1..Len(fromStation) /\ AckNumber(k)' = AckNumber(k)
          \/ k = Len(fromStation) + 1 /\ AckNumber(k)' = 0
    <2>1. fromStation \in Seq(Incoming)
      BY DEF TypeOK
    <2>2. CASE fromStation' = fromStation
      BY <2>1, <2>2 DEF AckNumber
    <2>3. CASE fromStation' = Append(fromStation, message)
      BY <2>1, <2>3 DEF AckNumber
    <2> QED
      BY <2>2, <2>3 DEF SentToDevice
  <1>2. /\ \A k \in 1..Len(pending') : PendingNumber(k)' = PendingNumber(k)
        /\ \A k \in 1..Len(toStation') : SentNumber(k)' = SentNumber(k)
    BY DEF PendingNumber, SentNumber
  <1>3. Len(fromStation') \in Nat
    <2>1. fromStation' \in Seq(Incoming)
      BY DEF TypeOK
    <2> QED
      BY <2>1
  <1>4. RequestsInOrder'
    BY <1>1, <1>2, <1>3, NumberTypes DEF OrderInv, RequestsInOrder
  <1>5. RequestsNameTheirAddress'
    BY <1>1, <1>2, <1>3, NumberTypes DEF OrderInv, RequestsNameTheirAddress
  <1> QED
    BY <1>4, <1>5

\* The i-th request of a query is due no later than the ones behind it, and the
\* last one within the debounce.
LEMMA StaggerProperties ==
  /\ \A i, j \in 1..QuerySize :
       i <= j => (i - 1) * kQueryStaggerMs <= (j - 1) * kQueryStaggerMs
  /\ \A i \in 1..QuerySize :
       /\ (i - 1) * kQueryStaggerMs \in Nat
       /\ (i - 1) * kQueryStaggerMs <= kStableConnectionMs
  <1>1. QuerySize \in Nat \ {0}
    BY AddressAssumption DEF QuerySize
  <1>2. \A a, b, c \in Nat : a <= b => a * c <= b * c
    <2> SUFFICES ASSUME NEW a \in Nat, NEW b \in Nat, NEW c \in Nat, a <= b
                 PROVE  a * c <= b * c
      OBVIOUS
    <2>1. PICK d \in Nat : b = a + d
      <3>1. b - a \in Nat /\ b = a + (b - a)
        OBVIOUS
      <3> QED
        BY <3>1
    <2>2. b * c = a * c + d * c
      BY <2>1
    <2>3. a * c \in Nat /\ d * c \in Nat
      OBVIOUS
    <2> QED
      BY <2>2, <2>3
  <1>3. ASSUME NEW i \in 1..QuerySize, NEW j \in 1..QuerySize, i <= j
        PROVE  (i - 1) * kQueryStaggerMs <= (j - 1) * kQueryStaggerMs
    <2>1. i - 1 \in Nat /\ j - 1 \in Nat /\ i - 1 <= j - 1
      BY <1>1, <1>3
    <2> QED
      BY <1>2, <2>1, TimerAssumption
  <1>4. ASSUME NEW i \in 1..QuerySize
        PROVE  /\ (i - 1) * kQueryStaggerMs \in Nat
               /\ (i - 1) * kQueryStaggerMs <= kStableConnectionMs
    <2>1. i <= QuerySize /\ QuerySize \in 1..QuerySize /\ i - 1 \in Nat
      BY <1>1
    <2>2. (i - 1) * kQueryStaggerMs <= (QuerySize - 1) * kQueryStaggerMs
      BY <1>3, <2>1
    <2>3. /\ (i - 1) * kQueryStaggerMs \in Nat
          /\ (QuerySize - 1) * kQueryStaggerMs \in Nat
      BY <1>1, <2>1, TimerAssumption
    <2> QED
      BY <2>2, <2>3, StaggerAssumption, TimerAssumption
  <1> QED
    BY <1>3, <1>4

\* What a query adds to pending: new numbers in ascending order, each naming
\* the address it is asked for, due after everything numbered before.
LEMMA QueryEffect ==
  ASSUME TypeOK, QueryAllTurnouts
  PROVE  /\ Len(pending') = Len(pending) + QuerySize
         /\ Len(asked') = Len(asked) + QuerySize
         /\ Len(pendingAddresses') = Len(pendingAddresses) + QuerySize
         /\ \A k \in 1..Len(pending) :
              pending'[k] = pending[k] /\ PendingNumber(k)' = PendingNumber(k)
         /\ \A n \in 1..Len(asked) : asked'[n] = asked[n]
         /\ \A n \in 1..Len(pendingAddresses) : pendingAddresses'[n] = pendingAddresses[n]
         /\ \A i \in 1..QuerySize :
              pendingAddresses'[Len(pendingAddresses) + i] = asked'[Len(asked) + i]
         /\ \A k \in (Len(pending) + 1)..Len(pending') :
              \E i \in 1..QuerySize :
                /\ k = Len(pending) + i
                /\ PendingNumber(k)' = Len(asked) + i
                /\ pending'[k].message.address = asked'[Len(asked) + i]
                /\ pending'[k].dueAt = now + (i - 1) * kQueryStaggerMs
  <1>1. /\ pending' = pending \o QueryBatch
        /\ asked' = asked \o QueryAddresses
        /\ pendingAddresses' = pendingAddresses \o QueryAddresses
    BY DEF QueryAllTurnouts
  <1>2. /\ pending \in Seq(Entry) /\ asked \in Seq(Addresses)
        /\ pendingAddresses \in Seq(Addresses)
    BY DEF TypeOK
  <1>3. /\ Len(pending') = Len(pending) + QuerySize
        /\ \A k \in 1..Len(pending) : pending'[k] = pending[k]
        /\ \A i \in 1..QuerySize : pending'[Len(pending) + i] = QueryBatch[i]
    <2>1. QueryBatch \in Seq(Entry) /\ Len(QueryBatch) = QuerySize
      BY QueryTypes
    <2> HIDE DEF QueryBatch
    <2> QED
      <3>1. /\ Len(pending \o QueryBatch) = Len(pending) + Len(QueryBatch)
            /\ \A k \in 1..Len(pending) : (pending \o QueryBatch)[k] = pending[k]
            /\ \A i \in 1..Len(QueryBatch) :
                 (pending \o QueryBatch)[Len(pending) + i] = QueryBatch[i]
        BY <1>2, <2>1, ConcatSplit
      <3> QED
        BY <1>1, <2>1, <3>1
  <1>4. /\ Len(asked') = Len(asked) + QuerySize
        /\ \A n \in 1..Len(asked) : asked'[n] = asked[n]
        /\ \A i \in 1..QuerySize : asked'[Len(asked) + i] = QueryAddresses[i]
    BY <1>1, <1>2, QueryTypes
  <1>5. /\ Len(pendingAddresses') = Len(pendingAddresses) + QuerySize
        /\ \A n \in 1..Len(pendingAddresses) : pendingAddresses'[n] = pendingAddresses[n]
        /\ \A i \in 1..QuerySize :
             pendingAddresses'[Len(pendingAddresses) + i] = QueryAddresses[i]
    BY <1>1, <1>2, QueryTypes
  <1>6. \A i \in 1..QuerySize :
          /\ QueryBatch[i].message.request = Len(asked) + i
          /\ QueryBatch[i].message.address = QueryAddresses[i]
          /\ QueryBatch[i].dueAt = now + (i - 1) * kQueryStaggerMs
    BY DEF QueryBatch, SwState
  <1>7. \A k \in 1..Len(pending) :
          pending'[k] = pending[k] /\ PendingNumber(k)' = PendingNumber(k)
    BY <1>3 DEF PendingNumber
  <1>8. ASSUME NEW k \in (Len(pending) + 1)..Len(pending')
        PROVE  \E i \in 1..QuerySize :
                 /\ k = Len(pending) + i
                 /\ PendingNumber(k)' = Len(asked) + i
                 /\ pending'[k].message.address = asked'[Len(asked) + i]
                 /\ pending'[k].dueAt = now + (i - 1) * kQueryStaggerMs
    <2> DEFINE i == k - Len(pending)
    <2>1. i \in 1..QuerySize /\ k = Len(pending) + i
      BY <1>2, <1>3, QueryTypes
    <2>2. pending'[k] = QueryBatch[i]
      BY <1>3, <2>1
    <2> HIDE DEF i
    <2>3. PendingNumber(k)' = pending'[k].message.request
      BY DEF PendingNumber
    <2> QED
      BY <1>4, <1>6, <2>1, <2>2, <2>3
  <1> QED
    BY <1>3, <1>4, <1>5, <1>7, <1>8

\* A query appends behind requests that are all due by now.
LEMMA OrderAfterQuery ==
  ASSUME TypeOK, TypeOK', OrderInv, QueryAllTurnouts
  PROVE  OrderInv'
  <1>1. /\ UNCHANGED <<now, toStation, fromStation, it, tickNow>>
        /\ queriedThisConnection' = TRUE
        /\ pc' = "commands"
    BY DEF QueryAllTurnouts, stream
  <1>t. /\ now \in Nat /\ connectedSince \in Nat \cup {NoTime}
        /\ queriedThisConnection \in BOOLEAN
    BY DEF TypeOK
  \* What is still pending was due before the debounce began.
  <1>2. \A k \in 1..Len(pending) : PendingNumber(k) # 0 => pending[k].dueAt <= now
    <2> SUFFICES ASSUME NEW k \in 1..Len(pending), PendingNumber(k) # 0
                 PROVE  pending[k].dueAt <= now
      OBVIOUS
    <2>1. ~queriedThisConnection /\ now - ConnectedSinceSet >= kStableConnectionMs
      BY DEF QueryAllTurnouts, ReadyToQuery
    <2>2. pending[k].dueAt \in Nat
      BY NumberTypes
    <2>3. CASE connectedSince = NoTime
      BY <1>t, <2>1, <2>2, <2>3, TimerAssumption
      DEF OrderInv, RequestsDueBeforeNextQuery, ConnectedSinceSet
    <2>4. CASE connectedSince # NoTime
      BY <1>t, <2>1, <2>2, <2>4, TimerAssumption
      DEF OrderInv, RequestsDueBeforeNextQuery, ConnectedSinceSet
    <2> QED
      BY <2>3, <2>4
  <1>n. /\ \A k \in 1..Len(pending') :
             k \in 1..Len(pending) \/ k \in (Len(pending) + 1)..Len(pending')
        /\ \A k \in 1..Len(pending) : k \in 1..Len(pending')
    <2>1. Len(pending') = Len(pending) + QuerySize
      BY QueryEffect
    <2>2. QuerySize \in Nat /\ Len(pending) \in Nat
      BY QueryTypes, NumberTypes
    <2> QED
      BY <2>1, <2>2
  \* The entries that were there, and the new ones: their numbers, their times.
  <1>o. \A k \in 1..Len(pending) :
          pending'[k] = pending[k] /\ PendingNumber(k)' = PendingNumber(k)
    BY QueryEffect
  <1>a. \A k \in (Len(pending) + 1)..Len(pending') :
          /\ PendingNumber(k)' = Len(asked) + (k - Len(pending))
          /\ PendingNumber(k)' \in (Len(asked) + 1)..Len(asked')
          /\ pending'[k].message.address = asked'[PendingNumber(k)']
    <2> SUFFICES ASSUME NEW k \in (Len(pending) + 1)..Len(pending')
                 PROVE  /\ PendingNumber(k)' = Len(asked) + (k - Len(pending))
                        /\ PendingNumber(k)' \in (Len(asked) + 1)..Len(asked')
                        /\ pending'[k].message.address = asked'[PendingNumber(k)']
      OBVIOUS
    <2>1. PICK i \in 1..QuerySize :
            /\ k = Len(pending) + i
            /\ PendingNumber(k)' = Len(asked) + i
            /\ pending'[k].message.address = asked'[Len(asked) + i]
      BY QueryEffect
    <2>2. Len(asked') = Len(asked) + QuerySize
      BY QueryEffect
    <2> QED
      BY <2>1, <2>2, QueryTypes, NumberTypes
  <1>d. \A k \in (Len(pending) + 1)..Len(pending') :
          \E i \in 1..QuerySize :
            /\ k = Len(pending) + i
            /\ pending'[k].dueAt = now + (i - 1) * kQueryStaggerMs
    BY QueryEffect
  <1>4. /\ \A k \in 1..Len(toStation') : SentNumber(k)' = SentNumber(k)
        /\ \A k \in 1..Len(fromStation') : AckNumber(k)' = AckNumber(k)
    BY <1>1 DEF SentNumber, AckNumber
  <1>5. /\ QuerySize \in Nat /\ Len(pending') = Len(pending) + QuerySize
        /\ Len(asked') = Len(asked) + QuerySize
        /\ \A n \in 1..Len(asked) : asked'[n] = asked[n]
    BY QueryEffect, QueryTypes
  <1>6. /\ \A k \in 1..Len(pending) : PendingNumber(k) <= Len(asked)
        /\ \A k \in 1..Len(toStation) : SentNumber(k) <= Len(asked)
        /\ \A k \in 1..Len(fromStation) : AckNumber(k) <= Len(asked)
    BY NumberTypes DEF OrderInv, RequestsNameTheirAddress
  <1>7. RequestsInOrder'
    <2> USE DEF OrderInv, RequestsInOrder
    <2>1. ASSUME NEW k \in 1..Len(pending'), NEW j \in 1..Len(pending'),
                 k < j, PendingNumber(k)' # 0, PendingNumber(j)' # 0
          PROVE  PendingNumber(k)' < PendingNumber(j)'
      <3>1. CASE j \in 1..Len(pending)
        <4>1. k \in 1..Len(pending)
          BY <2>1, <3>1, NumberTypes
        <4> QED
          BY <1>o, <2>1, <3>1, <4>1
      <3>2. CASE j \in (Len(pending) + 1)..Len(pending')
        <4>1. CASE k \in 1..Len(pending)
          BY <1>5, <1>6, <1>a, <1>o, <3>2, <4>1, NumberTypes
        <4>2. CASE k \in (Len(pending) + 1)..Len(pending')
          BY <1>a, <2>1, <3>2, <4>2, NumberTypes
        <4> QED
          BY <1>n, <4>1, <4>2
      <3> QED
        BY <1>n, <3>1, <3>2
    <2>2. ASSUME NEW k \in 1..Len(toStation'), NEW j \in 1..Len(pending'),
                 SentNumber(k)' # 0, PendingNumber(j)' # 0
          PROVE  SentNumber(k)' < PendingNumber(j)'
      <3>1. k \in 1..Len(toStation) /\ SentNumber(k)' = SentNumber(k)
        BY <1>1, <1>4
      <3>2. CASE j \in 1..Len(pending)
        BY <1>o, <2>2, <3>1, <3>2
      <3>3. CASE j \in (Len(pending) + 1)..Len(pending')
        BY <1>5, <1>6, <1>a, <3>1, <3>3, NumberTypes
      <3> QED
        BY <1>n, <3>2, <3>3
    <2>3. ASSUME NEW k \in 1..Len(fromStation'), NEW j \in 1..Len(pending'),
                 AckNumber(k)' # 0, PendingNumber(j)' # 0
          PROVE  AckNumber(k)' < PendingNumber(j)'
      <3>1. k \in 1..Len(fromStation) /\ AckNumber(k)' = AckNumber(k)
        BY <1>1, <1>4
      <3>2. CASE j \in 1..Len(pending)
        BY <1>o, <2>3, <3>1, <3>2
      <3>3. CASE j \in (Len(pending) + 1)..Len(pending')
        BY <1>5, <1>6, <1>a, <3>1, <3>3, NumberTypes
      <3> QED
        BY <1>n, <3>2, <3>3
    <2> QED
      BY <1>1, <1>4, <2>1, <2>2, <2>3
  <1>8. RequestsNameTheirAddress'
    <2> USE DEF OrderInv, RequestsNameTheirAddress
    <2>1. ASSUME NEW k \in 1..Len(pending'), PendingNumber(k)' # 0
          PROVE  /\ PendingNumber(k)' <= Len(asked')
                 /\ pending'[k].message.address = asked'[PendingNumber(k)']
      <3>1. CASE k \in 1..Len(pending)
        <4>1. PendingNumber(k) \in 1..Len(asked)
          BY <1>6, <1>o, <2>1, <3>1, NumberTypes
        <4> QED
          BY <1>5, <1>o, <2>1, <3>1, <4>1, NumberTypes
      <3>2. CASE k \in (Len(pending) + 1)..Len(pending')
        BY <1>5, <1>a, <3>2, NumberTypes
      <3> QED
        BY <1>n, <3>1, <3>2
    <2>2. ASSUME NEW k \in 1..Len(toStation'), SentNumber(k)' # 0
          PROVE  /\ SentNumber(k)' <= Len(asked')
                 /\ toStation'[k].address = asked'[SentNumber(k)']
      BY <1>1, <1>4, <1>5, <2>2, NumberTypes
    <2>3. ASSUME NEW k \in 1..Len(fromStation')
          PROVE  AckNumber(k)' <= Len(asked')
      BY <1>1, <1>4, <1>5, <1>6, <2>3, NumberTypes
    <2> QED
      BY <2>1, <2>2, <2>3
  <1>9. RequestsDueInOrder'
    <2>1. ASSUME NEW k \in 1..Len(pending'), NEW j \in 1..Len(pending'),
                 k < j, PendingNumber(k)' # 0, PendingNumber(j)' # 0
          PROVE  pending'[k].dueAt <= pending'[j].dueAt
      <3>1. CASE j \in 1..Len(pending)
        <4>1. k \in 1..Len(pending)
          BY <2>1, <3>1, NumberTypes
        <4> QED
          BY <1>o, <2>1, <3>1, <4>1 DEF OrderInv, RequestsDueInOrder
      <3>2. CASE j \in (Len(pending) + 1)..Len(pending')
        <4>1. PICK i \in 1..QuerySize :
                /\ j = Len(pending) + i
                /\ pending'[j].dueAt = now + (i - 1) * kQueryStaggerMs
          BY <1>d, <3>2
        <4>2. (i - 1) * kQueryStaggerMs \in Nat
          BY StaggerProperties
        <4>3. CASE k \in 1..Len(pending)
          <5>1. pending'[k].dueAt <= now /\ pending'[k].dueAt \in Nat
            BY <1>2, <1>o, <2>1, <4>3, NumberTypes
          <5> QED
            BY <1>t, <4>1, <4>2, <5>1
        <4>4. CASE k \in (Len(pending) + 1)..Len(pending')
          <5>1. PICK h \in 1..QuerySize :
                  /\ k = Len(pending) + h
                  /\ pending'[k].dueAt = now + (h - 1) * kQueryStaggerMs
            BY <1>d, <4>4
          <5>2. h <= i
            BY <1>5, <2>1, <4>1, <5>1, NumberTypes
          <5>3. /\ (h - 1) * kQueryStaggerMs \in Nat
                /\ (h - 1) * kQueryStaggerMs <= (i - 1) * kQueryStaggerMs
            BY <5>2, StaggerProperties
          <5> QED
            BY <1>t, <4>1, <4>2, <5>1, <5>3
        <4> QED
          BY <1>n, <4>3, <4>4
      <3> QED
        BY <1>n, <3>1, <3>2
    <2> QED
      BY <1>1, <2>1 DEF RequestsDueInOrder
  <1>10. RequestsDueBeforeNextQuery'
    <2>1. ASSUME NEW k \in 1..Len(pending'), PendingNumber(k)' # 0
          PROVE  pending'[k].dueAt <= now + kStableConnectionMs
      <3>1. CASE k \in 1..Len(pending)
        BY <1>2, <1>o, <1>t, <2>1, <3>1, NumberTypes, TimerAssumption
      <3>2. CASE k \in (Len(pending) + 1)..Len(pending')
        <4>1. PICK i \in 1..QuerySize : pending'[k].dueAt = now + (i - 1) * kQueryStaggerMs
          BY <1>d, <3>2
        <4>2. /\ (i - 1) * kQueryStaggerMs \in Nat
              /\ (i - 1) * kQueryStaggerMs <= kStableConnectionMs
          BY StaggerProperties
        <4> QED
          BY <1>t, <4>1, <4>2, TimerAssumption
      <3> QED
        BY <1>n, <3>1, <3>2
    <2> QED
      BY <1>1, <2>1 DEF RequestsDueBeforeNextQuery
  <1> QED
    BY <1>7, <1>8, <1>9, <1>10 DEF OrderInv

\* A command adds messages without a number.
LEMMA OrderAfterCommand ==
  ASSUME TypeOK, TypeOK', OrderInv, CommandAccepted
  PROVE  OrderInv'
  <1> DEFINE command == Head(pendingCommands)
             onMessage == SwReq(command.address, command.position, TRUE)
             offEntry == [message |-> SwReq(command.address, command.position, FALSE),
                          dueAt |-> now + kOffPulseDelayMs]
  <1>1. /\ command \in TurnoutCommands /\ command.address \in Addresses
        /\ WriteLine(onMessage)
        /\ pending' = Append(pending, offEntry)
        /\ UNCHANGED <<pc, now, it, tickNow, connectedSince, queriedThisConnection, asked>>
        /\ pc = "commands"
    <2>1. pendingCommands # <<>> /\ pendingCommands \in Seq(TurnoutCommands)
      BY DEF CommandAccepted, TypeOK
    <2>2. command \in TurnoutCommands
      BY <2>1
    <2> QED
      BY <2>2 DEF CommandAccepted
  <1>2. onMessage \in Outgoing /\ onMessage.request = 0
    BY <1>1, CommandAssumption DEF SwReq, Outgoing
  <1>3. /\ pending \in Seq(Entry) /\ offEntry.message.request = 0
    BY DEF TypeOK, SwReq
  <1>4. /\ Len(pending') = Len(pending) + 1
        /\ \A k \in 1..Len(pending) : pending'[k] = pending[k]
        /\ pending'[Len(pending) + 1].message.request = 0
    <2> HIDE DEF offEntry
    <2> QED
      BY <1>1, <1>3
  <1> HIDE DEF onMessage, offEntry, command
  <1>5. \A k \in 1..Len(pending') :
          PendingNumber(k)' # 0 =>
            /\ k \in 1..Len(pending)
            /\ pending'[k] = pending[k]
            /\ PendingNumber(k)' = PendingNumber(k)
    BY <1>4, NumberTypes DEF PendingNumber
  <1>6. PICK kept \in 0..Len(toStation) :
          /\ \/ Len(toStation') = kept
             \/ Len(toStation') = kept + 1 /\ toStation'[kept + 1] = onMessage
          /\ \A k \in 1..kept : toStation'[k] = toStation[k]
    BY <1>1, <1>2, WriteLineEffect
  <1>7. \A k \in 1..Len(toStation') :
          SentNumber(k)' # 0 =>
            /\ k \in 1..Len(toStation)
            /\ toStation'[k] = toStation[k]
            /\ SentNumber(k)' = SentNumber(k)
    BY <1>2, <1>6, NumberTypes DEF SentNumber
  <1>8. \A k \in 1..Len(fromStation') :
          k \in 1..Len(fromStation) /\ AckNumber(k)' = AckNumber(k)
    <2>1. fromStation' = fromStation \/ fromStation' = <<>>
      BY <1>1, <1>2, WriteLineEffect
    <2> QED
      BY <2>1 DEF AckNumber
  <1>9. RequestsInOrder'
    BY <1>5, <1>7, <1>8 DEF OrderInv, RequestsInOrder
  <1>10. RequestsNameTheirAddress'
    BY <1>1, <1>5, <1>7, <1>8 DEF OrderInv, RequestsNameTheirAddress
  <1>11. RequestsDueInOrder'
    BY <1>1, <1>5 DEF OrderInv, RequestsDueInOrder
  <1>12. RequestsDueBeforeNextQuery'
    BY <1>1, <1>5 DEF OrderInv, RequestsDueBeforeNextQuery
  <1> QED
    BY <1>9, <1>10, <1>11, <1>12 DEF OrderInv

\* Steps after which pending and the query's timers are as before.
LEMMA DueUntouched ==
  ASSUME OrderInv, UNCHANGED <<pc, now, pending, it, tickNow, connectedSince,
                               queriedThisConnection>>
  PROVE  RequestsDueInOrder' /\ RequestsDueBeforeNextQuery'
  BY DEF OrderInv, RequestsDueInOrder, RequestsDueBeforeNextQuery, PendingNumber

\* Handlers that come and go, and a clock that runs, put nothing out of order.
LEMMA DueAfterControl ==
  ASSUME TypeOK, TypeOK', OrderInv, UNCHANGED pending,
         \/ pc' # "sending" /\ UNCHANGED <<now, connectedSince, queriedThisConnection>>
         \/ SchedulerBegin \/ SchedulerSkip \/ QueryReset \/ QueryWait \/ Tick
  PROVE  RequestsDueInOrder' /\ RequestsDueBeforeNextQuery'
  <1> USE DEF OrderInv, RequestsDueInOrder, RequestsDueBeforeNextQuery
  <1>1. /\ \A k \in 1..Len(pending) : PendingNumber(k)' = PendingNumber(k)
        /\ now \in Nat /\ it \in Nat
        /\ connectedSince \in Nat \cup {NoTime}
    BY DEF PendingNumber, TypeOK
  <1>2. CASE pc' # "sending" /\ UNCHANGED <<now, connectedSince, queriedThisConnection>>
    BY <1>1, <1>2
  <1>3. CASE SchedulerBegin
    <2>1. RequestsDueInOrder'
      <3>1. \A k \in 1..Len(pending) : ~(k < it')
        BY <1>3, NumberTypes DEF SchedulerBegin
      <3> QED
        BY <1>1, <3>1
    <2>2. RequestsDueBeforeNextQuery'
      BY <1>1, <1>3 DEF SchedulerBegin
    <2> QED
      BY <2>1, <2>2
  <1>4. CASE SchedulerSkip
    BY <1>1, <1>4, NumberTypes DEF SchedulerSkip
  <1>5. CASE QueryReset
    BY <1>1, <1>5 DEF QueryReset
  <1>6. CASE QueryWait
    BY <1>1, <1>6 DEF QueryWait, ConnectedSinceSet
  <1>7. CASE Tick
    BY <1>1, <1>7, NumberTypes, TimerAssumption DEF Tick, device
  <1> QED
    BY <1>2, <1>3, <1>4, <1>5, <1>6, <1>7

\* Taking an entry out leaves the others in order.
LEMMA DueAfterSend ==
  ASSUME TypeOK, TypeOK', OrderInv, SchedulerSend
  PROVE  RequestsDueInOrder' /\ RequestsDueBeforeNextQuery'
  <1>1. /\ it \in 1..Len(pending) /\ pending' = Erase(pending, it)
        /\ UNCHANGED <<pc, now, it, tickNow, connectedSince, queriedThisConnection>>
        /\ pending \in Seq(Entry)
    BY DEF TypeOK, SchedulerSend
  <1>2. /\ Len(pending') = Len(pending) - 1
        /\ \A k \in 1..Len(pending') :
             pending'[k] = IF k < it THEN pending[k] ELSE pending[k + 1]
    BY <1>1, EraseProperties
  <1>3. \A k \in 1..Len(pending') :
          PendingNumber(k)' = IF k < it THEN PendingNumber(k) ELSE PendingNumber(k + 1)
    BY <1>2 DEF PendingNumber
  <1> DEFINE from(k) == IF k < it THEN k ELSE k + 1
  <1>4. \A k \in 1..Len(pending') :
          /\ from(k) \in 1..Len(pending)
          /\ pending'[k] = pending[from(k)]
          /\ PendingNumber(k)' = PendingNumber(from(k))
    BY <1>1, <1>2, <1>3, NumberTypes
  <1>5. /\ \A i, j \in 1..Len(pending') : i < j => from(i) < from(j)
        /\ \A k \in 1..Len(pending') : k < it => from(k) = k
    BY <1>1, <1>2, NumberTypes
  <1> HIDE DEF from
  <1>6. RequestsDueInOrder'
    <2>1. ASSUME NEW i \in 1..Len(pending'), NEW j \in 1..Len(pending'),
                 i < j, PendingNumber(i)' # 0, PendingNumber(j)' # 0
          PROVE  pending'[i].dueAt <= pending'[j].dueAt
      BY <1>4, <1>5, <2>1 DEF OrderInv, RequestsDueInOrder
    <2>2. ASSUME pc' = "sending", NEW k \in 1..Len(pending'), k < it'
          PROVE  pending'[k].dueAt > tickNow'
      BY <1>1, <1>4, <1>5, <2>2 DEF OrderInv, RequestsDueInOrder
    <2> QED
      BY <2>1, <2>2 DEF RequestsDueInOrder
  <1>7. RequestsDueBeforeNextQuery'
    BY <1>1, <1>4 DEF OrderInv, RequestsDueBeforeNextQuery
  <1> QED
    BY <1>6, <1>7

\* OrderInv holds initially: nothing is under way.
LEMMA OrderInit ==
  ASSUME Init
  PROVE  OrderInv
  BY DEF Init, OrderInv, RequestsInOrder, RequestsNameTheirAddress,
         RequestsDueInOrder, RequestsDueBeforeNextQuery

\* What a connection that breaks or is replaced leaves of the two channels.
LEMMA LossEffect ==
  ASSUME TypeOK, RouterReconnect \/ LinkBreaks
  PROVE  /\ \A k \in 1..Len(toStation') :
              k \in 1..Len(toStation) /\ toStation'[k] = toStation[k]
         /\ \A k \in 1..Len(fromStation') :
              k \in 1..Len(fromStation) /\ fromStation'[k] = fromStation[k]
         /\ intact' => intact /\ toStation' = toStation /\ fromStation' = fromStation
  <1>t. toStation \in Seq(Outgoing) /\ fromStation \in Seq(Incoming)
    BY DEF TypeOK
  <1>1. CASE RouterReconnect
    <2>1. PICK kept \in 0..Len(toStation) :
            /\ fromStation' = <<>>
            /\ toStation' = Prefix(toStation, kept)
            /\ intact' = (intact /\ NothingLost(kept))
      BY <1>1 DEF RouterReconnect, Reconnect
    <2>2. /\ Len(toStation') = kept
          /\ \A k \in 1..kept : toStation'[k] = toStation[k]
      BY <1>t, <2>1, PrefixProperties
    <2>3. ASSUME intact'
          PROVE  intact /\ toStation' = toStation /\ fromStation' = fromStation
      <3>1. intact /\ NothingLost(kept)
        BY <2>1, <2>3
      <3> QED
        BY <1>t, <2>1, <3>1, PrefixAll DEF NothingLost
    <2> QED
      BY <1>t, <2>1, <2>2, <2>3
  <1>2. CASE LinkBreaks
    <2>1. PICK received \in 0..Len(fromStation), kept \in 0..Len(toStation) :
            /\ fromStation' = Prefix(fromStation, received)
            /\ toStation' = Prefix(toStation, kept)
            /\ intact' = (intact /\ received = Len(fromStation)
                                 /\ kept = Len(toStation))
      BY <1>2 DEF LinkBreaks
    <2>2. /\ Len(toStation') = kept
          /\ \A k \in 1..kept : toStation'[k] = toStation[k]
          /\ Len(fromStation') = received
          /\ \A k \in 1..received : fromStation'[k] = fromStation[k]
      BY <1>t, <2>1, PrefixProperties
    <2>3. ASSUME intact'
          PROVE  intact /\ toStation' = toStation /\ fromStation' = fromStation
      <3>1. intact /\ received = Len(fromStation) /\ kept = Len(toStation)
        BY <2>1, <2>3
      <3> QED
        BY <1>t, <2>1, <3>1, PrefixAll
    <2> QED
      BY <1>t, <2>1, <2>2, <2>3
  <1> QED
    BY <1>1, <1>2

\* What reading a message leaves of fromStation.
LEMMA ReadEffect ==
  ASSUME TypeOK, fromStation # <<>>, fromStation' = Tail(fromStation)
  PROVE  /\ Len(fromStation') = Len(fromStation) - 1
         /\ \A k \in 1..Len(fromStation') :
              k + 1 \in 1..Len(fromStation) /\ fromStation'[k] = fromStation[k + 1]
         /\ Head(fromStation) = fromStation[1] /\ 1 \in 1..Len(fromStation)
  <1>1. fromStation \in Seq(Incoming)
    BY DEF TypeOK
  <1> QED
    BY <1>1

\* OrderInv is preserved by every step.
LEMMA OrderStep ==
  ASSUME TypeOK, TypeOK', OrderInv, [Next]_vars
  PROVE  OrderInv'
  <1> USE DEF device, stream, railway, history, counters
  <1>o. RequestsInOrder /\ RequestsNameTheirAddress
    BY DEF OrderInv
  <1>1. CASE MqttReceive
    <2>1. /\ UNCHANGED <<pending, toStation, fromStation, asked>>
          /\ pc' # "sending" /\ UNCHANGED <<now, connectedSince, queriedThisConnection>>
      BY <1>1 DEF MqttReceive
    <2> QED
      BY <1>o, <2>1, OrderUntouched, DueAfterControl DEF OrderInv
  <1>2. CASE MqttDone
    <2>1. /\ UNCHANGED <<pending, toStation, fromStation, asked>>
          /\ pc' # "sending" /\ UNCHANGED <<now, connectedSince, queriedThisConnection>>
      BY <1>2 DEF MqttDone
    <2> QED
      BY <1>o, <2>1, OrderUntouched, DueAfterControl DEF OrderInv
  <1>3. CASE SchedulerDone
    <2>1. /\ UNCHANGED <<pending, toStation, fromStation, asked>>
          /\ pc' # "sending" /\ UNCHANGED <<now, connectedSince, queriedThisConnection>>
      BY <1>3 DEF SchedulerDone
    <2> QED
      BY <1>o, <2>1, OrderUntouched, DueAfterControl DEF OrderInv
  <1>4. CASE RouterDone
    <2>1. /\ UNCHANGED <<pending, toStation, fromStation, asked>>
          /\ pc' # "sending" /\ UNCHANGED <<now, connectedSince, queriedThisConnection>>
      BY <1>4 DEF RouterDone
    <2> QED
      BY <1>o, <2>1, OrderUntouched, DueAfterControl DEF OrderInv
  <1>5. CASE CommandRejected
    <2>1. /\ UNCHANGED <<pending, toStation, fromStation, asked>>
          /\ pc' # "sending" /\ UNCHANGED <<now, connectedSince, queriedThisConnection>>
      BY <1>5 DEF CommandRejected
    <2> QED
      BY <1>o, <2>1, OrderUntouched, DueAfterControl DEF OrderInv
  <1>6. CASE CommandsDone
    <2>1. /\ UNCHANGED <<pending, toStation, fromStation, asked>>
          /\ pc' # "sending" /\ UNCHANGED <<now, connectedSince, queriedThisConnection>>
      BY <1>6 DEF CommandsDone
    <2> QED
      BY <1>o, <2>1, OrderUntouched, DueAfterControl DEF OrderInv
  <1>7. CASE SchedulerBegin
    <2>1. UNCHANGED <<pending, toStation, fromStation, asked>>
      BY <1>7 DEF SchedulerBegin
    <2> QED
      BY <1>o, <1>7, <2>1, OrderUntouched, DueAfterControl DEF OrderInv
  <1>8. CASE SchedulerSkip
    <2>1. UNCHANGED <<pending, toStation, fromStation, asked>>
      BY <1>8 DEF SchedulerSkip
    <2> QED
      BY <1>o, <1>8, <2>1, OrderUntouched, DueAfterControl DEF OrderInv
  <1>9. CASE QueryReset
    <2>1. UNCHANGED <<pending, toStation, fromStation, asked>>
      BY <1>9 DEF QueryReset
    <2> QED
      BY <1>o, <1>9, <2>1, OrderUntouched, DueAfterControl DEF OrderInv
  <1>10. CASE QueryWait
    <2>1. UNCHANGED <<pending, toStation, fromStation, asked>>
      BY <1>10 DEF QueryWait
    <2> QED
      BY <1>o, <1>10, <2>1, OrderUntouched, DueAfterControl DEF OrderInv
  <1>11. CASE Tick
    <2>1. UNCHANGED <<pending, toStation, fromStation, asked>>
      BY <1>11 DEF Tick
    <2> QED
      BY <1>o, <1>11, <2>1, OrderUntouched, DueAfterControl DEF OrderInv
  <1>12. CASE SchedulerSend
    BY <1>12, OrderAfterSend, DueAfterSend DEF OrderInv
  <1>13. CASE RouterSwitchMessage
    <2>1. /\ fromStation # <<>> /\ fromStation' = Tail(fromStation)
          /\ UNCHANGED <<pending, asked, toStation>>
          /\ UNCHANGED <<pc, now, it, tickNow, connectedSince, queriedThisConnection>>
      BY <1>13 DEF RouterSwitchMessage
    <2>2. RequestsInOrder' /\ RequestsNameTheirAddress'
      BY <1>o, <2>1, ReadEffect, OrderAfterLoss
    <2> QED
      BY <2>1, <2>2, DueUntouched DEF OrderInv
  <1>14. CASE RouterStateAck
    <2>1. /\ fromStation # <<>> /\ fromStation' = Tail(fromStation)
          /\ UNCHANGED <<pending, asked, toStation>>
          /\ UNCHANGED <<pc, now, it, tickNow, connectedSince, queriedThisConnection>>
      BY <1>14 DEF RouterStateAck
    <2>2. RequestsInOrder' /\ RequestsNameTheirAddress'
      BY <1>o, <2>1, ReadEffect, OrderAfterLoss
    <2> QED
      BY <2>1, <2>2, DueUntouched DEF OrderInv
  <1>15. CASE RouterReconnect
    <2>1. UNCHANGED <<pending, asked, pc, now, it, tickNow, connectedSince,
                      queriedThisConnection>>
      BY <1>15 DEF RouterReconnect
    <2>2. RequestsInOrder' /\ RequestsNameTheirAddress'
      <3>1. /\ \A j \in 1..Len(toStation') :
                 j \in 1..Len(toStation) /\ toStation'[j] = toStation[j]
            /\ \A j \in 1..Len(fromStation') :
                 j + 0 \in 1..Len(fromStation) /\ fromStation'[j] = fromStation[j + 0]
        BY <1>15, LossEffect, NumberTypes
      <3> QED
        BY <1>o, <2>1, <3>1, OrderAfterLoss
    <2> QED
      BY <2>1, <2>2, DueUntouched DEF OrderInv
  <1>16. CASE LinkBreaks
    <2>1. UNCHANGED <<pending, asked, pc, now, it, tickNow, connectedSince,
                      queriedThisConnection>>
      BY <1>16 DEF LinkBreaks
    <2>2. RequestsInOrder' /\ RequestsNameTheirAddress'
      <3>1. /\ \A j \in 1..Len(toStation') :
                 j \in 1..Len(toStation) /\ toStation'[j] = toStation[j]
            /\ \A j \in 1..Len(fromStation') :
                 j + 0 \in 1..Len(fromStation) /\ fromStation'[j] = fromStation[j + 0]
        BY <1>16, LossEffect, NumberTypes
      <3> QED
        BY <1>o, <2>1, <3>1, OrderAfterLoss
    <2> QED
      BY <2>1, <2>2, DueUntouched DEF OrderInv
  <1>17. CASE QueryAllTurnouts
    BY <1>17, OrderAfterQuery
  <1>18. CASE CommandAccepted
    BY <1>18, OrderAfterCommand
  <1>19. CASE StationAnswers
    <2>1. /\ UNCHANGED <<pending, asked, pc, now, it, tickNow, connectedSince,
                         queriedThisConnection>>
          /\ toStation # <<>> /\ toStation' = Tail(toStation)
          /\ SentToDevice(LongAck(layout[Head(toStation).address], Head(toStation).request))
      BY <1>19 DEF StationAnswers
    <2>2. RequestsInOrder' /\ RequestsNameTheirAddress'
      BY <2>1, OrderAfterAnswer DEF LongAck
    <2> QED
      BY <2>1, <2>2, DueUntouched DEF OrderInv
  <1>20. CASE StationSwitches
    <2>1. /\ UNCHANGED <<pending, asked, pc, now, it, tickNow, connectedSince,
                         queriedThisConnection>>
          /\ toStation # <<>> /\ toStation' = Tail(toStation)
          /\ SentToDevice(Head(toStation))
      BY <1>20 DEF StationSwitches
    <2>2. RequestsInOrder' /\ RequestsNameTheirAddress'
      BY <2>1, OrderAfterAnswer
    <2> QED
      BY <2>1, <2>2, DueUntouched DEF OrderInv
  <1>21. CASE OtherThrottle
    <2>1. /\ UNCHANGED <<pending, asked, toStation, pc, now, it, tickNow,
                         connectedSince, queriedThisConnection>>
          /\ \E message : message.request = 0 /\ SentToDevice(message)
      BY <1>21 DEF OtherThrottle, SwReq
    <2>2. RequestsInOrder' /\ RequestsNameTheirAddress'
      BY <2>1, OrderAfterTraffic
    <2> QED
      BY <2>1, <2>2, DueUntouched DEF OrderInv
  <1>22. CASE StrayAck
    <2>1. /\ UNCHANGED <<pending, asked, toStation, pc, now, it, tickNow,
                         connectedSince, queriedThisConnection>>
          /\ \E message : message.request = 0 /\ SentToDevice(message)
      BY <1>22 DEF StrayAck, LongAck
    <2>2. RequestsInOrder' /\ RequestsNameTheirAddress'
      BY <2>1, OrderAfterTraffic
    <2> QED
      BY <2>1, <2>2, DueUntouched DEF OrderInv
  <1>23. CASE UNCHANGED vars
    <2>1. UNCHANGED <<pending, toStation, fromStation, asked, pc, now, it, tickNow,
                      connectedSince, queriedThisConnection>>
      BY <1>23 DEF vars
    <2> QED
      BY <1>o, <2>1, OrderUntouched, DueUntouched DEF OrderInv
  <1> QED
    BY <1>1, <1>2, <1>3, <1>4, <1>5, <1>6, <1>7, <1>8, <1>9, <1>10, <1>11, <1>12, <1>13, <1>14, <1>15, <1>16, <1>17, <1>18, <1>19, <1>20, <1>21, <1>22, <1>23
    DEF Next, Loop, World, Scheduler, Router, Query, CommandRouter, Station

\* What keeps requests in order is inductive: the scheduler holds them by due time,
\* and a query has left it before the next one starts (StaggerAssumption).
THEOREM OrderInvariant == Spec => []OrderInv
  <1>1. ASSUME TypeOK, TypeOK', OrderInv, [Next]_vars
        PROVE  OrderInv'
    BY <1>1, OrderStep
  <1>2. Init => OrderInv
    BY OrderInit
  <1> QED
    BY <1>1, <1>2, TypeCorrect, PTL DEF Spec

\* Requests reach the station, and their acks come back, in the order in which
\* they were expected: always, whatever is lost (PendingTurnoutStateAcks).
THEOREM OrderCorrect == Spec => []RequestsInOrder
  <1>1. OrderInv => RequestsInOrder
    BY DEF OrderInv
  <1> QED
    BY <1>1, OrderInvariant, PTL

-----------------------------------------------------------------------------
(* Who is credited. *)

\* The parts of CreditInv that speak of the first ack in line: while nothing is
\* lost it carries the first unclaimed number, and an address waits for it.
LEMMA FirstAckIsNext ==
  ASSUME TypeOK, OrderInv, CreditInv, intact,
         fromStation # <<>>, fromStation[1].opcode = "LONG_ACK"
  PROVE  /\ AckNumber(1) = claimed + 1
         /\ claimed + 1 \in 1..Len(asked)
         /\ pendingAddresses # <<>>
         /\ Head(pendingAddresses) = asked[claimed + 1]
  <1>1. /\ 1 \in 1..Len(fromStation)
        /\ claimed \in Nat
        /\ pendingAddresses \in Seq(Addresses)
    <2>1. fromStation \in Seq(Incoming)
      BY DEF TypeOK
    <2>2. 1 \in 1..Len(fromStation)
      BY <2>1
    <2> QED
      BY <2>2 DEF TypeOK
  <1>2. AckNumber(1) > claimed /\ AckNumber(1) <= Len(asked) /\ AckNumber(1) \in Nat
    BY <1>1, NumberTypes
    DEF CreditInv, NothingIsMissing, OrderInv, RequestsNameTheirAddress
  <1>3. claimed + 1 \in 1..Len(asked)
    BY <1>1, <1>2, NumberTypes
  <1>4. InFlight(claimed + 1)
    BY <1>1, <1>3, NumberTypes DEF CreditInv, NothingIsMissing
  <1>5. AckNumber(1) = claimed + 1
    <2>1. CASE \E k \in 1..Len(pending) : PendingNumber(k) = claimed + 1
      <3>1. PICK k \in 1..Len(pending) : PendingNumber(k) = claimed + 1
        BY <2>1
      <3>2. AckNumber(1) # 0 /\ PendingNumber(k) # 0
        BY <1>1, <1>2, <3>1
      <3>3. AckNumber(1) < PendingNumber(k)
        BY <1>1, <3>2 DEF OrderInv, RequestsInOrder
      <3> QED
        BY <1>1, <1>2, <3>1, <3>3
    <2>2. CASE \E k \in 1..Len(toStation) : SentNumber(k) = claimed + 1
      <3>1. PICK k \in 1..Len(toStation) : SentNumber(k) = claimed + 1
        BY <2>2
      <3>2. AckNumber(1) # 0 /\ SentNumber(k) # 0
        BY <1>1, <1>2, <3>1
      <3>3. AckNumber(1) < SentNumber(k)
        BY <1>1, <3>2 DEF OrderInv, RequestsInOrder
      <3> QED
        BY <1>1, <1>2, <3>1, <3>3
    <2>3. CASE \E k \in 1..Len(fromStation) : AckNumber(k) = claimed + 1
      <3>1. PICK k \in 1..Len(fromStation) : AckNumber(k) = claimed + 1
        BY <2>3
      <3>2. AckNumber(1) # 0 /\ AckNumber(k) # 0 /\ k \in Nat
        BY <1>1, <1>2, <3>1, NumberTypes
      <3>3. CASE k = 1
        BY <3>1, <3>3
      <3>4. CASE k > 1
        <4>1. AckNumber(1) < AckNumber(k)
          BY <1>1, <3>1, <3>2, <3>4 DEF OrderInv, RequestsInOrder
        <4> QED
          BY <1>1, <1>2, <3>1, <4>1
      <3> QED
        BY <3>1, <3>2, <3>3, <3>4
    <2> QED
      BY <1>4, <2>1, <2>2, <2>3 DEF InFlight
  <1>6. Len(pendingAddresses) + claimed = Len(asked)
    BY DEF CreditInv, ExpectationsAreNumbered
  <1>7. pendingAddresses # <<>> /\ 1 \in 1..Len(pendingAddresses)
    BY <1>1, <1>3, <1>6, NumberTypes
  <1>8. pendingAddresses[1] = asked[claimed + 1]
    BY <1>7 DEF CreditInv, ExpectationsAreNumbered
  <1> QED
    BY <1>1, <1>3, <1>5, <1>7, <1>8

\* Steps that touch neither a message nor an expectation.
LEMMA CreditUntouched ==
  ASSUME CreditInv, intact' => intact,
         UNCHANGED <<pending, toStation, fromStation, asked, claimed, pendingAddresses>>
  PROVE  CreditInv'
  BY DEF CreditInv, ExpectationsAreNumbered, NothingIsMissing, InFlight,
         PendingNumber, SentNumber, AckNumber

\* Expectations that stay as they are.
LEMMA ExpectationsUntouched ==
  ASSUME CreditInv, UNCHANGED <<asked, claimed, pendingAddresses>>
  PROVE  ExpectationsAreNumbered'
  BY DEF CreditInv, ExpectationsAreNumbered

\* A request that is sent moves from pending to toStation.
LEMMA CreditAfterSend ==
  ASSUME TypeOK, TypeOK', OrderInv, CreditInv, SchedulerSend
  PROVE  CreditInv'
  <1>1. /\ it \in 1..Len(pending)
        /\ WriteLine(pending[it].message)
        /\ pending' = Erase(pending, it)
        /\ UNCHANGED <<asked, claimed, pendingAddresses>>
    BY DEF TypeOK, SchedulerSend
  <1>2. /\ pending \in Seq(Entry) /\ toStation \in Seq(Outgoing)
        /\ pending[it].message \in Outgoing
    <2>1. pending \in Seq(Entry) /\ toStation \in Seq(Outgoing)
      BY DEF TypeOK
    <2>2. pending[it] \in Entry
      BY <1>1, <2>1
    <2> QED
      BY <2>1, <2>2 DEF Entry
  <1>3. NothingIsMissing'
    <2> SUFFICES ASSUME intact'
                 PROVE  NothingIsMissing'
      BY DEF NothingIsMissing
    <2>1. /\ intact
          /\ toStation' = Append(toStation, pending[it].message)
          /\ fromStation' = fromStation
      BY <1>1, <1>2, WriteLineEffect
    <2>2. /\ Len(pending') = Len(pending) - 1
          /\ \A k \in 1..Len(pending') :
               PendingNumber(k)' = IF k < it THEN PendingNumber(k) ELSE PendingNumber(k + 1)
      BY <1>1, <1>2, EraseProperties DEF PendingNumber
    <2>3. /\ Len(toStation') = Len(toStation) + 1
          /\ \A k \in 1..Len(toStation) : toStation'[k] = toStation[k]
          /\ toStation'[Len(toStation) + 1] = pending[it].message
      BY <1>2, <2>1
    <2>4. \A k \in 1..Len(toStation') :
            \/ k \in 1..Len(toStation) /\ SentNumber(k)' = SentNumber(k)
            \/ k = Len(toStation) + 1 /\ SentNumber(k)' = PendingNumber(it)
      BY <2>3, NumberTypes DEF SentNumber, PendingNumber
    <2>5. \A k \in 1..Len(fromStation') :
            k \in 1..Len(fromStation) /\ AckNumber(k)' = AckNumber(k)
      BY <2>1 DEF AckNumber
    <2>6. ASSUME NEW n \in (claimed + 1)..Len(asked)
          PROVE  InFlight(n)'
      <3>1. InFlight(n)
        BY <2>1 DEF CreditInv, NothingIsMissing
      <3>2. ASSUME NEW k \in 1..Len(pending), PendingNumber(k) = n
            PROVE  InFlight(n)'
        <4>1. CASE k < it
          <5>1. k \in 1..Len(pending')
            BY <1>1, <2>2, <4>1, NumberTypes
          <5> QED
            BY <2>2, <3>2, <4>1, <5>1 DEF InFlight
        <4>2. CASE k = it
          <5>1. Len(toStation) + 1 \in 1..Len(toStation')
            BY <2>3, NumberTypes
          <5>2. toStation'[Len(toStation) + 1].request = n
            BY <2>3, <3>2, <4>2 DEF PendingNumber
          <5>3. \E j \in 1..Len(toStation') : SentNumber(j)' = n
            BY <5>1, <5>2 DEF SentNumber
          <5> QED
            BY <5>3 DEF InFlight
        <4>3. CASE k > it
          <5>1. k - 1 \in 1..Len(pending') /\ ~(k - 1 < it) /\ (k - 1) + 1 = k
            BY <1>1, <2>2, <4>3, NumberTypes
          <5>2. \E j \in 1..Len(pending') : PendingNumber(j)' = n
            BY <2>2, <3>2, <5>1
          <5> QED
            BY <5>2 DEF InFlight
        <4> QED
          BY <1>1, <4>1, <4>2, <4>3, NumberTypes
      <3>3. ASSUME NEW k \in 1..Len(toStation), SentNumber(k) = n
            PROVE  InFlight(n)'
        <4>1. k \in 1..Len(toStation') /\ k # Len(toStation) + 1
          BY <2>3, NumberTypes
        <4> QED
          BY <2>4, <3>3, <4>1 DEF InFlight
      <3>4. ASSUME NEW k \in 1..Len(fromStation), AckNumber(k) = n
            PROVE  InFlight(n)'
        BY <2>1, <2>5, <3>4 DEF InFlight
      <3> QED
        BY <3>1, <3>2, <3>3, <3>4 DEF InFlight
    <2>7. ASSUME NEW k \in 1..Len(pending'), PendingNumber(k)' # 0
          PROVE  PendingNumber(k)' > claimed
      <3>1. k \in 1..Len(pending) /\ k + 1 \in 1..Len(pending)
        BY <1>2, <2>2, NumberTypes
      <3> QED
        BY <2>1, <2>2, <2>7, <3>1 DEF CreditInv, NothingIsMissing
    <2>8. ASSUME NEW k \in 1..Len(toStation'), SentNumber(k)' # 0
          PROVE  SentNumber(k)' > claimed
      BY <1>1, <2>1, <2>4, <2>8 DEF CreditInv, NothingIsMissing
    <2>9. ASSUME NEW k \in 1..Len(fromStation'), fromStation'[k].opcode = "LONG_ACK"
          PROVE  AckNumber(k)' > claimed
      BY <2>1, <2>5, <2>9 DEF CreditInv, NothingIsMissing
    <2> QED
      BY <1>1, <2>6, <2>7, <2>8, <2>9 DEF NothingIsMissing
  <1> QED
    BY <1>1, <1>3, ExpectationsUntouched DEF CreditInv

\* Reading a switch message uses up no expectation.
LEMMA CreditAfterSwitchMessage ==
  ASSUME TypeOK, TypeOK', CreditInv, RouterSwitchMessage
  PROVE  CreditInv'
  <1>1. /\ fromStation # <<>> /\ fromStation' = Tail(fromStation)
        /\ Head(fromStation).opcode = "SW_REQ"
        /\ UNCHANGED <<pending, toStation, asked, claimed, pendingAddresses, intact>>
    BY DEF RouterSwitchMessage, history
  <1>2. /\ \A k \in 1..Len(fromStation') :
             k + 1 \in 1..Len(fromStation) /\ fromStation'[k] = fromStation[k + 1]
        /\ \A k \in 1..Len(fromStation') : AckNumber(k)' = AckNumber(k + 1)
        /\ Len(fromStation') = Len(fromStation) - 1
        /\ 1 \in 1..Len(fromStation) /\ fromStation[1].opcode = "SW_REQ"
    BY <1>1, ReadEffect DEF AckNumber
  <1>3. AckNumber(1) = 0
    <2>1. fromStation \in Seq(Incoming)
      BY DEF TypeOK
    <2>2. fromStation[1] \in Incoming
      BY <1>2, <2>1
    <2> QED
      BY <1>2, <2>2 DEF AckNumber, Incoming
  <1>4. /\ \A k \in 1..Len(pending') : PendingNumber(k)' = PendingNumber(k)
        /\ \A k \in 1..Len(toStation') : SentNumber(k)' = SentNumber(k)
    BY <1>1 DEF PendingNumber, SentNumber
  <1>5. ASSUME intact, NEW n \in (claimed + 1)..Len(asked)
        PROVE  InFlight(n)'
    <2>0. claimed \in Nat /\ Len(asked) \in Nat
      BY NumberTypes DEF TypeOK
    <2>1. InFlight(n) /\ n # 0
      BY <1>5, <2>0 DEF CreditInv, NothingIsMissing
    <2>2. ASSUME NEW k \in 1..Len(fromStation), AckNumber(k) = n
          PROVE  InFlight(n)'
      <3>1. k # 1
        BY <1>3, <2>1, <2>2
      <3>2. k - 1 \in 1..Len(fromStation') /\ (k - 1) + 1 = k
        BY <1>2, <3>1, NumberTypes
      <3>3. \E j \in 1..Len(fromStation') : AckNumber(j)' = n
        BY <1>2, <2>2, <3>2
      <3> QED
        BY <3>3 DEF InFlight
    <2> QED
      BY <1>1, <1>4, <2>1, <2>2 DEF InFlight
  <1>6. NothingIsMissing'
    BY <1>1, <1>2, <1>4, <1>5 DEF CreditInv, NothingIsMissing
  <1> QED
    BY <1>1, <1>6, ExpectationsUntouched DEF CreditInv

\* Reading an ack uses up the first expectation: the number it carries.
LEMMA CreditAfterAck ==
  ASSUME TypeOK, TypeOK', OrderInv, CreditInv, RouterStateAck
  PROVE  CreditInv'
  <1>1. /\ fromStation # <<>> /\ fromStation' = Tail(fromStation)
        /\ Head(fromStation).opcode = "LONG_ACK"
        /\ UNCHANGED <<pending, toStation, asked, intact>>
        /\ \/ UNCHANGED <<pendingAddresses, claimed>> /\ pendingAddresses = <<>>
           \/ /\ pendingAddresses # <<>>
              /\ pendingAddresses' = Tail(pendingAddresses)
              /\ claimed' = claimed + 1
    BY DEF RouterStateAck
  <1>2. /\ \A k \in 1..Len(fromStation') :
             k + 1 \in 1..Len(fromStation) /\ fromStation'[k] = fromStation[k + 1]
        /\ \A k \in 1..Len(fromStation') : AckNumber(k)' = AckNumber(k + 1)
        /\ Len(fromStation') = Len(fromStation) - 1
        /\ 1 \in 1..Len(fromStation) /\ fromStation[1].opcode = "LONG_ACK"
    BY <1>1, ReadEffect DEF AckNumber
  <1>3. /\ \A k \in 1..Len(pending') : PendingNumber(k)' = PendingNumber(k)
        /\ \A k \in 1..Len(toStation') : SentNumber(k)' = SentNumber(k)
    BY <1>1 DEF PendingNumber, SentNumber
  <1>4. /\ pendingAddresses \in Seq(Addresses) /\ claimed \in Nat
        /\ Len(asked) \in Nat
    BY NumberTypes DEF TypeOK
  <1>5. ExpectationsAreNumbered'
    <2>1. CASE UNCHANGED <<pendingAddresses, claimed>>
      BY <1>1, <2>1, ExpectationsUntouched
    <2>2. CASE /\ pendingAddresses # <<>>
               /\ pendingAddresses' = Tail(pendingAddresses)
               /\ claimed' = claimed + 1
      <3>1. /\ Len(pendingAddresses') = Len(pendingAddresses) - 1
            /\ \A i \in 1..Len(pendingAddresses') :
                 i + 1 \in 1..Len(pendingAddresses)
                   /\ pendingAddresses'[i] = pendingAddresses[i + 1]
        BY <1>4, <2>2
      <3>2. Len(pendingAddresses') + claimed' = Len(asked')
        <4>1. Len(pendingAddresses) + claimed = Len(asked)
          BY DEF CreditInv, ExpectationsAreNumbered
        <4>2. Len(pendingAddresses) \in Nat /\ asked' = asked
          BY <1>1, <1>4
        <4> QED
          BY <1>4, <2>2, <3>1, <4>1, <4>2
      <3>3. ASSUME NEW i \in 1..Len(pendingAddresses')
            PROVE  pendingAddresses'[i] = asked'[claimed' + i]
        <4>1. pendingAddresses'[i] = asked[claimed + (i + 1)]
          BY <3>1 DEF CreditInv, ExpectationsAreNumbered
        <4>2. claimed + (i + 1) = claimed' + i
          BY <1>4, <2>2
        <4> QED
          BY <1>1, <4>1, <4>2
      <3> QED
        BY <3>2, <3>3 DEF ExpectationsAreNumbered
    <2> QED
      BY <1>1, <2>1, <2>2
  <1>6. ASSUME intact
        PROVE  NothingIsMissing'
    <2>1. AckNumber(1) = claimed + 1 /\ claimed' = claimed + 1
      BY <1>1, <1>2, <1>6, FirstAckIsNext
    \* Everything else under way is numbered higher.
    <2>2. /\ \A k \in 1..Len(pending) : PendingNumber(k) # 0 => PendingNumber(k) > claimed + 1
          /\ \A k \in 1..Len(toStation) : SentNumber(k) # 0 => SentNumber(k) > claimed + 1
      BY <1>2, <1>4, <2>1, NumberTypes DEF OrderInv, RequestsInOrder
    <2>3. ASSUME NEW k \in 1..Len(fromStation), k # 1, fromStation[k].opcode = "LONG_ACK"
          PROVE  AckNumber(k) > claimed + 1
      <3>1. AckNumber(k) > claimed
        BY <1>6, <2>3 DEF CreditInv, NothingIsMissing
      <3>2. 1 < k /\ AckNumber(k) # 0 /\ AckNumber(1) # 0
        BY <1>2, <1>4, <2>1, <3>1, <2>3, NumberTypes
      <3> QED
        BY <1>2, <2>1, <3>2 DEF OrderInv, RequestsInOrder
    <2>4. ASSUME NEW n \in (claimed + 2)..Len(asked)
          PROVE  InFlight(n)'
      <3>1. InFlight(n) /\ n # claimed + 1
        BY <1>4, <1>6 DEF CreditInv, NothingIsMissing
      <3>2. ASSUME NEW k \in 1..Len(fromStation), AckNumber(k) = n
            PROVE  InFlight(n)'
        <4>1. k # 1
          BY <2>1, <3>1, <3>2
        <4>2. k - 1 \in 1..Len(fromStation') /\ (k - 1) + 1 = k
          BY <1>2, <4>1, NumberTypes
        <4>3. \E j \in 1..Len(fromStation') : AckNumber(j)' = n
          BY <1>2, <3>2, <4>2
        <4> QED
          BY <4>3 DEF InFlight
      <3> QED
        BY <1>1, <1>3, <3>1, <3>2 DEF InFlight
    <2>5. ASSUME NEW k \in 1..Len(fromStation'), fromStation'[k].opcode = "LONG_ACK"
          PROVE  AckNumber(k)' > claimed'
      <3>1. k + 1 \in 1..Len(fromStation) /\ k + 1 # 1
        BY <1>2
      <3> QED
        BY <1>2, <2>1, <2>3, <2>5, <3>1
    <2>6. claimed' + 1 = claimed + 2
      BY <1>4, <2>1
    <2> QED
      BY <1>1, <1>3, <2>1, <2>2, <2>4, <2>5, <2>6 DEF NothingIsMissing
  <1> QED
    BY <1>1, <1>5, <1>6 DEF CreditInv, NothingIsMissing

\* A connection that breaks either loses nothing or is no longer intact.
LEMMA CreditAfterLoss ==
  ASSUME TypeOK, CreditInv, RouterReconnect \/ LinkBreaks
  PROVE  CreditInv'
  <1>1. UNCHANGED <<pending, asked, claimed, pendingAddresses>>
    BY DEF RouterReconnect, LinkBreaks, device
  <1>2. CASE intact'
    <2>1. intact /\ UNCHANGED <<toStation, fromStation>>
      BY <1>2, LossEffect
    <2> QED
      BY <1>1, <2>1, CreditUntouched
  <1>3. CASE ~intact'
    BY <1>1, <1>3, ExpectationsUntouched DEF CreditInv, NothingIsMissing
  <1> QED
    BY <1>2, <1>3

\* A query numbers and expects what it schedules.
LEMMA CreditAfterQuery ==
  ASSUME TypeOK, TypeOK', CreditInv, QueryAllTurnouts
  PROVE  CreditInv'
  <1>1. UNCHANGED <<toStation, fromStation, claimed, intact>>
    BY DEF QueryAllTurnouts, stream
  <1>2. /\ QuerySize \in Nat
        /\ claimed \in Nat /\ Len(asked) \in Nat /\ Len(pending) \in Nat
        /\ Len(pendingAddresses) \in Nat
        /\ Len(pendingAddresses) + claimed = Len(asked)
    <2>1. claimed \in Nat /\ pendingAddresses \in Seq(Addresses)
      BY DEF TypeOK
    <2>2. Len(pendingAddresses) + claimed = Len(asked)
      BY DEF CreditInv, ExpectationsAreNumbered
    <2> QED
      BY <2>1, <2>2, QueryTypes, NumberTypes
  <1>3. /\ Len(pending') = Len(pending) + QuerySize
        /\ Len(asked') = Len(asked) + QuerySize
        /\ Len(pendingAddresses') = Len(pendingAddresses) + QuerySize
        /\ \A k \in 1..Len(pending) : PendingNumber(k)' = PendingNumber(k)
        /\ \A n \in 1..Len(asked) : asked'[n] = asked[n]
        /\ \A n \in 1..Len(pendingAddresses) : pendingAddresses'[n] = pendingAddresses[n]
        /\ \A i \in 1..QuerySize :
             pendingAddresses'[Len(pendingAddresses) + i] = asked'[Len(asked) + i]
    BY QueryEffect
  <1>4. \A k \in (Len(pending) + 1)..Len(pending') :
          PendingNumber(k)' = Len(asked) + (k - Len(pending))
    <2> SUFFICES ASSUME NEW k \in (Len(pending) + 1)..Len(pending')
                 PROVE  PendingNumber(k)' = Len(asked) + (k - Len(pending))
      OBVIOUS
    <2>1. PICK i \in 1..QuerySize :
            k = Len(pending) + i /\ PendingNumber(k)' = Len(asked) + i
      BY QueryEffect
    <2> QED
      BY <1>2, <2>1
  <1>5. ExpectationsAreNumbered'
    <2>1. Len(pendingAddresses') + claimed' = Len(asked')
      BY <1>1, <1>2, <1>3
    <2>2. ASSUME NEW i \in 1..Len(pendingAddresses')
          PROVE  pendingAddresses'[i] = asked'[claimed' + i]
      <3>1. CASE i \in 1..Len(pendingAddresses)
        <4>1. pendingAddresses[i] = asked[claimed + i] /\ claimed + i \in 1..Len(asked)
          BY <1>2, <3>1 DEF CreditInv, ExpectationsAreNumbered
        <4> QED
          BY <1>1, <1>3, <3>1, <4>1
      <3>2. CASE ~(i \in 1..Len(pendingAddresses))
        <4> DEFINE j == i - Len(pendingAddresses)
        <4>1. /\ j \in 1..QuerySize
              /\ i = Len(pendingAddresses) + j
              /\ Len(asked) + j = claimed + i
          BY <1>2, <1>3, <3>2
        <4> HIDE DEF j
        <4> QED
          BY <1>1, <1>3, <4>1
      <3> QED
        BY <3>1, <3>2
    <2> QED
      BY <2>1, <2>2 DEF ExpectationsAreNumbered
  <1>6. ASSUME intact
        PROVE  NothingIsMissing'
    <2>1. /\ \A k \in 1..Len(toStation') : SentNumber(k)' = SentNumber(k)
          /\ \A k \in 1..Len(fromStation') : AckNumber(k)' = AckNumber(k)
      BY <1>1 DEF SentNumber, AckNumber
    <2>2. ASSUME NEW n \in (claimed + 1)..Len(asked')
          PROVE  InFlight(n)'
      <3>1. CASE n \in (claimed + 1)..Len(asked)
        <4>1. InFlight(n)
          BY <1>6, <3>1 DEF CreditInv, NothingIsMissing
        <4>2. \A k \in 1..Len(pending) : k \in 1..Len(pending')
          BY <1>2, <1>3
        <4> QED
          BY <1>1, <1>3, <2>1, <4>1, <4>2 DEF InFlight
      <3>2. CASE ~(n \in (claimed + 1)..Len(asked))
        <4> DEFINE k == Len(pending) + (n - Len(asked))
        <4>1. k \in (Len(pending) + 1)..Len(pending') /\ k \in 1..Len(pending')
          BY <1>2, <1>3, <3>2
        <4>2. Len(asked) + (k - Len(pending)) = n
          BY <1>2, <1>3, <3>2
        <4> HIDE DEF k
        <4>3. \E j \in 1..Len(pending') : PendingNumber(j)' = n
          BY <1>4, <4>1, <4>2
        <4> QED
          BY <4>3 DEF InFlight
      <3> QED
        BY <3>1, <3>2
    <2>3. ASSUME NEW k \in 1..Len(pending'), PendingNumber(k)' # 0
          PROVE  PendingNumber(k)' > claimed
      <3>1. CASE k \in 1..Len(pending)
        BY <1>3, <1>6, <2>3, <3>1 DEF CreditInv, NothingIsMissing
      <3>2. CASE k \in (Len(pending) + 1)..Len(pending')
        BY <1>2, <1>3, <1>4, <3>2
      <3> QED
        BY <1>2, <1>3, <3>1, <3>2
    <2> QED
      BY <1>1, <1>6, <2>1, <2>2, <2>3 DEF CreditInv, NothingIsMissing
  <1> QED
    BY <1>1, <1>5, <1>6 DEF CreditInv, NothingIsMissing

\* A command adds messages that nobody expects an answer to.
LEMMA CreditAfterCommand ==
  ASSUME TypeOK, TypeOK', CreditInv, CommandAccepted
  PROVE  CreditInv'
  <1> DEFINE command == Head(pendingCommands)
             onMessage == SwReq(command.address, command.position, TRUE)
             offEntry == [message |-> SwReq(command.address, command.position, FALSE),
                          dueAt |-> now + kOffPulseDelayMs]
  <1>1. /\ command \in TurnoutCommands /\ command.address \in Addresses
        /\ WriteLine(onMessage)
        /\ pending' = Append(pending, offEntry)
        /\ UNCHANGED <<asked, claimed, pendingAddresses>>
    <2>1. pendingCommands # <<>> /\ pendingCommands \in Seq(TurnoutCommands)
      BY DEF CommandAccepted, TypeOK
    <2>2. command \in TurnoutCommands
      BY <2>1
    <2> QED
      BY <2>2 DEF CommandAccepted
  <1>2. onMessage \in Outgoing /\ onMessage.request = 0
    BY <1>1, CommandAssumption DEF SwReq, Outgoing
  <1>3. /\ pending \in Seq(Entry) /\ toStation \in Seq(Outgoing)
        /\ offEntry.message.request = 0
    BY DEF TypeOK, SwReq
  <1> HIDE DEF onMessage, offEntry, command
  <1>4. /\ \A k \in 1..Len(pending) : k \in 1..Len(pending') /\ PendingNumber(k)' = PendingNumber(k)
        /\ \A k \in 1..Len(pending') :
             PendingNumber(k)' # 0 =>
               k \in 1..Len(pending) /\ PendingNumber(k)' = PendingNumber(k)
    BY <1>1, <1>3, NumberTypes DEF PendingNumber
  <1>5. NothingIsMissing'
    <2> SUFFICES ASSUME intact'
                 PROVE  NothingIsMissing'
      BY DEF NothingIsMissing
    <2>1. /\ intact
          /\ toStation' = Append(toStation, onMessage)
          /\ fromStation' = fromStation
      BY <1>1, <1>2, WriteLineEffect
    <2>2. /\ \A k \in 1..Len(toStation) :
               k \in 1..Len(toStation') /\ SentNumber(k)' = SentNumber(k)
          /\ \A k \in 1..Len(toStation') :
               SentNumber(k)' # 0 =>
                 k \in 1..Len(toStation) /\ SentNumber(k)' = SentNumber(k)
      BY <1>2, <1>3, <2>1, NumberTypes DEF SentNumber
    <2>3. \A k \in 1..Len(fromStation) : AckNumber(k)' = AckNumber(k)
      BY <2>1 DEF AckNumber
    <2>4. ASSUME NEW n \in (claimed + 1)..Len(asked)
          PROVE  InFlight(n)'
      <3>1. InFlight(n)
        BY <2>1 DEF CreditInv, NothingIsMissing
      <3> QED
        BY <1>4, <2>1, <2>2, <2>3, <3>1 DEF InFlight
    <2> QED
      BY <1>1, <1>4, <2>1, <2>2, <2>3, <2>4 DEF CreditInv, NothingIsMissing
  <1> QED
    BY <1>1, <1>5, ExpectationsUntouched DEF CreditInv

\* The station takes a message off toStation; the connected device is sent one
\* that carries its number, and is an ack only if the number is a request's.
LEMMA CreditAfterStation ==
  ASSUME TypeOK, TypeOK', CreditInv,
         UNCHANGED <<pending, asked, claimed, pendingAddresses>>,
         toStation # <<>>, toStation' = Tail(toStation),
         intact' => intact /\ link,
         NEW message, SentToDevice(message),
         message.request = Head(toStation).request,
         message.opcode = "LONG_ACK" => message.request # 0
  PROVE  CreditInv'
  <1>1. /\ Len(toStation') = Len(toStation) - 1
        /\ \A k \in 1..Len(toStation') :
             /\ k + 1 \in 1..Len(toStation)
             /\ SentNumber(k)' = SentNumber(k + 1)
        /\ 1 \in 1..Len(toStation)
        /\ message.request = SentNumber(1)
    <2>1. toStation \in Seq(Outgoing)
      BY DEF TypeOK
    <2> QED
      BY <2>1 DEF SentNumber
  <1>2. \A k \in 1..Len(pending') : PendingNumber(k)' = PendingNumber(k)
    BY DEF PendingNumber
  <1>3. NothingIsMissing'
    <2> SUFFICES ASSUME intact'
                 PROVE  NothingIsMissing'
      BY DEF NothingIsMissing
    <2>1. intact /\ fromStation' = Append(fromStation, message)
      BY DEF SentToDevice
    <2>2. /\ Len(fromStation') = Len(fromStation) + 1
          /\ \A k \in 1..Len(fromStation) :
               fromStation'[k] = fromStation[k] /\ AckNumber(k)' = AckNumber(k)
          /\ fromStation'[Len(fromStation) + 1] = message
      <3>1. fromStation \in Seq(Incoming)
        BY DEF TypeOK
      <3> QED
        BY <2>1, <3>1 DEF AckNumber
    <2>3. \A k \in 1..Len(fromStation') :
            \/ /\ k \in 1..Len(fromStation)
               /\ fromStation'[k] = fromStation[k] /\ AckNumber(k)' = AckNumber(k)
            \/ /\ k = Len(fromStation) + 1
               /\ fromStation'[k] = message /\ AckNumber(k)' = SentNumber(1)
      BY <1>1, <2>2, NumberTypes DEF AckNumber
    <2>4. ASSUME NEW n \in (claimed + 1)..Len(asked)
          PROVE  InFlight(n)'
      <3>1. InFlight(n)
        BY <2>1 DEF CreditInv, NothingIsMissing
      <3>2. ASSUME NEW k \in 1..Len(toStation), SentNumber(k) = n
            PROVE  InFlight(n)'
        <4>1. CASE k = 1
          <5>1. Len(fromStation) + 1 \in 1..Len(fromStation')
                /\ ~(Len(fromStation) + 1 \in 1..Len(fromStation))
            BY <2>2, NumberTypes
          <5>2. \E j \in 1..Len(fromStation') : AckNumber(j)' = n
            BY <2>3, <3>2, <4>1, <5>1
          <5> QED
            BY <5>2 DEF InFlight
        <4>2. CASE k # 1
          <5>1. k - 1 \in 1..Len(toStation') /\ (k - 1) + 1 = k
            BY <1>1, <4>2, NumberTypes
          <5>2. \E j \in 1..Len(toStation') : SentNumber(j)' = n
            BY <1>1, <3>2, <5>1
          <5> QED
            BY <5>2 DEF InFlight
        <4> QED
          BY <4>1, <4>2
      <3>3. ASSUME NEW k \in 1..Len(fromStation), AckNumber(k) = n
            PROVE  InFlight(n)'
        <4>1. k \in 1..Len(fromStation')
          BY <2>2, NumberTypes
        <4> QED
          BY <2>2, <3>3, <4>1 DEF InFlight
      <3> QED
        BY <1>2, <3>1, <3>2, <3>3 DEF InFlight
    <2>5. ASSUME NEW k \in 1..Len(toStation'), SentNumber(k)' # 0
          PROVE  SentNumber(k)' > claimed
      BY <1>1, <2>1, <2>5 DEF CreditInv, NothingIsMissing
    <2>6. ASSUME NEW k \in 1..Len(fromStation'), fromStation'[k].opcode = "LONG_ACK"
          PROVE  AckNumber(k)' > claimed
      <3>1. SentNumber(1) # 0 => SentNumber(1) > claimed
        BY <1>1, <2>1 DEF CreditInv, NothingIsMissing
      <3>2. CASE /\ k \in 1..Len(fromStation)
                 /\ fromStation'[k] = fromStation[k] /\ AckNumber(k)' = AckNumber(k)
        BY <2>1, <2>6, <3>2 DEF CreditInv, NothingIsMissing
      <3>3. CASE fromStation'[k] = message /\ AckNumber(k)' = SentNumber(1)
        BY <1>1, <2>6, <3>1, <3>3
      <3> QED
        BY <2>3, <3>2, <3>3
    <2> QED
      BY <1>2, <2>1, <2>4, <2>5, <2>6 DEF CreditInv, NothingIsMissing
  <1> QED
    BY <1>3, ExpectationsUntouched DEF CreditInv

\* Another throttle's command is no ack.
LEMMA CreditAfterThrottle ==
  ASSUME TypeOK, TypeOK', CreditInv, OtherThrottle
  PROVE  CreditInv'
  <1>1. /\ UNCHANGED <<pending, toStation, asked, claimed, pendingAddresses, intact>>
        /\ \E message : message.opcode = "SW_REQ" /\ SentToDevice(message)
    BY DEF OtherThrottle, SwReq, device
  <1>2. PICK message : message.opcode = "SW_REQ" /\ SentToDevice(message)
    BY <1>1
  <1>3. /\ \A k \in 1..Len(fromStation) :
             k \in 1..Len(fromStation') /\ AckNumber(k)' = AckNumber(k)
        /\ \A k \in 1..Len(fromStation') :
             fromStation'[k].opcode = "LONG_ACK" =>
               /\ k \in 1..Len(fromStation)
               /\ fromStation'[k] = fromStation[k] /\ AckNumber(k)' = AckNumber(k)
    <2>1. fromStation \in Seq(Incoming)
      BY DEF TypeOK
    <2>2. CASE fromStation' = fromStation
      BY <2>1, <2>2 DEF AckNumber
    <2>3. CASE fromStation' = Append(fromStation, message)
      BY <1>2, <2>1, <2>3 DEF AckNumber
    <2> QED
      BY <1>2, <2>2, <2>3 DEF SentToDevice
  <1>4. /\ \A k \in 1..Len(pending') : PendingNumber(k)' = PendingNumber(k)
        /\ \A k \in 1..Len(toStation') : SentNumber(k)' = SentNumber(k)
    BY <1>1 DEF PendingNumber, SentNumber
  <1>5. ASSUME intact, NEW n \in (claimed + 1)..Len(asked)
        PROVE  InFlight(n)'
    <2>1. InFlight(n)
      BY <1>5 DEF CreditInv, NothingIsMissing
    <2> QED
      BY <1>1, <1>3, <1>4, <2>1 DEF InFlight
  <1>6. NothingIsMissing'
    BY <1>1, <1>3, <1>4, <1>5 DEF CreditInv, NothingIsMissing
  <1> QED
    BY <1>1, <1>6, ExpectationsUntouched DEF CreditInv

\* CreditInv is preserved by every step.
LEMMA CreditStep ==
  ASSUME TypeOK, TypeOK', OrderInv, CreditInv, [Next]_vars
  PROVE  CreditInv'
  <1> USE DEF device, stream, railway, history, counters
  <1>1. CASE MqttReceive
    <2>1. UNCHANGED <<pending, toStation, fromStation, asked, claimed,
                      pendingAddresses, intact>>
      BY <1>1 DEF MqttReceive
    <2> QED
      BY <2>1, CreditUntouched
  <1>2. CASE MqttDone
    <2>1. UNCHANGED <<pending, toStation, fromStation, asked, claimed,
                      pendingAddresses, intact>>
      BY <1>2 DEF MqttDone
    <2> QED
      BY <2>1, CreditUntouched
  <1>3. CASE SchedulerBegin
    <2>1. UNCHANGED <<pending, toStation, fromStation, asked, claimed,
                      pendingAddresses, intact>>
      BY <1>3 DEF SchedulerBegin
    <2> QED
      BY <2>1, CreditUntouched
  <1>4. CASE SchedulerSkip
    <2>1. UNCHANGED <<pending, toStation, fromStation, asked, claimed,
                      pendingAddresses, intact>>
      BY <1>4 DEF SchedulerSkip
    <2> QED
      BY <2>1, CreditUntouched
  <1>5. CASE SchedulerDone
    <2>1. UNCHANGED <<pending, toStation, fromStation, asked, claimed,
                      pendingAddresses, intact>>
      BY <1>5 DEF SchedulerDone
    <2> QED
      BY <2>1, CreditUntouched
  <1>6. CASE RouterDone
    <2>1. UNCHANGED <<pending, toStation, fromStation, asked, claimed,
                      pendingAddresses, intact>>
      BY <1>6 DEF RouterDone
    <2> QED
      BY <2>1, CreditUntouched
  <1>7. CASE QueryReset
    <2>1. UNCHANGED <<pending, toStation, fromStation, asked, claimed,
                      pendingAddresses, intact>>
      BY <1>7 DEF QueryReset
    <2> QED
      BY <2>1, CreditUntouched
  <1>8. CASE QueryWait
    <2>1. UNCHANGED <<pending, toStation, fromStation, asked, claimed,
                      pendingAddresses, intact>>
      BY <1>8 DEF QueryWait
    <2> QED
      BY <2>1, CreditUntouched
  <1>9. CASE CommandRejected
    <2>1. UNCHANGED <<pending, toStation, fromStation, asked, claimed,
                      pendingAddresses, intact>>
      BY <1>9 DEF CommandRejected
    <2> QED
      BY <2>1, CreditUntouched
  <1>10. CASE CommandsDone
    <2>1. UNCHANGED <<pending, toStation, fromStation, asked, claimed,
                      pendingAddresses, intact>>
      BY <1>10 DEF CommandsDone
    <2> QED
      BY <2>1, CreditUntouched
  <1>11. CASE Tick
    <2>1. UNCHANGED <<pending, toStation, fromStation, asked, claimed,
                      pendingAddresses, intact>>
      BY <1>11 DEF Tick
    <2> QED
      BY <2>1, CreditUntouched
  <1>12. CASE SchedulerSend
    BY <1>12, CreditAfterSend
  <1>13. CASE RouterSwitchMessage
    BY <1>13, CreditAfterSwitchMessage
  <1>14. CASE RouterStateAck
    BY <1>14, CreditAfterAck
  <1>15. CASE RouterReconnect
    BY <1>15, CreditAfterLoss
  <1>16. CASE LinkBreaks
    BY <1>16, CreditAfterLoss
  <1>17. CASE QueryAllTurnouts
    BY <1>17, CreditAfterQuery
  <1>18. CASE CommandAccepted
    BY <1>18, CreditAfterCommand
  <1>19. CASE OtherThrottle
    BY <1>19, CreditAfterThrottle
  <1>20. CASE StationAnswers
    <2> DEFINE message == Head(toStation)
               ack == LongAck(layout[message.address], message.request)
    <2>1. /\ UNCHANGED <<pending, asked, claimed, pendingAddresses>>
          /\ toStation # <<>> /\ toStation' = Tail(toStation)
          /\ intact' = (intact /\ link)
          /\ SentToDevice(ack)
          /\ message.opcode = "SW_STATE"
      BY <1>20 DEF StationAnswers
    <2>2. message \in Outgoing
      <3>1. toStation \in Seq(Outgoing)
        BY DEF TypeOK
      <3> QED
        BY <2>1, <3>1
    <2>3. ack.request = message.request /\ message.request # 0
      BY <2>1, <2>2 DEF LongAck, Outgoing
    <2>4. intact' => intact /\ link
      BY <2>1
    <2> HIDE DEF ack
    <2> QED
      BY <2>1, <2>3, <2>4, CreditAfterStation
  <1>21. CASE StationSwitches
    <2> DEFINE message == Head(toStation)
    <2>1. /\ UNCHANGED <<pending, asked, claimed, pendingAddresses>>
          /\ toStation # <<>> /\ toStation' = Tail(toStation)
          /\ intact' = (intact /\ link)
          /\ SentToDevice(message)
          /\ message.opcode = "SW_REQ"
      BY <1>21 DEF StationSwitches
    <2>2. intact' => intact /\ link
      BY <2>1
    <2> QED
      BY <2>1, <2>2, CreditAfterStation
  <1>22. CASE StrayAck
    <2>1. UNCHANGED <<asked, claimed, pendingAddresses>> /\ intact' = FALSE
      BY <1>22 DEF StrayAck
    <2> QED
      BY <2>1, ExpectationsUntouched DEF CreditInv, NothingIsMissing
  <1>23. CASE UNCHANGED vars
    <2>1. UNCHANGED <<pending, toStation, fromStation, asked, claimed,
                      pendingAddresses, intact>>
      BY <1>23 DEF vars
    <2> QED
      BY <2>1, CreditUntouched
  <1> QED
    BY <1>1, <1>2, <1>3, <1>4, <1>5, <1>6, <1>7, <1>8, <1>9, <1>10, <1>11, <1>12, <1>13, <1>14, <1>15, <1>16, <1>17, <1>18, <1>19, <1>20, <1>21, <1>22, <1>23
    DEF Next, Loop, World, Scheduler, Router, Query, CommandRouter, Station

\* While no frame is lost and no stray ack arrives, the FIFO of expected addresses
\* is exactly what is still to be answered (PendingTurnoutStateAcks).
THEOREM CreditInvariant == Spec => []CreditInv
  <1>1. Init => CreditInv
    BY DEF Init, CreditInv, ExpectationsAreNumbered, NothingIsMissing, InFlight
  <1>2. TypeOK /\ TypeOK' /\ OrderInv /\ OrderInv' /\ CreditInv /\ [Next]_vars
          => CreditInv'
    BY CreditStep
  <1> QED
    BY <1>1, <1>2, TypeCorrect, OrderInvariant, PTL DEF Spec

\* While no frame is lost and no other client asks for states, every
\* OPC_LONG_ACK is credited to the turnout it is about: for any number of
\* turnouts, any timer values that satisfy StaggerAssumption, and any amount of
\* commands and bus traffic in between (TurnoutLocoNetDecoder::decodeStateAck).
THEOREM CreditCorrect == Spec => []AcksAreCredited
  <1>1. ASSUME TypeOK, OrderInv, CreditInv
        PROVE  AcksAreCredited
    <2> SUFFICES ASSUME intact, fromStation # <<>>, AckNumber(1) # 0
                 PROVE  /\ pendingAddresses # <<>>
                        /\ Head(pendingAddresses) = asked[AckNumber(1)]
      BY DEF AcksAreCredited, NextAckMatches
    <2>1. fromStation \in Seq(Incoming)
      BY <1>1 DEF TypeOK
    <2>2. fromStation[1] \in Incoming
      BY <2>1
    <2>3. fromStation[1].opcode = "LONG_ACK"
      BY <2>2 DEF AckNumber, Incoming
    <2> QED
      BY <1>1, <2>3, FirstAckIsNext
  <1> QED
    BY <1>1, TypeCorrect, OrderInvariant, CreditInvariant, PTL

-----------------------------------------------------------------------------
(* One query per connection. *)

\* While connected() told the truth, a queried connection is remembered as such.
QueriedOnce == glitches = 0 /\ link /\ linkQueried => queriedThisConnection

\* No reading ever lowers the count of false ones, and a false reading that is
\* not counted is no false reading.
LEMMA ReadingCounts ==
  ASSUME TypeOK, NEW reading \in BOOLEAN, ReadConnected(reading), glitches' = 0
  PROVE  glitches = 0 /\ (link <=> reading)
  <1>1. glitches \in Nat
    BY DEF TypeOK
  <1> QED
    BY <1>1 DEF ReadConnected

\* Writing a message leaves the connection as it was, or opens a new one.
LEMMA WriteLineKeepsConnection ==
  ASSUME TypeOK, NEW message, WriteLine(message), glitches' = 0
  PROVE  /\ glitches = 0
         /\ UNCHANGED <<link, linkQueried>> \/ ~linkQueried'
  <1>1. CASE NoReconnect
    <2>1. \E reading \in BOOLEAN : ReadConnected(reading)
      BY <1>1 DEF WriteLine, Reconnect
    <2> QED
      BY <1>1, <2>1, ReadingCounts DEF NoReconnect
  <1>2. CASE \E success \in BOOLEAN : Reconnect(success)
    BY <1>2, ReadingCounts DEF Reconnect
  <1> QED
    BY <1>1, <1>2 DEF WriteLine

\* QueriedOnce is inductive.
LEMMA QueriedOnceStep ==
  ASSUME TypeOK, QueriedOnce, [Next]_vars
  PROVE  QueriedOnce'
  <1> SUFFICES ASSUME glitches' = 0, link', linkQueried'
               PROVE  queriedThisConnection'
    BY DEF QueriedOnce
  <1>1. CASE SchedulerSend \/ CommandAccepted
    <2>1. PICK message : WriteLine(message)
      BY <1>1 DEF SchedulerSend, CommandAccepted
    <2>2. UNCHANGED queriedThisConnection
      BY <1>1 DEF SchedulerSend, CommandAccepted
    <2> QED
      BY <2>1, <2>2, WriteLineKeepsConnection DEF QueriedOnce
  <1>2. CASE RouterReconnect
    BY <1>2 DEF RouterReconnect, Reconnect
  <1>3. CASE QueryReset
    BY <1>3, ReadingCounts DEF QueryReset, stream
  <1>4. CASE QueryWait
    <2>1. UNCHANGED <<link, linkQueried, queriedThisConnection>>
      BY <1>4 DEF QueryWait, stream, history
    <2>2. glitches = 0
      BY <1>4, ReadingCounts DEF QueryWait
    <2> QED
      BY <2>1, <2>2 DEF QueriedOnce
  <1>5. CASE QueryAllTurnouts
    BY <1>5 DEF QueryAllTurnouts
  <1>6. CASE LinkBreaks
    BY <1>6 DEF LinkBreaks
  <1>7. ASSUME UNCHANGED <<glitches, link, linkQueried, queriedThisConnection>>
        PROVE  queriedThisConnection'
    BY <1>7 DEF QueriedOnce
  <1>8. CASE MqttReceive \/ MqttDone \/ SchedulerBegin \/ SchedulerSkip \/ SchedulerDone
    BY <1>7, <1>8
    DEF MqttReceive, MqttDone, SchedulerBegin, SchedulerSkip, SchedulerDone,
        device, stream, history, counters
  <1>9. CASE RouterSwitchMessage \/ RouterStateAck \/ RouterDone
    BY <1>7, <1>9
    DEF RouterSwitchMessage, RouterStateAck, RouterDone, device, stream, history, counters
  <1>10. CASE CommandRejected \/ CommandsDone
    BY <1>7, <1>10 DEF CommandRejected, CommandsDone, device, stream, history, counters
  <1>11. CASE Tick \/ StationAnswers \/ StationSwitches \/ OtherThrottle \/ StrayAck
    BY <1>7, <1>11
    DEF Tick, StationAnswers, StationSwitches, OtherThrottle, StrayAck, device,
        stream, history, counters
  <1>12. CASE UNCHANGED vars
    BY <1>7, <1>12 DEF vars, device, stream, history, counters
  <1> QED
    BY <1>1, <1>2, <1>3, <1>4, <1>5, <1>6, <1>8, <1>9, <1>10, <1>11, <1>12
    DEF Next, Loop, World, Scheduler, Router, Query, CommandRouter, Station

\* TurnoutTableStartupQuery asks for every state once per connection: as long as
\* connected() never denies an existing connection, no query starts on a
\* connection that was queried already.
THEOREM OneQueryCorrect == Spec => OneQueryPerConnection
  <1>1. Init => QueriedOnce
    BY DEF Init, QueriedOnce
  <1>2. TypeOK /\ QueriedOnce /\ [Next]_vars => QueriedOnce'
    BY QueriedOnceStep
  <1>3. ASSUME TypeOK, QueriedOnce, QueryAllTurnouts, glitches' = 0
        PROVE  ~linkQueried
    <2>1. glitches = 0 /\ link
      BY <1>3, ReadingCounts DEF QueryAllTurnouts
    <2>2. ~queriedThisConnection
      BY <1>3 DEF QueryAllTurnouts, ReadyToQuery
    <2> QED
      BY <1>3, <2>1, <2>2 DEF QueriedOnce
  <1> QED
    BY <1>1, <1>2, <1>3, TypeCorrect, PTL DEF Spec, OneQueryPerConnection

-----------------------------------------------------------------------------
(* No output stays on. *)

\* The off message of an output is scheduled, or behind that place of toStation.
OffComes(address, position, place) ==
  \/ \E k \in 1..Len(pending) :
       pending[k].message = SwReq(address, position, FALSE)
  \/ \E k \in 1..Len(toStation) :
       k > place /\ toStation[k] = SwReq(address, position, FALSE)

\* On messages are written at once, only the others wait.
OnlyOffWaits == \A k \in 1..Len(pending) : ~pending[k].message.on

\* Every on message that is under way has its off message behind it, and every
\* output that is on has it anywhere.
ReleaseInv ==
  intact =>
    \A address \in Addresses, position \in Positions :
      /\ <<address, position>> \in energised => OffComes(address, position, 0)
      /\ \A i \in 1..Len(toStation) :
           toStation[i] = SwReq(address, position, TRUE)
             => OffComes(address, position, i)

\* Steps that only add to what is scheduled, if they touch it.
LEMMA ReleaseKept ==
  ASSUME ReleaseInv, UNCHANGED <<toStation, energised>>, intact' => intact,
         \A k \in 1..Len(pending) :
           k \in 1..Len(pending') /\ pending'[k] = pending[k]
  PROVE  ReleaseInv'
  <1>1. ASSUME NEW a, NEW p, NEW place, OffComes(a, p, place)
        PROVE  OffComes(a, p, place)'
    <2>1. CASE \E k \in 1..Len(pending) : pending[k].message = SwReq(a, p, FALSE)
      <3>1. PICK k \in 1..Len(pending) : pending[k].message = SwReq(a, p, FALSE)
        BY <2>1
      <3>2. k \in 1..Len(pending') /\ pending'[k].message = SwReq(a, p, FALSE)
        BY <3>1
      <3>3. SwReq(a, p, FALSE)' = SwReq(a, p, FALSE)
        BY DEF SwReq
      <3> QED
        BY <3>2, <3>3 DEF OffComes, SwReq
    <2>2. CASE \E k \in 1..Len(toStation) :
                 k > place /\ toStation[k] = SwReq(a, p, FALSE)
      BY <2>2 DEF OffComes, SwReq
    <2> QED
      BY <1>1, <2>1, <2>2 DEF OffComes
  <1> QED
    BY <1>1 DEF ReleaseInv

\* A message that is sent moves from what is scheduled to the end of toStation.
LEMMA ReleaseAfterSend ==
  ASSUME TypeOK, TypeOK', OnlyOffWaits, ReleaseInv, SchedulerSend
  PROVE  ReleaseInv'
  <1> DEFINE message == pending[it].message
             last == Len(toStation) + 1
  <1>1. /\ it \in 1..Len(pending) /\ pending \in Seq(Entry)
        /\ WriteLine(message) /\ pending' = Erase(pending, it)
        /\ energised' = energised /\ toStation \in Seq(Outgoing)
    BY DEF SchedulerSend, TypeOK, railway
  <1>2. message \in Outgoing /\ ~message.on
    <2>1. pending[it] \in Entry
      BY <1>1
    <2> QED
      BY <1>1, <2>1 DEF Entry, OnlyOffWaits
  <1> SUFFICES ASSUME intact'
               PROVE  ReleaseInv'
    BY DEF ReleaseInv
  <1>3. intact /\ toStation' = Append(toStation, message)
    BY <1>1, <1>2, WriteLineEffect
  <1>4. /\ Len(toStation') = last /\ toStation'[last] = message
        /\ \A k \in 1..Len(toStation) : toStation'[k] = toStation[k]
        /\ Len(toStation) \in Nat
    BY <1>1, <1>3
  <1>5. ASSUME NEW k \in 1..Len(pending), k # it
        PROVE  \E j \in 1..Len(pending') : pending'[j] = pending[k]
    <2>1. Len(pending) \in Nat
      BY <1>1
    <2>2. Len(pending') = Len(pending) - 1
      BY <1>1, EraseProperties
    <2>3. \A j \in 1..(Len(pending) - 1) :
            pending'[j] = IF j < it THEN pending[j] ELSE pending[j + 1]
      BY <1>1, EraseProperties
    <2>4. CASE k < it
      <3>1. k \in 1..Len(pending') /\ pending'[k] = pending[k]
        BY <1>1, <2>1, <2>2, <2>3, <2>4
      <3> QED
        BY <3>1
    <2>5. CASE k > it
      <3>1. k - 1 \in 1..Len(pending') /\ pending'[k - 1] = pending[k]
        BY <1>1, <2>1, <2>2, <2>3, <2>5
      <3> QED
        BY <3>1
    <2> QED
      BY <1>1, <1>5, <2>1, <2>4, <2>5
  <1> HIDE DEF message
  <1>6. ASSUME NEW a, NEW p, NEW place \in 0..Len(toStation), OffComes(a, p, place)
        PROVE  OffComes(a, p, place)'
    <2>1. ASSUME NEW k \in 1..Len(pending), pending[k].message = SwReq(a, p, FALSE)
          PROVE  OffComes(a, p, place)'
      <3>1. CASE k = it
        <4>1. toStation'[last] = SwReq(a, p, FALSE)
          BY <1>4, <2>1, <3>1 DEF message
        <4>2. last \in 1..Len(toStation') /\ last > place
          BY <1>4
        <4> QED
          BY <4>1, <4>2 DEF OffComes, SwReq
      <3>2. CASE k # it
        <4>1. PICK j \in 1..Len(pending') : pending'[j] = pending[k]
          BY <1>5, <3>2
        <4> QED
          BY <2>1, <4>1 DEF OffComes, SwReq
      <3> QED
        BY <3>1, <3>2
    <2>2. ASSUME NEW k \in 1..Len(toStation), k > place,
                 toStation[k] = SwReq(a, p, FALSE)
          PROVE  OffComes(a, p, place)'
      <3>1. k \in 1..Len(toStation')
        BY <1>4
      <3>2. toStation'[k] = SwReq(a, p, FALSE)
        BY <1>4, <2>2
      <3> QED
        BY <2>2, <3>1, <3>2 DEF OffComes, SwReq
    <2> QED
      BY <1>6, <2>1, <2>2 DEF OffComes
  <1>7. ASSUME NEW a \in Addresses, NEW p \in Positions, <<a, p>> \in energised'
        PROVE  OffComes(a, p, 0)'
    <2>1. OffComes(a, p, 0)
      BY <1>1, <1>3, <1>7 DEF ReleaseInv
    <2> QED
      BY <1>4, <1>6, <2>1
  <1>8. ASSUME NEW a \in Addresses, NEW p \in Positions, NEW i \in 1..Len(toStation'),
               toStation'[i] = SwReq(a, p, TRUE)
        PROVE  OffComes(a, p, i)'
    <2>1. i # last
      BY <1>2, <1>4, <1>8 DEF SwReq
    <2>2. i \in 1..Len(toStation) /\ i \in 0..Len(toStation)
      BY <1>4, <2>1
    <2>3. toStation[i] = SwReq(a, p, TRUE)
      BY <1>4, <1>8, <2>2
    <2>4. OffComes(a, p, i)
      BY <1>3, <2>2, <2>3 DEF ReleaseInv
    <2> QED
      BY <1>6, <2>2, <2>4
  <1> QED
    BY <1>7, <1>8 DEF ReleaseInv, SwReq

\* A command is on its way with its off message scheduled.
LEMMA ReleaseAfterCommand ==
  ASSUME TypeOK, TypeOK', ReleaseInv, CommandAccepted
  PROVE  ReleaseInv'
  <1> DEFINE command == Head(pendingCommands)
             onMessage == SwReq(command.address, command.position, TRUE)
             offMessage == SwReq(command.address, command.position, FALSE)
             offEntry == [message |-> offMessage, dueAt |-> now + kOffPulseDelayMs]
             last == Len(pending) + 1
  <1>1. /\ command \in TurnoutCommands /\ command.address \in Addresses
        /\ WriteLine(onMessage)
        /\ pending' = Append(pending, offEntry)
        /\ energised' = energised
    <2>1. pendingCommands # <<>> /\ pendingCommands \in Seq(TurnoutCommands)
      BY DEF CommandAccepted, TypeOK
    <2>2. command \in TurnoutCommands
      BY <2>1
    <2> QED
      BY <2>2 DEF CommandAccepted, railway
  <1>2. onMessage \in Outgoing
    BY <1>1, CommandAssumption DEF SwReq, Outgoing
  <1>t. pending \in Seq(Entry) /\ toStation \in Seq(Outgoing)
    BY DEF TypeOK
  <1>3. /\ pending \in Seq(Entry) /\ toStation \in Seq(Outgoing)
        /\ Len(pending) \in Nat /\ Len(toStation) \in Nat
    BY <1>t
  <1>4. offEntry.message = offMessage
    OBVIOUS
  <1>5. \A a, p : onMessage = SwReq(a, p, TRUE) => offMessage = SwReq(a, p, FALSE)
    BY DEF SwReq
  <1> HIDE DEF onMessage, offMessage, offEntry
  <1> SUFFICES ASSUME intact'
               PROVE  ReleaseInv'
    BY DEF ReleaseInv
  <1>6. /\ last \in 1..Len(pending') /\ pending'[last] = offEntry
        /\ \A k \in 1..Len(pending) : k \in 1..Len(pending') /\ pending'[k] = pending[k]
    BY <1>1, <1>3
  <1>7. intact /\ toStation' = Append(toStation, onMessage)
    BY <1>1, <1>2, WriteLineEffect
  <1>8. /\ Len(toStation') = Len(toStation) + 1
        /\ toStation'[Len(toStation) + 1] = onMessage
        /\ \A k \in 1..Len(toStation) : toStation'[k] = toStation[k]
    BY <1>3, <1>7
  <1>9. ASSUME NEW a, NEW p, NEW place, OffComes(a, p, place)
        PROVE  OffComes(a, p, place)'
    <2>1. ASSUME NEW k \in 1..Len(pending), pending[k].message = SwReq(a, p, FALSE)
          PROVE  OffComes(a, p, place)'
      <3>1. k \in 1..Len(pending') /\ pending'[k].message = SwReq(a, p, FALSE)
        BY <1>6, <2>1
      <3> QED
        BY <3>1 DEF OffComes, SwReq
    <2>2. ASSUME NEW k \in 1..Len(toStation), k > place,
                 toStation[k] = SwReq(a, p, FALSE)
          PROVE  OffComes(a, p, place)'
      <3>1. k \in 1..Len(toStation')
        BY <1>3, <1>8
      <3>2. toStation'[k] = SwReq(a, p, FALSE)
        BY <1>8, <2>2
      <3> QED
        BY <2>2, <3>1, <3>2 DEF OffComes, SwReq
    <2> QED
      BY <1>9, <2>1, <2>2 DEF OffComes
  <1>10. ASSUME NEW a, NEW p, NEW place, onMessage = SwReq(a, p, TRUE)
         PROVE  OffComes(a, p, place)'
    <2>1. pending'[last].message = SwReq(a, p, FALSE)
      BY <1>4, <1>5, <1>6, <1>10
    <2> QED
      BY <1>6, <2>1 DEF OffComes, SwReq
  <1>11. ASSUME NEW a \in Addresses, NEW p \in Positions, NEW i \in 1..Len(toStation'),
                toStation'[i] = SwReq(a, p, TRUE)
         PROVE  OffComes(a, p, i)'
    <2>1. CASE i = Len(toStation) + 1
      BY <1>8, <1>10, <1>11, <2>1
    <2>2. CASE i # Len(toStation) + 1
      <3>1. i \in 1..Len(toStation)
        BY <1>3, <1>8, <2>2
      <3>2. toStation[i] = SwReq(a, p, TRUE)
        BY <1>8, <1>11, <3>1
      <3> QED
        BY <1>7, <1>9, <3>1, <3>2 DEF ReleaseInv
    <2> QED
      BY <2>1, <2>2
  <1> QED
    BY <1>1, <1>7, <1>9, <1>11 DEF ReleaseInv, SwReq

\* The station takes a message off toStation: an on message was followed by its
\* off message, and only that one ends the output.
LEMMA ReleaseAfterStation ==
  ASSUME TypeOK, TypeOK', ReleaseInv, UNCHANGED pending,
         toStation # <<>>, toStation' = Tail(toStation), intact' => intact,
         \A a \in Addresses, p \in Positions :
           <<a, p>> \in energised' =>
             \/ Head(toStation) = SwReq(a, p, TRUE)
             \/ <<a, p>> \in energised /\ Head(toStation) # SwReq(a, p, FALSE)
  PROVE  ReleaseInv'
  <1>1. toStation \in Seq(Outgoing)
    BY DEF TypeOK
  <1>2. Len(toStation) \in Nat \ {0} /\ Len(toStation') = Len(toStation) - 1
    BY <1>1
  <1>3. Head(toStation) = toStation[1]
    BY <1>1
  <1>4. \A k \in 1..Len(toStation') : toStation'[k] = toStation[k + 1]
    BY <1>1
  <1> SUFFICES ASSUME intact'
               PROVE  ReleaseInv'
    BY DEF ReleaseInv
  <1>5. ASSUME NEW a, NEW p, NEW place \in Nat, NEW before \in Nat,
               OffComes(a, p, place),
               \/ before < place
               \/ before = 0 /\ toStation[1] # SwReq(a, p, FALSE)
        PROVE  OffComes(a, p, before)'
    <2>1. CASE \E k \in 1..Len(pending) : pending[k].message = SwReq(a, p, FALSE)
      BY <2>1 DEF OffComes, SwReq
    <2>2. ASSUME NEW k \in 1..Len(toStation), k > place,
                 toStation[k] = SwReq(a, p, FALSE)
          PROVE  OffComes(a, p, before)'
      <3>1. CASE before < place
        <4>1. k - 1 \in 1..Len(toStation') /\ k - 1 > before
          BY <1>2, <2>2, <3>1
        <4>2. toStation'[k - 1] = toStation[(k - 1) + 1]
          BY <1>4, <4>1
        <4>3. (k - 1) + 1 = k
          OBVIOUS
        <4> QED
          BY <2>2, <4>1, <4>2, <4>3 DEF OffComes, SwReq
      <3>2. CASE before = 0 /\ toStation[1] # SwReq(a, p, FALSE)
        <4>1. k # 1
          BY <2>2, <3>2, Zenon
        <4>2. k - 1 \in 1..Len(toStation') /\ k - 1 > before
          BY <1>2, <3>2, <4>1
        <4>3. toStation'[k - 1] = toStation[(k - 1) + 1]
          BY <1>4, <4>2
        <4>4. (k - 1) + 1 = k
          OBVIOUS
        <4> QED
          BY <2>2, <4>2, <4>3, <4>4 DEF OffComes, SwReq
      <3> QED
        BY <1>5, <3>1, <3>2
    <2> QED
      BY <1>5, <2>1, <2>2 DEF OffComes
  <1>6. ASSUME NEW a \in Addresses, NEW p \in Positions, <<a, p>> \in energised'
        PROVE  OffComes(a, p, 0)'
    <2>1. CASE Head(toStation) = SwReq(a, p, TRUE)
      <3>1. 1 \in 1..Len(toStation)
        BY <1>2
      <3>2. toStation[1] = SwReq(a, p, TRUE)
        BY <1>3, <2>1
      <3>3. OffComes(a, p, 1)
        BY <3>1, <3>2 DEF ReleaseInv
      <3>4. 0 \in Nat /\ 1 \in Nat /\ 0 < 1
        OBVIOUS
      <3> QED
        BY <1>5, <3>3, <3>4, Zenon
    <2>2. CASE <<a, p>> \in energised /\ Head(toStation) # SwReq(a, p, FALSE)
      <3>1. OffComes(a, p, 0)
        BY <2>2 DEF ReleaseInv
      <3> QED
        BY <1>3, <1>5, <2>2, <3>1
    <2> QED
      BY <1>6, <2>1, <2>2
  <1>7. ASSUME NEW a \in Addresses, NEW p \in Positions, NEW i \in 1..Len(toStation'),
               toStation'[i] = SwReq(a, p, TRUE)
        PROVE  OffComes(a, p, i)'
    <2>1. i + 1 \in 1..Len(toStation)
      BY <1>2
    <2>2. toStation[i + 1] = SwReq(a, p, TRUE)
      BY <1>4, <1>7
    <2>3. OffComes(a, p, i + 1)
      BY <2>1, <2>2 DEF ReleaseInv
    <2>4. i \in Nat /\ i + 1 \in Nat /\ i < i + 1
      BY <1>2
    <2> QED
      BY <1>5, <2>3, <2>4, Zenon
  <1> QED
    BY <1>6, <1>7 DEF ReleaseInv, SwReq

\* Only off messages wait, in every step.
LEMMA OnlyOffWaitsStep ==
  ASSUME TypeOK, TypeOK', OnlyOffWaits, [Next]_vars
  PROVE  OnlyOffWaits'
  <1>1. pending \in Seq(Entry)
    BY DEF TypeOK
  <1>2. CASE SchedulerSend
    <2>1. it \in 1..Len(pending) /\ pending' = Erase(pending, it)
      BY <1>2 DEF SchedulerSend, TypeOK
    <2>2. Len(pending') = Len(pending) - 1
      BY <1>1, <2>1, EraseProperties
    <2>3. \A k \in 1..(Len(pending) - 1) :
            pending'[k] = IF k < it THEN pending[k] ELSE pending[k + 1]
      BY <1>1, <2>1, EraseProperties
    <2> QED
      BY <1>1, <2>1, <2>2, <2>3 DEF OnlyOffWaits
  <1>3. CASE QueryAllTurnouts
    <2>1. ASSUME NEW k \in 1..Len(pending')
          PROVE  ~pending'[k].message.on
      <3>1. CASE k \in 1..Len(pending)
        <4>1. pending'[k] = pending[k]
          BY <1>3, <3>1, QueryEffect
        <4> QED
          BY <3>1, <4>1 DEF OnlyOffWaits
      <3>2. CASE k \in (Len(pending) + 1)..Len(pending')
        <4>1. PICK i \in 1..QuerySize : PendingNumber(k)' = Len(asked) + i
          BY <1>3, <3>2, QueryEffect
        <4>2. pending'[k].message.request # 0
          BY <4>1, QueryTypes, NumberTypes DEF PendingNumber
        <4>3. pending'[k].message \in Outgoing
          <5>1. pending' \in Seq(Entry)
            BY DEF TypeOK
          <5>2. pending'[k] \in Entry
            BY <5>1
          <5> QED
            BY <5>2 DEF Entry
        <4> QED
          BY <4>2, <4>3 DEF Outgoing
      <3> QED
        BY <1>1, <3>1, <3>2
    <2> QED
      BY <2>1 DEF OnlyOffWaits
  <1>4. CASE CommandAccepted
    <2>1. PICK entry : ~entry.message.on /\ pending' = Append(pending, entry)
      BY <1>4 DEF CommandAccepted, SwReq
    <2>2. Len(pending') = Len(pending) + 1 /\ pending'[Len(pending) + 1] = entry
          /\ \A k \in 1..Len(pending) : pending'[k] = pending[k]
      BY <1>1, <2>1
    <2> QED
      BY <1>1, <2>1, <2>2 DEF OnlyOffWaits
  <1>5. CASE pending' = pending
    BY <1>5 DEF OnlyOffWaits
  <1>6. SchedulerSend \/ QueryAllTurnouts \/ CommandAccepted \/ pending' = pending
    BY DEF Next, Loop, Scheduler, Router, Query, CommandRouter, World, Station,
           MqttReceive, MqttDone, SchedulerBegin, SchedulerSkip, SchedulerDone,
           RouterSwitchMessage, RouterStateAck, RouterReconnect, RouterDone,
           QueryReset, QueryWait, CommandRejected, CommandsDone, Tick, LinkBreaks,
           StationAnswers, StationSwitches, OtherThrottle, StrayAck, vars, device
  <1> QED
    BY <1>2, <1>3, <1>4, <1>5, <1>6

\* Every step keeps the release of an output behind what turns it on.
LEMMA ReleaseStep ==
  ASSUME TypeOK, TypeOK', OnlyOffWaits, ReleaseInv, [Next]_vars
  PROVE  ReleaseInv'
  <1> USE DEF device, stream, railway, history, counters
  <1>1. CASE SchedulerSend
    BY <1>1, ReleaseAfterSend
  <1>2. CASE CommandAccepted
    BY <1>2, ReleaseAfterCommand
  <1>3. CASE QueryAllTurnouts
    <2>1. UNCHANGED <<toStation, energised, intact>>
      BY <1>3 DEF QueryAllTurnouts
    <2>2. Len(pending') = Len(pending) + QuerySize
          /\ \A k \in 1..Len(pending) : pending'[k] = pending[k]
      BY <1>3, QueryEffect
    <2>3. Len(pending) \in Nat /\ QuerySize \in Nat
      BY QueryTypes, NumberTypes
    <2>4. \A k \in 1..Len(pending) : k \in 1..Len(pending')
      BY <2>2, <2>3
    <2> QED
      BY <2>1, <2>2, <2>4, ReleaseKept
  <1>4. CASE RouterReconnect \/ LinkBreaks
    <2>1. UNCHANGED <<pending, energised>>
      BY <1>4 DEF RouterReconnect, LinkBreaks
    <2>2. CASE intact'
      <3>1. intact /\ toStation' = toStation
        BY <1>4, <2>2, LossEffect
      <3> QED
        BY <2>1, <3>1, ReleaseKept
    <2>3. CASE ~intact'
      BY <2>3 DEF ReleaseInv
    <2> QED
      BY <2>2, <2>3
  <1>5. CASE StationAnswers
    <2>1. /\ toStation # <<>> /\ toStation' = Tail(toStation)
          /\ intact' => intact
          /\ UNCHANGED <<pending, energised>>
          /\ Head(toStation).opcode = "SW_STATE"
      BY <1>5 DEF StationAnswers
    <2>2. \A a \in Addresses, p \in Positions : Head(toStation) # SwReq(a, p, FALSE)
      BY <2>1 DEF SwReq
    <2> QED
      BY <2>1, <2>2, ReleaseAfterStation
  <1>6. CASE StationSwitches
    <2> DEFINE message == Head(toStation)
               output == <<message.address, message.position>>
    <2>1. /\ toStation # <<>> /\ toStation' = Tail(toStation)
          /\ intact' => intact
          /\ UNCHANGED pending
          /\ message.opcode = "SW_REQ"
          /\ energised' = IF message.on THEN energised \cup {output}
                          ELSE energised \ {output}
      BY <1>6 DEF StationSwitches
    <2>2. message \in Outgoing
      <3>1. toStation \in Seq(Outgoing)
        BY DEF TypeOK
      <3> QED
        BY <2>1, <3>1
    <2>3. message = SwReq(message.address, message.position, message.on)
          /\ message.on \in BOOLEAN
      BY <2>1, <2>2 DEF Outgoing, SwReq
    <2>4. ASSUME NEW a \in Addresses, NEW p \in Positions, <<a, p>> \in energised'
          PROVE  \/ message = SwReq(a, p, TRUE)
                 \/ <<a, p>> \in energised /\ message # SwReq(a, p, FALSE)
      <3>1. CASE message.on
        <4>1. message # SwReq(a, p, FALSE)
          BY <3>1 DEF SwReq
        <4>2. CASE <<a, p>> = output
          <5>1. message = SwReq(message.address, message.position, TRUE)
            BY <2>3, <3>1 DEF SwReq
          <5> QED
            BY <4>2, <5>1
        <4>3. CASE <<a, p>> # output
          BY <2>1, <2>4, <3>1, <4>1, <4>3
        <4> QED
          BY <4>2, <4>3
      <3>2. CASE ~message.on
        <4>1. <<a, p>> \in energised /\ <<a, p>> # output
          BY <2>1, <2>4, <3>2
        <4>2. message # SwReq(a, p, FALSE)
          BY <4>1 DEF SwReq
        <4> QED
          BY <4>1, <4>2
      <3> QED
        BY <3>1, <3>2
    <2> HIDE DEF message, output
    <2> QED
      BY <2>1, <2>4, ReleaseAfterStation DEF message
  <1>7. CASE UNCHANGED <<pending, toStation, energised>> /\ (intact' => intact)
    BY <1>7, ReleaseKept
  <1>8. \/ SchedulerSend \/ CommandAccepted \/ QueryAllTurnouts \/ RouterReconnect
        \/ LinkBreaks \/ StationAnswers \/ StationSwitches
        \/ UNCHANGED <<pending, toStation, energised>> /\ (intact' => intact)
    BY DEF Next, Loop, Scheduler, Router, Query, CommandRouter, World, Station,
           MqttReceive, MqttDone, SchedulerBegin, SchedulerSkip, SchedulerDone,
           RouterSwitchMessage, RouterStateAck, RouterDone, QueryReset, QueryWait,
           CommandRejected, CommandsDone, Tick, OtherThrottle, StrayAck, vars
  <1> QED
    BY <1>1, <1>2, <1>3, <1>4, <1>5, <1>6, <1>7, <1>8

\* As long as no frame was lost, whatever is on is about to be turned off: no
\* coil stays energised (MqttCommandRouter::update).
THEOREM ReleaseCorrect == Spec => []ReleaseIsComing
  <1>1. Init => OnlyOffWaits /\ ReleaseInv
    <2> SUFFICES ASSUME Init
                 PROVE  OnlyOffWaits /\ ReleaseInv
      OBVIOUS
    <2>1. pending = <<>> /\ toStation = <<>> /\ energised = {}
      BY DEF Init
    <2> QED
      BY <2>1 DEF OnlyOffWaits, ReleaseInv
  <1>2. TypeOK /\ TypeOK' /\ OnlyOffWaits /\ ReleaseInv /\ [Next]_vars
          => OnlyOffWaits' /\ ReleaseInv'
    BY OnlyOffWaitsStep, ReleaseStep
  <1>3. ASSUME TypeOK, ReleaseInv
        PROVE  ReleaseIsComing
    <2> SUFFICES ASSUME intact, NEW output \in energised
                 PROVE  \/ \E k \in 1..Len(pending) :
                             pending[k].message = SwReq(output[1], output[2], FALSE)
                        \/ \E k \in 1..Len(toStation) :
                             toStation[k] = SwReq(output[1], output[2], FALSE)
      BY DEF ReleaseIsComing
    <2>1. energised \subseteq Addresses \X Positions
      BY <1>3 DEF TypeOK
    <2>2. /\ output[1] \in Addresses /\ output[2] \in Positions
          /\ output = <<output[1], output[2]>>
      BY <2>1
    <2>3. OffComes(output[1], output[2], 0)
      BY <1>3, <2>2 DEF ReleaseInv
    <2> QED
      BY <2>3 DEF OffComes
  <1> QED
    BY <1>1, <1>2, <1>3, TypeCorrect, PTL DEF Spec

-----------------------------------------------------------------------------
(* Where everybody ends up. *)

\* When the queue has been worked off, what the messages of S set is p: so says
\* the last of them, or x if there is none.
Drained(queue, S, x, p) ==
  /\ \A i \in 1..Len(queue) :
       queue[i] \in S /\ (\A j \in 1..Len(queue) : j > i => queue[j] \notin S)
         => queue[i].position = p
  /\ (\A i \in 1..Len(queue) : queue[i] \notin S) => x = p

\* A message more at the end, which has the last word if it has one.
LEMMA DrainedAppend ==
  ASSUME NEW T, NEW queue \in Seq(T), NEW m \in T, NEW S, NEW x, NEW p,
         \/ Drained(queue, S, x, p) /\ m \notin S
         \/ m \in S /\ m.position = p
  PROVE  Drained(Append(queue, m), S, x, p)
  <1> DEFINE longer == Append(queue, m)
             last == Len(queue) + 1
  <1>1. /\ Len(queue) \in Nat /\ Len(longer) = last /\ longer[last] = m
        /\ \A k \in 1..Len(queue) : longer[k] = queue[k]
    OBVIOUS
  <1> HIDE DEF longer
  <1>2. CASE m \in S /\ m.position = p
    BY <1>1, <1>2 DEF Drained
  <1>3. CASE Drained(queue, S, x, p) /\ m \notin S
    <2>1. ASSUME NEW i \in 1..Len(longer), longer[i] \in S,
                 \A j \in 1..Len(longer) : j > i => longer[j] \notin S
          PROVE  longer[i].position = p
      <3>1. i \in 1..Len(queue) /\ queue[i] \in S
        BY <1>1, <1>3, <2>1
      <3>2. \A j \in 1..Len(queue) : j > i => queue[j] \notin S
        BY <1>1, <2>1
      <3> QED
        BY <1>1, <1>3, <3>1, <3>2 DEF Drained
    <2>2. ASSUME \A i \in 1..Len(longer) : longer[i] \notin S
          PROVE  x = p
      BY <1>1, <1>3, <2>2 DEF Drained
    <2> QED
      BY <2>1, <2>2 DEF Drained
  <1> QED
    BY <1>2, <1>3 DEF longer

\* A message less at the front, which has been heeded.
LEMMA DrainedTail ==
  ASSUME NEW T, NEW queue \in Seq(T), queue # <<>>, NEW S, NEW x, NEW y, NEW p,
         Drained(queue, S, x, p),
         y = IF Head(queue) \in S THEN Head(queue).position ELSE x
  PROVE  Drained(Tail(queue), S, y, p)
  <1> DEFINE rest == Tail(queue)
  <1>1. /\ Len(queue) \in Nat \ {0} /\ Len(rest) = Len(queue) - 1
        /\ Head(queue) = queue[1]
        /\ \A k \in 1..Len(rest) : rest[k] = queue[k + 1]
    OBVIOUS
  <1> HIDE DEF rest
  <1>2. ASSUME NEW i \in 1..Len(rest), rest[i] \in S,
               \A j \in 1..Len(rest) : j > i => rest[j] \notin S
        PROVE  rest[i].position = p
    <2>1. i + 1 \in 1..Len(queue) /\ queue[i + 1] \in S /\ queue[i + 1] = rest[i]
      BY <1>1, <1>2
    <2>2. ASSUME NEW j \in 1..Len(queue), j > i + 1
          PROVE  queue[j] \notin S
      <3>1. j - 1 \in 1..Len(rest) /\ j - 1 > i /\ (j - 1) + 1 = j
        BY <1>1, <2>2
      <3> QED
        BY <1>1, <1>2, <3>1
    <2> QED
      BY <2>1, <2>2 DEF Drained
  <1>3. ASSUME \A i \in 1..Len(rest) : rest[i] \notin S
        PROVE  y = p
    <2>1. ASSUME NEW j \in 1..Len(queue), j > 1
          PROVE  queue[j] \notin S
      <3>1. j - 1 \in 1..Len(rest) /\ (j - 1) + 1 = j
        BY <1>1, <2>1
      <3> QED
        BY <1>1, <1>3, <3>1
    <2>2. CASE Head(queue) \in S
      BY <1>1, <2>1, <2>2 DEF Drained
    <2>3. CASE Head(queue) \notin S
      <3>1. \A j \in 1..Len(queue) : queue[j] \notin S
        BY <1>1, <2>1, <2>3
      <3> QED
        BY <2>3, <3>1 DEF Drained
    <2> QED
      BY <2>2, <2>3
  <1> QED
    BY <1>2, <1>3 DEF Drained, rest

\* A message less anywhere, if none of S is in front of it, or it is not of S.
LEMMA DrainedErase ==
  ASSUME NEW T, NEW queue \in Seq(T), NEW n \in 1..Len(queue), NEW S, NEW p,
         Drained(queue, S, p, p),
         queue[n] \in S => \A k \in 1..Len(queue) : k < n => queue[k] \notin S
  PROVE  Drained(Erase(queue, n), S, p, p)
  <1> DEFINE rest == Erase(queue, n)
  <1>1. /\ Len(queue) \in Nat /\ Len(rest) = Len(queue) - 1
        /\ \A k \in 1..(Len(queue) - 1) :
             rest[k] = IF k < n THEN queue[k] ELSE queue[k + 1]
    BY EraseProperties
  <1> HIDE DEF rest
  <1> DEFINE from(k) == IF k < n THEN k ELSE k + 1
  <1>2. SUFFICES ASSUME NEW i \in 1..Len(rest), rest[i] \in S,
                        \A j \in 1..Len(rest) : j > i => rest[j] \notin S
                 PROVE  rest[i].position = p
    BY DEF Drained, rest
  <1>3. /\ from(i) \in 1..Len(queue) /\ from(i) # n
        /\ queue[from(i)] = rest[i]
    BY <1>1
  <1>4. ASSUME NEW j \in 1..Len(queue), j > from(i)
        PROVE  queue[j] \notin S
    <2>1. CASE j = n
      BY <1>2, <1>3, <1>4, <2>1
    <2>2. CASE j < n
      <3>1. j \in 1..Len(rest) /\ j > i /\ rest[j] = queue[j]
        BY <1>1, <1>4, <2>2
      <3> QED
        BY <1>2, <3>1
    <2>3. CASE j > n
      <3>1. j - 1 \in 1..Len(rest) /\ j - 1 > i /\ rest[j - 1] = queue[(j - 1) + 1]
            /\ (j - 1) + 1 = j
        BY <1>1, <1>4, <2>3
      <3> QED
        BY <1>2, <3>1
    <2> QED
      BY <2>1, <2>2, <2>3
  <1> HIDE DEF from
  <1> QED
    BY <1>2, <1>3, <1>4 DEF Drained

\* Sets that agree on what is in the queue.
LEMMA DrainedSame ==
  ASSUME NEW queue, NEW S, NEW R, NEW x, NEW p, Drained(queue, S, x, p),
         \A i \in 1..Len(queue) : queue[i] \in R <=> queue[i] \in S
  PROVE  Drained(queue, R, x, p)
  BY DEF Drained

-----------------------------------------------------------------------------
(* A turnout goes where the last command for it says, and the last off message *)
(* under way says the same.                                                  *)

\* The messages that set a turnout, that end its pulse, and that tell the device
\* where it is.
Ons(a) == {m \in Outgoing : m.opcode = "SW_REQ" /\ m.on /\ m.address = a}
Offs(a) == {m \in Outgoing : IsOffFor(m, a)}
News(a) ==
  {m \in Incoming :
     \/ m.opcode = "SW_REQ" /\ m.address = a
     \/ /\ m.opcode = "LONG_ACK" /\ m.request # 0
        /\ asked[m.request] = a}

\* What the scheduler holds, without the due times.
Messages(entries) == [k \in 1..Len(entries) |-> entries[k].message]
Waiting == Messages(pending)

Aims(a, p) == Drained(toStation, Ons(a), layout[a], p)
EndsAt(a, p) ==
  /\ Drained(Waiting, Offs(a), p, p)
  /\ (\A k \in 1..Len(Waiting) : Waiting[k] \notin Offs(a))
       => Drained(toStation, Offs(a), p, p)
Goes(a, p) == Aims(a, p) /\ EndsAt(a, p)

\* Where the device takes the turnout to be when all news has been read.
Hears(a, p) == Drained(fromStation, News(a), lastKnownPosition[a], p)

\* Off messages wait in the order in which they become due.
OffsDueInOrder ==
  /\ \A i, j \in 1..Len(pending) :
       /\ i < j
       /\ pending[i].message.opcode = "SW_REQ"
       /\ pending[j].message.opcode = "SW_REQ"
       => pending[i].dueAt <= pending[j].dueAt
  /\ \A k \in 1..Len(pending) :
       pending[k].message.opcode = "SW_REQ"
         => pending[k].dueAt <= now + kOffPulseDelayMs

\* A pulse of the device ends where its command has put the turnout, unless
\* somebody moved it meanwhile.
PulseInv ==
  intact => \A a \in Addresses \ overtaken : \E p \in Positions : Goes(a, p)

\* The messages of entries, one for each.
LEMMA MessagesProperties ==
  ASSUME NEW entries \in Seq(Entry)
  PROVE  /\ Messages(entries) \in Seq(Outgoing)
         /\ Len(Messages(entries)) = Len(entries)
         /\ \A k \in 1..Len(entries) : Messages(entries)[k] = entries[k].message
  <1>1. \A k \in 1..Len(entries) : entries[k].message \in Outgoing
    <2>1. \A k \in 1..Len(entries) : entries[k] \in Entry
      OBVIOUS
    <2> QED
      BY <2>1 DEF Entry
  <1> QED
    BY <1>1 DEF Messages

\* The same of what waits, before a step and after it.
LEMMA WaitingTypes ==
  ASSUME TypeOK, TypeOK'
  PROVE  /\ Waiting \in Seq(Outgoing) /\ Len(Waiting) = Len(pending)
         /\ \A k \in 1..Len(pending) : Waiting[k] = pending[k].message
         /\ Waiting' \in Seq(Outgoing) /\ Len(Waiting') = Len(pending')
         /\ \A k \in 1..Len(pending') : Waiting'[k] = pending'[k].message
         /\ Len(pending) \in Nat /\ Len(pending') \in Nat
  <1>1. pending \in Seq(Entry) /\ pending' \in Seq(Entry)
    BY DEF TypeOK
  <1>2. Len(pending) \in Nat /\ Len(pending') \in Nat
    BY <1>1
  <1>3. Waiting' = Messages(pending')
    BY DEF Waiting, Messages
  <1> QED
    BY <1>1, <1>2, <1>3, MessagesProperties DEF Waiting

\* Off messages stay in order.
LEMMA OffsDueStep ==
  ASSUME TypeOK, TypeOK', OffsDueInOrder, [Next]_vars
  PROVE  OffsDueInOrder'
  <1>1. /\ pending \in Seq(Entry) /\ Len(pending) \in Nat /\ now \in Nat
        /\ kOffPulseDelayMs \in Nat
        /\ \A k \in 1..Len(pending) : pending[k].dueAt \in Nat
    BY NumberTypes, TimerAssumption DEF TypeOK
  <1>2. CASE SchedulerSend
    <2>1. it \in 1..Len(pending) /\ pending' = Erase(pending, it) /\ now' = now
      BY <1>2 DEF SchedulerSend, TypeOK
    <2>2. /\ Len(pending') = Len(pending) - 1
          /\ \A k \in 1..(Len(pending) - 1) :
               pending'[k] = IF k < it THEN pending[k] ELSE pending[k + 1]
      BY <1>1, <2>1, EraseProperties
    <2> DEFINE from(k) == IF k < it THEN k ELSE k + 1
    <2>3. \A k \in 1..Len(pending') :
            from(k) \in 1..Len(pending) /\ pending'[k] = pending[from(k)]
      BY <1>1, <2>1, <2>2
    <2>4. \A i, j \in 1..Len(pending') : i < j => from(i) < from(j)
      BY <1>1, <2>1, <2>2
    <2> HIDE DEF from
    <2>5. ASSUME NEW i \in 1..Len(pending'), NEW j \in 1..Len(pending'), i < j,
                 pending'[i].message.opcode = "SW_REQ",
                 pending'[j].message.opcode = "SW_REQ"
          PROVE  pending'[i].dueAt <= pending'[j].dueAt
      <3>1. /\ from(i) \in 1..Len(pending) /\ pending'[i] = pending[from(i)]
            /\ from(j) \in 1..Len(pending) /\ pending'[j] = pending[from(j)]
            /\ from(i) < from(j)
        BY <2>3, <2>4, <2>5
      <3> QED
        BY <2>5, <3>1 DEF OffsDueInOrder
    <2>6. ASSUME NEW k \in 1..Len(pending'), pending'[k].message.opcode = "SW_REQ"
          PROVE  pending'[k].dueAt <= now' + kOffPulseDelayMs
      BY <2>1, <2>3, <2>6 DEF OffsDueInOrder
    <2> QED
      BY <2>5, <2>6 DEF OffsDueInOrder
  <1>3. CASE QueryAllTurnouts
    <2>1. now' = now
      BY <1>3 DEF QueryAllTurnouts
    <2>2. ASSUME NEW k \in 1..Len(pending'), pending'[k].message.opcode = "SW_REQ"
          PROVE  k \in 1..Len(pending) /\ pending'[k] = pending[k]
      <3>1. CASE k \in 1..Len(pending)
        BY <1>3, <3>1, QueryEffect
      <3>2. CASE k \in (Len(pending) + 1)..Len(pending')
        <4>1. PICK i \in 1..QuerySize : PendingNumber(k)' = Len(asked) + i
          BY <1>3, <3>2, QueryEffect
        <4>2. pending'[k].message.request # 0
          BY <4>1, QueryTypes, NumberTypes DEF PendingNumber
        <4>3. pending'[k].message \in Outgoing
          <5>1. pending' \in Seq(Entry)
            BY DEF TypeOK
          <5>2. pending'[k] \in Entry
            BY <5>1
          <5> QED
            BY <5>2 DEF Entry
        <4> QED
          BY <2>2, <4>2, <4>3 DEF Outgoing
      <3> QED
        BY <1>1, <3>1, <3>2
    <2> QED
      BY <1>1, <2>1, <2>2 DEF OffsDueInOrder
  <1>4. CASE CommandAccepted
    <2>1. PICK entry : /\ entry.dueAt = now + kOffPulseDelayMs
                       /\ pending' = Append(pending, entry)
      BY <1>4 DEF CommandAccepted
    <2>2. now' = now
      BY <1>4 DEF CommandAccepted
    <2>3. /\ Len(pending') = Len(pending) + 1 /\ pending'[Len(pending) + 1] = entry
          /\ \A k \in 1..Len(pending) : pending'[k] = pending[k]
      BY <1>1, <2>1
    <2> QED
      BY <1>1, <2>1, <2>2, <2>3 DEF OffsDueInOrder
  <1>5. CASE UNCHANGED pending /\ now' \in {now, now + 1}
    BY <1>1, <1>5 DEF OffsDueInOrder
  <1>6. \/ SchedulerSend \/ QueryAllTurnouts \/ CommandAccepted
        \/ UNCHANGED pending /\ now' \in {now, now + 1}
    BY DEF Next, Loop, Scheduler, Router, Query, CommandRouter, World, Station,
           MqttReceive, MqttDone, SchedulerBegin, SchedulerSkip, SchedulerDone,
           RouterSwitchMessage, RouterStateAck, RouterReconnect, RouterDone,
           QueryReset, QueryWait, CommandRejected, CommandsDone, Tick, LinkBreaks,
           StationAnswers, StationSwitches, OtherThrottle, StrayAck, vars, device
  <1> QED
    BY <1>2, <1>3, <1>4, <1>5, <1>6

\* What only adds requests to the scheduler, and takes nothing from it, ends no
\* pulse elsewhere; and what a turnout is set to stays.
LEMMA GoesUntouched ==
  ASSUME NEW a, NEW p, Goes(a, p), layout'[a] = layout[a], UNCHANGED toStation,
         Len(Waiting) \in Nat, Len(Waiting') \in Nat, Len(Waiting') >= Len(Waiting),
         \A k \in 1..Len(Waiting) : Waiting'[k] = Waiting[k],
         \A k \in 1..Len(Waiting') : k > Len(Waiting) => Waiting'[k] \notin Offs(a)
  PROVE  Goes(a, p)'
  <1>1. Ons(a)' = Ons(a) /\ Offs(a)' = Offs(a)
    BY DEF Ons, Offs, IsOffFor
  <1>2. Aims(a, p)'
    BY <1>1 DEF Goes, Aims
  <1>3. Drained(Waiting, Offs(a), p, p)'
    <2> SUFFICES ASSUME NEW i \in 1..Len(Waiting'), Waiting'[i] \in Offs(a),
                        \A j \in 1..Len(Waiting') : j > i => Waiting'[j] \notin Offs(a)
                 PROVE  Waiting'[i].position = p
      BY <1>1 DEF Drained
    <2>1. i \in 1..Len(Waiting)
      OBVIOUS
    <2>2. \A j \in 1..Len(Waiting) : j > i => Waiting[j] \notin Offs(a)
      OBVIOUS
    <2> QED
      BY <2>1, <2>2 DEF Goes, EndsAt, Drained
  <1>4. ASSUME \A k \in 1..Len(Waiting') : Waiting'[k] \notin Offs(a)
        PROVE  Drained(toStation, Offs(a), p, p)'
    <2>1. \A k \in 1..Len(Waiting) : Waiting[k] \notin Offs(a)
      BY <1>4
    <2> QED
      BY <1>1, <2>1 DEF Goes, EndsAt
  <1> QED
    BY <1>1, <1>2, <1>3, <1>4 DEF Goes, EndsAt

\* The first off message for a turnout is sent before the others, and stays in
\* front of them.
LEMMA GoesAfterSend ==
  ASSUME TypeOK, TypeOK', OrderInv, OnlyOffWaits, OffsDueInOrder, SchedulerSend,
         intact', NEW a, NEW p, Goes(a, p)
  PROVE  Goes(a, p)'
  <1> DEFINE message == pending[it].message
  <1>1. /\ it \in 1..Len(pending) /\ pending \in Seq(Entry)
        /\ WriteLine(message) /\ pending' = Erase(pending, it)
        /\ layout' = layout /\ toStation \in Seq(Outgoing)
        /\ pc = "sending" /\ pending[it].dueAt <= tickNow /\ tickNow \in Nat
    BY DEF SchedulerSend, TypeOK, railway
  <1>2. /\ Waiting \in Seq(Outgoing) /\ Len(Waiting) = Len(pending)
        /\ \A k \in 1..Len(pending) : Waiting[k] = pending[k].message
        /\ Len(pending) \in Nat
    BY WaitingTypes, NumberTypes
  <1>3. message \in Outgoing /\ message = Waiting[it] /\ ~message.on
    BY <1>1, <1>2 DEF OnlyOffWaits
  <1>4. toStation' = Append(toStation, message)
    BY <1>1, <1>3, WriteLineEffect
  <1> HIDE DEF message
  <1>5. Waiting' = Erase(Waiting, it)
    <2>1. /\ Waiting' \in Seq(Outgoing) /\ Len(Waiting') = Len(pending')
          /\ \A k \in 1..Len(pending') : Waiting'[k] = pending'[k].message
      BY WaitingTypes
    <2>2. /\ Len(pending') = Len(pending) - 1
          /\ \A k \in 1..(Len(pending) - 1) :
               pending'[k] = IF k < it THEN pending[k] ELSE pending[k + 1]
      BY <1>1, EraseProperties
    <2>3. /\ Erase(Waiting, it) \in Seq(Outgoing)
          /\ Len(Erase(Waiting, it)) = Len(Waiting) - 1
          /\ \A k \in 1..(Len(Waiting) - 1) :
               Erase(Waiting, it)[k] = IF k < it THEN Waiting[k] ELSE Waiting[k + 1]
      BY <1>1, <1>2, EraseProperties
    <2>4. ASSUME NEW k \in 1..Len(Waiting')
          PROVE  Waiting'[k] = Erase(Waiting, it)[k]
      <3>1. k \in 1..(Len(pending) - 1) /\ k \in 1..Len(pending')
        BY <1>2, <2>1, <2>2
      <3>2. Waiting'[k] = pending'[k].message
        BY <2>1, <3>1
      <3>3. CASE k < it
        <4>1. k \in 1..Len(pending)
          BY <1>2, <3>1
        <4>2. Erase(Waiting, it)[k] = Waiting[k]
          BY <1>2, <2>3, <3>1, <3>3
        <4> QED
          BY <1>2, <2>2, <3>1, <3>2, <3>3, <4>1, <4>2
      <3>4. CASE ~(k < it)
        <4>1. k + 1 \in 1..Len(pending)
          BY <1>2, <3>1
        <4>2. Erase(Waiting, it)[k] = Waiting[k + 1]
          BY <1>2, <2>3, <3>1, <3>4
        <4> QED
          BY <1>2, <2>2, <3>1, <3>2, <3>4, <4>1, <4>2
      <3> QED
        BY <3>3, <3>4
    <2>5. Len(Waiting') = Len(Erase(Waiting, it))
      BY <1>2, <2>1, <2>2, <2>3
    <2> HIDE DEF Waiting
    <2> QED
      BY <2>1, <2>3, <2>4, <2>5, SeqEqual
  <1>6. Ons(a)' = Ons(a) /\ Offs(a)' = Offs(a)
    BY DEF Ons, Offs, IsOffFor
  <1>7. Aims(a, p)'
    <2>1. message \notin Ons(a)
      BY <1>3 DEF Ons
    <2>2. Drained(Append(toStation, message), Ons(a), layout[a], p)
      BY <1>1, <1>3, <2>1, DrainedAppend DEF Goes, Aims
    <2> QED
      BY <1>1, <1>4, <1>6, <2>2 DEF Aims
  <1>8. ASSUME NEW k \in 1..Len(Waiting), k < it, Waiting[it] \in Offs(a)
        PROVE  Waiting[k] \notin Offs(a)
    <2>1. pending[k].dueAt > tickNow
      BY <1>1, <1>2, <1>8 DEF OrderInv, RequestsDueInOrder
    <2>2. pending[k].dueAt \in Nat /\ pending[it].dueAt \in Nat
      BY <1>1, <1>2, NumberTypes
    <2>3. ~(pending[k].dueAt <= pending[it].dueAt)
      BY <1>1, <2>1, <2>2
    <2>4. ~(pending[k].message.opcode = "SW_REQ" /\ pending[it].message.opcode = "SW_REQ")
      BY <1>1, <1>2, <1>8, <2>3 DEF OffsDueInOrder
    <2> QED
      BY <1>1, <1>2, <1>8, <2>4 DEF Offs, IsOffFor
  <1>9. Drained(Waiting, Offs(a), p, p)'
    <2>1. Drained(Erase(Waiting, it), Offs(a), p, p)
      BY <1>1, <1>2, <1>8, DrainedErase DEF Goes, EndsAt
    <2> QED
      BY <1>5, <1>6, <2>1
  <1>10. ASSUME \A k \in 1..Len(Waiting') : Waiting'[k] \notin Offs(a)
         PROVE  Drained(toStation, Offs(a), p, p)'
    <2>1. ASSUME NEW k \in 1..Len(Waiting), k # it
          PROVE  Waiting[k] \notin Offs(a)
      <3>1. /\ Len(Waiting') = Len(Waiting) - 1
            /\ \A j \in 1..(Len(Waiting) - 1) :
                 Waiting'[j] = IF j < it THEN Waiting[j] ELSE Waiting[j + 1]
        BY <1>1, <1>2, <1>5, EraseProperties
      <3>2. CASE k < it
        BY <1>1, <1>2, <1>10, <3>1, <3>2
      <3>3. CASE k > it
        <4>1. k - 1 \in 1..Len(Waiting') /\ (k - 1) + 1 = k
              /\ Waiting'[k - 1] = Waiting[(k - 1) + 1]
          BY <1>1, <1>2, <3>1, <3>3
        <4> QED
          BY <1>10, <4>1
      <3> QED
        BY <1>1, <1>2, <2>1, <3>2, <3>3
    <2>2. CASE message \in Offs(a)
      <3>1. message.position = p
        BY <1>1, <1>2, <1>3, <2>1, <2>2 DEF Goes, EndsAt, Drained
      <3> QED
        BY <1>1, <1>3, <1>4, <1>6, <2>2, <3>1, DrainedAppend
    <2>3. CASE message \notin Offs(a)
      <3>1. \A k \in 1..Len(Waiting) : Waiting[k] \notin Offs(a)
        BY <1>3, <2>1, <2>3
      <3>2. Drained(toStation, Offs(a), p, p)
        BY <3>1 DEF Goes, EndsAt
      <3> QED
        BY <1>1, <1>3, <1>4, <1>6, <2>3, <3>2, DrainedAppend
    <2> QED
      BY <2>2, <2>3
  <1> QED
    BY <1>6, <1>7, <1>9, <1>10 DEF Goes, EndsAt

\* Whatever the queue says in the end is kept by it once it has been worked off.
LEMMA DrainedWeaken ==
  ASSUME NEW queue, NEW S, NEW x, NEW p, Drained(queue, S, x, p)
  PROVE  Drained(queue, S, p, p)
  BY DEF Drained

\* A command sets its turnout, and its pulse ends there; it leaves the others alone.
LEMMA GoesAfterCommand ==
  ASSUME TypeOK, TypeOK', CommandAccepted, intact', NEW a, NEW p,
         \/ Head(pendingCommands).address = a /\ Head(pendingCommands).position = p
         \/ Head(pendingCommands).address # a /\ Goes(a, p)
  PROVE  Goes(a, p)'
  <1> DEFINE command == Head(pendingCommands)
             onMessage == SwReq(command.address, command.position, TRUE)
             offMessage == SwReq(command.address, command.position, FALSE)
             offEntry == [message |-> offMessage, dueAt |-> now + kOffPulseDelayMs]
  <1>1. /\ command \in TurnoutCommands /\ command.address \in Addresses
        /\ WriteLine(onMessage)
        /\ pending' = Append(pending, offEntry)
        /\ layout' = layout
    <2>1. pendingCommands # <<>> /\ pendingCommands \in Seq(TurnoutCommands)
      BY DEF CommandAccepted, TypeOK
    <2>2. command \in TurnoutCommands
      BY <2>1
    <2> QED
      BY <2>2 DEF CommandAccepted, railway
  <1>2. onMessage \in Outgoing /\ offMessage \in Outgoing
    BY <1>1, CommandAssumption DEF SwReq, Outgoing
  <1>3. toStation' = Append(toStation, onMessage) /\ toStation \in Seq(Outgoing)
    BY <1>1, <1>2, WriteLineEffect DEF TypeOK
  <1>4. Waiting' = Append(Waiting, offMessage)
    <2>1. offEntry.message = offMessage
      OBVIOUS
    <2> HIDE DEF offEntry, offMessage, onMessage
    <2>2. pending \in Seq(Entry) /\ pending' = Append(pending, offEntry)
      BY <1>1 DEF TypeOK
    <2>3. /\ Len(pending') = Len(pending) + 1
          /\ pending'[Len(pending) + 1] = offEntry
          /\ \A k \in 1..Len(pending) : pending'[k] = pending[k]
      BY <2>2
    <2> QED
      BY <2>1, <2>2, <2>3, WaitingTypes DEF Waiting, Messages
  <1>5. Ons(a)' = Ons(a) /\ Offs(a)' = Offs(a)
    BY DEF Ons, Offs, IsOffFor
  <1>6. /\ onMessage \notin Offs(a) /\ offMessage \notin Ons(a)
        /\ onMessage.position = command.position
        /\ offMessage.position = command.position
        /\ onMessage \in Ons(a) <=> command.address = a
        /\ offMessage \in Offs(a) <=> command.address = a
    BY <1>2 DEF Ons, Offs, IsOffFor, SwReq
  <1> HIDE DEF onMessage, offMessage
  <1>7. Aims(a, p)'
    <2>1. Drained(Append(toStation, onMessage), Ons(a), layout[a], p)
      <3>1. \/ Drained(toStation, Ons(a), layout[a], p) /\ onMessage \notin Ons(a)
            \/ onMessage \in Ons(a) /\ onMessage.position = p
        BY <1>6 DEF Goes, Aims
      <3> QED
        BY <1>2, <1>3, <3>1, DrainedAppend
    <2> QED
      BY <1>1, <1>3, <1>5, <2>1 DEF Aims
  <1>8. Drained(Waiting, Offs(a), p, p)'
    <2>1. \/ Drained(Waiting, Offs(a), p, p) /\ offMessage \notin Offs(a)
          \/ offMessage \in Offs(a) /\ offMessage.position = p
      BY <1>6 DEF Goes, EndsAt
    <2>2. Drained(Append(Waiting, offMessage), Offs(a), p, p)
      BY <1>2, <2>1, WaitingTypes, DrainedAppend
    <2> QED
      BY <1>4, <1>5, <2>2
  <1>9. ASSUME \A k \in 1..Len(Waiting') : Waiting'[k] \notin Offs(a)
        PROVE  Drained(toStation, Offs(a), p, p)'
    <2>1. /\ Len(Waiting') = Len(Waiting) + 1
          /\ Waiting'[Len(Waiting) + 1] = offMessage
          /\ \A k \in 1..Len(Waiting) : Waiting'[k] = Waiting[k]
          /\ Len(Waiting) \in Nat
      BY <1>2, <1>4, WaitingTypes
    <2>2. offMessage \notin Offs(a)
      BY <1>9, <2>1
    <2>3. \A k \in 1..Len(Waiting) : Waiting[k] \notin Offs(a)
      BY <1>9, <2>1
    <2>4. Drained(toStation, Offs(a), p, p)
      BY <1>6, <2>2, <2>3 DEF Goes, EndsAt
    <2> QED
      BY <1>2, <1>3, <1>5, <1>6, <2>4, DrainedAppend
  <1> QED
    BY <1>5, <1>7, <1>8, <1>9 DEF Goes, EndsAt

\* The station takes the messages in the order in which they were sent.
LEMMA GoesAfterStation ==
  ASSUME TypeOK, TypeOK', UNCHANGED pending,
         toStation # <<>>, toStation' = Tail(toStation), NEW a, NEW p, Goes(a, p),
         layout'[a] = IF Head(toStation) \in Ons(a)
                      THEN Head(toStation).position ELSE layout[a]
  PROVE  Goes(a, p)'
  <1>1. Ons(a)' = Ons(a) /\ Offs(a)' = Offs(a) /\ Waiting' = Waiting
    BY DEF Ons, Offs, IsOffFor, Waiting, Messages
  <1>2. toStation \in Seq(Outgoing)
    BY DEF TypeOK
  <1>3. Aims(a, p)'
    <2>1. Drained(Tail(toStation), Ons(a), layout'[a], p)
      BY <1>2, DrainedTail DEF Goes, Aims
    <2> QED
      BY <1>1, <2>1 DEF Aims
  <1>4. ASSUME Drained(toStation, Offs(a), p, p)
        PROVE  Drained(toStation, Offs(a), p, p)'
    <2> DEFINE y == IF Head(toStation) \in Offs(a) THEN Head(toStation).position ELSE p
    <2>1. Drained(Tail(toStation), Offs(a), y, p)
      BY <1>2, <1>4, DrainedTail
    <2>2. Drained(Tail(toStation), Offs(a), p, p)
      BY <2>1, DrainedWeaken
    <2> QED
      BY <1>1, <2>2
  <1> QED
    BY <1>1, <1>3, <1>4 DEF Goes, EndsAt

\* What update() sends is a message.
LEMMA SentIsOutgoing ==
  ASSUME TypeOK, SchedulerSend
  PROVE  /\ it \in 1..Len(pending) /\ pending' = Erase(pending, it)
         /\ pending[it].message \in Outgoing /\ WriteLine(pending[it].message)
  <1>1. it \in 1..Len(pending) /\ pending \in Seq(Entry)
    BY DEF SchedulerSend, TypeOK
  <1>2. pending[it].message \in Outgoing
    BY <1>1, MessagesProperties
  <1> QED
    BY <1>1, <1>2 DEF SchedulerSend

\* A command carried out is written as a message, and begins a pulse.
LEMMA AcceptedIsOutgoing ==
  ASSUME TypeOK, CommandAccepted, NEW command, command = Head(pendingCommands)
  PROVE  /\ command.address \in Addresses /\ command.position \in Positions
         /\ SwReq(command.address, command.position, TRUE) \in Outgoing
         /\ WriteLine(SwReq(command.address, command.position, TRUE))
         /\ PulseUnderWay(command.address)'
  <1>1. pendingCommands # <<>> /\ pendingCommands \in Seq(TurnoutCommands)
    BY DEF CommandAccepted, TypeOK
  <1>2. command \in TurnoutCommands
    BY <1>1
  <1>3. command.address \in Addresses /\ command.position \in Positions
    BY <1>2, CommandAssumption DEF CommandAccepted
  <1>4. SwReq(command.address, command.position, TRUE) \in Outgoing
    BY <1>3 DEF SwReq, Outgoing
  <1> DEFINE entry == [message |-> SwReq(command.address, command.position, FALSE),
                       dueAt |-> now + kOffPulseDelayMs]
  <1>5. pending' = Append(pending, entry) /\ pending \in Seq(Entry)
    BY DEF CommandAccepted, TypeOK
  <1>6. IsOffFor(entry.message, command.address)
    BY DEF IsOffFor, SwReq
  <1> HIDE DEF entry
  <1>7. Len(pending') \in 1..Len(pending') /\ pending'[Len(pending')] = entry
    BY <1>5
  <1>8. PulseUnderWay(command.address)'
    BY <1>6, <1>7 DEF PulseUnderWay, IsOffFor
  <1> QED
    BY <1>3, <1>4, <1>8 DEF CommandAccepted

\* Once a frame is lost, this is never forgotten.
LEMMA LossIsForGood ==
  ASSUME TypeOK, TypeOK', OnlyOffWaits, [Next]_vars, intact'
  PROVE  intact
  <1> USE DEF device, stream, railway, history, counters
  <1>1. CASE SchedulerSend
    BY <1>1, SentIsOutgoing, WriteLineEffect
  <1>2. CASE CommandAccepted
    BY <1>2, AcceptedIsOutgoing, WriteLineEffect
  <1>3. CASE RouterReconnect \/ LinkBreaks
    BY <1>3, LossEffect
  <1>4. CASE intact' = (intact /\ link) \/ intact' = FALSE \/ UNCHANGED intact
    BY <1>4
  <1>5. \/ SchedulerSend \/ CommandAccepted \/ RouterReconnect \/ LinkBreaks
        \/ intact' = (intact /\ link) \/ intact' = FALSE \/ UNCHANGED intact
    BY DEF Next, Loop, Scheduler, Router, Query, CommandRouter, World, Station,
           MqttReceive, MqttDone, SchedulerBegin, SchedulerSkip, SchedulerDone,
           RouterSwitchMessage, RouterStateAck, RouterDone, QueryReset, QueryWait,
           QueryAllTurnouts, CommandRejected, CommandsDone, Tick, StationAnswers,
           StationSwitches, OtherThrottle, StrayAck, vars
  <1> QED
    BY <1>1, <1>2, <1>3, <1>4, <1>5

\* No message of a command for a is on its way.
NoneFor(a) ==
  /\ \A k \in 1..Len(toStation) : toStation[k] \notin Ons(a) /\ toStation[k] \notin Offs(a)
  /\ \A k \in 1..Len(Waiting) : Waiting[k] \notin Offs(a)

\* No on message is on its way without its off message.
NoOnWithoutOff == intact => \A a \in Addresses : ~PulseUnderWay(a) => NoneFor(a)

\* So it is as long as nothing is lost.
LEMMA PulsesAreWhole ==
  TypeOK /\ ReleaseInv => NoOnWithoutOff
  <1> SUFFICES ASSUME TypeOK, ReleaseInv, intact, NEW a \in Addresses,
                      ~PulseUnderWay(a)
               PROVE  NoneFor(a)
    BY DEF NoOnWithoutOff
  <1>1. /\ toStation \in Seq(Outgoing)
        /\ \A k \in 1..Len(toStation) : toStation[k] \in Outgoing
    BY DEF TypeOK
  <1>2. ASSUME NEW k \in 1..Len(Waiting)
        PROVE  Waiting[k] \notin Offs(a)
    <2>1. Len(Waiting) = Len(pending) /\ Waiting[k] = pending[k].message
      <3>1. pending \in Seq(Entry)
        BY DEF TypeOK
      <3> QED
        BY <3>1, MessagesProperties DEF Waiting
    <2> QED
      BY <2>1 DEF Offs, PulseUnderWay
  <1>3. ASSUME NEW k \in 1..Len(toStation)
        PROVE  toStation[k] \notin Offs(a)
    BY DEF Offs, PulseUnderWay
  <1>4. ASSUME NEW k \in 1..Len(toStation), toStation[k] \in Ons(a)
        PROVE  FALSE
    <2>1. PICK p \in Positions : toStation[k] = SwReq(a, p, TRUE)
      BY <1>1, <1>4 DEF Ons, Outgoing, SwReq
    <2>2. OffComes(a, p, k)
      BY <2>1 DEF ReleaseInv
    <2>3. IsOffFor(SwReq(a, p, FALSE), a)
      BY DEF IsOffFor, SwReq
    <2> QED
      BY <2>2, <2>3 DEF OffComes, PulseUnderWay
  <1> QED
    BY <1>2, <1>3, <1>4 DEF NoneFor

\* The same after a step.
LEMMA PulsesAreWholeNext ==
  (TypeOK /\ ReleaseInv => NoOnWithoutOff)'
  BY PulsesAreWhole, PTL

\* What nobody is about to move is where it goes to, and there alone.
LEMMA GoesIsThere ==
  ASSUME NEW a, NoneFor(a), NEW p, Goes(a, p)
  PROVE  layout[a] = p
  BY DEF NoneFor, Goes, Aims, Drained

\* A turnout goes where it went before, unless a new command, or another
\* throttle, moves it.
LEMMA GoesStep ==
  ASSUME TypeOK, TypeOK', OrderInv, OnlyOffWaits, OffsDueInOrder, [Next]_vars,
         intact', NEW a, NEW p, Goes(a, p),
         CommandAccepted => Head(pendingCommands).address # a,
         OtherThrottle => layout'[a] = layout[a]
  PROVE  Goes(a, p)'
  <1> USE DEF device, stream, railway, history, counters
  <1>w. /\ Len(Waiting) \in Nat /\ Len(Waiting') \in Nat
        /\ Len(Waiting) = Len(pending) /\ Len(Waiting') = Len(pending')
        /\ \A k \in 1..Len(pending) : Waiting[k] = pending[k].message
        /\ \A k \in 1..Len(pending') : Waiting'[k] = pending'[k].message
    BY WaitingTypes
  <1>1. CASE UNCHANGED <<pending, toStation>> /\ layout'[a] = layout[a]
    <2>1. Waiting' = Waiting
      BY <1>1 DEF Waiting, Messages
    <2> QED
      BY <1>1, <1>w, <2>1, GoesUntouched
  <1>2. CASE SchedulerSend
    BY <1>2, GoesAfterSend
  <1>3. CASE CommandAccepted
    BY <1>3, GoesAfterCommand
  <1>4. CASE QueryAllTurnouts
    <2>1. UNCHANGED <<toStation, layout>>
      BY <1>4 DEF QueryAllTurnouts
    <2>2. /\ Len(pending') >= Len(pending)
          /\ \A k \in 1..Len(pending) : k \in 1..Len(pending') /\ pending'[k] = pending[k]
      BY <1>4, <1>w, QueryEffect, QueryTypes
    <2>3. ASSUME NEW k \in 1..Len(pending'), k > Len(pending)
          PROVE  pending'[k].message \notin Offs(a)
      <3>0. k \in (Len(pending) + 1)..Len(pending')
        BY <1>w, <2>3
      <3>1. PICK i \in 1..QuerySize : PendingNumber(k)' = Len(asked) + i
        BY <1>4, <3>0, QueryEffect
      <3>2. pending'[k].message.request # 0
        BY <3>1, QueryTypes, NumberTypes DEF PendingNumber
      <3> QED
        BY <3>2 DEF Offs, IsOffFor, Outgoing
    <2>4. \A k \in 1..Len(Waiting) : Waiting'[k] = Waiting[k]
      BY <1>w, <2>2
    <2>5. \A k \in 1..Len(Waiting') : k > Len(Waiting) => Waiting'[k] \notin Offs(a)
      BY <1>w, <2>3
    <2> QED
      BY <1>w, <2>1, <2>2, <2>4, <2>5, GoesUntouched
  <1>5. CASE RouterReconnect \/ LinkBreaks
    <2>1. UNCHANGED <<pending, layout>>
      BY <1>5 DEF RouterReconnect, LinkBreaks
    <2>2. toStation' = toStation
      BY <1>5, LossEffect
    <2> QED
      BY <1>1, <2>1, <2>2
  <1>6. CASE Station
    <2>1. /\ toStation # <<>> /\ toStation' = Tail(toStation)
          /\ UNCHANGED pending
      BY <1>6 DEF Station, StationAnswers, StationSwitches
    <2>2. Head(toStation) \in Outgoing
      <3>1. toStation \in Seq(Outgoing)
        BY DEF TypeOK
      <3> QED
        BY <2>1, <3>1
    <2>3. layout'[a] = IF Head(toStation) \in Ons(a)
                       THEN Head(toStation).position ELSE layout[a]
      <3>1. CASE StationAnswers
        BY <3>1 DEF StationAnswers, Ons
      <3>2. CASE StationSwitches
        <4>1. layout \in [Addresses -> Positions] /\ Head(toStation).address \in Addresses
          BY <2>2, <3>2 DEF TypeOK, Outgoing
        <4>2. /\ Head(toStation).opcode = "SW_REQ"
              /\ layout' = IF Head(toStation).on
                           THEN [layout EXCEPT ![Head(toStation).address] =
                                               Head(toStation).position]
                           ELSE layout
          BY <3>2 DEF StationSwitches
        <4>3. Head(toStation) \in Ons(a)
                <=> Head(toStation).on /\ Head(toStation).address = a
          BY <2>2, <4>2 DEF Ons
        <4>4. CASE Head(toStation).on
          BY <4>1, <4>2, <4>3, <4>4
        <4>5. CASE ~Head(toStation).on
          BY <4>2, <4>3, <4>5
        <4> QED
          BY <4>4, <4>5
      <3> QED
        BY <1>6, <3>1, <3>2 DEF Station
    <2> QED
      BY <2>1, <2>3, GoesAfterStation
  <1>7. CASE OtherThrottle
    BY <1>1, <1>7 DEF OtherThrottle
  <1>8. \/ SchedulerSend \/ CommandAccepted \/ QueryAllTurnouts \/ RouterReconnect
        \/ LinkBreaks \/ Station \/ OtherThrottle
        \/ UNCHANGED <<pending, toStation, layout>>
    BY DEF Next, Loop, Scheduler, Router, Query, CommandRouter, World,
           MqttReceive, MqttDone, SchedulerBegin, SchedulerSkip, SchedulerDone,
           RouterSwitchMessage, RouterStateAck, RouterDone, QueryReset, QueryWait,
           CommandRejected, CommandsDone, Tick, StrayAck, vars
  <1> QED
    BY <1>1, <1>2, <1>3, <1>4, <1>5, <1>6, <1>7, <1>8

\* What another throttle's step changes for turnout a.
LEMMA ThrottleEffect ==
  ASSUME TypeOK, OtherThrottle, NEW a \in Addresses, layout'[a] # layout[a]
  PROVE  /\ PulseUnderWay(a) => a \in overtaken'
         /\ fromStation' = IF link THEN Append(fromStation, SwReq(a, layout'[a], TRUE))
                           ELSE fromStation
  <1>1. PICK address \in Addresses, position \in Positions :
          /\ layout' = [layout EXCEPT ![address] = position]
          /\ SentToDevice(SwReq(address, position, TRUE))
          /\ overtaken' = IF PulseUnderWay(address)
                          THEN overtaken \cup {address} ELSE overtaken
    BY DEF OtherThrottle
  <1>2. layout \in [Addresses -> Positions]
    BY DEF TypeOK
  <1>3. address = a /\ position = layout'[a]
    BY <1>1, <1>2
  <1> QED
    BY <1>1, <1>3 DEF SentToDevice

\* Nothing is ever taken off overtaken.
LEMMA OvertakenGrows ==
  ASSUME [Next]_vars
  PROVE  overtaken \subseteq overtaken'
  BY DEF Next, Loop, Scheduler, Router, Query, CommandRouter, World, Station,
         MqttReceive, MqttDone, SchedulerBegin, SchedulerSkip, SchedulerSend,
         SchedulerDone, RouterSwitchMessage, RouterStateAck, RouterReconnect,
         RouterDone, QueryReset, QueryWait, QueryAllTurnouts, CommandRejected,
         CommandAccepted, CommandsDone, Tick, LinkBreaks, StationAnswers,
         StationSwitches, OtherThrottle, StrayAck, vars, history

\* PulseInv is preserved by every step.
LEMMA PulseStep ==
  ASSUME TypeOK, TypeOK', OrderInv, OnlyOffWaits, OffsDueInOrder, ReleaseInv,
         PulseInv, [Next]_vars
  PROVE  PulseInv'
  <1> SUFFICES ASSUME intact', NEW a \in Addresses, a \notin overtaken'
               PROVE  \E p \in Positions : Goes(a, p)'
    BY DEF PulseInv, Addresses
  <1>1. intact /\ a \notin overtaken
    BY LossIsForGood, OvertakenGrows
  <1>2. PICK q \in Positions : Goes(a, q)
    BY <1>1 DEF PulseInv
  <1>3. CASE CommandAccepted /\ Head(pendingCommands).address = a
    <2>1. Head(pendingCommands).position \in Positions
      BY <1>3, AcceptedIsOutgoing
    <2> QED
      BY <1>3, <2>1, GoesAfterCommand
  <1>4. CASE OtherThrottle /\ layout'[a] # layout[a]
    <2>1. NoneFor(a)
      BY <1>1, <1>4, ThrottleEffect, PulsesAreWhole DEF NoOnWithoutOff
    <2>2. UNCHANGED <<pending, toStation>>
      BY <1>4 DEF OtherThrottle, device
    <2>3. Ons(a)' = Ons(a) /\ Offs(a)' = Offs(a) /\ Waiting' = Waiting
      BY <2>2 DEF Ons, Offs, IsOffFor, Waiting, Messages
    <2>4. PICK p \in Positions : p = layout'[a]
      BY DEF TypeOK
    <2>5. Goes(a, p)'
      <3>1. Drained(toStation', Ons(a)', layout'[a], p)
        BY <2>1, <2>2, <2>3, <2>4 DEF NoneFor, Drained
      <3>2. /\ Drained(Waiting', Offs(a)', p, p)
            /\ Drained(toStation', Offs(a)', p, p)
        BY <2>1, <2>2, <2>3 DEF NoneFor, Drained
      <3> QED
        BY <3>1, <3>2 DEF Goes, Aims, EndsAt, Drained
    <2> QED
      BY <2>4, <2>5
  <1>5. CASE /\ CommandAccepted => Head(pendingCommands).address # a
             /\ OtherThrottle => layout'[a] = layout[a]
    BY <1>2, <1>5, GoesStep
  <1> QED
    BY <1>3, <1>4, <1>5

\* One of the messages of S is scheduled, or on its way to the station.
UnderWay(S) ==
  \/ \E k \in 1..Len(pending) : pending[k].message \in S
  \/ \E k \in 1..Len(toStation) : toStation[k] \in S

\* The requests for the state of turnout a.
Asks(a) == {m \in Outgoing : m.opcode = "SW_STATE" /\ m.address = a}

\* A request for its state is on its way.
RequestUnderWay(a) == UnderWay(Asks(a))

\* A pulse is under way if its off message is, before a step and after it.
LEMMA PulseIsUnderWay ==
  ASSUME TypeOK, TypeOK', NEW a
  PROVE  /\ PulseUnderWay(a) <=> UnderWay(Offs(a))
         /\ PulseUnderWay(a)' <=> UnderWay(Offs(a))'
         /\ Offs(a)' = Offs(a)
  <1>1. /\ pending \in Seq(Entry) /\ pending' \in Seq(Entry)
        /\ toStation \in Seq(Outgoing) /\ toStation' \in Seq(Outgoing)
    BY DEF TypeOK
  <1>2. /\ \A k \in 1..Len(pending) : pending[k].message \in Outgoing
        /\ \A k \in 1..Len(pending') : pending'[k].message \in Outgoing
    BY <1>1, MessagesProperties
  <1>3. /\ \A k \in 1..Len(toStation) : toStation[k] \in Outgoing
        /\ \A k \in 1..Len(toStation') : toStation'[k] \in Outgoing
    BY <1>1
  <1>4. PulseUnderWay(a) <=> UnderWay(Offs(a))
    BY <1>2, <1>3 DEF PulseUnderWay, UnderWay, Offs
  <1>5. PulseUnderWay(a)' <=> UnderWay(Offs(a))'
    BY <1>2, <1>3 DEF PulseUnderWay, UnderWay, Offs, IsOffFor
  <1> QED
    BY <1>4, <1>5 DEF Offs, IsOffFor

\* As long as nothing is lost, only the station takes a message off its way.
LEMMA OnlyTheStationTakes ==
  ASSUME TypeOK, TypeOK', [Next]_vars, intact', NEW S, UnderWay(S), ~UnderWay(S)'
  PROVE  Station /\ toStation # <<>> /\ Head(toStation) \in S
  <1> USE DEF device, stream, railway, history, counters
  <1>t. /\ pending \in Seq(Entry) /\ toStation \in Seq(Outgoing)
        /\ Len(pending) \in Nat /\ Len(toStation) \in Nat
    BY NumberTypes DEF TypeOK
  <1>1. ASSUME \A k \in 1..Len(pending) :
                 \/ \E j \in 1..Len(pending') : pending'[j].message = pending[k].message
                 \/ \E j \in 1..Len(toStation') : toStation'[j] = pending[k].message,
               \A k \in 1..Len(toStation) :
                 \E j \in 1..Len(toStation') : toStation'[j] = toStation[k]
        PROVE  FALSE
    <2>1. CASE \E k \in 1..Len(pending) : pending[k].message \in S
      <3>1. PICK k \in 1..Len(pending) : pending[k].message \in S
        BY <2>1
      <3>2. CASE \E j \in 1..Len(pending') : pending'[j].message = pending[k].message
        BY <3>1, <3>2 DEF UnderWay
      <3>3. CASE \E j \in 1..Len(toStation') : toStation'[j] = pending[k].message
        BY <3>1, <3>3 DEF UnderWay
      <3> QED
        BY <1>1, <3>2, <3>3
    <2>2. CASE \E k \in 1..Len(toStation) : toStation[k] \in S
      BY <1>1, <2>2 DEF UnderWay
    <2> QED
      BY <2>1, <2>2 DEF UnderWay
  <1>2. CASE SchedulerSend
    <2>1. /\ it \in 1..Len(pending) /\ pending' = Erase(pending, it)
          /\ WriteLine(pending[it].message)
      BY <1>2, SentIsOutgoing
    <2>2. pending[it].message \in Outgoing
      BY <1>2, SentIsOutgoing
    <2>3. toStation' = Append(toStation, pending[it].message)
      BY <2>1, <2>2, WriteLineEffect
    <2>4. /\ \A k \in 1..Len(toStation) :
               k \in 1..Len(toStation') /\ toStation'[k] = toStation[k]
          /\ Len(toStation) + 1 \in 1..Len(toStation')
          /\ toStation'[Len(toStation) + 1] = pending[it].message
      BY <1>t, <2>2, <2>3
    <2>5. /\ Len(pending') = Len(pending) - 1
          /\ \A k \in 1..(Len(pending) - 1) :
               pending'[k] = IF k < it THEN pending[k] ELSE pending[k + 1]
      BY <1>t, <2>1, EraseProperties
    <2>6. ASSUME NEW k \in 1..Len(pending), k # it
          PROVE  \E j \in 1..Len(pending') : pending'[j].message = pending[k].message
      <3>1. CASE k < it
        <4>1. k \in 1..(Len(pending) - 1)
          BY <1>t, <2>1, <3>1
        <4>2. pending'[k] = pending[k] /\ k \in 1..Len(pending')
          BY <2>5, <3>1, <4>1
        <4> QED
          BY <4>2
      <3>2. CASE k > it
        <4>1. k - 1 \in 1..(Len(pending) - 1) /\ ~(k - 1 < it) /\ (k - 1) + 1 = k
          BY <1>t, <2>1, <3>2
        <4>2. pending'[k - 1] = pending[k] /\ k - 1 \in 1..Len(pending')
          BY <2>5, <4>1
        <4> QED
          BY <4>2
      <3> QED
        BY <1>t, <2>1, <2>6, <3>1, <3>2
    <2>7. \A k \in 1..Len(pending) :
            \/ \E j \in 1..Len(pending') : pending'[j].message = pending[k].message
            \/ \E j \in 1..Len(toStation') : toStation'[j] = pending[k].message
      BY <2>4, <2>6
    <2>8. \A k \in 1..Len(toStation) :
            \E j \in 1..Len(toStation') : toStation'[j] = toStation[k]
      BY <2>4
    <2> QED
      BY <1>1, <2>7, <2>8
  <1>3. CASE CommandAccepted
    <2> DEFINE command == Head(pendingCommands)
    <2>3. toStation' = Append(toStation, SwReq(command.address, command.position, TRUE))
      BY <1>3, AcceptedIsOutgoing, WriteLineEffect
    <2>4. PICK entry : pending' = Append(pending, entry)
      BY <1>3 DEF CommandAccepted
    <2>5. \A k \in 1..Len(toStation) :
            k \in 1..Len(toStation') /\ toStation'[k] = toStation[k]
      BY <1>t, <2>3
    <2>6. \A k \in 1..Len(pending) : k \in 1..Len(pending') /\ pending'[k] = pending[k]
      BY <1>t, <2>4
    <2>7. \A k \in 1..Len(toStation) :
            \E j \in 1..Len(toStation') : toStation'[j] = toStation[k]
      BY <2>5
    <2> QED
      BY <1>1, <2>6, <2>7
  <1>4. CASE QueryAllTurnouts
    <2>1. UNCHANGED toStation
      BY <1>4 DEF QueryAllTurnouts
    <2>2. \A k \in 1..Len(pending) : k \in 1..Len(pending') /\ pending'[k] = pending[k]
      BY <1>4, <1>t, QueryEffect, QueryTypes
    <2> QED
      BY <1>1, <2>1, <2>2
  <1>5. CASE RouterReconnect \/ LinkBreaks
    <2>1. UNCHANGED pending /\ toStation' = toStation
      BY <1>5, LossEffect DEF RouterReconnect, LinkBreaks
    <2> QED
      BY <1>1, <2>1
  <1>6. CASE Station
    <2>1. toStation # <<>> /\ toStation' = Tail(toStation) /\ UNCHANGED pending
      BY <1>6 DEF Station, StationAnswers, StationSwitches
    <2>2. SUFFICES ASSUME Head(toStation) \notin S
                   PROVE  FALSE
      BY <1>6, <2>1
    <2>3. ASSUME NEW k \in 1..Len(toStation), toStation[k] \in S
          PROVE  FALSE
      <3>1. Head(toStation) = toStation[1]
        BY <1>t, <2>1
      <3>2. /\ k - 1 \in 1..Len(toStation') /\ toStation'[k - 1] = toStation[k]
        BY <1>t, <2>1, <2>2, <2>3, <3>1
      <3> QED
        BY <2>3, <3>2 DEF UnderWay
    <2>4. PICK k \in 1..Len(pending) : pending[k].message \in S
      BY <2>3 DEF UnderWay
    <2> QED
      BY <2>1, <2>4 DEF UnderWay
  <1>7. CASE UNCHANGED <<pending, toStation>>
    BY <1>7 DEF UnderWay
  <1>8. \/ SchedulerSend \/ CommandAccepted \/ QueryAllTurnouts \/ RouterReconnect
        \/ LinkBreaks \/ Station \/ UNCHANGED <<pending, toStation>>
    BY DEF Next, Loop, Scheduler, Router, Query, CommandRouter, World,
           MqttReceive, MqttDone, SchedulerBegin, SchedulerSkip, SchedulerDone,
           RouterSwitchMessage, RouterStateAck, RouterDone, QueryReset, QueryWait,
           CommandRejected, CommandsDone, Tick, OtherThrottle, StrayAck, vars
  <1> QED
    BY <1>2, <1>3, <1>4, <1>5, <1>6, <1>7, <1>8

\* What the device has received about a turnout stays what it is when more is
\* asked for.
LEMMA HearsKept ==
  ASSUME TypeOK, OrderInv, NEW a \in Addresses, NEW p, Hears(a, p),
         UNCHANGED <<fromStation, lastKnownPosition>>,
         \A n \in 1..Len(asked) : asked'[n] = asked[n]
  PROVE  Hears(a, p)'
  <1>1. ASSUME NEW k \in 1..Len(fromStation)
        PROVE  fromStation[k] \in News(a)' <=> fromStation[k] \in News(a)
    <2>1. fromStation[k] \in Incoming
      BY DEF TypeOK
    <2>2. /\ AckNumber(k) <= Len(asked)
          /\ AckNumber(k) \in Nat /\ Len(asked) \in Nat
      BY NumberTypes DEF OrderInv, RequestsNameTheirAddress
    <2>3. AckNumber(k) # 0 => asked'[AckNumber(k)] = asked[AckNumber(k)]
      BY <2>2
    <2> QED
      BY <2>1, <2>3 DEF News, AckNumber, Incoming
  <1>2. Drained(fromStation, News(a)', lastKnownPosition[a], p)
    BY <1>1, DrainedSame DEF Hears
  <1> QED
    BY <1>2 DEF Hears

\* Reading a message heeds it.
LEMMA HearsAfterRead ==
  ASSUME TypeOK, OrderInv, CreditInv, intact, RouterSwitchMessage \/ RouterStateAck,
         NEW a \in Addresses, NEW p, Hears(a, p)
  PROVE  Hears(a, p)'
  <1> DEFINE message == Head(fromStation)
  <1>1. /\ fromStation # <<>> /\ fromStation \in Seq(Incoming)
        /\ fromStation' = Tail(fromStation)
        /\ UNCHANGED asked
    BY DEF TypeOK, RouterSwitchMessage, RouterStateAck, history
  <1>2. message \in Incoming /\ message = fromStation[1]
    BY <1>1
  <1>3. News(a)' = News(a)
    BY <1>1 DEF News
  <1>4. lastKnownPosition'[a] = IF message \in News(a)
                                THEN message.position ELSE lastKnownPosition[a]
    <2>l. lastKnownPosition \in [Addresses -> Positions \cup {Unknown}]
      BY DEF TypeOK
    <2>1. CASE RouterSwitchMessage
      <3>1. /\ message.opcode = "SW_REQ"
            /\ lastKnownPosition' =
                 [lastKnownPosition EXCEPT ![message.address] = message.position]
        BY <2>1 DEF RouterSwitchMessage, EmitIfChanged
      <3>2. message.address \in Addresses
        BY <1>2, <3>1 DEF Incoming
      <3>3. message \in News(a) <=> message.address = a
        BY <1>2, <3>1 DEF News
      <3> HIDE DEF message
      <3> QED
        BY <2>l, <3>1, <3>2, <3>3
    <2>2. CASE RouterStateAck
      <3>1. fromStation[1].opcode = "LONG_ACK"
        BY <1>2, <2>2 DEF RouterStateAck
      <3>2. /\ AckNumber(1) = claimed + 1
            /\ claimed + 1 \in 1..Len(asked)
            /\ pendingAddresses # <<>>
            /\ Head(pendingAddresses) = asked[claimed + 1]
        BY <1>1, <3>1, FirstAckIsNext
      <3>3. Head(pendingAddresses) \in Addresses
        <4>1. pendingAddresses \in Seq(Addresses)
          BY DEF TypeOK
        <4> QED
          BY <3>2, <4>1
      <3>4. lastKnownPosition' =
              [lastKnownPosition EXCEPT ![Head(pendingAddresses)] = message.position]
        BY <2>2, <3>2 DEF RouterStateAck, EmitIfChanged
      <3>5. message.request = claimed + 1 /\ claimed + 1 # 0
        BY <1>2, <3>2 DEF AckNumber
      <3>6. message \in News(a) <=> Head(pendingAddresses) = a
        BY <1>2, <3>1, <3>2, <3>5 DEF News
      <3> HIDE DEF message
      <3> QED
        BY <2>l, <3>3, <3>4, <3>6
    <2> QED
      BY <2>1, <2>2
  <1>5. Drained(Tail(fromStation), News(a), lastKnownPosition'[a], p)
    <2>1. Drained(fromStation, News(a), lastKnownPosition[a], p)
      BY DEF Hears
    <2> QED
      BY <1>1, <1>4, <2>1, DrainedTail
  <1> QED
    BY <1>1, <1>3, <1>5 DEF Hears

\* A message the device receives tells it where the turnout goes, or is not
\* about this turnout.
LEMMA HearsAfterNews ==
  ASSUME TypeOK, NEW a, NEW p, NEW m \in Incoming,
         fromStation' = Append(fromStation, m),
         UNCHANGED <<asked, lastKnownPosition>>,
         \/ Hears(a, p) /\ m \notin News(a)
         \/ m \in News(a) /\ m.position = p
  PROVE  Hears(a, p)'
  <1>1. News(a)' = News(a)
    BY DEF News
  <1>2. fromStation \in Seq(Incoming)
    BY DEF TypeOK
  <1>3. Drained(Append(fromStation, m), News(a), lastKnownPosition[a], p)
    BY <1>2, DrainedAppend DEF Hears
  <1> QED
    BY <1>1, <1>3 DEF Hears

\* The station answers, or echoes, what is under way for a: if that is the last
\* of it, the device hears where the turnout has gone to.
LEMMA HearsAfterStation ==
  ASSUME TypeOK, TypeOK', OrderInv, Station, intact', NEW a \in Addresses,
         NEW p, Goes(a, p), Goes(a, p)', NoneFor(a)',
         \/ Hears(a, p)
         \/ Head(toStation) \in Offs(a)
         \/ Head(toStation) \in Asks(a)
  PROVE  Hears(a, p)'
  <1> DEFINE message == Head(toStation)
  <1>1. /\ toStation # <<>> /\ toStation \in Seq(Outgoing)
        /\ toStation' = Tail(toStation)
        /\ UNCHANGED <<pending, asked, lastKnownPosition>>
        /\ link
    BY DEF TypeOK, Station, StationAnswers, StationSwitches, device
  <1>2. /\ message \in Outgoing /\ message = toStation[1] /\ 1 \in 1..Len(toStation)
    BY <1>1
  <1>3. layout'[a] = p
    BY DEF NoneFor, Goes, Aims, Drained
  <1>4. CASE StationAnswers
    <2> DEFINE ack == LongAck(layout[message.address], message.request)
    <2>1. /\ message.opcode = "SW_STATE"
          /\ fromStation' = Append(fromStation, ack)
          /\ layout' = layout
      BY <1>1, <1>4 DEF StationAnswers, SentToDevice, railway
    <2>2. /\ message.address \in Addresses /\ message.request \in Nat \ {0}
      BY <1>2, <2>1 DEF Outgoing
    <2>3. ack \in Incoming
      BY <2>2 DEF TypeOK, LongAck, Incoming
    <2>4. asked[message.request] = message.address
      BY <1>2, <2>2 DEF OrderInv, RequestsNameTheirAddress, SentNumber
    <2>5. ack \in News(a) <=> message.address = a
      BY <2>2, <2>3, <2>4 DEF News, LongAck
    <2>6. CASE message.address = a
      <3>1. ack.position = p
        BY <1>3, <2>1, <2>6 DEF LongAck
      <3> HIDE DEF ack
      <3> QED
        BY <1>1, <2>1, <2>3, <2>5, <2>6, <3>1, HearsAfterNews
    <2>7. CASE message.address # a
      <3>1. Hears(a, p)
        BY <2>1, <2>7 DEF Offs, IsOffFor, Asks
      <3> HIDE DEF ack
      <3> QED
        BY <1>1, <2>1, <2>3, <2>5, <2>7, <3>1, HearsAfterNews
    <2> QED
      BY <2>6, <2>7
  <1>5. CASE StationSwitches
    <2>1. /\ message.opcode = "SW_REQ"
          /\ fromStation' = Append(fromStation, message)
          /\ layout' = IF message.on
                       THEN [layout EXCEPT ![message.address] = message.position]
                       ELSE layout
      BY <1>1, <1>5 DEF StationSwitches, SentToDevice
    <2>2. message \in Incoming /\ message.on \in BOOLEAN /\ message.address \in Addresses
      BY <1>2, <2>1 DEF Outgoing, Incoming
    <2>3. message \in News(a) <=> message.address = a
      BY <2>1, <2>2 DEF News
    <2>4. ASSUME message.address = a, message.on
          PROVE  message.position = p
      <3>1. layout \in [Addresses -> Positions]
        BY DEF TypeOK
      <3> HIDE DEF message
      <3> QED
        BY <1>3, <2>1, <2>2, <2>4, <3>1
    <2>5. ASSUME message.address = a, ~message.on
          PROVE  message.position = p
      <3>1. message \in Offs(a)
        BY <1>2, <2>1, <2>5 DEF Offs, IsOffFor
      <3>2. Offs(a)' = Offs(a) /\ Waiting' = Waiting
        BY <1>1 DEF Offs, IsOffFor, Waiting, Messages
      <3>3. Drained(toStation, Offs(a), p, p)
        BY <3>2 DEF NoneFor, Goes, EndsAt
      <3>4. ASSUME NEW j \in 1..Len(toStation), j > 1
            PROVE  toStation[j] \notin Offs(a)
        <4>1. j - 1 \in 1..Len(toStation') /\ toStation'[j - 1] = toStation[j]
          BY <1>1, <3>4
        <4> QED
          BY <3>2, <4>1 DEF NoneFor
      <3> QED
        BY <1>2, <3>1, <3>3, <3>4 DEF Drained
    <2>6. CASE message.address = a
      <3> HIDE DEF message
      <3> QED
        BY <1>1, <2>1, <2>2, <2>3, <2>4, <2>5, <2>6, HearsAfterNews
    <2>7. CASE message.address # a
      <3>1. Hears(a, p)
        BY <2>7 DEF Offs, IsOffFor, Asks
      <3> HIDE DEF message
      <3> QED
        BY <1>1, <2>1, <2>2, <2>3, <2>7, <3>1, HearsAfterNews
    <2> QED
      BY <2>6, <2>7
  <1> QED
    BY <1>4, <1>5 DEF Station

\* What the device will take a turnout to be in the end follows every step, once
\* the last pulse for it is over.
LEMMA HearsStep ==
  ASSUME TypeOK, TypeOK', OrderInv, CreditInv, OnlyOffWaits, NoOnWithoutOff',
         [Next]_vars, intact', NEW a \in Addresses, NEW p, Goes(a, p)',
         ~PulseUnderWay(a)', Station => Goes(a, p), OtherThrottle => link,
         \/ PulseUnderWay(a)
         \/ Hears(a, p)
         \/ Station /\ Head(toStation) \in Asks(a)
         \/ OtherThrottle /\ layout'[a] # layout[a]
  PROVE  Hears(a, p)'
  <1> USE DEF device, stream, railway, history, counters
  <1>1. NoneFor(a)'
    BY DEF NoOnWithoutOff, Addresses
  <1>2. intact
    BY LossIsForGood
  <1>3. PulseUnderWay(a) => Station /\ Head(toStation) \in Offs(a)
    BY PulseIsUnderWay, OnlyTheStationTakes
  <1>4. layout'[a] = p
    BY <1>1 DEF NoneFor, Goes, Aims, Drained
  <1>5. CASE Station
    <2>1. ~OtherThrottle \/ layout'[a] = layout[a] \/ Hears(a, p)
            \/ Head(toStation) \in Asks(a)
      <3>1. Station => UNCHANGED throttled
        BY DEF Station, StationAnswers, StationSwitches
      <3>2. OtherThrottle => throttled' = throttled + 1 /\ throttled \in Nat
        BY DEF OtherThrottle, TypeOK
      <3> QED
        BY <1>5, <3>1, <3>2
    <2> QED
      BY <1>1, <1>3, <1>5, <2>1, HearsAfterStation
  <1>6. CASE OtherThrottle /\ ~Station
    <2>1. PICK address \in Addresses, position \in Positions :
            /\ layout' = [layout EXCEPT ![address] = position]
            /\ SentToDevice(SwReq(address, position, TRUE))
      BY <1>6 DEF OtherThrottle
    <2>2. fromStation' = Append(fromStation, SwReq(address, position, TRUE))
      BY <1>6, <2>1 DEF SentToDevice
    <2>3. /\ SwReq(address, position, TRUE) \in Incoming
          /\ SwReq(address, position, TRUE) \in News(a) <=> address = a
          /\ SwReq(address, position, TRUE).position = position
      BY DEF SwReq, Incoming, News
    <2>4. layout \in [Addresses -> Positions]
      BY DEF TypeOK
    <2>5. UNCHANGED <<asked, lastKnownPosition>>
      BY <1>6 DEF OtherThrottle
    <2>6. CASE address = a
      <3>1. position = p
        BY <1>4, <2>1, <2>4, <2>6
      <3> QED
        BY <2>2, <2>3, <2>5, <2>6, <3>1, HearsAfterNews
    <2>7. CASE address # a
      <3>1. layout'[a] = layout[a]
        BY <2>1, <2>4, <2>7
      <3>2. Hears(a, p)
        BY <1>3, <1>6, <3>1
      <3> QED
        BY <2>2, <2>3, <2>5, <2>7, <3>2, HearsAfterNews
    <2> QED
      BY <2>6, <2>7
  <1>7. CASE ~Station /\ ~OtherThrottle
    <2>1. Hears(a, p)
      BY <1>3, <1>7
    <2>2. CASE RouterSwitchMessage \/ RouterStateAck
      BY <1>2, <2>1, <2>2, HearsAfterRead
    <2>3. CASE /\ UNCHANGED <<fromStation, lastKnownPosition>>
               /\ \A n \in 1..Len(asked) : asked'[n] = asked[n]
      BY <2>1, <2>3, HearsKept
    <2>4. CASE QueryAllTurnouts
      <3>1. UNCHANGED <<fromStation, lastKnownPosition>>
        BY <2>4 DEF QueryAllTurnouts
      <3> QED
        BY <2>3, <2>4, <3>1, QueryEffect
    <2>5. CASE SchedulerSend
      <3>1. UNCHANGED <<asked, lastKnownPosition>>
        BY <2>5 DEF SchedulerSend
      <3>2. fromStation' = fromStation
        BY <2>5, SentIsOutgoing, WriteLineEffect
      <3> QED
        BY <2>3, <3>1, <3>2
    <2>6. CASE CommandAccepted
      <3>1. UNCHANGED <<asked, lastKnownPosition>>
        BY <2>6 DEF CommandAccepted
      <3>2. fromStation' = fromStation
        BY <2>6, AcceptedIsOutgoing, WriteLineEffect
      <3> QED
        BY <2>3, <3>1, <3>2
    <2>7. CASE RouterReconnect \/ LinkBreaks
      <3>1. UNCHANGED <<asked, lastKnownPosition>>
        BY <2>7 DEF RouterReconnect, LinkBreaks
      <3>2. fromStation' = fromStation
        BY <2>7, LossEffect
      <3> QED
        BY <2>3, <3>1, <3>2
    <2>8. ~StrayAck
      BY DEF StrayAck
    <2>9. \/ RouterSwitchMessage \/ RouterStateAck \/ QueryAllTurnouts
          \/ SchedulerSend \/ CommandAccepted \/ RouterReconnect \/ LinkBreaks
          \/ UNCHANGED <<fromStation, lastKnownPosition, asked>>
      BY <1>7, <2>8
      DEF Next, Loop, Scheduler, Router, Query, CommandRouter, World,
          MqttReceive, MqttDone, SchedulerBegin, SchedulerSkip, SchedulerDone,
          RouterDone, QueryReset, QueryWait, CommandRejected, CommandsDone, Tick, vars
    <2> QED
      BY <2>2, <2>3, <2>4, <2>5, <2>6, <2>7, <2>9
  <1> QED
    BY <1>5, <1>6, <1>7

\* A queried connection was queried before, unless the step is the query.
LEMMA QueriedEarlier ==
  ASSUME TypeOK, [Next]_vars, link', linkQueried'
  PROVE  link /\ (linkQueried \/ QueryAllTurnouts)
  <1> USE DEF device, stream, railway, history, counters
  <1>1. CASE SchedulerSend \/ CommandAccepted
    <2>1. PICK message : WriteLine(message)
      BY <1>1 DEF SchedulerSend, CommandAccepted
    <2>2. UNCHANGED <<link, linkQueried>> \/ linkQueried' = FALSE
      BY <2>1 DEF WriteLine, NoReconnect, Reconnect
    <2> QED
      BY <2>2
  <1>2. CASE RouterReconnect
    BY <1>2 DEF RouterReconnect, Reconnect
  <1>3. CASE QueryAllTurnouts
    BY <1>3 DEF QueryAllTurnouts, ReadConnected
  <1>4. CASE LinkBreaks
    BY <1>4 DEF LinkBreaks
  <1>5. \/ SchedulerSend \/ CommandAccepted \/ RouterReconnect \/ QueryAllTurnouts
        \/ LinkBreaks \/ UNCHANGED <<link, linkQueried>>
    BY DEF Next, Loop, Scheduler, Router, Query, CommandRouter, World, Station,
           MqttReceive, MqttDone, SchedulerBegin, SchedulerSkip, SchedulerDone,
           RouterSwitchMessage, RouterStateAck, RouterDone, QueryReset, QueryWait,
           CommandRejected, CommandsDone, Tick, StationAnswers,
           StationSwitches, OtherThrottle, StrayAck, vars
  <1> QED
    BY <1>1, <1>2, <1>3, <1>4, <1>5

\* A query is about all the turnouts of its range.
LEMMA QueryAsksAll ==
  ASSUME TypeOK, TypeOK', QueryAllTurnouts,
         NEW a \in kMinTurnoutAddress..kMaxTurnoutAddress
  PROVE  RequestUnderWay(a)'
  <1> DEFINE i == a - kMinTurnoutAddress + 1
             k == Len(pending) + i
  <1>1. /\ i \in 1..QuerySize /\ QuerySize \in Nat
        /\ kMinTurnoutAddress + i - 1 = a
    BY AddressAssumption DEF QuerySize
  <1>2. /\ Len(pending) \in Nat /\ Len(QueryBatch) = QuerySize
        /\ pending \in Seq(Entry) /\ QueryBatch \in Seq(Entry)
    BY QueryTypes, NumberTypes DEF TypeOK
  <1>3. pending' = pending \o QueryBatch
    BY DEF QueryAllTurnouts
  <1>4. k \in 1..Len(pending') /\ pending'[k] = QueryBatch[i]
    BY <1>1, <1>2, <1>3, ConcatSplit
  <1>5. pending'[k].message = SwState(a, Len(asked) + i)
    BY <1>1, <1>4 DEF QueryBatch, QueryAddresses
  <1>6. pending'[k].message \in Outgoing
    <2>1. pending' \in Seq(Entry)
      BY DEF TypeOK
    <2>2. pending'[k] \in Entry
      BY <1>4, <2>1
    <2> QED
      BY <2>2 DEF Entry
  <1>7. pending'[k].message \in Asks(a)'
    BY <1>5, <1>6 DEF Asks, SwState
  <1> HIDE DEF k
  <1> QED
    BY <1>4, <1>7 DEF RequestUnderWay, UnderWay

\* On a connection that was queried, once the answer for a turnout is on its way
\* and no pulse is, the device will take it to be where it is.
SyncInv ==
  intact /\ link /\ linkQueried
    => \A a \in (kMinTurnoutAddress..kMaxTurnoutAddress) \ overtaken :
         ~PulseUnderWay(a) /\ ~RequestUnderWay(a) => Hears(a, layout[a])

\* SyncInv is preserved by every step.
LEMMA SyncStep ==
  ASSUME TypeOK, TypeOK', OrderInv, CreditInv, OnlyOffWaits, OffsDueInOrder,
         ReleaseInv, NoOnWithoutOff', PulseInv, PulseInv', SyncInv, [Next]_vars
  PROVE  SyncInv'
  <1> SUFFICES ASSUME intact', link', linkQueried',
                      NEW a \in kMinTurnoutAddress..kMaxTurnoutAddress,
                      a \notin overtaken', ~PulseUnderWay(a)', ~RequestUnderWay(a)'
               PROVE  Hears(a, layout[a])'
    BY DEF SyncInv
  <1>1. intact /\ a \notin overtaken /\ a \in Addresses
    BY LossIsForGood, OvertakenGrows, AddressAssumption DEF Addresses
  <1>2. link /\ linkQueried
    BY QueriedEarlier, QueryAsksAll
  <1>3. NoneFor(a)'
    BY <1>1 DEF NoOnWithoutOff, Addresses
  <1>4. PICK p \in Positions : Goes(a, p)'
    BY <1>1 DEF PulseInv, Addresses
  <1>5. layout'[a] = p
    BY <1>3, <1>4 DEF NoneFor, Goes, Aims, Drained
  <1>6. PICK q \in Positions : Goes(a, q)
    BY <1>1 DEF PulseInv
  <1>7. ASSUME ~(OtherThrottle /\ layout'[a] # layout[a])
        PROVE  q = p
    <2>1. CommandAccepted => Head(pendingCommands).address # a
      BY AcceptedIsOutgoing
    <2>2. Goes(a, q)'
      BY <1>6, <1>7, <2>1, GoesStep
    <2>3. layout'[a] = q
      BY <1>3, <2>2 DEF NoneFor, Goes, Aims, Drained
    <2> QED
      BY <1>5, <2>3
  <1>8. \/ PulseUnderWay(a)
        \/ Hears(a, p)
        \/ Station /\ Head(toStation) \in Asks(a)
        \/ OtherThrottle /\ layout'[a] # layout[a]
    <2> SUFFICES ASSUME ~PulseUnderWay(a), ~(OtherThrottle /\ layout'[a] # layout[a])
                 PROVE  Hears(a, p) \/ (Station /\ Head(toStation) \in Asks(a))
      OBVIOUS
    <2>1. CASE RequestUnderWay(a)
      <3>1. Asks(a)' = Asks(a)
        BY DEF Asks
      <3>2. UnderWay(Asks(a)) /\ ~UnderWay(Asks(a))'
        BY <2>1 DEF RequestUnderWay
      <3> QED
        BY <3>2, OnlyTheStationTakes
    <2>2. CASE ~RequestUnderWay(a)
      <3>1. NoneFor(a)
        BY <1>1, PulsesAreWhole DEF NoOnWithoutOff
      <3>2. layout[a] = p
        BY <1>6, <1>7, <3>1, GoesIsThere
      <3>3. a \in (kMinTurnoutAddress..kMaxTurnoutAddress) \ overtaken
        BY <1>1
      <3>4. Hears(a, layout[a])
        BY <1>1, <1>2, <2>2, <3>3 DEF SyncInv
      <3> QED
        BY <3>2, <3>4 DEF Hears
    <2> QED
      BY <2>1, <2>2
  <1>9. Station => Goes(a, p)
    <2>1. Station => UNCHANGED throttled
      BY DEF Station, StationAnswers, StationSwitches, counters
    <2>2. OtherThrottle => throttled' = throttled + 1 /\ throttled \in Nat
      BY DEF OtherThrottle, TypeOK
    <2>3. Station => ~OtherThrottle
      BY <2>1, <2>2
    <2> QED
      BY <1>6, <1>7, <2>3
  <1>10. Hears(a, p)'
    BY <1>1, <1>2, <1>4, <1>8, <1>9, HearsStep
  <1> QED
    BY <1>5, <1>10 DEF Hears, Drained

\* The command published last is the last in the queue; once it has been carried
\* out, its turnout goes where it says, and the device will hear of it.
CommandInv ==
  \A command \in latest :
    /\ command.address \in Addresses
    /\ pendingCommands # <<>> => pendingCommands[Len(pendingCommands)] = command
    /\ intact /\ throttled = 0 /\ pendingCommands = <<>>
         => /\ Goes(command.address, command.position)
            /\ ~PulseUnderWay(command.address)
                 => Hears(command.address, command.position)

\* CommandInv is preserved by every step.
LEMMA CommandStep ==
  ASSUME TypeOK, TypeOK', OrderInv, CreditInv, OnlyOffWaits, OffsDueInOrder,
         NoOnWithoutOff', CommandInv, [Next]_vars
  PROVE  CommandInv'
  <1> USE DEF device, stream, railway, history, counters
  <1>1. CASE MqttReceive
    <2>1. PICK c \in TurnoutCommands :
            /\ pendingCommands' = Queued(c)
            /\ latest' = IF c.address \in Addresses THEN {c} ELSE {}
      BY <1>1 DEF MqttReceive
    <2> DEFINE kept == IF Len(pendingCommands) >= kMaxPendingCommands
                       THEN Tail(pendingCommands) ELSE pendingCommands
    <2>2. kept \in Seq(TurnoutCommands)
      <3>1. pendingCommands \in Seq(TurnoutCommands)
        BY DEF TypeOK
      <3>2. CASE Len(pendingCommands) >= kMaxPendingCommands
        <4>1. pendingCommands # <<>>
          BY <3>1, <3>2, CommandAssumption
        <4> QED
          BY <3>1, <3>2, <4>1
      <3>3. CASE ~(Len(pendingCommands) >= kMaxPendingCommands)
        BY <3>1, <3>3
      <3> QED
        BY <3>2, <3>3
    <2>3. pendingCommands' = Append(kept, c)
      BY <2>1 DEF Queued
    <2> HIDE DEF kept
    <2>4. pendingCommands' # <<>> /\ pendingCommands'[Len(pendingCommands')] = c
      BY <2>2, <2>3
    <2> QED
      BY <2>1, <2>4 DEF CommandInv, Addresses
  <1>2. CASE ~MqttReceive
    <2>1. latest' = latest
      BY <1>2
      DEF Next, Loop, Scheduler, Router, Query, CommandRouter, World, Station,
          MqttDone, SchedulerBegin, SchedulerSkip, SchedulerSend, SchedulerDone,
          RouterSwitchMessage, RouterStateAck, RouterReconnect, RouterDone,
          QueryReset, QueryWait, QueryAllTurnouts, CommandRejected,
          CommandAccepted, CommandsDone, Tick, LinkBreaks, StationAnswers,
          StationSwitches, OtherThrottle, StrayAck, vars
    <2> SUFFICES ASSUME NEW command \in latest
                 PROVE  /\ command.address \in Addresses
                        /\ pendingCommands' # <<>>
                             => pendingCommands'[Len(pendingCommands')] = command
                        /\ intact' /\ throttled' = 0 /\ pendingCommands' = <<>>
                             => /\ Goes(command.address, command.position)'
                                /\ ~PulseUnderWay(command.address)'
                                     => Hears(command.address, command.position)'
      BY <2>1 DEF CommandInv, Addresses
    <2>2. PICK a \in Addresses, p \in Positions :
            a = command.address /\ p = command.position
      <3>1. command.position \in Positions
        BY CommandAssumption DEF TypeOK
      <3> QED
        BY <3>1 DEF CommandInv
    <2>3. ASSUME pendingCommands = <<>>, pendingCommands' = <<>>,
                 intact', throttled' = 0
          PROVE  Goes(a, p)' /\ (~PulseUnderWay(a)' => Hears(a, p)')
      <3>t. throttled \in Nat
        BY DEF TypeOK
      <3>a. throttled' = 0
        BY <2>3
      <3>b. OtherThrottle => throttled' = throttled + 1
        BY DEF OtherThrottle
      <3>0. ~OtherThrottle
        BY <3>t, <3>a, <3>b
      <3>1. ~OtherThrottle /\ throttled = 0
        BY <1>2, <2>3, <3>0
        DEF Next, Loop, Scheduler, Router, Query, CommandRouter, World, Station,
            MqttDone, SchedulerBegin, SchedulerSkip, SchedulerSend, SchedulerDone,
            RouterSwitchMessage, RouterStateAck, RouterReconnect, RouterDone,
            QueryReset, QueryWait, QueryAllTurnouts, CommandRejected,
            CommandAccepted, CommandsDone, Tick, LinkBreaks, StationAnswers,
            StationSwitches, StrayAck, vars
      <3>2. intact
        BY <2>3, LossIsForGood
      <3>3. Goes(a, p) /\ (~PulseUnderWay(a) => Hears(a, p))
        BY <2>2, <2>3, <3>1, <3>2 DEF CommandInv
      <3>4. ~CommandAccepted
        BY <2>3 DEF CommandAccepted
      <3>5. Goes(a, p)'
        BY <2>3, <3>1, <3>3, <3>4, GoesStep
      <3> QED
        BY <2>3, <3>1, <3>3, <3>5, HearsStep
    <2>4. CASE UNCHANGED pendingCommands
      BY <2>2, <2>3, <2>4 DEF CommandInv
    <2>5. CASE CommandRejected \/ CommandAccepted
      <3>1. /\ pendingCommands # <<>> /\ pendingCommands \in Seq(TurnoutCommands)
            /\ pendingCommands' = Tail(pendingCommands)
        BY <2>5 DEF CommandRejected, CommandAccepted, TypeOK
      <3>2. pendingCommands[Len(pendingCommands)] = command
        BY <3>1 DEF CommandInv
      <3>3. pendingCommands' # <<>>
              => pendingCommands'[Len(pendingCommands')] = command
        BY <3>1, <3>2
      <3>4. ASSUME intact', pendingCommands' = <<>>
            PROVE  Goes(a, p)' /\ PulseUnderWay(a)'
        <4>0. Len(pendingCommands) = 1
          <5>1. Len(Tail(pendingCommands)) = Len(pendingCommands) - 1
            BY <3>1
          <5>a. pendingCommands' = <<>>
            BY <3>4
          <5>b. Tail(pendingCommands) = <<>>
            BY <3>1, <5>a
          <5>2. Len(Tail(pendingCommands)) = 0
            <6>1. Tail(pendingCommands) \in Seq(TurnoutCommands)
              BY <3>1
            <6> QED
              BY <5>b, <6>1, EmptySeq
          <5> QED
            BY <3>1, <5>1, <5>2
        <4>1. Head(pendingCommands) = command
          BY <3>1, <3>2, <4>0
        <4>2. CommandAccepted
          BY <2>2, <2>5, <4>1 DEF CommandRejected
        <4>3. Goes(a, p)'
          BY <2>2, <3>4, <4>1, <4>2, GoesAfterCommand
        <4>4. PulseUnderWay(a)'
          BY <2>2, <4>1, <4>2, AcceptedIsOutgoing
        <4> QED
          BY <4>3, <4>4
      <3> QED
        BY <2>2, <3>3, <3>4
    <2>6. UNCHANGED pendingCommands \/ CommandRejected \/ CommandAccepted
      BY <1>2
      DEF Next, Loop, Scheduler, Router, Query, CommandRouter, World, Station,
          MqttDone, SchedulerBegin, SchedulerSkip, SchedulerSend, SchedulerDone,
          RouterSwitchMessage, RouterStateAck, RouterReconnect, RouterDone,
          QueryReset, QueryWait, QueryAllTurnouts, CommandsDone, Tick, LinkBreaks,
          StationAnswers, StationSwitches, OtherThrottle, StrayAck, vars
    <2> QED
      BY <2>4, <2>5, <2>6
  <1> QED
    BY <1>1, <1>2

\* Nothing has happened yet.
LEMMA WhereaboutsInit ==
  ASSUME Init
  PROVE  OffsDueInOrder /\ PulseInv /\ SyncInv /\ CommandInv
  <1>1. /\ pending = <<>> /\ toStation = <<>> /\ fromStation = <<>>
        /\ latest = {} /\ ~link /\ layout \in [Addresses -> Positions]
    BY DEF Init
  <1>2. Len(Waiting) = 0
    BY <1>1 DEF Waiting, Messages
  <1>3. ASSUME NEW a \in Addresses
        PROVE  Goes(a, layout[a])
    BY <1>1, <1>2 DEF Goes, Aims, EndsAt, Drained
  <1>4. PulseInv
    BY <1>1, <1>3 DEF PulseInv
  <1> QED
    BY <1>1, <1>4 DEF OffsDueInOrder, SyncInv, CommandInv

\* What the last three invariants add to the others.
Whereabouts == OnlyOffWaits /\ ReleaseInv /\ OffsDueInOrder /\ PulseInv /\ SyncInv
                 /\ CommandInv

\* Where everybody ends up is known all along.
THEOREM WhereaboutsCorrect == Spec => []Whereabouts
  <1>1. Init => Whereabouts
    <2> SUFFICES ASSUME Init
                 PROVE  Whereabouts
      OBVIOUS
    <2>1. pending = <<>> /\ toStation = <<>> /\ energised = {}
      BY DEF Init
    <2>2. OnlyOffWaits /\ ReleaseInv
      BY <2>1 DEF OnlyOffWaits, ReleaseInv
    <2> QED
      BY <2>2, WhereaboutsInit DEF Whereabouts
  <1>2. ASSUME TypeOK, TypeOK', OrderInv, CreditInv, Whereabouts, [Next]_vars
        PROVE  Whereabouts'
    <2>1. OnlyOffWaits' /\ ReleaseInv' /\ OffsDueInOrder' /\ PulseInv'
      BY <1>2, OnlyOffWaitsStep, ReleaseStep, OffsDueStep, PulseStep DEF Whereabouts
    <2>2. NoOnWithoutOff'
      BY <1>2, <2>1, PulsesAreWholeNext
    <2>3. SyncInv'
      BY <1>2, <2>1, <2>2, SyncStep DEF Whereabouts
    <2>4. CommandInv'
      BY <1>2, <2>2, CommandStep DEF Whereabouts
    <2> QED
      BY <2>1, <2>3, <2>4 DEF Whereabouts
  <1> QED
    BY <1>1, <1>2, TypeCorrect, OrderInvariant, CreditInvariant, PTL DEF Spec

\* What is under way when everything is quiet: nothing.
LEMMA QuietIsStill ==
  ASSUME Quiet, NEW a
  PROVE  /\ ~PulseUnderWay(a) /\ ~RequestUnderWay(a)
         /\ \A p : Hears(a, p) => lastKnownPosition[a] = p
         /\ \A p : Goes(a, p) => layout[a] = p
  BY DEF Quiet, PulseUnderWay, RequestUnderWay, UnderWay, Hears, Goes, Aims, Drained

\* After a reconnect the startup query brings the published positions back in
\* step with the layout (TurnoutTableStartupQuery), whatever other clients did
\* while the device was away: once everything has settled, they are the same.
THEOREM ResyncCorrect == Spec => []QueryResyncs
  <1>1. ASSUME TypeOK, Whereabouts
        PROVE  QueryResyncs
    <2> SUFFICES ASSUME intact, link, linkQueried, Quiet,
                        NEW a \in kMinTurnoutAddress..kMaxTurnoutAddress,
                        a \notin overtaken
                 PROVE  lastKnownPosition[a] = layout[a]
      BY DEF QueryResyncs
    <2>1. Hears(a, layout[a])
      BY <1>1, QuietIsStill DEF Whereabouts, SyncInv
    <2> QED
      BY <2>1, QuietIsStill
  <1> QED
    BY <1>1, TypeCorrect, WhereaboutsCorrect, PTL

\* The command published last decides where its turnout stands and what the
\* clients are told (PicoMqttPort's queue, MqttCommandRouter, the scheduler and
\* the decoder together), however many commands came and were dropped before.
THEOREM LatestCommandCorrect == Spec => []LatestCommandIsCarriedOut
  <1>1. ASSUME TypeOK, Whereabouts
        PROVE  LatestCommandIsCarriedOut
    <2> SUFFICES ASSUME intact, throttled = 0, Quiet, pendingCommands = <<>>,
                        NEW command \in latest
                 PROVE  /\ layout[command.address] = command.position
                        /\ lastKnownPosition[command.address] = command.position
      BY DEF LatestCommandIsCarriedOut
    <2>1. /\ Goes(command.address, command.position)
          /\ Hears(command.address, command.position)
      BY <1>1, QuietIsStill DEF Whereabouts, CommandInv
    <2> QED
      BY <2>1, QuietIsStill
  <1> QED
    BY <1>1, TypeCorrect, WhereaboutsCorrect, PTL
=============================================================================
