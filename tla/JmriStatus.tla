----------------------------- MODULE JmriStatus -----------------------------
(***************************************************************************)
(* JmriConnectionStatusPublisher: what MQTT clients are told about the TCP  *)
(* connection to JMRI.                                                      *)
(*                                                                          *)
(* One update() asks isConnected() once to decide whether anything changed, *)
(* and once more for every payload it publishes.  The connection may break  *)
(* between two of these readings, and a reading may be a false negative     *)
(* (TurnoutTableStartupQuery.h and ADR 0001 report them); it is restored    *)
(* only elsewhere in loop(), from inside readLine() and writeLine().        *)
(***************************************************************************)
EXTENDS Integers

CONSTANTS
  kRepublishIntervalMs, \* from one publication to the next, at the latest
  MaxTime,              \* bound: the clock stops here
  MaxGlitches           \* bound: false "not connected" readings

ASSUME IntervalAssumption == kRepublishIntervalMs \in Nat \ {0}

ASSUME BoundAssumption == MaxTime \in Nat /\ MaxGlitches \in Nat

Connected == "connected"
Disconnected == "disconnected"
Nothing == "nothing"
Never == -1

VARIABLES
  pc,                 \* "loop", or the step of update() that comes next
  now,                \* millis()
  link,               \* the TCP connection exists
  lastKnownConnected, \* lastKnownConnected_
  lastPublishedAt,    \* lastPublishedAtMs_
  payload,            \* what was published last
  \* history: nothing the program can see
  glitches,           \* false readings so far
  lastPassAt,         \* when the current or last update() began
  steadyPass,         \* no change of the link and no false reading since then
  disturbedAt         \* the end of the last update() one of these fell into

vars == <<pc, now, link, lastKnownConnected, lastPublishedAt, payload,
          glitches, lastPassAt, steadyPass, disturbedAt>>

Payload(connected) == IF connected THEN Connected ELSE Disconnected

\* A value of isConnected(): FALSE may be a lie, TRUE never is.
IsConnected(reading) ==
  \/ /\ reading = link
     /\ UNCHANGED <<glitches, steadyPass>>
  \/ /\ link
     /\ ~reading
     /\ glitches < MaxGlitches
     /\ glitches' = glitches + 1
     /\ steadyPass' = FALSE

Init ==
  /\ pc = "loop"
  /\ now = 0
  /\ link = FALSE
  /\ lastKnownConnected = Nothing
  /\ lastPublishedAt = 0
  /\ payload = Nothing
  /\ glitches = 0
  /\ lastPassAt = 0
  /\ steadyPass = TRUE
  /\ disturbedAt = Never

-----------------------------------------------------------------------------
(* update() *)

Update ==
  /\ pc = "loop"
  /\ pc' = "publishIfChanged"
  /\ lastPassAt' = now
  /\ steadyPass' = TRUE
  /\ UNCHANGED <<now, link, lastKnownConnected, lastPublishedAt, payload,
                 glitches, disturbedAt>>

Unchanged ==
  /\ pc = "publishIfChanged"
  /\ \E connected \in BOOLEAN :
       /\ IsConnected(connected)
       /\ lastKnownConnected = Payload(connected)
  /\ pc' = "republishIfDue"
  /\ UNCHANGED <<now, link, lastKnownConnected, lastPublishedAt, payload,
                 lastPassAt, disturbedAt>>

\* Mutant of Changed: the new value is not remembered.
ChangedForgotten ==
  /\ pc = "publishIfChanged"
  /\ \E connected \in BOOLEAN :
       /\ IsConnected(connected)
       /\ lastKnownConnected # Payload(connected)
       /\ lastKnownConnected' = IF lastKnownConnected = Nothing
                                THEN Payload(connected) ELSE lastKnownConnected
  /\ pc' = "publishChange"
  /\ UNCHANGED <<now, link, lastPublishedAt, payload, lastPassAt, disturbedAt>>

Changed ==
  /\ pc = "publishIfChanged"
  /\ \E connected \in BOOLEAN :
       /\ IsConnected(connected)
       /\ lastKnownConnected # Payload(connected)
       /\ lastKnownConnected' = Payload(connected)
  /\ pc' = "publishChange"
  /\ UNCHANGED <<now, link, lastPublishedAt, payload, lastPassAt, disturbedAt>>

\* publish(): the connection is asked once more.
Publish ==
  /\ \E connected \in BOOLEAN :
       /\ IsConnected(connected)
       /\ payload' = Payload(connected)
  /\ lastPublishedAt' = now
  /\ UNCHANGED <<now, link, lastKnownConnected, lastPassAt>>

PublishChange ==
  /\ pc = "publishChange"
  /\ Publish
  /\ pc' = "republishIfDue"
  /\ UNCHANGED disturbedAt

\* update() returns.
Done ==
  /\ pc' = "loop"
  /\ disturbedAt' = IF steadyPass' THEN disturbedAt ELSE now

NotDue ==
  /\ pc = "republishIfDue"
  /\ now - lastPublishedAt < kRepublishIntervalMs
  /\ UNCHANGED <<now, link, lastKnownConnected, lastPublishedAt, payload,
                 glitches, lastPassAt, steadyPass>>
  /\ Done

\* Mutant of Republish: only a connection is announced again.
RepublishConnected ==
  /\ pc = "republishIfDue"
  /\ now - lastPublishedAt >= kRepublishIntervalMs
  /\ IF lastKnownConnected = Connected
     THEN Publish
     ELSE UNCHANGED <<now, link, lastKnownConnected, lastPublishedAt, payload,
                      glitches, lastPassAt, steadyPass>>
  /\ Done

Republish ==
  /\ pc = "republishIfDue"
  /\ now - lastPublishedAt >= kRepublishIntervalMs
  /\ Publish
  /\ Done

-----------------------------------------------------------------------------
(* Around it *)

Tick ==
  /\ now < MaxTime
  /\ now' = now + 1
  /\ UNCHANGED <<pc, link, lastKnownConnected, lastPublishedAt, payload,
                 glitches, lastPassAt, steadyPass, disturbedAt>>

LinkChanges ==
  /\ link' = ~link
  /\ link \/ pc = "loop"
  /\ steadyPass' = FALSE
  /\ UNCHANGED <<pc, now, lastKnownConnected, lastPublishedAt, payload,
                 glitches, lastPassAt, disturbedAt>>

Loop ==
  Update \/ Unchanged \/ Changed \/ PublishChange \/ NotDue \/ Republish

Next == Loop \/ Tick \/ LinkChanges

Spec == Init /\ [][Next]_vars

-----------------------------------------------------------------------------
TypeOK ==
  /\ pc \in {"loop", "publishIfChanged", "publishChange", "republishIfDue"}
  /\ now \in Nat
  /\ link \in BOOLEAN
  /\ lastKnownConnected \in {Connected, Disconnected, Nothing}
  /\ lastPublishedAt \in Nat
  /\ payload \in {Connected, Disconnected, Nothing}
  /\ glitches \in Nat
  /\ lastPassAt \in Nat
  /\ steadyPass \in BOOLEAN
  /\ disturbedAt \in Nat \cup {Never}

\* The last update() a break or a false reading fell into is long over.
Undisturbed ==
  disturbedAt = Never \/ lastPassAt - disturbedAt >= kRepublishIntervalMs

\* An update() that sees a steady connection leaves clients with its status,
\* whatever happened between the updates.  Only a break or a false reading
\* between the readings of one update() can make the payload differ from the
\* value that is remembered, and then no longer than one republish interval.
ChangesArePublished ==
  pc = "loop" /\ steadyPass /\ Undisturbed => payload \in {Payload(link), Nothing}

\* A client that subscribes late is told before long: no update() leaves a
\* publication that was older than one interval when it began.
NeverSilentForLong ==
  pc = "loop" => lastPassAt - lastPublishedAt < kRepublishIntervalMs
=============================================================================
