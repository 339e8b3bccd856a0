------------------------------ MODULE LoopHead ------------------------------
(***************************************************************************)
(* The head of loop() in Normal boot mode: the activity LED, the retries of *)
(* WiFi.begin(), the broker and the mDNS responder behind their latches;    *)
(* then the router, where every LocoNet message flashes the LED.            *)
(* SetupButton has the button, TurnoutBridge what comes behind.             *)
(*                                                                          *)
(* The WiFi driver works beside the loop: the state it reports changes      *)
(* between any two steps.  millis() is modulo ClockRange, and there is no   *)
(* bound on the time: a timer may be older than a turn of the clock.        *)
(***************************************************************************)
EXTENDS Integers

CONSTANTS
  kFlashDurationMs, \* how long a message keeps the LED on
  kRetryIntervalMs, \* between two WiFi.begin(), and two MDNS.begin()
  ClockRange,       \* millis() runs from 0 to ClockRange - 1
  MaxPassMs,        \* longest pass of loop()
  AssociationMs     \* longest time the driver needs to associate

\* An association that takes as long as the retry interval is aborted by every
\* retry; EspWifiPort relies on a shorter one.
ASSUME TimerAssumption ==
  /\ kFlashDurationMs \in Nat \ {0}
  /\ kRetryIntervalMs \in Nat \ {0}
  /\ MaxPassMs \in Nat \ {0}
  /\ AssociationMs \in Nat \ {0}
  /\ AssociationMs < kRetryIntervalMs

ASSUME ClockAssumption ==
  /\ ClockRange \in Nat
  /\ kFlashDurationMs + MaxPassMs < ClockRange
  /\ kRetryIntervalMs + 2 * MaxPassMs < ClockRange

\* Two looks at a timer are up to two passes apart.  It may be that the first
\* finds no need, and that a full turn of the clock is over before the second:
\* then the interval begins once more.
RetryBound == kRetryIntervalMs + 4 * MaxPassMs

\* Time from the access point coming up to the device being connected, and to
\* the broker being served.
ConnectBound == RetryBound + AssociationMs
ServeBound == ConnectBound + 2 * MaxPassMs

VARIABLES
  pc,            \* the step of loop() that comes next
  millis,        \* the clock
  lit,           \* lit_, and the level of the pin
  litSince,      \* litSinceMs_
  wifiAttemptAt, \* EspWifiPort's lastAttemptAtMillis_
  mqttBegun,     \* the latches of loop()
  mdnsBegun,
  mdnsAttemptAt, \* EspMdnsPort's lastAttemptAtMillis_
  mdnsWorks,     \* the responder was started
  accessPoint,   \* the access point is up
  association,   \* "none", "started" or "done"; WiFi.status()
  associating,   \* how long ago it was started
  \* history: nothing the program can see; counted up to a bound each
  passAge,       \* time since the pass began
  sinceMessage,  \* time since the last LocoNet message
  upFor,         \* how long the access point has been up
  mdnsWaits      \* how long mDNS has not been tried although it could be

led == <<lit, litSince>>
network == <<wifiAttemptAt, mqttBegun, mdnsBegun, mdnsAttemptAt, mdnsWorks>>
driver == <<accessPoint, association, associating>>
ages == <<passAge, sinceMessage, upFor, mdnsWaits>>
vars == <<pc, millis, led, network, driver, ages>>

\* Unsigned subtraction.
Since(start) == (millis - start) % ClockRange

IsConnected == association = "done"

LongestMessageAge == kFlashDurationMs + MaxPassMs + 1

Init ==
  /\ pc = "led"
  /\ millis = 0
  /\ lit = FALSE
  /\ litSince = 0
  /\ wifiAttemptAt = 0
  /\ mqttBegun = FALSE
  /\ mdnsBegun = FALSE
  /\ mdnsAttemptAt = 0
  /\ mdnsWorks = FALSE
  /\ accessPoint \in BOOLEAN
  /\ association = "none"
  /\ associating = 0
  /\ passAge = 0
  /\ sinceMessage = LongestMessageAge
  /\ upFor = 0
  /\ mdnsWaits = 0

-----------------------------------------------------------------------------
(* The steps of loop(). *)

\* Mutant of LedIsDue: the end of the window is computed and compared.
LedIsPast == millis >= litSince + kFlashDurationMs

\* dueToTurnOff()
LedIsDue == Since(litSince) >= kFlashDurationMs

LedUpdate ==
  /\ pc = "led"
  /\ lit' = (lit /\ ~LedIsDue)
  /\ pc' = "wifi"
  /\ passAge' = 0
  /\ UNCHANGED <<millis, litSince, network, driver, sinceMessage, upFor, mdnsWaits>>

\* WiFi.begin(): what the driver was doing is given up.
WifiBegin ==
  /\ association' = IF accessPoint THEN "started" ELSE "none"
  /\ associating' = 0
  /\ UNCHANGED accessPoint

\* Mutant of WifiUpdate: the attempt is not remembered.
WifiUpdateForgets ==
  /\ pc = "wifi"
  /\ IF ~IsConnected /\ Since(wifiAttemptAt) >= kRetryIntervalMs
     THEN WifiBegin
     ELSE UNCHANGED driver
  /\ pc' = "broker"
  /\ UNCHANGED <<millis, led, network, ages>>

\* EspWifiPort::update()
WifiUpdate ==
  /\ pc = "wifi"
  /\ IF ~IsConnected /\ Since(wifiAttemptAt) >= kRetryIntervalMs
     THEN WifiBegin /\ wifiAttemptAt' = millis
     ELSE UNCHANGED <<driver, wifiAttemptAt>>
  /\ pc' = "broker"
  /\ UNCHANGED <<millis, led, mqttBegun, mdnsBegun, mdnsAttemptAt, mdnsWorks, ages>>

\* Mutant of BrokerBegin: WiFi is looked at in the pass that began it, only.
BrokerBeginWithWifi ==
  /\ pc = "broker"
  /\ mqttBegun' = (mqttBegun \/ (IsConnected /\ wifiAttemptAt = millis))
  /\ pc' = "mdns"
  /\ UNCHANGED <<millis, led, wifiAttemptAt, mdnsBegun, mdnsAttemptAt, mdnsWorks,
                 driver, ages>>

BrokerBegin ==
  /\ pc = "broker"
  /\ mqttBegun' = (mqttBegun \/ IsConnected)
  /\ pc' = "mdns"
  /\ UNCHANGED <<millis, led, wifiAttemptAt, mdnsBegun, mdnsAttemptAt, mdnsWorks,
                 driver, ages>>

\* Mutant of MdnsBegin: a failed attempt counts as success.
MdnsBeginOnce ==
  /\ pc = "mdns"
  /\ IF ~mdnsBegun /\ IsConnected /\ Since(mdnsAttemptAt) >= kRetryIntervalMs
     THEN /\ mdnsAttemptAt' = millis
          /\ mdnsBegun' = TRUE
          /\ mdnsWorks' \in BOOLEAN
          /\ mdnsWaits' = 0
     ELSE UNCHANGED <<mdnsAttemptAt, mdnsBegun, mdnsWorks, mdnsWaits>>
  /\ pc' = "router"
  /\ UNCHANGED <<millis, led, wifiAttemptAt, mqttBegun, driver, passAge,
                 sinceMessage, upFor>>

\* EspMdnsPort::begin(), which may fail, and the latch of loop().
MdnsBegin ==
  /\ pc = "mdns"
  /\ IF ~mdnsBegun /\ IsConnected /\ Since(mdnsAttemptAt) >= kRetryIntervalMs
     THEN /\ mdnsAttemptAt' = millis
          /\ mdnsWorks' \in BOOLEAN
          /\ mdnsBegun' = mdnsWorks'
          /\ mdnsWaits' = 0
     ELSE UNCHANGED <<mdnsAttemptAt, mdnsBegun, mdnsWorks, mdnsWaits>>
  /\ pc' = "router"
  /\ UNCHANGED <<millis, led, wifiAttemptAt, mqttBegun, driver, passAge,
                 sinceMessage, upFor>>

\* FlashingMessageLog::record(), for every message the router drains.
Message ==
  /\ pc = "router"
  /\ lit' = TRUE
  /\ litSince' = millis
  /\ sinceMessage' = 0
  /\ UNCHANGED <<pc, millis, network, driver, passAge, upFor, mdnsWaits>>

PassEnds ==
  /\ pc = "router"
  /\ pc' = "led"
  /\ UNCHANGED <<millis, led, network, driver, ages>>

-----------------------------------------------------------------------------
(* The WiFi driver and the world. *)

AccessPointComesUp ==
  /\ ~accessPoint
  /\ accessPoint' = TRUE
  /\ upFor' = 0
  /\ UNCHANGED <<pc, millis, led, network, association, associating, passAge,
                 sinceMessage, mdnsWaits>>

AccessPointGoesDown ==
  /\ accessPoint
  /\ accessPoint' = FALSE
  /\ association' = "none"
  /\ associating' = 0
  /\ upFor' = 0
  /\ mdnsWaits' = 0
  /\ UNCHANGED <<pc, millis, led, network, passAge, sinceMessage>>

\* The driver may try again by itself, at any time.
DriverRetries ==
  /\ accessPoint
  /\ association = "none"
  /\ association' = "started"
  /\ associating' = 0
  /\ UNCHANGED <<pc, millis, led, network, accessPoint, ages>>

Associated ==
  /\ association = "started"
  /\ association' = "done"
  /\ associating' = 0
  /\ UNCHANGED <<pc, millis, led, network, accessPoint, ages>>

UpTo(bound, n) == IF n < bound THEN n ELSE bound

\* A pass takes no longer than MaxPassMs, an association no longer than
\* AssociationMs.
Tick ==
  /\ passAge < MaxPassMs
  /\ association = "started" => associating < AssociationMs
  /\ millis' = (millis + 1) % ClockRange
  /\ passAge' = passAge + 1
  /\ associating' = IF association = "started" THEN associating + 1 ELSE 0
  /\ sinceMessage' = UpTo(LongestMessageAge, sinceMessage + 1)
  /\ upFor' = IF accessPoint THEN UpTo(ServeBound + 1, upFor + 1) ELSE 0
  /\ mdnsWaits' = IF IsConnected /\ ~mdnsWorks
                  THEN UpTo(RetryBound + 1, mdnsWaits + 1) ELSE 0
  /\ UNCHANGED <<pc, led, network, accessPoint, association>>

-----------------------------------------------------------------------------
Loop == LedUpdate \/ WifiUpdate \/ BrokerBegin \/ MdnsBegin \/ Message \/ PassEnds
Driver == DriverRetries \/ Associated
World == AccessPointComesUp \/ AccessPointGoesDown \/ Driver \/ Tick

Next == Loop \/ World

Spec == Init /\ [][Next]_vars

-----------------------------------------------------------------------------
\* Every message is seen: the LED stays on for the whole window after the last
\* one, however the windows and the turn of millis() overlap; and it goes out
\* again, one pass later at most.
MessagesAreSeen ==
  /\ sinceMessage < kFlashDurationMs => lit
  /\ lit => sinceMessage <= kFlashDurationMs + MaxPassMs

\* An access point that stays up has the device back within a bounded time,
\* after any outage and however old the last attempt is: a retry never keeps
\* the driver from finishing for ever.
OutagesEnd == upFor > ConnectBound => IsConnected

\* And the broker is begun, in whatever pass that happens.
BrokerIsServed == upFor > ServeBound => mqttBegun

\* While the device is connected, mDNS is tried again in time until it worked.
MdnsIsRetried == mdnsWaits <= RetryBound
=============================================================================
