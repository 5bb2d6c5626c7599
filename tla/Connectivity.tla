---------------------------- MODULE Connectivity ----------------------------
(* The firmware's cooperative loop (SmartPod.cpp) and the four services that *)
(* it keeps connected: station, access point with captive portal, NTP and    *)
(* OTA updates, as built for the ESP8266 (platformio.ini).                   *)
(*                                                                           *)
(* There is one thread. The web server's handlers, the responses'            *)
(* destructors and the radio's events run only while the loop yields: in its *)
(* delay, in the updater, and in NTP.begin and now, which ask the time       *)
(* server. What the radio does, and when its events are delivered, is the    *)
(* SDK's.                                                                    *)
EXTENDS Naturals, Sequences

CONSTANTS
  WifiOptions,  \* station settings: a network, or None without an ssid
  ApOptions,    \* access point settings: provision mode and name
  NtpOptions,   \* time server settings
  OtaOptions,   \* updater settings: a port, or None when disabled
  None,         \* no network, nothing running
  Posting,      \* the services whose settings clients post
  Scanning,     \* whether clients scan for networks
  MaxPending,   \* bound on the responses under way per service
  MaxEvents     \* bound on the radio's undelivered events

Services == {"wifi", "ap", "ntp", "ota"}
Modes == {"always", "disconnected", "never"}
Options == [wifi |-> WifiOptions, ap |-> ApOptions, ntp |-> NtpOptions, ota |-> OtaOptions]
Names == {option.name : option \in ApOptions}

ASSUME ConnectivityAssumption ==
  /\ \A option \in ApOptions : option.mode \in Modes
  /\ None \notin Names \cup NtpOptions
  /\ Posting \subseteq Services
  /\ Scanning \in BOOLEAN
  /\ MaxPending \in Nat /\ MaxEvents \in Nat

VARIABLES
  at,           \* where the loop is
  fields,       \* per service: the settings in its fields
  pending,      \* per service: its 200 responses that are not yet destroyed
  refused,      \* per service, history: its last update was answered 500
  station,      \* "off", "idle" (on, but not connecting), "joining", "up"
  joined,       \* the settings WiFi.begin was last called with
  attemptDue,   \* the delay since _lastConnectionAttempt is over
  accessPoint,  \* the name the access point runs with, and its DNS server
  manageDue,    \* the delay since _lastManaged is over
  reconfigureNTP,
  ntp,          \* the server and interval that NTP runs with
  updater,      \* the port of the OTA updater
  events,       \* the radio's events that are not yet delivered
  scan          \* the last scan: "none", "running", "done"

serviceVars == <<fields, pending, refused>>
stationVars == <<station, joined, attemptDue, events>>
apVars == <<accessPoint, manageDue>>
ntpVars == <<reconfigureNTP, ntp>>
vars == <<at, serviceVars, stationVars, apVars, ntpVars, updater, scan>>

\* The loop lets others run; before "ota" in now.
Yielding == at \in {"begun", "ota", "handling", "delay"}

Goto(from, to) == at = from /\ at' = to

---------------------------------------------------------------------------
(* Station                                                                   *)

\* WiFi.disconnect(true), with the events of queue to be delivered before its own.
StopStation(queue) ==
  /\ station' = "off"
  /\ events' = IF station \in {"joining", "up"} THEN Append(queue, "disconnected") ELSE queue

\* manageSTA
manageSTA ==
  IF station = "off" /\ fields.wifi # None
    THEN station' = "joining" /\ joined' = fields.wifi
    ELSE UNCHANGED <<station, joined>>

WifiLoop ==
  /\ Goto("wifi", "ap")
  /\ IF attemptDue THEN manageSTA ELSE UNCHANGED <<station, joined>>
  /\ attemptDue' = FALSE
  /\ UNCHANGED <<serviceVars, events, apVars, ntpVars, updater, scan>>

\* WIFI_RECONNECTION_DELAY is over: a minute, in which no event stays
\* undelivered.
MinutePasses ==
  /\ ~attemptDue
  /\ events = <<>>
  /\ attemptDue' = TRUE
  /\ UNCHANGED <<at, serviceVars, station, joined, events, apVars, ntpVars, updater, scan>>

WifiConfigUpdated ==
  /\ StopStation(events)
  /\ attemptDue' = TRUE
  /\ UNCHANGED <<joined, apVars, ntpVars, updater>>

---------------------------------------------------------------------------
(* Access point                                                              *)

Wanted ==
  \/ fields.ap.mode = "always"
  \/ fields.ap.mode = "disconnected" /\ station # "up"

\* Mutant: the access point is started only when the radio is off.
manageAPWhenOff ==
  accessPoint' = IF ~Wanted THEN None
                 ELSE IF accessPoint = None /\ station = "off" THEN fields.ap.name
                 ELSE accessPoint

\* manageAP, startAP, stopAP: one that runs is left alone.
manageAP ==
  accessPoint' = IF ~Wanted THEN None
                 ELSE IF accessPoint = None THEN fields.ap.name
                 ELSE accessPoint

ApLoop ==
  /\ Goto("ap", "ntp")
  /\ IF manageDue THEN manageAP ELSE UNCHANGED accessPoint
  /\ manageDue' = FALSE
  /\ UNCHANGED <<serviceVars, stationVars, ntpVars, updater, scan>>

\* MANAGE_NETWORK_DELAY is over.
TenSecondsPass ==
  /\ ~manageDue
  /\ manageDue' = TRUE
  /\ UNCHANGED <<at, serviceVars, stationVars, accessPoint, ntpVars, updater, scan>>

\* Mutant: the access point is not stopped.
ApConfigUpdatedKeeps ==
  /\ manageDue' = TRUE
  /\ UNCHANGED <<accessPoint, stationVars, ntpVars, updater>>

ApConfigUpdated ==
  /\ accessPoint' = None
  /\ manageDue' = TRUE
  /\ UNCHANGED <<stationVars, ntpVars, updater>>

---------------------------------------------------------------------------
(* NTP                                                                       *)

\* loop of the service up to the yield in NTP.begin.
NtpLoop ==
  /\ at = "ntp"
  /\ at' = IF reconfigureNTP THEN "begun" ELSE "ota"
  /\ ntp' = IF reconfigureNTP THEN [server |-> fields.ntp, interval |-> None] ELSE ntp
  /\ reconfigureNTP' = FALSE
  /\ UNCHANGED <<serviceVars, stationVars, apVars, updater, scan>>

\* Mutant: the flag is cleared after NTP was configured.
NtpBegunClears ==
  /\ Goto("begun", "ota")
  /\ ntp' = IF ntp = None THEN None ELSE [ntp EXCEPT !.interval = fields.ntp]
  /\ reconfigureNTP' = FALSE
  /\ UNCHANGED <<serviceVars, stationVars, apVars, updater, scan>>

\* configureNTP from there: NTP may have been stopped, or have new settings.
NtpBegun ==
  /\ Goto("begun", "ota")
  /\ ntp' = IF ntp = None THEN None ELSE [ntp EXCEPT !.interval = fields.ntp]
  /\ UNCHANGED <<serviceVars, stationVars, apVars, reconfigureNTP, updater, scan>>

NtpConfigUpdated ==
  /\ reconfigureNTP' = TRUE
  /\ UNCHANGED <<stationVars, apVars, ntp, updater>>

---------------------------------------------------------------------------
(* OTA                                                                       *)

\* An updater that runs yields while it receives an image.
OtaLoop ==
  /\ at = "ota"
  /\ at' \in IF fields.ota # None /\ updater # None THEN {"handling", "delay"} ELSE {"delay"}
  /\ UNCHANGED <<serviceVars, stationVars, apVars, ntpVars, updater, scan>>

OtaHandled ==
  /\ Goto("handling", "delay")
  /\ UNCHANGED <<serviceVars, stationVars, apVars, ntpVars, updater, scan>>

\* configureArduinoOTA, even if the updater is in the middle of an image.
configureArduinoOTA == updater' = fields.ota

OtaConfigUpdated ==
  /\ configureArduinoOTA
  /\ UNCHANGED <<stationVars, apVars, ntpVars>>

---------------------------------------------------------------------------
(* Events of the radio                                                       *)

RadioChanges(from, to, event) ==
  /\ Yielding
  /\ station = from
  /\ Len(events) < MaxEvents
  /\ station' = to
  /\ events' = Append(events, event)
  /\ UNCHANGED <<at, serviceVars, joined, attemptDue, apVars, ntpVars, updater, scan>>

JoinSucceeds == RadioChanges("joining", "up", "gotIP")
JoinFails    == RadioChanges("joining", "idle", "disconnected")
LinkLost     == RadioChanges("up", "idle", "disconnected")

NextEvent(event) == Yielding /\ events # <<>> /\ Head(events) = event

\* Mutant: NTP waits for new settings.
onStationModeGotIPQuiet ==
  /\ NextEvent("gotIP")
  /\ events' = Tail(events)
  /\ configureArduinoOTA
  /\ UNCHANGED <<at, serviceVars, station, joined, attemptDue, apVars, ntpVars, scan>>

\* onStationModeGotIP of the NTP and the OTA service.
onStationModeGotIP ==
  /\ NextEvent("gotIP")
  /\ events' = Tail(events)
  /\ reconfigureNTP' = TRUE
  /\ configureArduinoOTA
  /\ UNCHANGED <<at, serviceVars, station, joined, attemptDue, apVars, ntp, scan>>

\* Mutant: the station is left on.
onStationModeDisconnectedLeavesOn ==
  /\ NextEvent("disconnected")
  /\ events' = Tail(events)
  /\ reconfigureNTP' = FALSE
  /\ ntp' = None
  /\ UNCHANGED <<at, serviceVars, station, joined, attemptDue, apVars, updater, scan>>

\* onStationModeDisconnected of the Wi-Fi and the NTP service. The station may
\* have begun a new connection since.
onStationModeDisconnected ==
  /\ NextEvent("disconnected")
  /\ StopStation(Tail(events))
  /\ reconfigureNTP' = FALSE
  /\ ntp' = None
  /\ UNCHANGED <<at, serviceVars, joined, attemptDue, apVars, updater, scan>>

---------------------------------------------------------------------------
(* Requests                                                                  *)

\* updateConfig: the fields are overwritten whether or not the file is.
updateConfig(service) ==
  /\ Yielding
  /\ \E option \in Options[service] : fields' = [fields EXCEPT ![service] = option]
  /\ \/ /\ pending[service] < MaxPending
        /\ pending' = [pending EXCEPT ![service] = @ + 1]
        /\ UNCHANGED refused
     \/ /\ refused' = [refused EXCEPT ![service] = TRUE]
        /\ UNCHANGED pending
  /\ UNCHANGED <<at, stationVars, apVars, ntpVars, updater, scan>>

onConfigUpdated(service) ==
  \/ service = "wifi" /\ WifiConfigUpdated
  \/ service = "ap" /\ ApConfigUpdated
  \/ service = "ntp" /\ NtpConfigUpdated
  \/ service = "ota" /\ OtaConfigUpdated

\* Mutant: the callback may run twice.
ResponseDestroyedTwice(service) ==
  /\ Yielding
  /\ Len(events) < MaxEvents
  /\ pending' = [pending EXCEPT ![service] = @ - 1]
  /\ refused' = [refused EXCEPT ![service] = FALSE]
  /\ onConfigUpdated(service)
  /\ UNCHANGED <<at, fields, scan>>

\* ~AsyncJsonCallbackResponse
ResponseDestroyed(service) ==
  /\ Yielding
  /\ Len(events) < MaxEvents
  /\ pending[service] > 0
  /\ pending' = [pending EXCEPT ![service] = @ - 1]
  /\ refused' = [refused EXCEPT ![service] = FALSE]
  /\ onConfigUpdated(service)
  /\ UNCHANGED <<at, fields, scan>>

\* scanNetworks, also from listNetworks when nothing was scanned: the SDK
\* switches the station on and interrupts it while it is connecting.
scanNetworks ==
  /\ Yielding
  /\ scan # "running"
  /\ Len(events) < MaxEvents
  /\ scan' = "running"
  /\ station' = IF station = "up" THEN "up" ELSE "idle"
  /\ events' = IF station = "joining" THEN Append(events, "disconnected") ELSE events
  /\ UNCHANGED <<at, serviceVars, joined, attemptDue, apVars, ntpVars, updater>>

ScanCompletes ==
  /\ Yielding
  /\ scan = "running"
  /\ scan' = "done"
  /\ UNCHANGED <<at, serviceVars, stationVars, apVars, ntpVars, updater>>

---------------------------------------------------------------------------

\* The delay of loop, and the sensor's service, which reads its pin.
DelayEnds ==
  /\ Goto("delay", "wifi")
  /\ UNCHANGED <<serviceVars, stationVars, apVars, ntpVars, updater, scan>>

\* SmartPod::begin, from any stored settings.
Init ==
  /\ at = "wifi"
  /\ fields \in [wifi : WifiOptions, ap : ApOptions, ntp : NtpOptions, ota : OtaOptions]
  /\ pending = [service \in Services |-> 0]
  /\ refused = [service \in Services |-> FALSE]
  /\ station = "off" /\ joined = None /\ attemptDue = TRUE
  /\ accessPoint = None /\ manageDue = TRUE
  /\ reconfigureNTP = FALSE /\ ntp = None
  /\ updater = None
  /\ events = <<>>
  /\ scan = "none"

\* Power returns, or an exception restarts the device: with whatever is stored.
Restart ==
  /\ at' = "wifi"
  /\ fields' \in [wifi : WifiOptions, ap : ApOptions, ntp : NtpOptions, ota : OtaOptions]
  /\ pending' = [service \in Services |-> 0]
  /\ refused' = [service \in Services |-> FALSE]
  /\ station' = "off" /\ joined' = None /\ attemptDue' = TRUE
  /\ accessPoint' = None /\ manageDue' = TRUE
  /\ reconfigureNTP' = FALSE /\ ntp' = None
  /\ updater' = None
  /\ events' = <<>>
  /\ scan' = "none"

Loop == WifiLoop \/ ApLoop \/ NtpLoop \/ NtpBegun \/ OtaLoop \/ OtaHandled \/ DelayEnds

Events == onStationModeGotIP \/ onStationModeDisconnected

Next ==
  \/ Loop
  \/ MinutePasses \/ TenSecondsPass
  \/ JoinSucceeds \/ JoinFails \/ LinkLost
  \/ Events
  \/ \E service \in Posting : updateConfig(service) \/ ResponseDestroyed(service)
  \/ Scanning /\ (scanNetworks \/ ScanCompletes)
  \/ Restart

\* The loop runs and time passes. Whatever waits for the loop to yield gets its
\* turn in the end: the events, the end of an attempt to connect, and the
\* destructors of the responses.
Fairness ==
  /\ WF_vars(Loop) /\ SF_vars(MinutePasses) /\ WF_vars(TenSecondsPass)
  /\ SF_vars(Events) /\ SF_vars(JoinSucceeds \/ JoinFails)
  /\ \A service \in Posting : SF_vars(ResponseDestroyed(service))

Spec == Init /\ [][Next]_vars
FairSpec == Spec /\ Fairness

---------------------------------------------------------------------------
(* Properties                                                                *)

\* Every variable keeps its type; a response is destroyed once.
TypeOK ==
  /\ at \in {"wifi", "ap", "ntp", "begun", "ota", "handling", "delay"}
  /\ fields \in [wifi : WifiOptions, ap : ApOptions, ntp : NtpOptions, ota : OtaOptions]
  /\ pending \in [Services -> 0..MaxPending]
  /\ refused \in [Services -> BOOLEAN]
  /\ station \in {"off", "idle", "joining", "up"}
  /\ joined \in WifiOptions \cup {None}
  /\ attemptDue \in BOOLEAN
  /\ accessPoint \in Names \cup {None}
  /\ manageDue \in BOOLEAN
  /\ reconfigureNTP \in BOOLEAN
  /\ ntp \in {None} \cup [server : NtpOptions, interval : NtpOptions \cup {None}]
  /\ updater \in OtaOptions \cup {None}
  /\ events \in Seq({"gotIP", "disconnected"})
  /\ scan \in {"none", "running", "done"}

\* The callbacks of all updates have run, and none was answered 500 since.
Applied(service) == pending[service] = 0 /\ ~refused[service]

\* Once every posted setting has been applied, the station is not connected,
\* nor connecting, with the settings of an earlier update, and the access point
\* has no earlier name, whatever happened in between
\* (reconfigureWiFiConnection, APSettingsService::onConfigUpdated).
RadioRunsConfigured ==
  /\ Applied("wifi") /\ station \in {"joining", "up"} => joined = fields.wifi
  /\ Applied("ap") /\ accessPoint # None => accessPoint = fields.ap.name

\* NTP and the updater do not go on with earlier settings either, although
\* they are configured by a flag, by events and by callbacks, and new settings
\* may arrive while NTP.begin waits (configureNTP, configureArduinoOTA).
ServicesRunConfigured ==
  /\ Applied("ntp") /\ ntp # None /\ ~reconfigureNTP =>
       ntp = [server |-> fields.ntp, interval |-> IF at = "begun" THEN None ELSE fields.ntp]
  /\ Applied("ota") /\ updater # None => updater = fields.ota

\* What clients and the radio may stop doing: from some time on no settings
\* are posted, nothing is scanned, attempts succeed and the link holds.
Disturbance ==
  \/ \E service \in Posting : updateConfig(service)
  \/ scanNetworks \/ JoinFails \/ LinkLost \/ Restart

Calm == <>[][~Disturbance]_vars

\* In calm the station comes up and stays up, unless it has no network,
\* whatever stale events were still under way ("Connect or reconnect as
\* required", manageSTA).
StationSettles == Calm => <>[](station = "up" \/ fields.wifi = None)

\* In calm the access point is on exactly if its mode asks for it
\* (manageAP).
AccessPointSettles == Calm => <>[](accessPoint # None <=> Wanted)

\* In calm, with a connected station, NTP runs, and the updater runs exactly
\* if it is enabled; a service with a refused update is excepted
\* (onStationModeGotIP).
ServicesSettle ==
  Calm => <>[](station = "up" =>
                 /\ refused["ntp"] \/ ntp # None
                 /\ refused["ota"] \/ (updater # None <=> fields.ota # None))
=============================================================================
