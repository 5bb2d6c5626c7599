------------------------- MODULE ConnectivityProofs -------------------------
(* Whatever settings there are, however events, callbacks and the loop       *)
(* interleave: what has been applied is what runs.                           *)
EXTENDS Connectivity, TLAPS

Fields == [wifi : WifiOptions, ap : ApOptions, ntp : NtpOptions, ota : OtaOptions]

IInv == TypeOK /\ RadioRunsConfigured /\ ServicesRunConfigured

---------------------------------------------------------------------------
(* Lemmas about single operations                                            *)

\* An update leaves settings of the right kind in the fields (updateConfig).
LEMMA FieldsKeepType ==
  ASSUME fields \in Fields, NEW service \in Services, NEW option \in Options[service]
  PROVE  [fields EXCEPT ![service] = option] \in Fields
<1>1. CASE service = "wifi"
  BY <1>1 DEF Fields, Options
<1>2. CASE service = "ap"
  BY <1>2 DEF Fields, Options
<1>3. CASE service = "ntp"
  BY <1>3 DEF Fields, Options
<1>4. CASE service = "ota"
  BY <1>4 DEF Fields, Options
<1> QED
  BY <1>1, <1>2, <1>3, <1>4 DEF Services

\* An update concerns the settings of one service only (updateConfig).
LEMMA OthersUntouched ==
  ASSUME fields \in Fields, NEW service \in Services, NEW option,
         NEW other \in Services \ {service}
  PROVE  [fields EXCEPT ![service] = option][other] = fields[other]
BY DEF Fields, Services

\* An event may be queued.
LEMMA QueueKeepsType ==
  ASSUME NEW queue \in Seq({"gotIP", "disconnected"}),
         NEW event \in {"gotIP", "disconnected"}
  PROVE  Append(queue, event) \in Seq({"gotIP", "disconnected"})
OBVIOUS

\* Switching the station off queues an event of the radio at most
\* (WiFi.disconnect).
LEMMA StopKeepsType ==
  ASSUME NEW queue \in Seq({"gotIP", "disconnected"}), StopStation(queue)
  PROVE  station' = "off" /\ events' \in Seq({"gotIP", "disconnected"})
BY QueueKeepsType DEF StopStation

---------------------------------------------------------------------------
(* Types                                                                     *)

LEMMA LoopType == TypeOK /\ Loop => TypeOK'
<1> SUFFICES ASSUME TypeOK, Loop PROVE TypeOK'
  OBVIOUS
<1> USE DEF TypeOK, serviceVars, stationVars, apVars, ntpVars, Goto
<1>1. CASE WifiLoop
  BY <1>1 DEF WifiLoop, manageSTA
<1>2. CASE ApLoop
  BY <1>2 DEF ApLoop, manageAP, Names
<1>3. CASE NtpLoop
  BY <1>3 DEF NtpLoop
<1>4. CASE NtpBegun
  <2>1. ntp' \in {None} \cup [server : NtpOptions, interval : NtpOptions \cup {None}]
    BY <1>4 DEF NtpBegun
  <2> QED
    BY <1>4, <2>1 DEF NtpBegun
<1>5. CASE OtaLoop \/ OtaHandled \/ DelayEnds
  BY <1>5 DEF OtaLoop, OtaHandled, DelayEnds
<1> QED
  BY <1>1, <1>2, <1>3, <1>4, <1>5 DEF Loop

LEMMA WorldType ==
  TypeOK /\ (\/ MinutePasses \/ TenSecondsPass \/ JoinSucceeds \/ JoinFails \/ LinkLost
             \/ Events \/ scanNetworks \/ ScanCompletes) => TypeOK'
<1> SUFFICES ASSUME TypeOK,
                    \/ MinutePasses \/ TenSecondsPass \/ JoinSucceeds \/ JoinFails
                    \/ LinkLost \/ Events \/ scanNetworks \/ ScanCompletes
             PROVE  TypeOK'
  OBVIOUS
<1> USE DEF TypeOK, serviceVars, stationVars, apVars, ntpVars
<1>1. CASE MinutePasses \/ TenSecondsPass
  BY <1>1 DEF MinutePasses, TenSecondsPass
<1>2. CASE JoinSucceeds \/ JoinFails \/ LinkLost
  <2>1. events' \in Seq({"gotIP", "disconnected"})
    BY <1>2, QueueKeepsType DEF JoinSucceeds, JoinFails, LinkLost, RadioChanges
  <2>2. station' \in {"off", "idle", "joining", "up"}
    BY <1>2 DEF JoinSucceeds, JoinFails, LinkLost, RadioChanges
  <2> QED
    BY <1>2, <2>1, <2>2 DEF JoinSucceeds, JoinFails, LinkLost, RadioChanges
<1>3. CASE onStationModeGotIP
  BY <1>3 DEF onStationModeGotIP, NextEvent, configureArduinoOTA
<1>4. CASE onStationModeDisconnected
  <2>1. Tail(events) \in Seq({"gotIP", "disconnected"})
    BY <1>4 DEF onStationModeDisconnected, NextEvent
  <2>2. station' = "off" /\ events' \in Seq({"gotIP", "disconnected"})
    BY <1>4, <2>1, StopKeepsType DEF onStationModeDisconnected
  <2>3. ~reconfigureNTP' /\ ntp' = None
    BY <1>4 DEF onStationModeDisconnected
  <2>4. UNCHANGED <<at, fields, pending, refused, joined, attemptDue, accessPoint,
                    manageDue, updater, scan>>
    BY <1>4 DEF onStationModeDisconnected
  <2>5. reconfigureNTP' \in BOOLEAN
    BY <1>4 DEF onStationModeDisconnected
  <2> QED
    BY <2>2, <2>3, <2>4, <2>5
<1>5. CASE scanNetworks
  <2>1. events' \in Seq({"gotIP", "disconnected"})
    BY <1>5, QueueKeepsType DEF scanNetworks
  <2>2. station' \in {"off", "idle", "joining", "up"} /\ scan' = "running"
    BY <1>5 DEF scanNetworks
  <2> QED
    BY <1>5, <2>1, <2>2 DEF scanNetworks
<1>6. CASE ScanCompletes
  BY <1>6 DEF ScanCompletes
<1> QED
  BY <1>1, <1>2, <1>3, <1>4, <1>5, <1>6 DEF Events

LEMMA RequestType ==
  ASSUME TypeOK, NEW service \in Services,
         updateConfig(service) \/ ResponseDestroyed(service)
  PROVE  TypeOK'
<1> USE ConnectivityAssumption DEF serviceVars, stationVars, apVars, ntpVars
<1>1. CASE updateConfig(service)
  <2>1. fields' \in Fields
    <3>1. PICK option \in Options[service] : fields' = [fields EXCEPT ![service] = option]
      BY <1>1 DEF updateConfig
    <3>2. fields \in Fields
      BY DEF TypeOK, Fields
    <3>3. [fields EXCEPT ![service] = option] \in Fields
      BY <3>2, FieldsKeepType
    <3> QED
      BY <3>1, <3>3
  <2>2. pending \in [Services -> 0..MaxPending] /\ refused \in [Services -> BOOLEAN]
    BY DEF TypeOK
  <2>3. pending' \in [Services -> 0..MaxPending]
    <3>1. CASE /\ pending[service] < MaxPending
               /\ pending' = [pending EXCEPT ![service] = @ + 1]
      <4>1. pending[service] + 1 \in 0..MaxPending
        BY <2>2, <3>1
      <4> QED
        BY <2>2, <3>1, <4>1
    <3> QED
      BY <1>1, <2>2, <3>1 DEF updateConfig
  <2>4. refused' \in [Services -> BOOLEAN]
    BY <1>1, <2>2 DEF updateConfig
  <2> QED
    BY <1>1, <2>1, <2>3, <2>4 DEF updateConfig, TypeOK, Fields
<1>2. CASE ResponseDestroyed(service)
  <2>1. pending' \in [Services -> 0..MaxPending]
    BY <1>2 DEF ResponseDestroyed, TypeOK
  <2>2. refused' \in [Services -> BOOLEAN]
    BY <1>2 DEF ResponseDestroyed, TypeOK
  <2>3. CASE WifiConfigUpdated
    BY <1>2, <2>1, <2>2, <2>3, StopKeepsType
       DEF ResponseDestroyed, WifiConfigUpdated, TypeOK
  <2>4. CASE ApConfigUpdated
    BY <1>2, <2>1, <2>2, <2>4 DEF ResponseDestroyed, ApConfigUpdated, TypeOK
  <2>5. CASE NtpConfigUpdated
    BY <1>2, <2>1, <2>2, <2>5 DEF ResponseDestroyed, NtpConfigUpdated, TypeOK
  <2>6. CASE OtaConfigUpdated
    BY <1>2, <2>1, <2>2, <2>6
       DEF ResponseDestroyed, OtaConfigUpdated, configureArduinoOTA, TypeOK
  <2> QED
    BY <1>2, <2>3, <2>4, <2>5, <2>6 DEF ResponseDestroyed, onConfigUpdated
<1> QED
  BY <1>1, <1>2

LEMMA StartInvariant ==
  /\ Init => IInv
  /\ Restart => IInv'
<1>1. [service \in Services |-> 0] \in [Services -> 0..MaxPending]
  BY ConnectivityAssumption
<1>2. <<>> \in Seq({"gotIP", "disconnected"})
  OBVIOUS
<1>3. ASSUME Init PROVE IInv
  <2>1. TypeOK
    BY <1>1, <1>2, <1>3 DEF Init, TypeOK
  <2> QED
    BY <1>3, <2>1 DEF Init, IInv, RadioRunsConfigured, ServicesRunConfigured
<1>4. ASSUME Restart PROVE IInv'
  <2>1. TypeOK'
    BY <1>1, <1>2, <1>4 DEF Restart, TypeOK
  <2> QED
    BY <1>4, <2>1 DEF Restart, IInv, RadioRunsConfigured, ServicesRunConfigured
<1> QED
  BY <1>3, <1>4

---------------------------------------------------------------------------
(* What runs is what was applied                                             *)

LEMMA LoopInvariant == IInv /\ Loop => IInv'
<1> SUFFICES ASSUME IInv, Loop PROVE IInv'
  OBVIOUS
<1>1. TypeOK'
  BY LoopType DEF IInv
<1> USE DEF IInv, RadioRunsConfigured, ServicesRunConfigured, Applied, TypeOK,
            serviceVars, stationVars, apVars, ntpVars, Goto
<1>2. CASE WifiLoop
  BY <1>1, <1>2 DEF WifiLoop, manageSTA
<1>3. CASE ApLoop
  BY <1>1, <1>3 DEF ApLoop, manageAP
<1>4. CASE NtpLoop
  BY <1>1, <1>4 DEF NtpLoop
<1>5. CASE NtpBegun
  BY <1>1, <1>5 DEF NtpBegun
<1>6. CASE OtaLoop \/ OtaHandled \/ DelayEnds
  BY <1>1, <1>6 DEF OtaLoop, OtaHandled, DelayEnds
<1> QED
  BY <1>2, <1>3, <1>4, <1>5, <1>6 DEF Loop

LEMMA WorldInvariant ==
  IInv /\ (\/ MinutePasses \/ TenSecondsPass \/ JoinSucceeds \/ JoinFails \/ LinkLost
           \/ Events \/ scanNetworks \/ ScanCompletes) => IInv'
<1> SUFFICES ASSUME IInv,
                    \/ MinutePasses \/ TenSecondsPass \/ JoinSucceeds \/ JoinFails
                    \/ LinkLost \/ Events \/ scanNetworks \/ ScanCompletes
             PROVE  IInv'
  OBVIOUS
<1>1. TypeOK'
  BY WorldType DEF IInv
<1> USE DEF IInv, RadioRunsConfigured, ServicesRunConfigured, Applied,
            serviceVars, stationVars, apVars, ntpVars
<1>2. CASE MinutePasses \/ TenSecondsPass
  BY <1>1, <1>2 DEF MinutePasses, TenSecondsPass
<1>3. CASE JoinSucceeds \/ JoinFails \/ LinkLost
  BY <1>1, <1>3 DEF JoinSucceeds, JoinFails, LinkLost, RadioChanges
<1>4. CASE onStationModeGotIP
  BY <1>1, <1>4 DEF onStationModeGotIP, configureArduinoOTA
<1>5. CASE onStationModeDisconnected
  BY <1>1, <1>5 DEF onStationModeDisconnected, StopStation
<1>6. CASE scanNetworks \/ ScanCompletes
  BY <1>1, <1>6 DEF scanNetworks, ScanCompletes
<1> QED
  BY <1>2, <1>3, <1>4, <1>5, <1>6 DEF Events

LEMMA UpdateInvariant ==
  ASSUME IInv, NEW service \in Services, updateConfig(service)
  PROVE  IInv'
<1>1. TypeOK'
  BY RequestType DEF IInv
<1>2. ~Applied(service)'
  BY DEF IInv, updateConfig, Applied, TypeOK
<1>3. ASSUME NEW other \in Services \ {service}
      PROVE  fields'[other] = fields[other] /\ (Applied(other)' => Applied(other))
  <2>1. fields'[other] = fields[other]
    BY <1>3, OthersUntouched DEF IInv, TypeOK, Fields, updateConfig
  <2>2. pending'[other] = pending[other] /\ refused'[other] = refused[other]
    BY <1>3 DEF IInv, TypeOK, updateConfig
  <2> QED
    BY <2>1, <2>2 DEF Applied
<1>4. UNCHANGED <<at, station, joined, accessPoint, reconfigureNTP, ntp, updater>>
  BY DEF updateConfig, stationVars, apVars, ntpVars
<1>5. RadioRunsConfigured'
  BY <1>2, <1>3, <1>4 DEF IInv, RadioRunsConfigured, Services
<1>6. ServicesRunConfigured'
  BY <1>2, <1>3, <1>4 DEF IInv, ServicesRunConfigured, Services
<1> QED
  BY <1>1, <1>5, <1>6 DEF IInv

LEMMA ResponseInvariant ==
  ASSUME IInv, NEW service \in Services, ResponseDestroyed(service)
  PROVE  IInv'
<1>1. TypeOK'
  BY RequestType DEF IInv
<1>2. ASSUME NEW other \in Services \ {service}
      PROVE  Applied(other)' => Applied(other)
  BY <1>2 DEF IInv, TypeOK, ResponseDestroyed, Applied
<1>3. UNCHANGED <<at, fields>>
  BY DEF ResponseDestroyed
<1> USE DEF IInv, RadioRunsConfigured, ServicesRunConfigured, Services
<1>4. CASE service = "wifi" /\ WifiConfigUpdated
  <2>1. station' = "off" /\ UNCHANGED <<accessPoint, reconfigureNTP, ntp, updater>>
    BY <1>4 DEF WifiConfigUpdated, StopStation, apVars, ntpVars
  <2> QED
    BY <1>1, <1>2, <1>3, <1>4, <2>1
<1>5. CASE service = "ap" /\ ApConfigUpdated
  <2>1. accessPoint' = None /\ UNCHANGED <<station, joined, reconfigureNTP, ntp, updater>>
    BY <1>5 DEF ApConfigUpdated, stationVars, ntpVars
  <2> QED
    BY <1>1, <1>2, <1>3, <1>5, <2>1
<1>6. CASE service = "ntp" /\ NtpConfigUpdated
  <2>1. reconfigureNTP' /\ UNCHANGED <<station, joined, accessPoint, updater>>
    BY <1>6 DEF NtpConfigUpdated, stationVars, apVars
  <2> QED
    BY <1>1, <1>2, <1>3, <1>6, <2>1
<1>7. CASE service = "ota" /\ OtaConfigUpdated
  <2>1. updater' = fields.ota /\ UNCHANGED <<station, joined, accessPoint, reconfigureNTP, ntp>>
    BY <1>7 DEF OtaConfigUpdated, configureArduinoOTA, stationVars, apVars, ntpVars
  <2> QED
    BY <1>1, <1>2, <1>3, <1>7, <2>1
<1> QED
  BY <1>4, <1>5, <1>6, <1>7 DEF ResponseDestroyed, onConfigUpdated

---------------------------------------------------------------------------
(* Theorems                                                                  *)

\* The invariant that the others follow from.
THEOREM ConnectivityInvariance == Spec => []IInv
<1>1. Init => IInv
  BY StartInvariant
<1>2. IInv /\ [Next]_vars => IInv'
  <2> SUFFICES ASSUME IInv, [Next]_vars PROVE IInv'
    OBVIOUS
  <2>1. CASE UNCHANGED vars
    BY <2>1 DEF IInv, TypeOK, RadioRunsConfigured, ServicesRunConfigured, Applied,
         vars, serviceVars, stationVars, apVars, ntpVars
  <2>2. CASE \E service \in Posting : updateConfig(service) \/ ResponseDestroyed(service)
    BY <2>2, UpdateInvariant, ResponseInvariant, ConnectivityAssumption
  <2> QED
    BY <2>1, <2>2, LoopInvariant, WorldInvariant, StartInvariant DEF Next
<1> QED
  BY <1>1, <1>2, PTL DEF Spec

\* Every variable keeps its type, for all settings and bounds.
THEOREM ConnectivityTypeCorrect == Spec => []TypeOK
<1>1. IInv => TypeOK
  BY DEF IInv
<1> QED
  BY <1>1, ConnectivityInvariance, PTL

\* Station and access point never go on with the settings of an earlier
\* update, once every update has been applied (reconfigureWiFiConnection,
\* APSettingsService::onConfigUpdated).
THEOREM RadioNeverStale == Spec => []RadioRunsConfigured
<1>1. IInv => RadioRunsConfigured
  BY DEF IInv
<1> QED
  BY <1>1, ConnectivityInvariance, PTL

\* Neither do NTP and the updater, whatever arrives while NTP.begin waits
\* (configureNTP, configureArduinoOTA).
THEOREM ServicesNeverStale == Spec => []ServicesRunConfigured
<1>1. IInv => ServicesRunConfigured
  BY DEF IInv
<1> QED
  BY <1>1, ConnectivityInvariance, PTL
=============================================================================
