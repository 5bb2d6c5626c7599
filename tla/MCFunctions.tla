---------------------------- MODULE MCFunctions ----------------------------
(* The parts that run by themselves, each in behaviours of its own: the      *)
(* functions of the lab, of the settings and of the pages, on an input built *)
(* in steps, and the scripts that publish a release and install the CLI.     *)
EXTENDS Pages

E == INSTANCE EnergySession

CONSTANTS
  None,
  MaxSeconds, Fees, EnergyRates, TimeRates, Taxes, Steps,   \* the lab
  Publishers, Commits, Files, CommitOf,                     \* release.py
  Installers, Binaries,                                     \* install.sh
  p1, p2, c1, c2

\* The tag was moved from one commit to another.
MCCommitOf == p1 :> c1 @@ p2 :> c2

\* Amounts are whole and never negative.
ASSUME BillAssumption == Fees \cup EnergyRates \cup TimeRates \cup Taxes \cup Steps \subseteq Nat

VARIABLES
  part,                                        \* what the behaviour is about
  input,                                       \* the input of the functions
  publishing, package, remoteTag, release,     \* release.py
  installing, binary, sums, staged, destination  \* install.sh

R == INSTANCE Release WITH step <- publishing
I == INSTANCE Installer WITH step <- installing

publication == <<publishing, package, remoteTag, release>>
installation == <<installing, binary, sums, staged, destination>>
vars == <<part, input, publication, installation>>

---------------------------------------------------------------------------
(* Objects that a client may post or flash: for each service the members it  *)
(* reads, with values on both sides of its bounds.                           *)

Services == {"ntp", "ota", "ap", "wifi", "security", "smartpod"}

Accounts ==
  {[username |-> "ada", password |-> "pw", admin |-> TRUE],
   [username |-> "bob", password |-> "pw"],
   [password |-> "pw"]}

\* A character takes one to three bytes, as in 40 accented letters.
Passwords ==
  {t \in {Text(c, b) : c \in {0, 7, 8, 21, 22, 40, 63, 64}, b \in {0, 7, 8, 21, 63, 64, 80, 189}} :
     t.characters <= t.bytes /\ t.bytes <= 3 * t.characters}

Members(s) ==
  CASE s = "ntp" -> [server : {"", " ", "time.lan"},
                     interval : {-1, 0, 59, 60, 3600, 86400, 86401}]
    [] s = "ota" -> [enabled : BOOLEAN, port : {-1, 0, 8266}, password : {"pw"}]
    [] s = "ap" -> [provision_mode : {-1, 0, 1, 2, 3, 255, 256, 258}, ssid : {"pod"},
                    password : Passwords]
    [] s = "wifi" -> [ssid : {"home"}, static_ip_config : BOOLEAN,
                      local_ip : {"010.0.0.1", "10.0"}, gateway_ip : {"10.0.0.1", ""},
                      subnet_mask : {"255.255.0.0"}, dns_ip_1 : {"10.0.0.1", NoAddress},
                      dns_ip_2 : {"10.0.0.2", "010.0.0.1"}]
    [] s = "security" -> [jwt_secret : {"s"}, users : UNION {[1..n -> Accounts] : n \in 0..2}]
    [] s = "smartpod" -> [sensor_type : SensorTypes \cup {"ACS758"}, sensor_id : {7},
                          frequency : {60}, voltage : {110}, power : {9}]

Read(service, o) ==
  CASE service = "ntp" -> NtpRead(o)
    [] service = "ota" -> OtaRead(o)
    [] service = "ap" -> ApRead(o)
    [] service = "wifi" -> WifiRead(o)
    [] service = "security" -> SecurityRead(o)
    [] service = "smartpod" -> SmartPodRead(o)

Write(service, settings) ==
  CASE service = "ntp" -> NtpWrite(settings)
    [] service = "ota" -> OtaWrite(settings)
    [] service = "ap" -> ApWrite(settings)
    [] service = "wifi" -> WifiWrite(settings)
    [] service = "security" -> SecurityWrite(settings)
    [] service = "smartpod" -> SmartPodWrite(settings)

---------------------------------------------------------------------------
(* What is typed into the forms.                                             *)

Numbers(wholes) == [whole : wholes, fraction : BOOLEAN]

TypedAp ==
  [provision_mode : 0..2, ssid : {0, 1, 32, 33}, password : Passwords]
TypedNtp ==
  [server : {"", "pod", "10.0", "010.0.0.1", NoAddress, "bad host"},
   interval : Numbers({0, 59, 60, MaxInterval, MaxInterval + 1})]
TypedOta ==
  [enabled : BOOLEAN, port : Numbers({0, 1024, 1025, 65535, 65536}), password : {0, 1, 64, 65}]
TypedSecurity == [jwt_secret : {0, 1, 64, 65}, users : {<<>>}]

\* The form of a network has the addresses that it was loaded with, or that
\* were typed into it since.
Missing == "missing"

WithAddresses(data, addresses) ==
  [k \in DOMAIN data \cup {j \in Addresses : addresses[j] # Missing} |->
     IF k \in DOMAIN data THEN data[k] ELSE addresses[k]]

NetworkData ==
  {SelectedData(32)} \cup
  [ssid : {32, 33}, password : {0, 64, 65}, hostname : {"", "pod"}, static_ip_config : BOOLEAN]

AddressData ==
  [local_ip : {Missing, "010.0.0.1", "10.0", NoAddress}, gateway_ip : {Missing, "10.0.0.1"},
   subnet_mask : {Missing, "", "255.255.0.0", NoAddress},
   dns_ip_1 : {Missing, "", "10.0.0.1", NoAddress}, dns_ip_2 : {Missing, "010.0.0.1", "10.0.0.2"}]

TypedNetwork ==
  {WithAddresses(data, addresses) : data \in NetworkData, addresses \in AddressData}

Networks == {"none", "open", "protected"}

Typed(form) ==
  CASE form = "ap" -> TypedAp
    [] form = "ntp" -> TypedNtp
    [] form = "ota" -> TypedOta
    [] form = "security" -> TypedSecurity
    [] form \in Networks -> TypedNetwork

Forms == {"ap", "ntp", "ota", "security"} \cup Networks
Service(form) == IF form \in Networks THEN "wifi" ELSE form

Accepts(form, data) ==
  CASE form = "ap" -> ApAccepts(data)
    [] form = "ntp" -> NtpAccepts(data)
    [] form = "ota" -> OtaAccepts(data)
    [] form = "security" -> SecurityAccepts(data)
    [] OTHER -> WifiAccepts(form, data)

Fields(form, data) ==
  CASE form = "ap" -> ApFields(data)
    [] form = "ntp" -> NtpFields
    [] form = "ota" -> OtaFields
    [] form = "security" -> SecurityFields
    [] OTHER -> WifiFields(form, data)

---------------------------------------------------------------------------
NoMembers == [k \in {} |-> ""]

ObjectInputs == {[kind |-> "object", service |-> s, root |-> NoMembers] : s \in Services}
BillInputs ==
  {[kind |-> "bill", energy |-> 0, seconds |-> 0, tariff |-> tariff] :
     tariff \in [fixed : Fees, energyPerKwh : EnergyRates, timePerMinute : TimeRates,
                taxBasisPoints : Taxes]}
PortInputs == [kind : {"port"}, state : E!States, output : E!Outputs]
WifiStatusInputs ==
  [kind : {"wifi status"}, status : 0..7 \cup {255}, dns : SUBSET {"dns_ip_1", "dns_ip_2"}]
NtpStatusInputs == [kind : {"ntp status"}, status : 0..2]
FormInputs == UNION {[kind : {"form"}, form : {form}, data : Typed(form)] : form \in Forms}

Inputs ==
  ObjectInputs \cup BillInputs \cup PortInputs \cup WifiStatusInputs \cup NtpStatusInputs
  \cup FormInputs

Init ==
  /\ part \in {"functions", "release", "installer"}
  /\ IF part = "functions" THEN input \in Inputs ELSE input = [kind |-> "none"]
  /\ IF part = "release" THEN R!Init
     ELSE publishing = None /\ package = None /\ remoteTag = None /\ release = None
  /\ IF part = "installer" THEN I!Init
     ELSE installing = None /\ binary = None /\ sums = None /\ staged = None /\ destination = None

AddMember ==
  /\ input.kind = "object"
  /\ LET fields == Members(input.service) IN
     \E o \in fields : \E k \in DOMAIN o \ DOMAIN input.root :
       input' = [input EXCEPT !.root = @ @@ (k :> o[k])]
  /\ UNCHANGED <<part, publication, installation>>

Second ==
  /\ input.kind = "bill"
  /\ input.seconds < MaxSeconds
  /\ \E energy \in Steps :
       input' = [input EXCEPT !.seconds = @ + 1, !.energy = @ + energy]
  /\ UNCHANGED <<part, publication, installation>>

Publication == part = "release" /\ R!Next /\ UNCHANGED <<part, input, installation>>
Installation == part = "installer" /\ I!Next /\ UNCHANGED <<part, input, publication>>

Next == AddMember \/ Second \/ Publication \/ Installation

Spec == Init /\ [][Next]_vars

---------------------------------------------------------------------------
\* calculateCharge rounds every line once, to the nearest minor unit with
\* halves up, and taxes the rounded subtotal; before a session it is zero.
TotalIsNearest ==
  input.kind = "bill" =>
    /\ E!IsTotal(E!Charge(input.energy, input.seconds, input.tariff, TRUE),
                 input.energy, input.seconds, input.tariff)
    /\ E!Charge(input.energy, input.seconds, input.tariff, FALSE) = 0

\* What a service writes to its file is read back, at the next start, as the
\* settings it had, whatever was posted (readFromJsonObject,
\* writeToJsonObject); the sensor's service is the exception below.
StoredMeansSame ==
  input.kind = "object" /\ input.service # "smartpod" =>
    LET settings == Read(input.service, input.root)
    IN Read(input.service, Write(input.service, settings)) = settings

\* "Configuration services persist JSON under data/config", where the image
\* has the sensor's type, pin and id: stored settings are read back the same.
SensorSettingsStored ==
  input.kind = "object" /\ input.service = "smartpod" =>
    SmartPodRead(SmartPodWrite(SmartPodRead(input.root))) = SmartPodRead(input.root)

NameServers(data) == {Normal(Or(data, k, "")) : k \in {"dns_ip_1", "dns_ip_2"}} \ {""}

\* The answer has in its member k what was typed: the same number, the same
\* address, if in another spelling, or the same text.
ShowsField(answer, data, k) ==
  IF k \in NumberFields THEN answer[k] = data[k].whole /\ ~data[k].fraction
  ELSE IF k \in Addresses THEN Or(answer, k, "") = Normal(Or(data, k, ""))
  ELSE answer[k] = data[k]

\* Name servers may change places.
Shows(answer, data, fields) ==
  /\ \A k \in fields \ {"dns_ip_1", "dns_ip_2"} : ShowsField(answer, data, k)
  /\ "dns_ip_1" \in fields => NameServers(answer) = NameServers(data)

\* What a form accepts and the firmware does not keep: a password of at most
\* 63 characters but more bytes, for which it takes its default; the broadcast
\* address, which is its mark for no address; a fraction, which it cuts off.
Lost(form, data) ==
  \/ form = "ap" /\ isAPEnabled(data.provision_mode) /\ data.password.bytes > 63
  \/ form = "ntp" /\ data.interval.fraction
  \/ form = "ota" /\ data.port.fraction
  \/ form \in Networks /\ data.static_ip_config
     /\ \E k \in Addresses : Or(data, k, "") = NoAddress

\* A form that lets data be saved shows, when the firmware answers, what was
\* typed in every field it shows, except in the cases of Lost and in all of
\* them: no other value that a form accepts is replaced by a default or a
\* limit of the firmware (the forms, readFromJsonObject, writeToJsonObject).
FormsAgree ==
  input.kind = "form" /\ Accepts(input.form, input.data) =>
    LET service == Service(input.form)
        answer == Write(service, Read(service, Posted(input.data))) IN
    Shows(answer, input.data, Fields(input.form, input.data)) <=> ~Lost(input.form, input.data)

\* Every member that a status page shows is in the answer that has its status.
StatusIsSent ==
  /\ input.kind = "wifi status" =>
       LET answer == wifiStatus(input.status, input.dns)
       IN WiFiStatusPage(input.status, answer) \subseteq answer
  /\ input.kind = "ntp status" => NTPStatusPage(input.status) \subseteq ntpStatus(input.status)
  /\ APStatusPage \subseteq apStatus
  /\ SystemStatusPage \subseteq systemStatus
  /\ SmartPodStatusPage \subseteq smartpodStatus

\* A port is reported available exactly when a session could be started on
\* it and its output is known to be open: completion alone proves nothing.
AvailableMeansStartable ==
  input.kind = "port" =>
    (E!PortState(input.state, input.output) = "available" <=>
       E!Defined(input.state, "start_requested") /\ input.output = "open")

\* What the interface shows of the device, and reports of a port, is so, but
\* for what the firmware loses of a form's data.
ShownIsSo == FormsAgree /\ StatusIsSent /\ AvailableMeansStartable

\* What release.py makes public is what it verified.
PublishedIsVerified == part = "release" => R!PublishedIsVerified

\* What install.sh leaves at the destination is the old binary or the new one.
OldOrNew == part = "installer" => I!OldOrNew
=============================================================================
