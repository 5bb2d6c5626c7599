-------------------------------- MODULE Pages --------------------------------
(* The pages of the web interface against the services they are for: what a  *)
(* form accepts in the fields it shows, and the members of an answer that a  *)
(* status page shows.                                                        *)
(*                                                                           *)
(* Texts are told apart by what the validators make of them. A text of which *)
(* only the number of characters matters is that number. What is typed into  *)
(* a field for a number is its whole part and whether a fraction follows.    *)
EXTENDS DeviceSettings

---------------------------------------------------------------------------
(* Validators                                                                *)

isIP(text) ==
  text \in {"10.0.0.1", "010.0.0.1", "10.0.0.2", "255.255.0.0", "255.255.255.255"}

\* Labels may be all digits, so addresses are among the hostnames.
isHostname(text) == isIP(text) \/ text \in {"pod", "smartpod", "time.lan", "10.0"}

optionalIP(text) == text = "" \/ isIP(text)
isIPOrHostname(text) == isIP(text) \/ isHostname(text)

---------------------------------------------------------------------------
(* The forms: the fields shown with these data, and whether they let them be *)
(* saved. A field that is not shown is not validated, but saved all the same.*)
(* Patterns count characters; isNumber lets a fraction pass, and the limits  *)
(* of a number are those of its whole part.                                  *)

isAPEnabled(mode) == mode \in {AlwaysOn, OnWhenDisconnected}

ApFields(data) ==
  {"provision_mode"} \cup (IF isAPEnabled(data.provision_mode) THEN {"ssid", "password"} ELSE {})

\* Mutant: the limits of a station's password, as in the form of the station.
ApAcceptsAnyPassword(data) ==
  isAPEnabled(data.provision_mode) => data.ssid \in 1..32 /\ data.password.characters \in 1..64

ApAccepts(data) ==
  isAPEnabled(data.provision_mode) => data.ssid \in 1..32 /\ data.password.characters \in 8..63

NtpFields == {"server", "interval"}
Intervals == 60..86400
NtpAccepts(data) == isIPOrHostname(data.server) /\ data.interval.whole \in Intervals

OtaFields == {"enabled", "port", "password"}
Ports == 1025..65535
OtaAccepts(data) == data.port.whole \in Ports /\ data.password \in 1..64

SecurityFields == {"jwt_secret"}
SecurityAccepts(data) == data.jwt_secret \in 1..64

isNetworkOpen(selected) == selected = "open"

\* What the form of a network selected in the scan starts from.
SelectedData(ssid) ==
  [ssid |-> ssid, password |-> 0, hostname |-> "smartpod", static_ip_config |-> FALSE]

WifiFields(selected, data) ==
  {"hostname", "static_ip_config"}
  \cup (IF selected = "none" THEN {"ssid"} ELSE {})
  \cup (IF isNetworkOpen(selected) THEN {} ELSE {"password"})
  \cup (IF data.static_ip_config THEN Addresses ELSE {})

WifiAccepts(selected, data) ==
  /\ selected = "none" => data.ssid \in 0..32
  /\ ~isNetworkOpen(selected) => data.password \in 1..64
  /\ isHostname(data.hostname)
  /\ data.static_ip_config =>
       /\ \A k \in {"local_ip", "gateway_ip", "subnet_mask"} : isIP(Or(data, k, ""))
       /\ \A k \in {"dns_ip_1", "dns_ip_2"} : optionalIP(Or(data, k, ""))

\* The data as the firmware parses them: it reads an int from a text that is a
\* number by leaving out the fraction.
NumberFields == {"interval", "port"}

Posted(data) ==
  [k \in DOMAIN data |-> IF k \in NumberFields THEN data[k].whole ELSE data[k]]

---------------------------------------------------------------------------
(* The status answers, as the members they have, and what the pages show of  *)
(* them. A member shown through a fallback may be missing.                   *)

WL_CONNECTED == 3
timeNotSet == 0

wifiStatus(status, dns) ==
  {"status"} \cup
  (IF status # WL_CONNECTED THEN {}
   ELSE {"local_ip", "mac_address", "rssi", "ssid", "bssid", "channel", "subnet_mask",
         "gateway_ip"} \cup dns)

ntpStatus(status) ==
  {"status", "last_sync", "server", "interval", "uptime"}
  \cup (IF status # timeNotSet THEN {"now"} ELSE {})

apStatus == {"active", "ip_address", "mac_address", "station_num"}

systemStatus ==
  {"esp_platform", "cpu_freq_mhz", "free_heap", "sketch_size", "free_sketch_space",
   "sdk_version", "flash_chip_size", "flash_chip_speed"}

smartpodStatus ==
  {"voltage", "current", "power", "energy_usage", "energy_traiff", "energy_bill"}

isConnected(status) == status = 3

dnsServers(answer) ==
  IF "dns_ip_1" \notin answer THEN {} ELSE {"dns_ip_1"} \cup ({"dns_ip_2"} \cap answer)

WiFiStatusPage(status, answer) ==
  {"status"} \cup
  (IF isConnected(status)
   THEN {"ssid", "local_ip", "mac_address", "subnet_mask"} \cup ({"gateway_ip"} \cap answer)
        \cup dnsServers(answer)
   ELSE {})

isSynchronized(status) == status \in {1, 2}

NTPStatusPage(status) ==
  {"status", "server", "interval", "uptime"}
  \cup (IF isSynchronized(status) THEN {"now", "last_sync"} ELSE {})

APStatusPage == {"active", "ip_address", "mac_address", "station_num"}

SystemStatusPage ==
  {"esp_platform", "cpu_freq_mhz", "free_heap", "sketch_size", "free_sketch_space",
   "flash_chip_size"}

SmartPodStatusPage ==
  {"voltage", "current", "power", "energy_usage", "energy_traiff", "energy_bill"}
=============================================================================
