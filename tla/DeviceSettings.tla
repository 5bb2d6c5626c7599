------------------------- MODULE DeviceSettings -------------------------
(* The settings of the firmware's services: how each service reads them      *)
(* from a JSON object (readFromJsonObject) and writes them back              *)
(* (writeToJsonObject). A JSON object is a function whose domain is the set  *)
(* of the members present; a member of the wrong type is read as a missing   *)
(* one, so it is left out. Texts matter by identity only, except addresses   *)
(* and the access point's password, of which the firmware measures the bytes *)
(* (UTF-8) and the form that posts it the characters (UTF-16).               *)
EXTENDS Integers, Sequences, TLC

\* ArduinoJson's root[key] | default.
Or(root, key, default) == IF key \in DOMAIN root THEN root[key] ELSE default

Only(root, keys) == [k \in keys |-> root[k]]

---------------------------------------------------------------------------
(* NTP. The interval is an int that reads as 0 when it is missing.           *)

DefaultServer == "pool.ntp.org"
MinInterval == 60
MaxInterval == 86400

Blank == {"", " "}
trim(text) == IF text \in Blank THEN "" ELSE text

\* !text of an Arduino String: true of a String without a buffer, which no
\* assigned text is, the empty one included.
Invalid(text) == FALSE

Clamp(n, low, high) == IF n < low THEN low ELSE IF n > high THEN high ELSE n

NtpRead(root) ==
  LET server == trim(Or(root, "server", DefaultServer))
  IN [server |-> IF Invalid(server) THEN DefaultServer ELSE server,
      interval |-> Clamp(Or(root, "interval", 0), MinInterval, MaxInterval)]

NtpWrite(settings) == settings

---------------------------------------------------------------------------
(* OTA updates                                                               *)

DefaultOtaPort == 8266

OtaRead(root) ==
  LET port == Or(root, "port", 0)
  IN [enabled |-> Or(root, "enabled", FALSE),
      port |-> IF port < 0 THEN DefaultOtaPort ELSE port,
      password |-> Or(root, "password", "esp-react")]

OtaWrite(settings) == settings

---------------------------------------------------------------------------
(* Access point. The provision mode is kept in a uint8_t.                    *)

AlwaysOn == 0
OnWhenDisconnected == 1
NeverOn == 2

Text(characters, bytes) == [characters |-> characters, bytes |-> bytes]
DefaultPassword == Text(8, 8)      \* "password"

ApRead(root) ==
  LET mode == Or(root, "provision_mode", AlwaysOn) % 256
      password == Or(root, "password", DefaultPassword)
  IN [provision_mode |-> IF mode \in {AlwaysOn, OnWhenDisconnected, NeverOn}
                           THEN mode ELSE AlwaysOn,
      ssid |-> Or(root, "ssid", "ssid"),
      password |-> IF password.bytes \in 8..63 THEN password ELSE DefaultPassword]

ApWrite(settings) == settings

---------------------------------------------------------------------------
(* Wi-Fi. An IPAddress is the text that toString makes of it. One that is    *)
(* missing, no address or the broadcast address is NoAddress (INADDR_NONE),  *)
(* and NoAddress is not written.                                             *)

NoAddress == "255.255.255.255"
IPAddresses == {"10.0.0.1", "10.0.0.2", "255.255.0.0"}

\* The text without the leading zeros of its numbers.
Normal(text) == IF text = "010.0.0.1" THEN "10.0.0.1" ELSE text

fromString(text) == IF Normal(text) \in IPAddresses THEN Normal(text) ELSE NoAddress

Addresses == {"local_ip", "gateway_ip", "subnet_mask", "dns_ip_1", "dns_ip_2"}

readIP(root, key) == fromString(Or(root, key, ""))

WifiRead(root) ==
  LET ip == [k \in Addresses |-> readIP(root, k)]
      swap == ip["dns_ip_1"] = NoAddress
  IN [ssid |-> Or(root, "ssid", ""),
      password |-> Or(root, "password", ""),
      hostname |-> Or(root, "hostname", ""),
      static_ip_config |->
        /\ Or(root, "static_ip_config", FALSE)
        /\ \A k \in {"local_ip", "gateway_ip", "subnet_mask"} : ip[k] # NoAddress,
      local_ip |-> ip["local_ip"],
      gateway_ip |-> ip["gateway_ip"],
      subnet_mask |-> ip["subnet_mask"],
      dns_ip_1 |-> IF swap THEN ip["dns_ip_2"] ELSE ip["dns_ip_1"],
      dns_ip_2 |-> IF swap THEN NoAddress ELSE ip["dns_ip_2"]]

\* Mutant: addresses are written only for a static configuration.
WifiWriteStaticOnly(settings) ==
  Only(settings, {k \in DOMAIN settings :
                    k \in Addresses => settings.static_ip_config /\ settings[k] # NoAddress})

WifiWrite(settings) ==
  Only(settings, {k \in DOMAIN settings : k \in Addresses => settings[k] # NoAddress})

---------------------------------------------------------------------------
(* Security: the signing secret and the accounts. A missing text converts    *)
(* to the String "null".                                                     *)

User(account) ==
  [username |-> Or(account, "username", "null"),
   password |-> Or(account, "password", "null"),
   admin |-> Or(account, "admin", FALSE)]

SecurityRead(root) ==
  LET users == Or(root, "users", <<>>)
  IN [jwt_secret |-> Or(root, "jwt_secret", "esp8266-react"),
      users |-> [i \in DOMAIN users |-> User(users[i])]]

SecurityWrite(settings) == settings

---------------------------------------------------------------------------
(* Sensor. A name that is not in the table of types is added to it with the  *)
(* zero of the enumeration, the 5 ampere sensor.                             *)

SensorTypes == {"ACS712_05B", "ACS712_20A", "ACS712_30A"}

SensorType(name) == IF name \in SensorTypes THEN name ELSE "ACS712_05B"

Readings == {"voltage", "current", "power", "energy_usage", "energy_traiff", "energy_bill"}

SmartPodRead(root) ==
  [sensor_type |-> SensorType(Or(root, "sensor_type", "ACS712_30A")),
   sensor_pin |-> Or(root, "sensor_pin", "A0"),
   sensor_id |-> Or(root, "sensor_id", 712),
   frequency |-> Or(root, "frequency", 50)] @@
  [k \in Readings |-> Or(root, k, IF k = "voltage" THEN 230 ELSE 0)]

SmartPodWrite(settings) == Only(settings, Readings)
=============================================================================
