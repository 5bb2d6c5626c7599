-------------------------- MODULE FunctionsProofs --------------------------
(* The functions of the lab, of the settings and of the pages on every input *)
(* of their kind, and the scripts among the behaviours of MCFunctions.       *)
EXTENDS MCFunctions, TLAPS

RP == INSTANCE ReleaseProofs WITH step <- publishing
IP == INSTANCE InstallerProofs WITH step <- installing

---------------------------------------------------------------------------
(* The charge                                                                *)

Divisors == {E!PerMinute, E!PerWhole, E!PerKwh}

LEMMA QuotientIsNearest ==
  ASSUME NEW a \in Nat, NEW b \in Divisors
  PROVE  E!RoundDiv(a, b) \in Nat /\ E!Nearest(E!RoundDiv(a, b), a, b)
<1>1. CASE b = E!PerMinute
  BY <1>1, SMT DEF E!RoundDiv, E!Nearest, E!PerMinute
<1>2. CASE b = E!PerWhole
  BY <1>2, SMT DEF E!RoundDiv, E!Nearest, E!PerWhole
<1>3. CASE b = E!PerKwh
  BY <1>3, SMT DEF E!RoundDiv, E!Nearest, E!PerKwh
<1> QED BY <1>1, <1>2, <1>3 DEF Divisors

LEMMA ProductIsNatural ==
  ASSUME NEW a \in Nat, NEW b \in Nat
  PROVE  a * b \in Nat
OBVIOUS

Bills == [fixed : Nat, energyPerKwh : Nat, timePerMinute : Nat, taxBasisPoints : Nat]

LEMMA ChargeIsNearest ==
  ASSUME NEW energy \in Nat, NEW seconds \in Nat, NEW tariff \in Bills
  PROVE  /\ E!IsTotal(E!Charge(energy, seconds, tariff, TRUE), energy, seconds, tariff)
         /\ E!Charge(energy, seconds, tariff, FALSE) = 0
<1> DEFINE f == tariff["fixed"]
           x == energy * tariff["energyPerKwh"]
           y == seconds * tariff["timePerMinute"]
           e == E!RoundDiv(x, E!PerKwh)
           t == E!RoundDiv(y, E!PerMinute)
           s == f + e + t
           z == s * tariff["taxBasisPoints"]
           tax == E!RoundDiv(z, E!PerWhole)
           total == E!Charge(energy, seconds, tariff, TRUE)
<1>1. f \in Nat /\ x \in Nat /\ y \in Nat /\ tariff["taxBasisPoints"] \in Nat
  BY ProductIsNatural DEF Bills
<1> HIDE DEF x, y, f
<1>2. /\ e \in Nat /\ E!Nearest(e, x, E!PerKwh)
      /\ t \in Nat /\ E!Nearest(t, y, E!PerMinute)
  BY <1>1, QuotientIsNearest DEF Divisors
<1>3. total = s + tax
  BY DEF E!Charge, E!Taxed, E!Subtotal, x, y, f
<1> HIDE DEF e, t
<1>4. s \in Nat
  BY <1>1, <1>2
<1> HIDE DEF s
<1>5. z \in Nat
  BY <1>1, <1>4, ProductIsNatural
<1>6. s = f + e + t /\ z = s * tariff["taxBasisPoints"]
  BY DEF s
<1> HIDE DEF z
<1>7. tax \in Nat /\ E!Nearest(tax, z, E!PerWhole)
  BY <1>5, QuotientIsNearest DEF Divisors
<1> HIDE DEF tax, total
<1>8. total - s = tax /\ e \in 0..total /\ t \in 0..total
  BY <1>1, <1>2, <1>3, <1>4, <1>6, <1>7
<1>9. E!Nearest(total - (f + e + t), (f + e + t) * tariff["taxBasisPoints"], E!PerWhole)
  BY <1>6, <1>7, <1>8
<1>10. E!IsTotal(total, energy, seconds, tariff)
  BY <1>2, <1>8, <1>9 DEF E!IsTotal, x, y, f
<1> QED BY <1>10 DEF E!Charge, total

---------------------------------------------------------------------------
(* What a service stores                                                     *)

LEMMA NtpStored ==
  ASSUME NEW root
  PROVE  NtpRead(NtpWrite(NtpRead(root))) = NtpRead(root)
<1> DEFINE n == Clamp(Or(root, "interval", 0), MinInterval, MaxInterval)
           text == trim(Or(root, "server", DefaultServer))
           r == NtpRead(root)
<1>1. r = [server |-> text, interval |-> n]
  BY DEF NtpRead, Invalid
<1>2. Clamp(n, MinInterval, MaxInterval) = n
  BY DEF Clamp, MinInterval, MaxInterval
<1>3. trim(text) = text
  BY DEF trim, Blank
<1> HIDE DEF n, text
<1>4. Or(r, "server", DefaultServer) = text /\ Or(r, "interval", 0) = n
  BY <1>1 DEF Or
<1> HIDE DEF r
<1>5. NtpRead(r) = [server |-> text, interval |-> n]
  BY <1>2, <1>3, <1>4 DEF NtpRead, Invalid
<1> QED BY <1>1, <1>5 DEF NtpWrite, r

LEMMA OtaStored ==
  ASSUME NEW root
  PROVE  OtaRead(OtaWrite(OtaRead(root))) = OtaRead(root)
<1> DEFINE port == Or(root, "port", 0)
           n == IF port < 0 THEN DefaultOtaPort ELSE port
           on == Or(root, "enabled", FALSE)
           p == Or(root, "password", "esp-react")
           r == OtaRead(root)
<1>1. r = [enabled |-> on, port |-> n, password |-> p]
  BY DEF OtaRead
<1>2. (IF n < 0 THEN DefaultOtaPort ELSE n) = n
  BY DEF DefaultOtaPort
<1> HIDE DEF n, on, p
<1>3. Or(r, "enabled", FALSE) = on /\ Or(r, "port", 0) = n /\ Or(r, "password", "esp-react") = p
  BY <1>1 DEF Or
<1> HIDE DEF r
<1>4. OtaRead(r) = [enabled |-> on, port |-> n, password |-> p]
  BY <1>2, <1>3 DEF OtaRead
<1> QED BY <1>1, <1>4 DEF OtaWrite, r

LEMMA ApStored ==
  ASSUME NEW root
  PROVE  ApRead(ApWrite(ApRead(root))) = ApRead(root)
<1> DEFINE mode == Or(root, "provision_mode", AlwaysOn) % 256
           m == IF mode \in {AlwaysOn, OnWhenDisconnected, NeverOn} THEN mode ELSE AlwaysOn
           password == Or(root, "password", DefaultPassword)
           p == IF password.bytes \in 8..63 THEN password ELSE DefaultPassword
           i == Or(root, "ssid", "ssid")
           r == ApRead(root)
<1>1. r = [provision_mode |-> m, ssid |-> i, password |-> p]
  BY DEF ApRead
<1>2. m \in {0, 1, 2} /\ p.bytes \in 8..63
  BY DEF AlwaysOn, OnWhenDisconnected, NeverOn, DefaultPassword, Text
<1> HIDE DEF m, p, i
<1>3. /\ Or(r, "provision_mode", AlwaysOn) = m /\ Or(r, "password", DefaultPassword) = p
      /\ Or(r, "ssid", "ssid") = i
  BY <1>1 DEF Or
<1> HIDE DEF r
<1>4. m % 256 = m
  BY <1>2
<1>5. ApRead(r) = [provision_mode |-> m, ssid |-> i, password |-> p]
  BY <1>2, <1>3, <1>4 DEF ApRead, AlwaysOn, OnWhenDisconnected, NeverOn
<1> QED BY <1>1, <1>5 DEF ApWrite, r

WifiFieldNames == {"ssid", "password", "hostname", "static_ip_config"} \cup Addresses

\* An address that was read is read as itself.
LEMMA AddressIsRead ==
  /\ \A text : fromString(fromString(text)) = fromString(text)
  /\ fromString("") = NoAddress /\ fromString(NoAddress) = NoAddress
BY DEF fromString, Normal, IPAddresses, NoAddress

\* The members that WifiRead makes of those of root.
LEMMA WifiReadFields ==
  ASSUME NEW root, NEW r, r = WifiRead(root)
  PROVE  /\ r = [k \in WifiFieldNames |-> r[k]]
         /\ \A k \in {"ssid", "password", "hostname"} : r[k] = Or(root, k, "")
         /\ r["static_ip_config"] =
              (/\ Or(root, "static_ip_config", FALSE)
               /\ readIP(root, "local_ip") # NoAddress
               /\ readIP(root, "gateway_ip") # NoAddress
               /\ readIP(root, "subnet_mask") # NoAddress)
         /\ \A k \in {"local_ip", "gateway_ip", "subnet_mask"} : r[k] = readIP(root, k)
         /\ r["dns_ip_1"] = IF readIP(root, "dns_ip_1") = NoAddress
                            THEN readIP(root, "dns_ip_2") ELSE readIP(root, "dns_ip_1")
         /\ r["dns_ip_2"] = IF readIP(root, "dns_ip_1") = NoAddress
                            THEN NoAddress ELSE readIP(root, "dns_ip_2")
<1> DEFINE ip == [k \in Addresses |-> readIP(root, k)]
           swap == ip["dns_ip_1"] = NoAddress
           on == /\ Or(root, "static_ip_config", FALSE)
                 /\ \A k \in {"local_ip", "gateway_ip", "subnet_mask"} : ip[k] # NoAddress
           first == IF swap THEN ip["dns_ip_2"] ELSE ip["dns_ip_1"]
           second == IF swap THEN NoAddress ELSE ip["dns_ip_2"]
           i == Or(root, "ssid", "")
           p == Or(root, "password", "")
           h == Or(root, "hostname", "")
<1>1. r = [ssid |-> i, password |-> p, hostname |-> h, static_ip_config |-> on,
           local_ip |-> ip["local_ip"], gateway_ip |-> ip["gateway_ip"],
           subnet_mask |-> ip["subnet_mask"], dns_ip_1 |-> first, dns_ip_2 |-> second]
  BY Zenon DEF WifiRead
<1>2. \A k \in Addresses : ip[k] = readIP(root, k)
  OBVIOUS
<1>3. {"local_ip", "gateway_ip", "subnet_mask", "dns_ip_1", "dns_ip_2"} = Addresses
  BY DEF Addresses
<1>4. WifiFieldNames = {"ssid", "password", "hostname", "static_ip_config", "local_ip",
                        "gateway_ip", "subnet_mask", "dns_ip_1", "dns_ip_2"}
  BY DEF WifiFieldNames, Addresses
<1> HIDE DEF ip
<1>5. /\ on = (/\ Or(root, "static_ip_config", FALSE)
               /\ readIP(root, "local_ip") # NoAddress
               /\ readIP(root, "gateway_ip") # NoAddress
               /\ readIP(root, "subnet_mask") # NoAddress)
      /\ first = IF readIP(root, "dns_ip_1") = NoAddress
                 THEN readIP(root, "dns_ip_2") ELSE readIP(root, "dns_ip_1")
      /\ second = IF readIP(root, "dns_ip_1") = NoAddress
                  THEN NoAddress ELSE readIP(root, "dns_ip_2")
  BY <1>2, <1>3
<1> HIDE DEF on, first, second, i, p, h
<1>6. r = [k \in WifiFieldNames |-> r[k]]
  BY <1>1, <1>4
<1>7. /\ r["ssid"] = i /\ r["password"] = p /\ r["hostname"] = h
      /\ r["static_ip_config"] = on /\ r["local_ip"] = ip["local_ip"]
      /\ r["gateway_ip"] = ip["gateway_ip"] /\ r["subnet_mask"] = ip["subnet_mask"]
      /\ r["dns_ip_1"] = first /\ r["dns_ip_2"] = second
  BY <1>1
<1>8. \A k \in {"ssid", "password", "hostname"} : r[k] = Or(root, k, "")
  BY <1>7 DEF i, p, h
<1>9. \A k \in {"local_ip", "gateway_ip", "subnet_mask"} : r[k] = readIP(root, k)
  BY <1>2, <1>3, <1>7
<1> QED BY <1>5, <1>6, <1>7, <1>8, <1>9

\* The members of what WifiWrite makes of settings r: all but the addresses
\* that are none.
LEMMA WifiWriteFields ==
  ASSUME NEW r, r = [k \in WifiFieldNames |-> r[k]], NEW w, w = WifiWrite(r)
  PROVE  /\ \A k \in WifiFieldNames \ Addresses : k \in DOMAIN w /\ w[k] = r[k]
         /\ \A k \in Addresses : Or(w, k, "") = IF r[k] # NoAddress THEN r[k] ELSE ""
         /\ \A k \in Addresses : fromString(r[k]) = r[k] => readIP(w, k) = r[k]
<1>1. w = [k \in {j \in WifiFieldNames : j \in Addresses => r[j] # NoAddress} |-> r[k]]
  BY DEF WifiWrite, Only
<1>2. Addresses \subseteq WifiFieldNames
  BY DEF WifiFieldNames
<1>3. \A k \in WifiFieldNames \ Addresses : k \in DOMAIN w /\ w[k] = r[k]
  BY <1>1
<1>4. \A k \in Addresses : Or(w, k, "") = IF r[k] # NoAddress THEN r[k] ELSE ""
  BY <1>1, <1>2 DEF Or
<1> QED BY <1>3, <1>4, AddressIsRead DEF readIP

\* The addresses that WifiRead makes are read as themselves.
LEMMA WifiReadAddresses ==
  ASSUME NEW root, NEW r, r = WifiRead(root), NEW k \in Addresses
  PROVE  fromString(r[k]) = r[k]
<1>1. r[k] = NoAddress \/ \E j : r[k] = readIP(root, j)
  BY WifiReadFields DEF Addresses
<1> QED BY <1>1, AddressIsRead DEF readIP

LEMMA WifiStored ==
  ASSUME NEW root
  PROVE  WifiRead(WifiWrite(WifiRead(root))) = WifiRead(root)
<1> DEFINE r == WifiRead(root)
           w == WifiWrite(r)
           x == WifiRead(w)
<1>1. /\ r = [k \in WifiFieldNames |-> r[k]]
      /\ r["static_ip_config"] \in BOOLEAN
      /\ r["static_ip_config"] =>
           r["local_ip"] # NoAddress /\ r["gateway_ip"] # NoAddress
           /\ r["subnet_mask"] # NoAddress
      /\ r["dns_ip_1"] = NoAddress => r["dns_ip_2"] = NoAddress
      /\ \A k \in Addresses : fromString(r[k]) = r[k]
  <2> HIDE DEF r
  <2>1. \A k \in Addresses : fromString(r[k]) = r[k]
    BY WifiReadAddresses DEF r
  <2> QED BY <2>1, WifiReadFields DEF r
<1> HIDE DEF r
<1>2. /\ \A k \in WifiFieldNames \ Addresses : k \in DOMAIN w /\ w[k] = r[k]
      /\ \A k \in Addresses : readIP(w, k) = r[k]
  <2>1. /\ r = [k \in WifiFieldNames |-> r[k]] /\ w = WifiWrite(r)
        /\ \A k \in Addresses : fromString(r[k]) = r[k]
    BY <1>1
  <2> HIDE DEF w
  <2> QED BY ONLY <2>1, WifiWriteFields, Zenon
<1> HIDE DEF w
<1>3. {"ssid", "password", "hostname", "static_ip_config"} \cap Addresses = {}
  BY DEF Addresses
<1>4. WifiFieldNames = {"ssid", "password", "hostname", "static_ip_config", "local_ip",
                        "gateway_ip", "subnet_mask", "dns_ip_1", "dns_ip_2"}
  BY DEF WifiFieldNames, Addresses
<1>5. {"local_ip", "gateway_ip", "subnet_mask", "dns_ip_1", "dns_ip_2"} = Addresses
  BY DEF Addresses
<1>6. /\ Or(w, "ssid", "") = r["ssid"] /\ Or(w, "password", "") = r["password"]
      /\ Or(w, "hostname", "") = r["hostname"]
      /\ Or(w, "static_ip_config", FALSE) = r["static_ip_config"]
      /\ readIP(w, "local_ip") = r["local_ip"] /\ readIP(w, "gateway_ip") = r["gateway_ip"]
      /\ readIP(w, "subnet_mask") = r["subnet_mask"]
      /\ readIP(w, "dns_ip_1") = r["dns_ip_1"] /\ readIP(w, "dns_ip_2") = r["dns_ip_2"]
  BY <1>2, <1>3, <1>4, <1>5 DEF Or
<1>7. x = [k \in WifiFieldNames |-> x[k]]
  <2> HIDE DEF x
  <2> QED BY WifiReadFields DEF x
<1>8. /\ x["ssid"] = r["ssid"] /\ x["password"] = r["password"]
      /\ x["hostname"] = r["hostname"]
      /\ x["local_ip"] = r["local_ip"] /\ x["gateway_ip"] = r["gateway_ip"]
      /\ x["subnet_mask"] = r["subnet_mask"]
      /\ x["dns_ip_1"] = r["dns_ip_1"] /\ x["dns_ip_2"] = r["dns_ip_2"]
      /\ x["static_ip_config"] =
           (r["static_ip_config"] /\ r["local_ip"] # NoAddress
            /\ r["gateway_ip"] # NoAddress /\ r["subnet_mask"] # NoAddress)
  <2> HIDE DEF x
  <2> QED BY <1>1, <1>6, WifiReadFields DEF x
<1> HIDE DEF x
<1>9. x["static_ip_config"] = r["static_ip_config"]
  BY <1>1, <1>8
<1>10. \A k \in WifiFieldNames : x[k] = r[k]
  BY <1>4, <1>8, <1>9
<1>11. x = r
  BY <1>1, <1>7, <1>10
<1> QED BY <1>11 DEF x, w, r

LEMMA SecurityStored ==
  ASSUME NEW root
  PROVE  SecurityRead(SecurityWrite(SecurityRead(root))) = SecurityRead(root)
<1> DEFINE users == Or(root, "users", <<>>)
           us == [i \in DOMAIN users |-> User(users[i])]
           j == Or(root, "jwt_secret", "esp8266-react")
           r == SecurityRead(root)
<1>1. r = [jwt_secret |-> j, users |-> us]
  BY DEF SecurityRead
<1>2. \A account : User(User(account)) = User(account)
  BY DEF User, Or
<1>3. DOMAIN us = DOMAIN users /\ \A i \in DOMAIN us : us[i] = User(users[i])
  OBVIOUS
<1>4. us = [i \in DOMAIN us |-> us[i]]
  OBVIOUS
<1> HIDE DEF us, j
<1>5. Or(r, "users", <<>>) = us /\ Or(r, "jwt_secret", "esp8266-react") = j
  BY <1>1 DEF Or
<1>6. [i \in DOMAIN us |-> User(us[i])] = us
  BY <1>2, <1>3, <1>4
<1> HIDE DEF r
<1>7. SecurityRead(r) = [jwt_secret |-> j, users |-> us]
  BY <1>5, <1>6 DEF SecurityRead
<1> QED BY <1>1, <1>7 DEF SecurityWrite, r

\* What SettingsService assumes of a format (RoundTripAssumption), which five
\* of the six services have for every object: readFromJsonObject of what
\* writeToJsonObject wrote gives the settings again.
THEOREM FormatsRoundTrip ==
  \A s \in Services \ {"smartpod"} : \A root :
    Read(s, Write(s, Read(s, root))) = Read(s, root)
<1> SUFFICES ASSUME NEW s \in Services \ {"smartpod"}, NEW root
             PROVE  Read(s, Write(s, Read(s, root))) = Read(s, root)
  OBVIOUS
<1>1. CASE s = "ntp"
  BY <1>1, NtpStored DEF Read, Write
<1>2. CASE s = "ota"
  BY <1>2, OtaStored DEF Read, Write
<1>3. CASE s = "ap"
  BY <1>3, ApStored DEF Read, Write
<1>4. CASE s = "wifi"
  BY <1>4, WifiStored DEF Read, Write
<1>5. CASE s = "security"
  BY <1>5, SecurityStored DEF Read, Write
<1> QED BY <1>1, <1>2, <1>3, <1>4, <1>5 DEF Services

---------------------------------------------------------------------------
(* What a form shows                                                         *)

\* The firmware reads what was typed, but for the fraction of a number.
LEMMA PostedMembers ==
  ASSUME NEW data, NEW root, root = Posted(data)
  PROVE  /\ DOMAIN root = DOMAIN data
         /\ \A k \in DOMAIN data :
              root[k] = IF k \in NumberFields THEN data[k].whole ELSE data[k]
BY DEF Posted

\* An answer whose members are what was typed, numbers without a fraction,
\* shows it.
LEMMA ShowsMembers ==
  ASSUME NEW answer, NEW data, NEW fields, fields \cap Addresses = {},
         \A k \in fields : answer[k] = IF k \in NumberFields THEN data[k].whole ELSE data[k]
  PROVE  Shows(answer, data, fields) <=>
           \A k \in fields \cap NumberFields : ~data[k].fraction
<1>1. "dns_ip_1" \notin fields /\ "dns_ip_2" \notin fields
  BY DEF Addresses
<1>2. \A k \in fields :
        ShowsField(answer, data, k) <=> (k \in NumberFields => ~data[k].fraction)
  BY DEF ShowsField
<1> QED BY <1>1, <1>2 DEF Shows

\* A password that the form accepts has at least as many bytes as the firmware
\* requires, and perhaps more than it keeps.
LEMMA ApAgrees ==
  ASSUME NEW data, {"provision_mode", "ssid", "password"} \subseteq DOMAIN data,
         data.provision_mode \in 0..2, data.password \in Passwords, ApAccepts(data)
  PROVE  Shows(ApWrite(ApRead(Posted(data))), data, ApFields(data)) <=> ~Lost("ap", data)
<1> DEFINE root == Posted(data)
           r == ApRead(root)
           on == isAPEnabled(data.provision_mode)
<1>1. \A k \in {"provision_mode", "ssid", "password"} :
        k \in DOMAIN root /\ root[k] = data[k]
  <2> HIDE DEF root
  <2> QED BY PostedMembers DEF root, NumberFields
<1> HIDE DEF root
<1>2. data.provision_mode % 256 = data.provision_mode
  BY SMT
<1>3. /\ Or(root, "provision_mode", AlwaysOn) = data.provision_mode
      /\ Or(root, "ssid", "ssid") = data.ssid
      /\ Or(root, "password", DefaultPassword) = data.password
  BY <1>1 DEF Or
<1>4. /\ r.provision_mode = data.provision_mode /\ r.ssid = data.ssid
      /\ r.password = IF data.password.bytes \in 8..63 THEN data.password ELSE DefaultPassword
  BY <1>2, <1>3 DEF ApRead, AlwaysOn, OnWhenDisconnected, NeverOn
<1> HIDE DEF r
<1>5. on => (r.password = data.password <=> ~(data.password.bytes > 63))
  <2>1. /\ data.password.bytes \in Nat /\ data.password.characters \in Nat
        /\ data.password.characters <= data.password.bytes
    BY DEF Passwords, Text
  <2>2. on => 8 <= data.password.characters
    BY DEF ApAccepts
  <2>3. DefaultPassword.bytes = 8
    BY DEF DefaultPassword, Text
  <2> HIDE DEF on
  <2> QED BY <1>4, <2>1, <2>2, <2>3
<1>6. Shows(r, data, ApFields(data)) <=> (on => r.password = data.password)
  <2>1. ApFields(data) = {"provision_mode"} \cup (IF on THEN {"ssid", "password"} ELSE {})
    BY DEF ApFields
  <2> HIDE DEF on
  <2>2. \A k \in ApFields(data) : ShowsField(r, data, k) <=> r[k] = data[k]
    BY <2>1 DEF ShowsField, NumberFields, Addresses
  <2>3. "dns_ip_1" \notin ApFields(data) /\ "dns_ip_2" \notin ApFields(data)
    BY <2>1
  <2>4. Shows(r, data, ApFields(data)) <=> \A k \in ApFields(data) : r[k] = data[k]
    BY <2>2, <2>3 DEF Shows
  <2> QED BY <1>4, <2>1, <2>4
<1>7. Lost("ap", data) <=> on /\ data.password.bytes > 63
  BY DEF Lost, Networks
<1> HIDE DEF on
<1> QED BY <1>5, <1>6, <1>7 DEF ApWrite, r, root

LEMMA IntervalBounds ==
  ASSUME NEW i, i \in Intervals
  PROVE  i \in Int /\ 60 <= i /\ i <= 86400
BY SMT DEF Intervals

LEMMA NtpAgrees ==
  ASSUME NEW data, NtpFields \subseteq DOMAIN data, NtpAccepts(data)
  PROVE  Shows(NtpWrite(NtpRead(Posted(data))), data, NtpFields) <=> ~Lost("ntp", data)
<1> DEFINE root == Posted(data)
           r == NtpRead(root)
           n == data.interval.whole
<1>1. /\ NtpFields \subseteq DOMAIN root
      /\ root["server"] = data.server /\ root["interval"] = n
  <2> HIDE DEF root
  <2> QED BY PostedMembers DEF root, NumberFields, NtpFields
<1> HIDE DEF root
<1>2. trim(data.server) = data.server
  <2>1. isIPOrHostname(data.server)
    BY DEF NtpAccepts
  <2>2. data.server \notin Blank
    BY <2>1, Zenon DEF isIPOrHostname, isIP, isHostname, Blank
  <2> QED BY <2>2 DEF trim
<1>3. Clamp(n, MinInterval, MaxInterval) = n
  <2>1. n \in Int /\ 60 <= n /\ n <= 86400
    <3>1. n \in Intervals
      BY DEF NtpAccepts
    <3> QED BY <3>1, IntervalBounds, SMT
  <2> QED BY <2>1, SMT DEF Clamp, MinInterval, MaxInterval
<1> HIDE DEF n
<1>4. Or(root, "server", DefaultServer) = data.server /\ Or(root, "interval", 0) = n
  BY <1>1 DEF Or, NtpFields
<1>5. r = [server |-> data.server, interval |-> n]
  BY <1>2, <1>3, <1>4 DEF NtpRead, Invalid
<1> HIDE DEF r
<1>6. \A k \in NtpFields : r[k] = IF k \in NumberFields THEN data[k].whole ELSE data[k]
  BY <1>5 DEF NtpFields, NumberFields, n
<1>7. NtpFields \cap Addresses = {} /\ NtpFields \cap NumberFields = {"interval"}
  BY DEF NtpFields, Addresses, NumberFields
<1>8. Lost("ntp", data) <=> data.interval.fraction
  BY DEF Lost, Networks
<1>9. Shows(r, data, NtpFields) <=> \A k \in NtpFields \cap NumberFields : ~data[k].fraction
  BY <1>6, <1>7, ShowsMembers
<1> QED BY <1>7, <1>8, <1>9 DEF NtpWrite, r, root

LEMMA OtaAgrees ==
  ASSUME NEW data, OtaFields \subseteq DOMAIN data, OtaAccepts(data)
  PROVE  Shows(OtaWrite(OtaRead(Posted(data))), data, OtaFields) <=> ~Lost("ota", data)
<1> DEFINE root == Posted(data)
           r == OtaRead(root)
           n == data.port.whole
<1>1. /\ OtaFields \subseteq DOMAIN root
      /\ root["enabled"] = data.enabled /\ root["port"] = n /\ root["password"] = data.password
  <2> HIDE DEF root
  <2> QED BY PostedMembers DEF root, NumberFields, OtaFields
<1> HIDE DEF root
<1>2. ~(n < 0)
  <2>1. n \in Int /\ 1025 <= n
    <3>1. n \in Ports
      BY DEF OtaAccepts
    <3>2. \A i \in Ports : i \in Int /\ 1025 <= i
      BY SMT DEF Ports
    <3> QED BY <3>1, <3>2, SMT
  <2> QED BY <2>1, SMT
<1> HIDE DEF n
<1>3. /\ Or(root, "enabled", FALSE) = data.enabled /\ Or(root, "port", 0) = n
      /\ Or(root, "password", "esp-react") = data.password
  BY <1>1 DEF Or, OtaFields
<1>4. r = [enabled |-> data.enabled, port |-> n, password |-> data.password]
  <2> DEFINE port == Or(root, "port", 0)
  <2>1. r = [enabled |-> Or(root, "enabled", FALSE),
             port |-> IF port < 0 THEN DefaultOtaPort ELSE port,
             password |-> Or(root, "password", "esp-react")]
    BY DEF OtaRead
  <2>2. (IF port < 0 THEN DefaultOtaPort ELSE port) = n
    BY <1>2, <1>3
  <2> HIDE DEF r, port
  <2> QED BY <1>3, <2>1, <2>2
<1> HIDE DEF r
<1>5. \A k \in OtaFields : r[k] = IF k \in NumberFields THEN data[k].whole ELSE data[k]
  BY <1>4 DEF OtaFields, NumberFields, n
<1>6. OtaFields \cap Addresses = {} /\ OtaFields \cap NumberFields = {"port"}
  BY DEF OtaFields, Addresses, NumberFields
<1>7. Lost("ota", data) <=> data.port.fraction
  BY DEF Lost, Networks
<1>8. Shows(r, data, OtaFields) <=> \A k \in OtaFields \cap NumberFields : ~data[k].fraction
  BY <1>5, <1>6, ShowsMembers
<1> QED BY <1>6, <1>7, <1>8 DEF OtaWrite, r, root

LEMMA SecurityAgrees ==
  ASSUME NEW data, SecurityFields \subseteq DOMAIN data
  PROVE  Shows(SecurityWrite(SecurityRead(Posted(data))), data, SecurityFields)
           <=> ~Lost("security", data)
<1> DEFINE root == Posted(data)
           r == SecurityRead(root)
<1>1. "jwt_secret" \in DOMAIN root /\ root.jwt_secret = data.jwt_secret
  <2> HIDE DEF root
  <2> QED BY PostedMembers DEF root, NumberFields, SecurityFields
<1> HIDE DEF root
<1>2. r.jwt_secret = data.jwt_secret
  BY <1>1 DEF SecurityRead, Or
<1> HIDE DEF r
<1>3. SecurityFields \cap Addresses = {} /\ SecurityFields \cap NumberFields = {}
  BY DEF SecurityFields, Addresses, NumberFields
<1>4. \A k \in SecurityFields : r[k] = IF k \in NumberFields THEN data[k].whole ELSE data[k]
  BY <1>2 DEF SecurityFields, NumberFields
<1>5. Shows(r, data, SecurityFields)
  BY <1>3, <1>4, ShowsMembers
<1>6. ~Lost("security", data)
  BY DEF Lost, Networks
<1> QED BY <1>5, <1>6 DEF SecurityWrite, r, root

\* What the firmware makes of the text of an address field that the form accepts.
LEMMA AcceptedAddress ==
  ASSUME NEW text, text = "" \/ isIP(text)
  PROVE  /\ fromString(text) = IF text = "" THEN NoAddress ELSE Normal(text)
         /\ Normal(text) = NoAddress <=> text = NoAddress
         /\ Normal(text) = "" <=> text = ""
         /\ Normal(Normal(text)) = Normal(text)
         /\ NoAddress # ""
BY DEF isIP, fromString, Normal, IPAddresses, NoAddress

LEMMA WifiAgrees ==
  ASSUME NEW selected \in Networks, NEW data,
         {"ssid", "password", "hostname", "static_ip_config"} \subseteq DOMAIN data,
         data["static_ip_config"] \in BOOLEAN, WifiAccepts(selected, data)
  PROVE  Shows(WifiWrite(WifiRead(Posted(data))), data, WifiFields(selected, data))
           <=> ~Lost(selected, data)
<1> DEFINE Names == {"ssid", "password", "hostname", "static_ip_config"}
           Needed == {"local_ip", "gateway_ip", "subnet_mask"}
           root == Posted(data)
           r == WifiRead(root)
           w == WifiWrite(r)
           fields == WifiFields(selected, data)
           on == data["static_ip_config"]
           typed(k) == Or(data, k, "")
\* What the firmware reads, and what it writes of it.
<1>1. /\ \A k \in Names : k \in DOMAIN root /\ root[k] = data[k]
      /\ \A k \in Addresses : readIP(root, k) = fromString(typed(k))
  <2>1. /\ Names \cap NumberFields = {} /\ Addresses \cap NumberFields = {}
    BY DEF Addresses, NumberFields
  <2>2. /\ DOMAIN root = DOMAIN data
        /\ \A k \in DOMAIN data :
             root[k] = IF k \in NumberFields THEN data[k].whole ELSE data[k]
    <3> HIDE DEF root
    <3> QED BY PostedMembers DEF root
  <2>3. \A k \in Addresses : Or(root, k, "") = typed(k)
    <3> HIDE DEF root
    <3> QED BY <2>1, <2>2 DEF Or
  <2> HIDE DEF root
  <2> QED BY <2>1, <2>2, <2>3 DEF readIP
<1> HIDE DEF root
<1>2. /\ r = [k \in WifiFieldNames |-> r[k]]
      /\ \A k \in {"ssid", "password", "hostname"} : r[k] = Or(root, k, "")
      /\ r["static_ip_config"] =
           (/\ Or(root, "static_ip_config", FALSE)
            /\ readIP(root, "local_ip") # NoAddress
            /\ readIP(root, "gateway_ip") # NoAddress
            /\ readIP(root, "subnet_mask") # NoAddress)
      /\ \A k \in Needed : r[k] = readIP(root, k)
      /\ r["dns_ip_1"] = IF readIP(root, "dns_ip_1") = NoAddress
                         THEN readIP(root, "dns_ip_2") ELSE readIP(root, "dns_ip_1")
      /\ r["dns_ip_2"] = IF readIP(root, "dns_ip_1") = NoAddress
                         THEN NoAddress ELSE readIP(root, "dns_ip_2")
  <2> HIDE DEF r
  <2> QED BY WifiReadFields DEF r
<1> HIDE DEF r
<1>3. /\ \A k \in WifiFieldNames \ Addresses : k \in DOMAIN w /\ w[k] = r[k]
      /\ \A k \in Addresses : Or(w, k, "") = IF r[k] # NoAddress THEN r[k] ELSE ""
  <2>1. r = [k \in WifiFieldNames |-> r[k]] /\ w = WifiWrite(r)
    BY <1>2
  <2> HIDE DEF w
  <2> QED BY ONLY <2>1, WifiWriteFields, Zenon
<1> HIDE DEF w
<1>4. /\ Names \subseteq WifiFieldNames \ Addresses
      /\ Names \cap NumberFields = {} /\ Addresses \cap NumberFields = {}
      /\ Needed \cup {"dns_ip_1", "dns_ip_2"} = Addresses
  BY DEF WifiFieldNames, Addresses, NumberFields
\* What the form has accepted.
<1>5. on => /\ \A k \in Needed : isIP(typed(k))
            /\ \A k \in Addresses : typed(k) = "" \/ isIP(typed(k))
  <2>1. on => /\ \A k \in Needed : isIP(typed(k))
              /\ \A k \in {"dns_ip_1", "dns_ip_2"} : typed(k) = "" \/ isIP(typed(k))
    BY DEF WifiAccepts, optionalIP
  <2> HIDE DEF on, Needed
  <2> QED BY <1>4, <2>1
<1>6. ~isIP("")
  BY DEF isIP
<1>7. Lost(selected, data) <=> on /\ \E k \in Addresses : typed(k) = NoAddress
  BY DEF Lost, Networks
\* The fields of the form, and how each of them is shown.
<1>8. \A k \in Names \ {"static_ip_config"} : w[k] = data[k]
  <2>1. \A k \in {"ssid", "password", "hostname"} : r[k] = data[k]
    BY <1>1, <1>2 DEF Or
  <2> QED BY <1>3, <1>4, <2>1
<1>9. w["static_ip_config"] = (on /\ \A k \in Needed : fromString(typed(k)) # NoAddress)
  <2>1. Or(root, "static_ip_config", FALSE) = on
    BY <1>1 DEF Or
  <2>2. r["static_ip_config"] = (on /\ \A k \in Needed : fromString(typed(k)) # NoAddress)
    BY <1>1, <1>2, <1>4, <2>1
  <2> QED BY <1>3, <1>4, <2>2
<1>10. fields \subseteq Names \cup (IF on THEN Addresses ELSE {})
       /\ (on => Addresses \subseteq fields) /\ "static_ip_config" \in fields
  BY DEF WifiFields
<1>11. Shows(w, data, fields) <=>
         /\ \A k \in fields \ {"dns_ip_1", "dns_ip_2"} : ShowsField(w, data, k)
         /\ "dns_ip_1" \in fields => NameServers(w) = NameServers(data)
  BY DEF Shows
<1> HIDE DEF fields, on, Names, Needed, typed
<1>12. \A k \in Names : ShowsField(w, data, k) <=> w[k] = data[k]
  BY <1>4 DEF ShowsField
<1>13. \A k \in Addresses : ShowsField(w, data, k) <=> Or(w, k, "") = Normal(typed(k))
  BY <1>4 DEF ShowsField, typed
<1>14. "static_ip_config" \in Names /\ data["static_ip_config"] = on
  BY DEF Names, on
<1>15. ASSUME ~on PROVE Shows(w, data, fields) <=> ~Lost(selected, data)
  <2>1. \A k \in Names : w[k] = data[k]
    BY <1>8, <1>9, <1>14, <1>15
  <2>2. fields \subseteq Names /\ "dns_ip_1" \notin Names
    BY <1>4, <1>10, <1>15
  <2> QED BY <1>7, <1>11, <1>12, <1>15, <2>1, <2>2
<1>16. ASSUME on PROVE Shows(w, data, fields) <=> ~Lost(selected, data)
  \* A network is shown as it was typed if no needed address is the broadcast one.
  <2>1. ASSUME NEW k \in Needed
        PROVE  /\ fromString(typed(k)) = Normal(typed(k))
               /\ Normal(typed(k)) = NoAddress <=> typed(k) = NoAddress
               /\ Or(w, k, "") = IF typed(k) # NoAddress THEN Normal(typed(k)) ELSE ""
    <3>1. isIP(typed(k)) /\ typed(k) # "" /\ k \in Addresses
      BY <1>4, <1>5, <1>6, <1>16, <2>1
    <3>2. /\ fromString(typed(k)) = Normal(typed(k))
          /\ Normal(typed(k)) = NoAddress <=> typed(k) = NoAddress
      BY <3>1, AcceptedAddress
    <3>3. r[k] = fromString(typed(k))
      BY <1>1, <1>2, <2>1, <3>1 DEF Needed
    <3> QED BY <1>3, <3>1, <3>2, <3>3
  <2>2. (\A k \in fields \ {"dns_ip_1", "dns_ip_2"} : ShowsField(w, data, k))
          <=> \A k \in Needed : typed(k) # NoAddress
    <3>1. ASSUME \A k \in Needed : typed(k) # NoAddress,
                 NEW k \in fields \ {"dns_ip_1", "dns_ip_2"}
          PROVE  ShowsField(w, data, k)
      <4>1. CASE k \in Names
        <5>1. w["static_ip_config"] = on
          BY <1>9, <1>16, <2>1, <3>1, <1>14
        <5> QED BY <1>8, <1>12, <1>14, <4>1, <5>1
      <4>2. CASE k \in Needed
        BY <1>4, <1>13, <2>1, <3>1, <4>2
      <4> QED BY <1>4, <1>10, <3>1, <4>1, <4>2
    <3>2. ASSUME NEW k \in Needed, typed(k) = NoAddress
          PROVE  ~ShowsField(w, data, "static_ip_config")
      BY <1>9, <1>12, <1>14, <1>16, <2>1, <3>2
    <3>3. "static_ip_config" \in fields \ {"dns_ip_1", "dns_ip_2"}
      BY <1>10
    <3> QED BY <3>1, <3>2, <3>3
  \* The name servers are shown if neither is.
  <2>3. NameServers(w) = NameServers(data)
          <=> typed("dns_ip_1") # NoAddress /\ typed("dns_ip_2") # NoAddress
    <3> DEFINE d1 == typed("dns_ip_1")
               d2 == typed("dns_ip_2")
               w1 == Or(w, "dns_ip_1", "")
               w2 == Or(w, "dns_ip_2", "")
               a == fromString(d1)
               b == fromString(d2)
    <3>1. /\ w1 = IF r["dns_ip_1"] # NoAddress THEN r["dns_ip_1"] ELSE ""
          /\ w2 = IF r["dns_ip_2"] # NoAddress THEN r["dns_ip_2"] ELSE ""
          /\ r["dns_ip_1"] = IF a = NoAddress THEN b ELSE a
          /\ r["dns_ip_2"] = IF a = NoAddress THEN NoAddress ELSE b
      BY <1>1, <1>2, <1>3, <1>4
    <3>2. (d1 = "" \/ isIP(d1)) /\ (d2 = "" \/ isIP(d2))
      BY <1>4, <1>5, <1>16
    <3>3. /\ NameServers(w) = {Normal(w1), Normal(w2)} \ {""}
          /\ NameServers(data) = {Normal(d1), Normal(d2)} \ {""}
      BY Zenon DEF NameServers, typed
    <3> HIDE DEF d1, d2, w1, w2
    <3>4. /\ a = IF d1 = "" THEN NoAddress ELSE Normal(d1)
          /\ Normal(d1) = NoAddress <=> d1 = NoAddress
          /\ Normal(d1) = "" <=> d1 = ""
          /\ Normal(Normal(d1)) = Normal(d1)
      BY <3>2, AcceptedAddress
    <3>5. /\ b = IF d2 = "" THEN NoAddress ELSE Normal(d2)
          /\ Normal(d2) = NoAddress <=> d2 = NoAddress
          /\ Normal(d2) = "" <=> d2 = ""
          /\ Normal(Normal(d2)) = Normal(d2)
      BY <3>2, AcceptedAddress
    <3>6. NoAddress # "" /\ Normal("") = ""
      BY DEF NoAddress, Normal
    <3> HIDE DEF a, b
    <3>7. {Normal(w1), Normal(w2)} \ {""} = {Normal(d1), Normal(d2)} \ {"", NoAddress}
      <4>1. CASE a = NoAddress
        <5>1. Normal(d1) \in {"", NoAddress} /\ w2 = ""
          BY <3>1, <3>4, <3>6, <4>1
        <5>2. w1 = IF Normal(d2) \in {"", NoAddress} THEN "" ELSE Normal(d2)
          BY <3>1, <3>5, <3>6, <4>1
        <5>3. Normal(w1) = w1 /\ Normal(w2) = ""
          BY <3>5, <3>6, <5>1, <5>2
        <5> QED BY <5>1, <5>2, <5>3
      <4>2. CASE a # NoAddress
        <5>1. w1 = Normal(d1) /\ Normal(d1) \notin {"", NoAddress}
          BY <3>1, <3>4, <3>6, <4>2
        <5>2. w2 = IF Normal(d2) \in {"", NoAddress} THEN "" ELSE Normal(d2)
          BY <3>1, <3>5, <3>6, <4>2
        <5>3. Normal(w1) = w1 /\ Normal(w2) = w2
          BY <3>4, <3>5, <3>6, <5>1, <5>2
        <5> QED BY <5>1, <5>2, <5>3
      <4> QED BY <4>1, <4>2
    <3>8. NameServers(w) = NameServers(data) <=> NoAddress \notin {Normal(d1), Normal(d2)}
      BY <3>3, <3>6, <3>7
    <3>9. NameServers(w) = NameServers(data) <=> d1 # NoAddress /\ d2 # NoAddress
      BY <3>4, <3>5, <3>8
    <3> QED BY <3>9 DEF d1, d2
  <2>4. "dns_ip_1" \in fields
    BY <1>4, <1>10, <1>16
  <2> QED BY <1>4, <1>7, <1>11, <1>16, <2>2, <2>3, <2>4
<1>17. Shows(w, data, fields) <=> ~Lost(selected, data)
  BY <1>15, <1>16
<1> QED BY <1>17 DEF w, r, root, fields

\* What is typed into a form has the members that the form is about.
LEMMA TypedMembers ==
  /\ \A data \in TypedAp : /\ {"provision_mode", "ssid", "password"} \subseteq DOMAIN data
                          /\ data.provision_mode \in 0..2 /\ data.password \in Passwords
  /\ \A data \in TypedNtp : NtpFields \subseteq DOMAIN data
  /\ \A data \in TypedOta : OtaFields \subseteq DOMAIN data
  /\ \A data \in TypedSecurity : SecurityFields \subseteq DOMAIN data
<1>1. \A data \in TypedAp : /\ {"provision_mode", "ssid", "password"} \subseteq DOMAIN data
                            /\ data.provision_mode \in 0..2 /\ data.password \in Passwords
  <2>1. ASSUME NEW S, NEW T, NEW data \in [provision_mode : 0..2, ssid : S, password : T]
        PROVE  /\ {"provision_mode", "ssid", "password"} \subseteq DOMAIN data
               /\ data.provision_mode \in 0..2 /\ data.password \in T
    OBVIOUS
  <2> QED BY <2>1, Zenon DEF TypedAp
<1>2. \A data \in TypedNtp : NtpFields \subseteq DOMAIN data
  <2>1. ASSUME NEW S, NEW T, NEW data \in [server : S, interval : T]
        PROVE  {"server", "interval"} \subseteq DOMAIN data
    OBVIOUS
  <2> QED BY <2>1, Zenon DEF TypedNtp, NtpFields
<1>3. \A data \in TypedOta : OtaFields \subseteq DOMAIN data
  <2>1. ASSUME NEW S, NEW T, NEW data \in [enabled : BOOLEAN, port : S, password : T]
        PROVE  {"enabled", "port", "password"} \subseteq DOMAIN data
    OBVIOUS
  <2> QED BY <2>1, SMT DEF TypedOta, OtaFields
<1>4. \A data \in TypedSecurity : SecurityFields \subseteq DOMAIN data
  BY DEF TypedSecurity, SecurityFields
<1> QED BY <1>1, <1>2, <1>3, <1>4

LEMMA TypedNetworkMembers ==
  ASSUME NEW data \in TypedNetwork
  PROVE  /\ {"ssid", "password", "hostname", "static_ip_config"} \subseteq DOMAIN data
         /\ data["static_ip_config"] \in BOOLEAN
<1> DEFINE Names == {"ssid", "password", "hostname", "static_ip_config"}
<1>1. PICK d \in NetworkData : \E addresses : data = WithAddresses(d, addresses)
  BY DEF TypedNetwork
<1>2. Names \subseteq DOMAIN d /\ d["static_ip_config"] \in BOOLEAN
  <2>1. CASE d = SelectedData(32)
    BY <2>1 DEF SelectedData
  <2>2. ASSUME NEW S, NEW T, NEW U,
               NEW e \in [ssid : S, password : T, hostname : U, static_ip_config : BOOLEAN]
        PROVE  Names \subseteq DOMAIN e /\ e["static_ip_config"] \in BOOLEAN
    OBVIOUS
  <2> QED BY <2>1, <2>2, Zenon DEF NetworkData
<1> HIDE DEF Names
<1>3. /\ DOMAIN d \subseteq DOMAIN data
      /\ \A k \in DOMAIN d : data[k] = d[k]
  BY <1>1 DEF WithAddresses
<1>4. "static_ip_config" \in Names
  BY DEF Names
<1> QED BY <1>2, <1>3, <1>4 DEF Names

\* A form that lets data be saved is answered with what was typed, but for what
\* is lost.
LEMMA FormAgrees ==
  ASSUME NEW form \in Forms, NEW data \in Typed(form), Accepts(form, data)
  PROVE  Shows(Write(Service(form), Read(Service(form), Posted(data))), data,
               Fields(form, data)) <=> ~Lost(form, data)
<1>1. CASE form = "ap"
  <2>1. /\ data \in TypedAp /\ ApAccepts(data) /\ Service(form) = "ap"
        /\ Fields(form, data) = ApFields(data)
    BY <1>1 DEF Typed, Accepts, Service, Fields, Networks
  <2>2. Write("ap", Read("ap", Posted(data))) = ApWrite(ApRead(Posted(data)))
    BY DEF Read, Write
  <2> QED BY <1>1, <2>1, <2>2, TypedMembers, ApAgrees
<1>2. CASE form = "ntp"
  <2>1. /\ data \in TypedNtp /\ NtpAccepts(data) /\ Service(form) = "ntp"
        /\ Fields(form, data) = NtpFields
    BY <1>2 DEF Typed, Accepts, Service, Fields, Networks
  <2>2. Write("ntp", Read("ntp", Posted(data))) = NtpWrite(NtpRead(Posted(data)))
    BY DEF Read, Write
  <2> QED BY <1>2, <2>1, <2>2, TypedMembers, NtpAgrees
<1>3. CASE form = "ota"
  <2>1. /\ data \in TypedOta /\ OtaAccepts(data) /\ Service(form) = "ota"
        /\ Fields(form, data) = OtaFields
    BY <1>3 DEF Typed, Accepts, Service, Fields, Networks
  <2>2. Write("ota", Read("ota", Posted(data))) = OtaWrite(OtaRead(Posted(data)))
    BY DEF Read, Write
  <2> QED BY <1>3, <2>1, <2>2, TypedMembers, OtaAgrees
<1>4. CASE form = "security"
  <2>1. /\ data \in TypedSecurity /\ Service(form) = "security"
        /\ Fields(form, data) = SecurityFields
    BY <1>4 DEF Typed, Service, Fields, Networks
  <2>2. Write("security", Read("security", Posted(data)))
          = SecurityWrite(SecurityRead(Posted(data)))
    BY DEF Read, Write
  <2> QED BY <1>4, <2>1, <2>2, TypedMembers, SecurityAgrees
<1>5. CASE form \in Networks
  <2>1. /\ data \in TypedNetwork /\ WifiAccepts(form, data) /\ Service(form) = "wifi"
        /\ Fields(form, data) = WifiFields(form, data)
    BY <1>5 DEF Typed, Accepts, Service, Fields, Networks
  <2>2. Write("wifi", Read("wifi", Posted(data))) = WifiWrite(WifiRead(Posted(data)))
    BY DEF Read, Write
  <2>3. /\ {"ssid", "password", "hostname", "static_ip_config"} \subseteq DOMAIN data
        /\ data["static_ip_config"] \in BOOLEAN
    BY <2>1, TypedNetworkMembers
  <2> QED BY <1>5, <2>1, <2>2, <2>3, WifiAgrees
<1> QED BY <1>1, <1>2, <1>3, <1>4, <1>5 DEF Forms

---------------------------------------------------------------------------
(* What the other pages show, and what is reported of a port                 *)

LEMMA StatusAlwaysSent == StatusIsSent
<1>1. ASSUME NEW status, NEW dns
      PROVE  WiFiStatusPage(status, wifiStatus(status, dns)) \subseteq wifiStatus(status, dns)
  BY DEF WiFiStatusPage, wifiStatus, isConnected, WL_CONNECTED, dnsServers
<1>2. ASSUME NEW status
      PROVE  NTPStatusPage(status) \subseteq ntpStatus(status)
  BY DEF NTPStatusPage, ntpStatus, isSynchronized, timeNotSet
<1>3. APStatusPage \subseteq apStatus
  BY DEF APStatusPage, apStatus
<1>4. SystemStatusPage \subseteq systemStatus
  BY DEF SystemStatusPage, systemStatus
<1>5. SmartPodStatusPage \subseteq smartpodStatus
  BY DEF SmartPodStatusPage, smartpodStatus
<1> QED BY <1>1, <1>2, <1>3, <1>4, <1>5 DEF StatusIsSent

LEMMA AvailableStartsOpen ==
  ASSUME NEW state \in E!States, NEW output \in E!Outputs
  PROVE  E!PortState(state, output) = "available" <=>
           E!Defined(state, "start_requested") /\ output = "open"
<1>1. E!PortState(state, output) = "available" <=>
        state \in {"available", "completed"} /\ output = "open"
  BY DEF E!PortState, E!States, E!Outputs
<1>2. E!Defined(state, "start_requested") <=> state \in {"available", "completed"}
  BY DEF E!Defined, E!States, E!Transitions
<1> QED BY <1>1, <1>2

---------------------------------------------------------------------------
(* The behaviours                                                            *)

\* The inputs that the steps build are of their kind, and each script keeps
\* its own invariant whatever the other parts do.
InputInv ==
  /\ input.kind = "object" =>
       /\ input = [kind |-> "object", service |-> input.service, root |-> input.root]
       /\ input.service \in Services
  /\ input.kind = "bill" =>
       /\ input = [kind |-> "bill", energy |-> input.energy, seconds |-> input.seconds,
                   tariff |-> input.tariff]
       /\ input.energy \in Nat /\ input.seconds \in Nat /\ input.tariff \in Bills
  /\ input.kind = "port" => input.state \in E!States /\ input.output \in E!Outputs
  /\ input.kind = "form" => input.form \in Forms /\ input.data \in Typed(input.form)

PartsInv ==
  /\ InputInv
  /\ part = "release" => RP!ReleaseInv
  /\ part = "installer" => IP!InstallInv

LEMMA InputsHold ==
  ASSUME input \in Inputs
  PROVE  InputInv
<1>1. CASE input \in ObjectInputs
  BY <1>1 DEF ObjectInputs, InputInv
<1>2. CASE input \in BillInputs
  <2>1. PICK tariff \in [fixed : Fees, energyPerKwh : EnergyRates, timePerMinute : TimeRates,
                        taxBasisPoints : Taxes] :
          input = [kind |-> "bill", energy |-> 0, seconds |-> 0, tariff |-> tariff]
    BY <1>2 DEF BillInputs
  <2>2. tariff \in Bills
    BY BillAssumption DEF Bills
  <2> QED BY <2>1, <2>2 DEF InputInv
<1>3. CASE input \in PortInputs
  BY <1>3 DEF PortInputs, InputInv
<1>4. CASE input \in WifiStatusInputs
  <2>1. input.kind = "wifi status"
    BY <1>4 DEF WifiStatusInputs
  <2> QED BY <2>1 DEF InputInv
<1>5. CASE input \in NtpStatusInputs
  <2>1. input.kind = "ntp status"
    BY <1>5 DEF NtpStatusInputs
  <2> QED BY <2>1 DEF InputInv
<1>6. CASE input \in FormInputs
  <2>1. PICK form \in Forms : input \in [kind : {"form"}, form : {form}, data : Typed(form)]
    BY <1>6 DEF FormInputs
  <2>2. input.kind = "form" /\ input.form = form /\ input.data \in Typed(form)
    BY <2>1
  <2> QED BY <2>2 DEF InputInv
<1> QED BY <1>1, <1>2, <1>3, <1>4, <1>5, <1>6 DEF Inputs

LEMMA NextInputInv ==
  ASSUME InputInv, [Next]_vars
  PROVE  InputInv'
<1>1. CASE AddMember
  <2>1. PICK root : input' = [input EXCEPT !.root = root]
    BY <1>1 DEF AddMember
  <2>2. /\ input.kind = "object" /\ input.service \in Services
        /\ input = [kind |-> "object", service |-> input.service, root |-> input.root]
    BY <1>1 DEF AddMember, InputInv
  <2>3. input' = [kind |-> "object", service |-> input.service, root |-> root]
    BY <2>1, <2>2
  <2> QED BY <2>2, <2>3 DEF InputInv
<1>2. CASE Second
  <2>1. PICK energy \in Steps :
          input' = [input EXCEPT !.seconds = @ + 1, !.energy = @ + energy]
    BY <1>2 DEF Second
  <2>2. /\ input.kind = "bill"
        /\ input = [kind |-> "bill", energy |-> input.energy, seconds |-> input.seconds,
                    tariff |-> input.tariff]
        /\ input.energy \in Nat /\ input.seconds \in Nat /\ input.tariff \in Bills
    BY <1>2 DEF Second, InputInv
  <2>3. input' = [kind |-> "bill", energy |-> input.energy + energy,
                  seconds |-> input.seconds + 1, tariff |-> input.tariff]
    BY <2>1, <2>2
  <2>4. input.energy + energy \in Nat /\ input.seconds + 1 \in Nat
    BY <2>2, BillAssumption
  <2> QED BY <2>2, <2>3, <2>4 DEF InputInv
<1>3. CASE input' = input
  BY <1>3 DEF InputInv
<1> QED BY <1>1, <1>2, <1>3 DEF Next, Publication, Installation, vars

LEMMA InitPartsInv ==
  ASSUME Init
  PROVE  PartsInv
<1>1. InputInv
  <2>1. CASE part = "functions"
    BY <2>1, InputsHold DEF Init
  <2>2. CASE part # "functions"
    BY <2>2 DEF Init, InputInv
  <2> QED BY <2>1, <2>2
<1>2. ASSUME part = "release" PROVE RP!ReleaseInv
  <2>1. RP!Init
    BY <1>2 DEF Init, R!Init, RP!Init, R!Release, RP!Release, R!NoAssets, RP!NoAssets
  <2> QED BY <2>1, RP!InitReleaseInv
<1>3. ASSUME part = "installer" PROVE IP!InstallInv
  <2>1. IP!Init
    BY <1>3 DEF Init, I!Init, IP!Init, I!OldDestinations, IP!OldDestinations, I!File, IP!File,
                I!Old, IP!Old, I!Link, IP!Link, I!Directory, IP!Directory
  <2> QED BY <2>1, IP!InitInstallInv
<1> QED BY <1>1, <1>2, <1>3 DEF PartsInv

\* A step of a script is one of its own specification.
LEMMA ReleaseSteps ==
  ASSUME R!Next \/ UNCHANGED publication
  PROVE  [RP!Next]_(RP!vars)
BY DEF R!Next, RP!Next, publication, RP!vars, R!Fail, RP!Fail, R!Verify, RP!Verify, R!Goes, RP!Goes,
       R!Create, RP!Create, R!Upload, RP!Upload, R!verify_remote_tag, RP!verify_remote_tag,
       R!Release, RP!Release, R!Bytes, RP!Bytes, R!Compare, RP!Compare, R!Whole, RP!Whole,
       R!Publish, RP!Publish, R!MoveTag, RP!MoveTag, R!NoAssets, RP!NoAssets

LEMMA InstallSteps ==
  ASSUME I!Next \/ UNCHANGED installation
  PROVE  [IP!Next]_(IP!vars)
BY DEF I!Next, IP!Next, installation, IP!vars, I!Download, IP!Download, I!Verify, IP!Verify,
       I!Stage, IP!Stage, I!Copy, IP!Copy, I!Chmod, IP!Chmod, I!Check, IP!Check, I!Rename,
       IP!Rename, I!Finish, IP!Finish, I!Fail, IP!Fail, I!Kill, IP!Kill, I!Cleanup, IP!Cleanup,
       I!check_destination, IP!check_destination, I!File, IP!File, I!Damaged, IP!Damaged,
       I!Ended, IP!Ended, I!Link, IP!Link, I!Directory, IP!Directory

LEMMA NextPartsInv ==
  ASSUME PartsInv, [Next]_vars
  PROVE  PartsInv'
<1>1. InputInv'
  BY NextInputInv DEF PartsInv
<1>2. ASSUME part' = "release" PROVE RP!ReleaseInv'
  <2>1. part = "release" /\ (R!Next \/ UNCHANGED publication)
    BY <1>2 DEF Next, AddMember, Second, Publication, Installation, vars
  <2>2. RP!ReleaseInv
    BY <2>1 DEF PartsInv
  <2>3. [RP!Next]_(RP!vars)
    BY <2>1, ReleaseSteps
  <2> QED BY <2>2, <2>3, RP!NextReleaseInv
<1>3. ASSUME part' = "installer" PROVE IP!InstallInv'
  <2>1. part = "installer" /\ (I!Next \/ UNCHANGED installation)
    BY <1>3 DEF Next, AddMember, Second, Publication, Installation, vars
  <2>2. IP!InstallInv
    BY <2>1 DEF PartsInv
  <2>3. [IP!Next]_(IP!vars)
    BY <2>1, InstallSteps
  <2> QED BY <2>2, <2>3, IP!NextInstallInv
<1> QED BY <1>1, <1>2, <1>3 DEF PartsInv

LEMMA PartsInductive == Spec => []PartsInv
BY InitPartsInv, NextPartsInv, PTL DEF Spec

\* Every total is rounded to the nearest, for every tariff and every amount of
\* energy and time that whole steps add up to (calculateCharge).
THEOREM TotalsAreNearest == Spec => []TotalIsNearest
<1>1. PartsInv => TotalIsNearest
  <2> SUFFICES ASSUME PartsInv, input.kind = "bill" PROVE TotalIsNearest
    BY DEF TotalIsNearest
  <2>1. input.energy \in Nat /\ input.seconds \in Nat /\ input.tariff \in Bills
    BY DEF PartsInv, InputInv
  <2> QED BY <2>1, ChargeIsNearest DEF TotalIsNearest
<1> QED BY <1>1, PartsInductive, PTL

\* Whatever was posted or flashed, a service that restarts has the settings
\* that it stored (readFromJsonObject, writeToJsonObject).
THEOREM WhatIsStoredIsReadBack == Spec => []StoredMeansSame
<1>1. PartsInv => StoredMeansSame
  <2> SUFFICES ASSUME PartsInv, input.kind = "object", input.service # "smartpod"
               PROVE  StoredMeansSame
    BY DEF StoredMeansSame
  <2>1. input.service \in Services \ {"smartpod"}
    BY DEF PartsInv, InputInv
  <2> QED BY <2>1, FormatsRoundTrip DEF StoredMeansSame
<1> QED BY <1>1, PartsInductive, PTL

\* What a page shows is so: the fields of a form after it was saved, except in
\* the cases of Lost and in all of them, the members of a status, the port of
\* the lab (SettingsService, the forms and status pages,
\* projectSimulatorContract).
THEOREM WhatIsShownIsSo == Spec => []ShownIsSo
<1>1. PartsInv => ShownIsSo
  <2> SUFFICES ASSUME PartsInv PROVE ShownIsSo
    OBVIOUS
  <2>1. FormsAgree
    <3> SUFFICES ASSUME input.kind = "form", Accepts(input.form, input.data) PROVE FormsAgree
      BY DEF FormsAgree
    <3>1. input.form \in Forms /\ input.data \in Typed(input.form)
      BY DEF PartsInv, InputInv
    <3>2. Shows(Write(Service(input.form), Read(Service(input.form), Posted(input.data))),
                input.data, Fields(input.form, input.data)) <=> ~Lost(input.form, input.data)
      BY <3>1, FormAgrees
    <3> QED BY <3>2 DEF FormsAgree
  <2>2. AvailableMeansStartable
    BY AvailableStartsOpen DEF PartsInv, InputInv, AvailableMeansStartable
  <2> QED BY <2>1, <2>2, StatusAlwaysSent DEF ShownIsSo
<1> QED BY <1>1, PartsInductive, PTL

\* What is public is one whole build that was verified, however many
\* publications of the tag run (release.py).
THEOREM ScriptsPublishWhatTheyVerified == Spec => []PublishedIsVerified
<1>1. PartsInv => PublishedIsVerified
  BY DEF PartsInv, RP!ReleaseInv, PublishedIsVerified, RP!PublishedIsVerified,
         R!PublishedIsVerified, R!Whole, RP!Whole, R!Bytes, RP!Bytes
<1> QED BY <1>1, PartsInductive, PTL

\* The destination is the old binary or a whole new one at every moment
\* (install.sh).
THEOREM ScriptsInstallTheWhole == Spec => []OldOrNew
<1>1. PartsInv => OldOrNew
  <2>1. IP!InstallInv => I!OldOrNew
    BY DEF IP!InstallInv, I!OldOrNew, IP!New, I!OldDestinations, IP!OldDestinations, I!File,
           IP!File, I!Old, IP!Old, I!Link, IP!Link, I!Directory, IP!Directory
  <2> QED BY <2>1 DEF PartsInv, OldOrNew
<1> QED BY <1>1, PartsInductive, PTL
=============================================================================
