------------------------ MODULE MCSettingsService ------------------------
(* The settings service for TLC, with the Wi-Fi service's settings, the ones *)
(* that change most between the posted object and the stored one.            *)
EXTENDS DeviceSettings, SettingsService

MCEmpty == <<>>

Dynamic == [ssid |-> "home", password |-> "secret", hostname |-> "pod"]

\* A complete static configuration, with an address that is stored in another
\* spelling, one without a mask, and one that names only its second name server.
Static ==
  [ssid |-> "home", static_ip_config |-> TRUE, local_ip |-> "010.0.0.1",
   gateway_ip |-> "10.0.0.1", subnet_mask |-> "255.255.0.0"]
Incomplete == Only(Static, DOMAIN Static \ {"subnet_mask"})
SecondOnly == Static @@ [dns_ip_2 |-> "10.0.0.2"]

MCDocuments == {Dynamic, Static, Incomplete, SecondOnly}
=============================================================================
