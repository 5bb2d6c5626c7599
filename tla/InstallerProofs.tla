-------------------------- MODULE InstallerProofs --------------------------
(* install.sh replaces the whole binary or nothing, for any number of        *)
(* installers and releases.                                                  *)
EXTENDS Installer, TLAPS

New == {File(b, "executable") : b \in Binaries}
Running == {"download", "verify", "stage", "copy", "chmod", "check", "rename", "cleanup"}

(* From Verify on what was downloaded is a binary of a release; the staged   *)
(* file is that binary from Copy on and executable from Chmod on; and once   *)
(* one installer has renamed its own, the destination is a new binary.       *)
InstallInv ==
  /\ step \in [Installers -> Running \cup Ended]
  /\ binary = [i \in Installers |-> binary[i]]
  /\ sums = [i \in Installers |-> sums[i]]
  /\ staged = [i \in Installers |-> staged[i]]
  /\ destination \in OldDestinations \cup New
  /\ \A i \in Installers :
       /\ step[i] = "verify" => sums[i] \in Binaries
       /\ step[i] \in {"stage", "copy", "chmod", "check", "rename"} => binary[i] \in Binaries
       /\ step[i] = "copy" => \E b : staged[i] = File(b, "plain")
       /\ step[i] = "chmod" => staged[i] = File(binary[i], "plain")
       /\ step[i] \in {"check", "rename"} => staged[i] = File(binary[i], "executable")
       /\ step[i] \in {"cleanup", "installed"} => destination \in New
       /\ step[i] \in {"installed", "failed"} =>
            staged[i] = None /\ binary[i] = None /\ sums[i] = None

LEMMA InitInstallInv ==
  ASSUME Init
  PROVE  InstallInv
BY DEF Init, InstallInv, Running, Ended

LEMMA NextInstallInv ==
  ASSUME InstallInv, [Next]_vars
  PROVE  InstallInv'
<1>1. CASE UNCHANGED vars
  BY <1>1 DEF vars, InstallInv
<1>2. ASSUME NEW i \in Installers, Download(i) PROVE InstallInv'
  BY <1>2 DEF Download, InstallInv, Running, Ended
<1>3. ASSUME NEW i \in Installers, Verify(i) PROVE InstallInv'
  BY <1>3 DEF Verify, InstallInv, Running, Ended
<1>4. ASSUME NEW i \in Installers, Stage(i) PROVE InstallInv'
  BY <1>4 DEF Stage, InstallInv, Running, Ended
<1>5. ASSUME NEW i \in Installers, Copy(i) PROVE InstallInv'
  <2>1. CASE staged' = [staged EXCEPT ![i] = File(Damaged, "plain")] /\ UNCHANGED step
    BY <1>5, <2>1 DEF Copy, InstallInv, Running, Ended
  <2>2. CASE /\ staged' = [staged EXCEPT ![i] = File(binary[i], "plain")]
             /\ step' = [step EXCEPT ![i] = "chmod"]
    BY <1>5, <2>2 DEF Copy, InstallInv, Running, Ended
  <2> QED BY <1>5, <2>1, <2>2 DEF Copy
<1>6. ASSUME NEW i \in Installers, Chmod(i) PROVE InstallInv'
  <2>1. staged[i] = File(binary[i], "plain")
    BY <1>6 DEF Chmod, InstallInv
  <2>2. staged' = [staged EXCEPT ![i] = File(binary[i], "executable")]
    BY <1>6, <2>1 DEF Chmod, File
  <2> QED BY <1>6, <2>2 DEF Chmod, InstallInv, Running, Ended
<1>7. ASSUME NEW i \in Installers, Check(i) PROVE InstallInv'
  BY <1>7 DEF Check, InstallInv, Running, Ended
<1>8. ASSUME NEW i \in Installers, Rename(i) PROVE InstallInv'
  <2>1. destination' \in New
    BY <1>8 DEF Rename, InstallInv, New
  <2> QED BY <1>8, <2>1 DEF Rename, InstallInv, Running, Ended
<1>9. ASSUME NEW i \in Installers, NEW end \in Ended, Cleanup(i, end),
             end = "installed" => step[i] = "cleanup"
      PROVE  InstallInv'
  BY <1>9 DEF Cleanup, InstallInv, Running, Ended
<1>10. ASSUME NEW i \in Installers, Kill(i) PROVE InstallInv'
  BY <1>10 DEF Kill, InstallInv, Running, Ended
<1> QED
  BY <1>1, <1>2, <1>3, <1>4, <1>5, <1>6, <1>7, <1>8, <1>9, <1>10 DEF Next, Finish, Fail, Ended

(* At every moment the destination is what it was or a whole new binary, and *)
(* an installer that was not killed leaves nothing behind (install.sh).      *)
THEOREM TheOldBinaryOrTheNew == Spec => []OldOrNew
<1>1. InstallInv => OldOrNew
  BY DEF InstallInv, OldOrNew, New
<1> QED BY <1>1, InitInstallInv, NextInstallInv, PTL DEF Spec
=============================================================================
