----------------------------- MODULE Installer -----------------------------
(* install.sh: a binary is downloaded, checked against the checksums of its  *)
(* release, staged beside the destination and renamed over it. Several       *)
(* installers may run at once, every command may fail, a signal may arrive   *)
(* after any command, and the machine may stop.                              *)
CONSTANTS None, Installers,
  Binaries         \* the binaries that a release lists with their checksums

VARIABLES
  step,            \* what each installer does next, or how it ended
  binary, sums,    \* $work_dir: the downloaded bytes, and the binary with the listed checksum
  staged,          \* $staged_binary and the bytes and mode it has
  destination      \* $install_dir/smartpod

vars == <<step, binary, sums, staged, destination>>

Damaged == "damaged"
Old == "old"
File(bytes, mode) == [bytes |-> bytes, mode |-> mode]
Link == File("link", "plain")
Directory == File("directory", "plain")
OldDestinations == {None, File(Old, "executable"), Link, Directory}
Ended == {"failed", "installed", "killed"}

Init ==
  /\ step = [i \in Installers |-> "download"]
  /\ binary = [i \in Installers |-> None]
  /\ sums = [i \in Installers |-> None]
  /\ staged = [i \in Installers |-> None]
  /\ destination \in OldDestinations

check_destination == destination \notin {Link, Directory}

\* The first check, the downloads and what they must be: a file that is not
\* empty, and one well-formed checksum for it.
Download(i) ==
  /\ step[i] = "download"
  /\ check_destination
  /\ \E bytes \in Binaries \cup {Damaged} : binary' = [binary EXCEPT ![i] = bytes]
  /\ \E listed \in Binaries : sums' = [sums EXCEPT ![i] = listed]
  /\ step' = [step EXCEPT ![i] = "verify"]
  /\ UNCHANGED <<staged, destination>>

\* Mutant: the checksums are not compared.
VerifyNothing(i) ==
  /\ step[i] = "verify"
  /\ step' = [step EXCEPT ![i] = "stage"]
  /\ UNCHANGED <<binary, sums, staged, destination>>

Verify(i) ==
  /\ step[i] = "verify"
  /\ binary[i] = sums[i]
  /\ step' = [step EXCEPT ![i] = "stage"]
  /\ UNCHANGED <<binary, sums, staged, destination>>

Stage(i) ==
  /\ step[i] = "stage"
  /\ staged' = [staged EXCEPT ![i] = File("", "plain")]
  /\ step' = [step EXCEPT ![i] = "copy"]
  /\ UNCHANGED <<binary, sums, destination>>

\* cp, which writes a part before the whole.
Copy(i) ==
  /\ step[i] = "copy"
  /\ \/ staged' = [staged EXCEPT ![i] = File(Damaged, "plain")] /\ UNCHANGED step
     \/ /\ staged' = [staged EXCEPT ![i] = File(binary[i], "plain")]
        /\ step' = [step EXCEPT ![i] = "chmod"]
  /\ UNCHANGED <<binary, sums, destination>>

Chmod(i) ==
  /\ step[i] = "chmod"
  /\ staged' = [staged EXCEPT ![i] = File(@.bytes, "executable")]
  /\ step' = [step EXCEPT ![i] = "check"]
  /\ UNCHANGED <<binary, sums, destination>>

Check(i) ==
  /\ step[i] = "check"
  /\ check_destination
  /\ step' = [step EXCEPT ![i] = "rename"]
  /\ UNCHANGED <<binary, sums, staged, destination>>

Rename(i) ==
  /\ step[i] = "rename"
  /\ destination' = staged[i]
  /\ staged' = [staged EXCEPT ![i] = None]
  /\ step' = [step EXCEPT ![i] = "cleanup"]
  /\ UNCHANGED <<binary, sums>>

\* The trap on EXIT, after the last command, a failed one or a signal, which
\* the shell handles between two commands.
Cleanup(i, end) ==
  /\ step' = [step EXCEPT ![i] = end]
  /\ binary' = [binary EXCEPT ![i] = None]
  /\ sums' = [sums EXCEPT ![i] = None]
  /\ staged' = [staged EXCEPT ![i] = None]
  /\ UNCHANGED destination

Finish(i) == step[i] = "cleanup" /\ Cleanup(i, "installed")
Fail(i) == step[i] \notin Ended /\ Cleanup(i, "failed")

\* SIGKILL or loss of power: no trap runs.
Kill(i) ==
  /\ step[i] \notin Ended
  /\ step' = [step EXCEPT ![i] = "killed"]
  /\ UNCHANGED <<binary, sums, staged, destination>>

Next ==
  \E i \in Installers :
    \/ Download(i) \/ Verify(i) \/ Stage(i) \/ Copy(i) \/ Chmod(i) \/ Check(i)
    \/ Rename(i) \/ Finish(i) \/ Fail(i) \/ Kill(i)

Spec == Init /\ [][Next]_vars

\* At every moment the destination is what it was, or the whole of a binary
\* with the checksum that its release lists, executable; and an installer that
\* was not killed leaves nothing else behind.
OldOrNew ==
  /\ destination \in OldDestinations \cup {File(b, "executable") : b \in Binaries}
  /\ \A i \in Installers :
       /\ step[i] = "installed" => destination \in {File(b, "executable") : b \in Binaries}
       /\ step[i] \in {"installed", "failed"} =>
            staged[i] = None /\ binary[i] = None /\ sums[i] = None
=============================================================================
