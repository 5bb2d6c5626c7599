----------------------------- MODULE ReadingLog -----------------------------
(***************************************************************************)
(* What the SmartPod gateway promises about its replay history: a log of   *)
(* readings that starts with the seed reading and grows by one reading at  *)
(* a time without a gap, never beyond MaxSequence, and clients that are    *)
(* shown committed readings in an order that never goes back.  Nothing     *)
(* here knows of processes, transactions, locks or crashes.                *)
(***************************************************************************)
EXTENDS Replay

CONSTANTS
  Clients,      \* API clients, each with one request at a time
  MaxSequence   \* last sequence number of the replay, a natural number

VARIABLES
  history,      \* the set of durable readings
  served        \* per client, the sequence of the last reading shown to it

logVars == <<history, served>>

(* Before its first answer a client has been shown nothing, which 0, the   *)
(* sequence of the seed, stands for.                                       *)
Init ==
  /\ history \in {{}} \cup {Rows(n) : n \in 0 .. MaxSequence}
  /\ served = [c \in Clients |-> 0]

Seed ==
  /\ history = {}
  /\ history' = Rows(0)
  /\ UNCHANGED served

Append ==
  /\ \E n \in 0 .. MaxSequence - 1 : history = Rows(n) /\ history' = Rows(n + 1)
  /\ UNCHANGED served

Show(c) ==
  /\ \E r \in history :
       /\ r.sequence >= served[c]
       /\ served' = [served EXCEPT ![c] = r.sequence]
  /\ UNCHANGED history

Next == Seed \/ Append \/ \E c \in Clients : Show(c)

Spec == Init /\ [][Next]_logVars
=============================================================================
