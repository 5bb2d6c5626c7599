-------------------------- MODULE GatewayInvariant --------------------------
(***************************************************************************)
(* The inductive invariant of Gateway: who holds the connection in which   *)
(* phase, what the file locks guarantee, and what each party may rely on   *)
(* while it holds a lock.                                                  *)
(***************************************************************************)
EXTENDS Gateway

Serving == {"serve", "stopping", "draining", "closing"}

(* The kinds of file there are; only Empty ever changes, into Preview.     *)
FileKinds == {Empty, Preview, PortAltered, Newer, Unrelated, Damaged}

FileInv ==
  /\ file \in FileKinds
  /\ file = Empty => rows = {}
  /\ GapFree

(* Reserved and exclusive exclude each other, exclusive excludes the rest, *)
(* and no gateway holds the file exclusively between two steps.            *)
LocksCompatible ==
  /\ \A j, k \in Conns : j # k /\ lock[j] \in {"reserved", "exclusive"}
                           => lock[k] \notin {"reserved", "exclusive"}
  /\ \A j, k \in Conns : j # k /\ lock[j] = "exclusive" => lock[k] = "none"
  /\ \A g \in Gateways : lock[g] # "exclusive"

(* A transaction's view of the file, protected by its lock. *)
Clean(g)     == lock[g] = "none"     /\ pending[g] = {}
Reading1(g)  == lock[g] = "shared"   /\ pending[g] = {}
Migrating(g) == lock[g] = "reserved" /\ pending[g] = Rows(0) /\ file = Empty

MainInv(g) ==
  /\ owner[g] = "main" <=> main[g] \in {"version", "validate", "committing"}
  /\ main[g] \notin {"down", "open"} => file.sound
  /\ main[g] = "version" => Reading1(g)
  /\ main[g] \in {"validate", "committing"} =>
       Migrating(g) \/ (Reading1(g) /\ file.version = 1)
  /\ main[g] = "committing" => Valid(g)
  /\ main[g] \in Serving \cup {"listen"} => Usable

WorkerInv(g) ==
  /\ worker[g] # "off" <=> main[g] \in Serving
  /\ main[g] \in {"draining", "closing"} => worker[g] = "done"
  /\ owner[g] = "worker" <=> worker[g] \in {"select", "insert", "commit", "committing"}
  /\ worker[g] = "select" => Clean(g)
  /\ worker[g] = "insert" => Reading1(g) /\ rows = Rows(previous[g])
  /\ worker[g] \in {"commit", "committing"} =>
       /\ lock[g] = "reserved"
       /\ rows = Rows(previous[g]) /\ previous[g] < MaxSequence
       /\ pending[g] = {Reading(previous[g] + 1)}

CallInv(c) ==
  LET g == call[c].server IN
  /\ g = None <=> call[c].phase = "idle"
  /\ g # None => main[g] \in Serving
  /\ \A k \in Gateways : owner[k] = c <=> k = g /\ call[c].phase \in {"holding", "reading"}
  /\ call[c].phase = "holding" => Clean(g)
  /\ call[c].phase = "reading" => Reading1(g)
  /\ call[c].phase # "idle" =>
       Reading(call[c].floor) \in rows /\ served[c] <= call[c].floor
  /\ call[c].phase \in {"reading", "ok"} =>
       Reading(call[c].got) \in rows /\ call[c].floor <= call[c].got
  /\ served[c] # 0 => Usable /\ Reading(served[c]) \in rows

(* A drain that ends by itself has found no request, and none comes in     *)
(* after it, so a process that closes without an error has none left; its  *)
(* exit status is not yet set.                                             *)
DrainInv(g) ==
  /\ main[g] # "down" => exit[g] = "none"
  /\ main[g] = "closing" /\ ~err[g] => Active(g) = {}

IInv ==
  /\ TypeOK
  /\ FileInv
  /\ LocksCompatible
  /\ ConnectionReturnedClean
  /\ \A g \in Gateways : MainInv(g) /\ WorkerInv(g)
  /\ \A c \in Clients : CallInv(c)
=============================================================================
