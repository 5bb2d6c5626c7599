------------------------------ MODULE Gateway ------------------------------
(***************************************************************************)
(* The local gateway process (gateway/main.go, store.go, http.go) over one *)
(* SQLite database file: startup and migration, the sampler goroutine that *)
(* appends a reading per tick, the HTTP handlers that read the latest one, *)
(* the one-connection pool they share, signals, failures, graceful         *)
(* shutdown, kills and restarts.  Several gateways, and connections of     *)
(* other programs, may have the same file open: SQLite's file locks        *)
(* (rollback journal) are what keeps them apart.                           *)
(***************************************************************************)
EXTENDS Replay, FiniteSets

CONSTANTS
  Gateways,     \* gateway processes started on the same database file
  Outsiders,    \* connections of other programs to that file
  Clients,      \* API clients, each with one request at a time
  MaxSequence,  \* maxSequence of store.go
  None          \* no owner, no server

ASSUME GatewayAssumption ==
  /\ MaxSequence \in Nat
  /\ Gateways \cap Outsiders = {}
  /\ Clients \cap {"main", "worker", None} = {}
  /\ None \notin Gateways \cup {"main", "worker"}

VARIABLES
  file,       \* what startup looks at in the file, besides the readings
  rows,       \* the committed rows of table readings
  lock,       \* lock each connection holds on the file
  owner,      \* goroutine that holds the gateway's single pooled connection
  pending,    \* readings written by the connection's open transaction
  main,       \* phase of run()
  worker,     \* phase of the sampler goroutine
  previous,   \* appendReading's local: MAX(sequence) it read
  cancelled,  \* the signal context is done
  errors,     \* contents of errorsCh
  err,        \* run()'s err is not nil
  accepting,  \* the listener is being served
  exit,       \* how the last run of the process ended
  call,       \* per client: its request
  served      \* per client: sequence of the last reading it was shown

storeVars   == <<file, rows, lock, owner, pending>>
processVars == <<main, cancelled, errors, err, accepting, exit>>
workerVars  == <<worker, previous>>
clientVars  == <<call, served>>
vars == <<storeVars, processVars, workerVars, clientVars>>

(* sound: quick_check says ok; version: PRAGMA user_version; objects: the  *)
(* schema is not empty; port: the preview's port row is there, unaltered.  *)
Contents(sound, version, objects, port) ==
  [sound |-> sound, version |-> version, objects |-> objects, port |-> port]

Empty       == Contents(TRUE, 0, FALSE, FALSE)
Preview     == Contents(TRUE, 1, TRUE, TRUE)
PortAltered == Contents(TRUE, 1, TRUE, FALSE)
Newer       == Contents(TRUE, 2, TRUE, TRUE)
Unrelated   == Contents(TRUE, 0, TRUE, FALSE)
Damaged     == Contents(FALSE, 1, TRUE, TRUE)

(* What startup accepts as a database to serve. *)
Usable == file = Preview /\ SeedPresent(rows)

Log == INSTANCE ReadingLog WITH history <- IF Usable THEN rows ELSE {}

Conns == Gateways \cup Outsiders
NoCall == [phase |-> "idle", server |-> None, floor |-> 0, got |-> 0]

Active(g) == {c \in Clients : call[c].server = g}

(***************************************************************************)
(* SQLite's locks: many connections may hold "shared", one of them may     *)
(* also prepare a write ("reserved"), and a commit needs every other       *)
(* connection to be out of the file.                                       *)
(***************************************************************************)
CanShare(k)   == \A j \in Conns \ {k} : lock[j] # "exclusive"
CanReserve(k) == \A j \in Conns \ {k} : lock[j] \notin {"reserved", "exclusive"}
CanCommit(k)  == \A j \in Conns \ {k} : lock[j] = "none"

(* A connection sees the committed rows and its own uncommitted ones. *)
View(g) == rows \cup pending[g]

Acquire(k, l) == lock' = [lock EXCEPT ![k] = l]

(* The transaction is over and the connection is back in the pool. *)
Release(g) ==
  /\ owner' = [owner EXCEPT ![g] = None]
  /\ lock' = [lock EXCEPT ![g] = "none"]
  /\ pending' = [pending EXCEPT ![g] = {}]

(* COMMIT makes the transaction's rows durable, with the schema when they  *)
(* include the migration.                                                  *)
MakeDurable(g) ==
  /\ rows' = View(g)
  /\ file' = IF SeedPresent(pending[g]) THEN Preview ELSE file

(***************************************************************************)
(* Life of the process.                                                    *)
(***************************************************************************)
Goto(g, from, to) ==
  /\ main[g] = from
  /\ main' = [main EXCEPT ![g] = to]

(* The process is gone, whatever the reason: what it held in memory is     *)
(* lost, the operating system closes its sockets and files, and SQLite     *)
(* discards an unfinished transaction.                                     *)
Leave(g, status) ==
  /\ main' = [main EXCEPT ![g] = "down"]
  /\ exit' = [exit EXCEPT ![g] = status]
  /\ worker' = [worker EXCEPT ![g] = "off"]
  /\ previous' = [previous EXCEPT ![g] = 0]
  /\ accepting' = [accepting EXCEPT ![g] = FALSE]
  /\ cancelled' = [cancelled EXCEPT ![g] = FALSE]
  /\ err' = [err EXCEPT ![g] = FALSE]
  /\ call' = [c \in Clients |-> IF call[c].server = g THEN NoCall ELSE call[c]]
  /\ Release(g)
  /\ UNCHANGED <<errors, served>>

Crash(g) ==
  /\ main[g] # "down"
  /\ Leave(g, "killed")
  /\ UNCHANGED <<file, rows>>

(* run() with usable arguments: openStore creates the file if need be. *)
Start(g) ==
  /\ Goto(g, "down", "open")
  /\ errors' = [errors EXCEPT ![g] = {}]
  /\ exit' = [exit EXCEPT ![g] = "none"]
  /\ UNCHANGED <<storeVars, workerVars, clientVars, cancelled, err, accepting>>

(* SIGINT or SIGTERM. *)
Signal(g) ==
  /\ main[g] # "down"
  /\ ~cancelled[g]
  /\ cancelled' = [cancelled EXCEPT ![g] = TRUE]
  /\ UNCHANGED <<storeVars, workerVars, clientVars, main, errors, err, accepting, exit>>

(***************************************************************************)
(* Startup: openStore and initializeStore, under a context that the signal *)
(* and a five second timeout cancel.                                       *)
(***************************************************************************)
Starting == {"open", "begin", "version", "validate", "committing", "listen"}

QuickCheck(g) ==
  /\ ~cancelled[g] /\ CanShare(g) /\ file.sound
  /\ Goto(g, "open", "begin")
  /\ UNCHANGED <<storeVars, workerVars, clientVars, cancelled, errors, err, accepting, exit>>

(* BEGIN is deferred: the first read takes the shared lock. *)
ReadVersion(g) ==
  /\ ~cancelled[g] /\ CanShare(g)
  /\ Goto(g, "begin", "version")
  /\ owner' = [owner EXCEPT ![g] = "main"]
  /\ Acquire(g, "shared")
  /\ UNCHANGED <<file, rows, pending, workerVars, clientVars, cancelled, errors, err, accepting, exit>>

(* Mutant: an unversioned file is taken for an empty one. *)
MigrateAnyUnversioned(g) ==
  /\ ~cancelled[g] /\ file.version = 0 /\ CanReserve(g)
  /\ Goto(g, "version", "validate")
  /\ Acquire(g, "reserved")
  /\ pending' = [pending EXCEPT ![g] = Rows(0)]
  /\ UNCHANGED <<file, rows, owner, workerVars, clientVars, cancelled, errors, err, accepting, exit>>

(* Only an unversioned file without objects is given the schema and seed.  *)
Migrate(g) ==
  /\ ~cancelled[g] /\ file.version = 0 /\ ~file.objects /\ CanReserve(g)
  /\ Goto(g, "version", "validate")
  /\ Acquire(g, "reserved")
  /\ pending' = [pending EXCEPT ![g] = Rows(0)]
  /\ UNCHANGED <<file, rows, owner, workerVars, clientVars, cancelled, errors, err, accepting, exit>>

AcceptVersion(g) ==
  /\ ~cancelled[g] /\ file.version = 1
  /\ Goto(g, "version", "validate")
  /\ UNCHANGED <<storeVars, workerVars, clientVars, cancelled, errors, err, accepting, exit>>

(* Mutant: the seed reading is not looked for. *)
ValidPortOnly(g) == file.port \/ pending[g] # {}

(* The port and the seed must be there, then Commit checks the context. *)
Valid(g) ==
  /\ SeedPresent(View(g))
  /\ file.port \/ pending[g] # {}

Validate(g) ==
  /\ ~cancelled[g] /\ Valid(g)
  /\ Goto(g, "validate", "committing")
  /\ UNCHANGED <<storeVars, workerVars, clientVars, cancelled, errors, err, accepting, exit>>

CommitStartup(g) ==
  /\ pending[g] # {} => CanCommit(g)
  /\ Goto(g, "committing", "listen")
  /\ MakeDurable(g)
  /\ Release(g)
  /\ UNCHANGED <<workerVars, clientVars, cancelled, errors, err, accepting, exit>>

(* A refused file, a busy or failing database, the timeout, the signal, or *)
(* an address in use: the transaction is rolled back and run() returns the *)
(* error.  A failing COMMIT may still have become durable.                 *)
StartupFails(g) ==
  /\ main[g] \in Starting
  /\ Leave(g, "failure")
  /\ \/ UNCHANGED <<file, rows>>
     \/ /\ main[g] = "committing"
        /\ pending[g] # {} /\ CanCommit(g)
        /\ MakeDurable(g)

(* net.Listen, the Serve goroutine and the sampler goroutine. *)
Listen(g) ==
  /\ Goto(g, "listen", "serve")
  /\ accepting' = [accepting EXCEPT ![g] = TRUE]
  /\ worker' = [worker EXCEPT ![g] = "idle"]
  /\ UNCHANGED <<storeVars, clientVars, previous, cancelled, errors, err, exit>>

(***************************************************************************)
(* The sampler goroutine.  One append is one transaction under a context   *)
(* that the signal, stopWorker and a three second timeout cancel.          *)
(***************************************************************************)
(* workerCtx is done. *)
Stopped(g) == cancelled[g] \/ main[g] = "stopping"

Advance(g, from, to) ==
  /\ worker[g] = from
  /\ worker' = [worker EXCEPT ![g] = to]

Tick(g) ==
  /\ Advance(g, "idle", "begin")
  /\ UNCHANGED <<storeVars, processVars, clientVars, previous>>

StopSampler(g) ==
  /\ Stopped(g)
  /\ Advance(g, "idle", "done")
  /\ UNCHANGED <<storeVars, processVars, clientVars, previous>>

(* BeginTx waits for the pooled connection. *)
BeginAppend(g) ==
  /\ ~Stopped(g) /\ owner[g] = None
  /\ Advance(g, "begin", "select")
  /\ owner' = [owner EXCEPT ![g] = "worker"]
  /\ UNCHANGED <<file, rows, lock, pending, processVars, clientVars, previous>>

(* Mutant: off by one, counting readings instead of numbering them. *)
SelectMaxOffByOne(g) ==
  /\ ~Stopped(g) /\ CanShare(g)
  /\ Advance(g, "select", "insert")
  /\ Acquire(g, "shared")
  /\ previous' = [previous EXCEPT ![g] = LastSequence(View(g)) - 1]
  /\ UNCHANGED <<file, rows, owner, pending, processVars, clientVars>>

SelectMax(g) ==
  /\ ~Stopped(g) /\ CanShare(g)
  /\ Advance(g, "select", "insert")
  /\ Acquire(g, "shared")
  /\ previous' = [previous EXCEPT ![g] = LastSequence(View(g))]
  /\ UNCHANGED <<file, rows, owner, pending, processVars, clientVars>>

(* Mutant: a tick that was missed is skipped. *)
InsertSkipping(g) ==
  LET next == Reading(previous[g] + 2) IN
  /\ ~Stopped(g) /\ previous[g] < MaxSequence /\ CanReserve(g)
  /\ \A r \in View(g) : r.sequence # next.sequence
  /\ Advance(g, "insert", "commit")
  /\ Acquire(g, "reserved")
  /\ pending' = [pending EXCEPT ![g] = @ \cup {next}]
  /\ UNCHANGED <<file, rows, owner, processVars, clientVars, previous>>

(* The primary key refuses a sequence that is already there. *)
Insert(g) ==
  LET next == Reading(previous[g] + 1) IN
  /\ ~Stopped(g) /\ previous[g] < MaxSequence /\ CanReserve(g)
  /\ \A r \in View(g) : r.sequence # next.sequence
  /\ Advance(g, "insert", "commit")
  /\ Acquire(g, "reserved")
  /\ pending' = [pending EXCEPT ![g] = @ \cup {next}]
  /\ UNCHANGED <<file, rows, owner, processVars, clientVars, previous>>

(* Tx.Commit looks at the context once; COMMIT itself is not interrupted.  *)
CheckContext(g) ==
  /\ ~Stopped(g)
  /\ Advance(g, "commit", "committing")
  /\ UNCHANGED <<storeVars, processVars, clientVars, previous>>

CommitAppend(g) ==
  /\ CanCommit(g)
  /\ Advance(g, "committing", "idle")
  /\ MakeDurable(g)
  /\ Release(g)
  /\ UNCHANGED <<processVars, clientVars, previous>>

(* Mutant: the deferred Rollback is missing. *)
AppendFailsNoRollback(g) ==
  /\ worker[g] \in {"begin", "select", "insert", "commit", "committing"}
  /\ worker' = [worker EXCEPT ![g] = "failed"]
  /\ owner' = IF worker[g] = "begin" THEN owner ELSE [owner EXCEPT ![g] = None]
  /\ UNCHANGED <<file, rows, lock, pending, processVars, clientVars, previous>>

(* Any step may fail: database busy, disk error, timeout, cancellation,    *)
(* replay exhausted.  The deferred Rollback returns the connection; a      *)
(* COMMIT that reports an error may still have become durable.             *)
AppendFails(g) ==
  /\ worker[g] \in {"begin", "select", "insert", "commit", "committing"}
  /\ worker' = [worker EXCEPT ![g] = "failed"]
  /\ IF worker[g] = "begin" THEN UNCHANGED <<owner, lock, pending>> ELSE Release(g)
  /\ \/ UNCHANGED <<file, rows>>
     \/ worker[g] = "committing" /\ CanCommit(g) /\ MakeDurable(g)
  /\ UNCHANGED <<processVars, clientVars, previous>>

(* A failure after cancellation is not reported. *)
JudgeFailure(g) ==
  /\ Advance(g, "failed", IF Stopped(g) THEN "done" ELSE "sending")
  /\ UNCHANGED <<storeVars, processVars, clientVars, previous>>

(* Mutant: errorsCh has room for Serve's error only. *)
ErrorsCapOne == 1
ErrorsCap == 2
RoomFor(g) == Cardinality(errors[g]) < ErrorsCap

(* Mutant: the sampler ends without reporting its failure. *)
SendNothing(g) ==
  /\ RoomFor(g)
  /\ Advance(g, "sending", "done")
  /\ UNCHANGED <<storeVars, processVars, clientVars, previous>>

SendFailure(g) ==
  /\ RoomFor(g)
  /\ Advance(g, "sending", "done")
  /\ errors' = [errors EXCEPT ![g] = @ \cup {"write"}]
  /\ UNCHANGED <<storeVars, main, cancelled, err, accepting, exit, clientVars, previous>>

(***************************************************************************)
(* HTTP.  Only requests that pass the Host, Origin, authorization, path    *)
(* and method checks reach readPorts, and only those are modelled here.    *)
(* A request comes on a connection accepted now or earlier, which outlives *)
(* the listener until the drain has found it idle and closed it.           *)
(***************************************************************************)
Request(c, g) ==
  /\ call[c] = NoCall /\ main[g] \in {"serve", "stopping", "draining"}
  /\ call' = [call EXCEPT ![c] = [phase |-> "queued", server |-> g,
                                  floor |-> LastSequence(rows), got |-> 0]]
  /\ UNCHANGED <<storeVars, processVars, workerVars, served>>

Step(c, from, to) ==
  /\ call[c].phase = from
  /\ call' = [call EXCEPT ![c].phase = to]

(* Mutant: the query does not wait for the transaction on the connection. *)
TakeBusyConnection(c) ==
  /\ Step(c, "queued", "holding")
  /\ owner' = [owner EXCEPT ![call[c].server] = c]
  /\ UNCHANGED <<file, rows, lock, pending, processVars, workerVars, served>>

(* readPorts gets the pooled connection. *)
TakeConnection(c) ==
  LET g == call[c].server IN
  /\ Step(c, "queued", "holding")
  /\ owner[g] = None
  /\ owner' = [owner EXCEPT ![g] = c]
  /\ UNCHANGED <<file, rows, lock, pending, processVars, workerVars, served>>

(* Mutant: the answer comes from the sampler's variable, not the database. *)
QueryCached(c) ==
  LET g == call[c].server IN
  /\ call[c].phase = "holding" /\ CanShare(g)
  /\ call' = [call EXCEPT ![c] = [@ EXCEPT !.phase = "reading", !.got = previous[g]]]
  /\ Acquire(g, "shared")
  /\ UNCHANGED <<file, rows, owner, pending, processVars, workerVars, served>>

(* One statement selects the latest reading the connection sees. *)
Query(c) ==
  LET g == call[c].server IN
  /\ call[c].phase = "holding" /\ CanShare(g)
  /\ call' = [call EXCEPT ![c] = [@ EXCEPT !.phase = "reading", !.got = LastSequence(View(g))]]
  /\ Acquire(g, "shared")
  /\ UNCHANGED <<file, rows, owner, pending, processVars, workerVars, served>>

(* Mutant: rows.Close is missing. *)
CloseRowsNever(c) ==
  /\ Step(c, "reading", "ok")
  /\ UNCHANGED <<storeVars, processVars, workerVars, served>>

(* rows.Close gives the connection back before the response is written. *)
CloseRows(c) ==
  /\ Step(c, "reading", "ok")
  /\ Release(call[c].server)
  /\ UNCHANGED <<file, rows, processVars, workerVars, served>>

(* Busy or failing database: 503. *)
ReadFails(c) ==
  /\ call[c].phase \in {"holding", "reading"}
  /\ call' = [call EXCEPT ![c].phase = "unavailable"]
  /\ Release(call[c].server)
  /\ UNCHANGED <<file, rows, processVars, workerVars, served>>

(* The client goes away while its handler waits for the connection. *)
Disconnect(c) ==
  /\ call[c].phase = "queued"
  /\ call' = [call EXCEPT ![c] = NoCall]
  /\ UNCHANGED <<storeVars, processVars, workerVars, served>>

Respond(c) ==
  /\ call[c].phase \in {"ok", "unavailable"}
  /\ main[call[c].server] # "closing"
  /\ served' = IF call[c].phase = "ok" THEN [served EXCEPT ![c] = call[c].got] ELSE served
  /\ call' = [call EXCEPT ![c] = NoCall]
  /\ UNCHANGED <<storeVars, processVars, workerVars>>

(* Serve returns because the listener broke. *)
ServeFails(g) ==
  /\ accepting[g]
  /\ accepting' = [accepting EXCEPT ![g] = FALSE]
  /\ errors' = [errors EXCEPT ![g] = IF RoomFor(g) THEN @ \cup {"serve"} ELSE @]
  /\ UNCHANGED <<storeVars, main, cancelled, err, exit, workerVars, clientVars>>

(***************************************************************************)
(* Shutdown.  When both channels are ready, select takes either.           *)
(***************************************************************************)
SelectDone(g) ==
  /\ Goto(g, "serve", "stopping")
  /\ cancelled[g]
  /\ UNCHANGED <<storeVars, workerVars, clientVars, cancelled, errors, err, accepting, exit>>

SelectError(g) ==
  /\ Goto(g, "serve", "stopping")
  /\ \E e \in errors[g] : errors' = [errors EXCEPT ![g] = @ \ {e}]
  /\ err' = [err EXCEPT ![g] = TRUE]
  /\ UNCHANGED <<storeVars, workerVars, clientVars, cancelled, accepting, exit>>

(* Mutant: Shutdown does not wait for the sampler. *)
BeginShutdownAtOnce(g) ==
  /\ Goto(g, "stopping", "draining")
  /\ accepting' = [accepting EXCEPT ![g] = FALSE]
  /\ UNCHANGED <<storeVars, workerVars, clientVars, cancelled, errors, err, exit>>

(* <-workerDone, then Shutdown closes the listener. *)
BeginShutdown(g) ==
  /\ worker[g] = "done"
  /\ Goto(g, "stopping", "draining")
  /\ accepting' = [accepting EXCEPT ![g] = FALSE]
  /\ UNCHANGED <<storeVars, workerVars, clientVars, cancelled, errors, err, exit>>

Drained(g) ==
  /\ Active(g) = {}
  /\ Goto(g, "draining", "closing")
  /\ UNCHANGED <<storeVars, workerVars, clientVars, cancelled, errors, err, accepting, exit>>

(* Mutant: a drain that times out is not an error. *)
DrainTimeoutSilent(g) ==
  /\ Goto(g, "draining", "closing")
  /\ UNCHANGED <<storeVars, workerVars, clientVars, cancelled, errors, err, accepting, exit>>

(* Five seconds are over and some connection is not idle, though it may    *)
(* have no request yet: server.Close, and an error unless there is one.    *)
DrainTimeout(g) ==
  /\ Goto(g, "draining", "closing")
  /\ err' = [err EXCEPT ![g] = TRUE]
  /\ UNCHANGED <<storeVars, workerVars, clientVars, cancelled, errors, accepting, exit>>

(* The deferred closes, and os.Exit(1) after an error. *)
Exit(g) ==
  /\ main[g] = "closing"
  /\ Leave(g, IF err[g] THEN "failure" ELSE "ok")
  /\ UNCHANGED <<file, rows>>

(***************************************************************************)
(* Connections of other programs: they lock the file and write nothing.    *)
(***************************************************************************)
OutsiderLocks(o) ==
  /\ lock[o] = "none"
  /\ \/ CanShare(o) /\ Acquire(o, "shared")
     \/ CanShare(o) /\ CanReserve(o) /\ Acquire(o, "reserved")
     \/ CanCommit(o) /\ Acquire(o, "exclusive")
  /\ UNCHANGED <<file, rows, owner, pending, processVars, workerVars, clientVars>>

OutsiderUnlocks(o) ==
  /\ lock[o] # "none"
  /\ Acquire(o, "none")
  /\ UNCHANGED <<file, rows, owner, pending, processVars, workerVars, clientVars>>

(***************************************************************************)
(* The specification.  The file may be new, a preview with some history,   *)
(* or one that startup has to refuse.                                      *)
(***************************************************************************)
InitFile ==
  \/ file = Empty /\ rows = {}
  \/ file = Preview /\ rows \in {Rows(n) : n \in 0 .. MaxSequence}
  \/ file = Preview /\ rows = Rows(1) \ Rows(0)  \* seed deleted
  \/ file \in {PortAltered, Newer, Damaged} /\ rows = Rows(0)
  \/ file = Unrelated /\ rows = {}

Init ==
  /\ InitFile
  /\ lock = [k \in Conns |-> "none"]
  /\ owner = [g \in Gateways |-> None]
  /\ pending = [g \in Gateways |-> {}]
  /\ main = [g \in Gateways |-> "down"]
  /\ worker = [g \in Gateways |-> "off"]
  /\ previous = [g \in Gateways |-> 0]
  /\ cancelled = [g \in Gateways |-> FALSE]
  /\ errors = [g \in Gateways |-> {}]
  /\ err = [g \in Gateways |-> FALSE]
  /\ accepting = [g \in Gateways |-> FALSE]
  /\ exit = [g \in Gateways |-> "none"]
  /\ call = [c \in Clients |-> NoCall]
  /\ served = [c \in Clients |-> 0]

(* The goroutine of run(). *)
MainStep(g) ==
  \/ QuickCheck(g) \/ ReadVersion(g) \/ Migrate(g) \/ AcceptVersion(g)
  \/ Validate(g) \/ CommitStartup(g) \/ StartupFails(g) \/ Listen(g)
  \/ SelectDone(g) \/ SelectError(g) \/ BeginShutdown(g)
  \/ Drained(g) \/ DrainTimeout(g) \/ Exit(g)

WorkerStep(g) ==
  \/ StopSampler(g) \/ BeginAppend(g) \/ SelectMax(g) \/ Insert(g)
  \/ CheckContext(g) \/ CommitAppend(g) \/ AppendFails(g)
  \/ JudgeFailure(g) \/ SendFailure(g)

(* A handler that has the connection, or has an answer to write. *)
HandlerStep(c) == Query(c) \/ CloseRows(c) \/ ReadFails(c) \/ Respond(c)

Environment ==
  \/ \E g \in Gateways : Start(g) \/ Signal(g) \/ Crash(g) \/ ServeFails(g) \/ Tick(g)
  \/ \E c \in Clients : Disconnect(c) \/ \E g \in Gateways : Request(c, g)
  \/ \E o \in Outsiders : OutsiderLocks(o) \/ OutsiderUnlocks(o)

Next ==
  \/ \E g \in Gateways : MainStep(g) \/ WorkerStep(g)
  \/ \E c \in Clients : TakeConnection(c) \/ HandlerStep(c)
  \/ Environment

(* The Go scheduler runs every goroutine, and every database call ends: it *)
(* succeeds, or busy_timeout or its context makes it fail.  The pool hands *)
(* the connection to waiting requests in turn, hence strong fairness.      *)
(* Ticks are left to the environment: a replay that runs out, and so ends  *)
(* the process, must not be what settles a request.                        *)
Fairness ==
  /\ \A g \in Gateways : WF_vars(MainStep(g)) /\ WF_vars(WorkerStep(g))
  /\ \A c \in Clients : WF_vars(HandlerStep(c)) /\ SF_vars(TakeConnection(c))

Spec == Init /\ [][Next]_vars
FairSpec == Spec /\ Fairness
-----------------------------------------------------------------------------
MainPhases == Starting \cup {"down", "serve", "stopping", "draining", "closing"}
WorkerPhases == {"off", "idle", "begin", "select", "insert", "commit",
                 "committing", "failed", "sending", "done"}
CallPhases == {"idle", "queued", "holding", "reading", "ok", "unavailable"}

FileTypes == [sound : BOOLEAN, version : 0 .. 2, objects : BOOLEAN, port : BOOLEAN]
CallTypes == [phase : CallPhases, server : Gateways \cup {None}, floor : Nat, got : Nat]

(* Every variable keeps its type. *)
TypeOK ==
  /\ file \in FileTypes
  /\ rows \subseteq Readings
  /\ lock \in [Conns -> {"none", "shared", "reserved", "exclusive"}]
  /\ owner \in [Gateways -> {None, "main", "worker"} \cup Clients]
  /\ pending \in [Gateways -> SUBSET Readings]
  /\ main \in [Gateways -> MainPhases]
  /\ worker \in [Gateways -> WorkerPhases]
  /\ previous \in [Gateways -> Nat]
  /\ cancelled \in [Gateways -> BOOLEAN]
  /\ errors \in [Gateways -> SUBSET {"serve", "write"}]
  /\ err \in [Gateways -> BOOLEAN]
  /\ accepting \in [Gateways -> BOOLEAN]
  /\ exit \in [Gateways -> {"none", "ok", "failure", "killed"}]
  /\ call \in [Clients -> CallTypes]
  /\ served \in [Clients -> Nat]

(* Whatever processes append, crash or fail in the middle of a transaction, *)
(* a database that is served holds the seed and every reading up to the     *)
(* last one, within the replay's range.                                     *)
GapFree == Usable => \E n \in 0 .. MaxSequence : rows = Rows(n)

(* No step of any process removes or rewrites a durable reading, and only   *)
(* an empty file is ever initialized: nothing is reseeded or repaired.      *)
HistoryPreserved ==
  [][rows \subseteq rows' /\ (<<file, rows>>' # <<file, rows>> => file = Empty \/ Usable)]_vars

(* A gateway that reached its listener serves a valid preview database.     *)
ServesUsable == \A g \in Gateways : main[g] \notin (Starting \cup {"down"}) => Usable

(* The answer a handler is about to write is a durable reading, no older    *)
(* than what was durable when the request came in: a reading of an open     *)
(* transaction is never shown.                                              *)
FreshAnswers ==
  \A c \in Clients : call[c].phase = "ok" =>
    /\ Reading(call[c].got) \in rows
    /\ call[c].got >= call[c].floor

(* The connection goes back to the pool without a lock on the file and      *)
(* without a half-done transaction, on every path.                          *)
ConnectionReturnedClean ==
  \A g \in Gateways : owner[g] = None => lock[g] = "none" /\ pending[g] = {}

(* The sampler is over, and has left the connection, before HTTP drains     *)
(* and SQLite closes.                                                       *)
ShutdownOrder ==
  \A g \in Gateways : main[g] \in {"draining", "closing"} =>
    worker[g] = "done" /\ owner[g] # "worker"

(* A process that exits with status 0 has answered every request it took.   *)
CleanExitAnsweredAll ==
  [][\A g \in Gateways :
       (main[g] = "closing" /\ exit'[g] = "ok") => Active(g) = {}]_vars

(* The gateways together implement the log of ReadingLog: whatever they and *)
(* other programs do to each other, the history grows by one reading at a   *)
(* time and no client is shown an older reading after a newer one.          *)
LogSpec == Log!Spec

(* A signal stops the process. *)
SignalStops == \A g \in Gateways : cancelled[g] ~> main[g] = "down"

(* A failed append stops the process: the failure is reported, or shutdown  *)
(* has already begun.                                                       *)
FailureStops == \A g \in Gateways : worker[g] = "failed" ~> main[g] = "down"

(* A request that waits for the single connection gets out of the queue,    *)
(* though the sampler and the other requests compete for it.                *)
RequestSettles == \A c \in Clients : call[c].phase # "idle" ~> call[c].phase = "idle"

(* docs/gateway.md: "A later write failure stops the process with a nonzero *)
(* exit".  A reported failure that is still unread in errorsCh when the     *)
(* process has exited, or one that was read, must not leave status 0.       *)
WriteFailureExitsNonzero ==
  \A g \in Gateways : exit[g] = "ok" => "write" \notin errors[g]
=============================================================================
