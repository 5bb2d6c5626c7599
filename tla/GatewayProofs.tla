--------------------------- MODULE GatewayProofs ---------------------------
(***************************************************************************)
(* Proofs about Gateway, for any number of processes, clients and other    *)
(* programs and any length of the replay.  IInv of GatewayInvariant is     *)
(* shown inductive part by part; the properties follow from it, and with   *)
(* it every step of Gateway is a step of ReadingLog or leaves it alone.    *)
(***************************************************************************)
EXTENDS GatewayInvariant, TLAPS

(* The replay's readings. *)

(* Readings are typed, and a reading is determined by its sequence.        *)
LEMMA ReadingType == \A n \in Nat : Reading(n) \in Readings
  BY DEF Reading, Readings

LEMMA ReadingSequence == \A n \in Nat : Reading(n).sequence = n
  BY DEF Reading

LEMMA ReadingDistinct ==
  ASSUME NEW n \in Nat, NEW m \in Nat, Reading(m) = Reading(n)
  PROVE  m = n
  BY ReadingSequence

(* A gap-free history has exactly the readings up to its last one.         *)
LEMMA RowsMember ==
  ASSUME NEW n \in Nat, NEW m \in Nat
  PROVE  Reading(m) \in Rows(n) <=> m <= n
<1>1. ASSUME m <= n PROVE Reading(m) \in Rows(n)
  <2>1. m \in 0 .. n
    BY <1>1
  <2>2. QED
    BY <2>1 DEF Rows
<1>2. ASSUME Reading(m) \in Rows(n) PROVE m <= n
  <2>1. PICK i \in 0 .. n : Reading(m) = Reading(i)
    BY <1>2 DEF Rows
  <2>2. m = i
    BY <2>1, ReadingDistinct
  <2>3. QED
    BY <2>2
<1>3. QED
  BY <1>1, <1>2

LEMMA RowsType ==
  ASSUME NEW n \in Nat
  PROVE  Rows(n) \subseteq Readings /\ SeedPresent(Rows(n))
<1>1. \A i \in 0 .. n : Reading(i) \in Readings
  BY ReadingType
<1>2. Reading(0) \in Rows(n)
  BY RowsMember
<1>3. QED
  BY <1>1, <1>2 DEF Rows, SeedPresent

(* Appending the next reading extends the history without a gap.           *)
LEMMA RowsAppend ==
  ASSUME NEW n \in Nat
  PROVE  Rows(n) \cup {Reading(n + 1)} = Rows(n + 1)
  BY DEF Rows, Reading

LEMMA RowsDistinct ==
  ASSUME NEW n \in Nat, NEW m \in Nat
  PROVE  Rows(n) = Rows(m) <=> n = m
<1>1. Rows(n) = Rows(m) => n <= m /\ m <= n
  BY RowsMember
<1>2. QED
  BY <1>1

(* MAX(sequence) of a gap-free history is the sequence of its last reading. *)
LEMMA LastOfRows ==
  ASSUME NEW n \in Nat
  PROVE  LastSequence(Rows(n)) = n
<1> DEFINE S == {r.sequence : r \in Rows(n)}
<1>1. S = 0 .. n
  <2>1. \A i \in 0 .. n : Reading(i).sequence = i
    BY ReadingSequence
  <2>2. QED
    BY <2>1 DEF Rows
<1>2. \A r \in Rows(n) : r.sequence <= n
  BY <1>1
<1>3. \A m \in S : (\A r \in Rows(n) : r.sequence <= m) => m = n
  <2>1. Reading(n) \in Rows(n) /\ Reading(n).sequence = n
    BY RowsMember, ReadingSequence
  <2>2. QED
    BY <1>1, <2>1
<1>4. n \in S
  BY <1>1
<1>5. QED
  BY <1>2, <1>3, <1>4 DEF LastSequence
-----------------------------------------------------------------------------
(* What the proofs say of one gateway, beside its invariant.               *)

GatewayInv(k) == MainInv(k) /\ WorkerInv(k) /\ (owner[k] = None => Clean(k))

(* No step of gateway k, nor of its clients. *)
Untouched(k) ==
  UNCHANGED <<main[k], worker[k], owner[k], lock[k], pending[k], previous[k]>>

(* Some connection is executing COMMIT. *)
Commits(g) ==
  /\ MakeDurable(g) /\ CanCommit(g)
  /\ main[g] = "committing" \/ worker[g] = "committing"
-----------------------------------------------------------------------------
(* The parts of the invariant, as most proofs below use them.              *)
LEMMA IInvParts ==
  ASSUME IInv
  PROVE  TypeOK /\ (\A g \in Gateways : GatewayInv(g)) /\ \A c \in Clients : CallInv(c)
  BY DEF IInv, GatewayInv, ConnectionReturnedClean, Clean

(* While a gateway serves, its connection sees a gap-free history unless   *)
(* its own transaction has written.                                        *)
LEMMA ServingView ==
  ASSUME IInv, NEW g \in Gateways, main[g] \in Serving, pending[g] = {}
  PROVE  /\ View(g) = rows /\ rows = Rows(LastSequence(View(g)))
         /\ LastSequence(View(g)) \in Nat /\ LastSequence(View(g)) <= MaxSequence
<1>1. Usable
  BY DEF IInv, MainInv
<1>2. PICK n \in 0 .. MaxSequence : rows = Rows(n)
  BY <1>1 DEF IInv, FileInv, GapFree
<1>3. View(g) = rows
  BY DEF View
<1>4. n \in Nat /\ n <= MaxSequence
  BY GatewayAssumption
<1>5. LastSequence(Rows(n)) = n
  BY <1>4, LastOfRows
<1>6. QED
  BY <1>2, <1>3, <1>4, <1>5

(* What a step can do to the locks.                                        *)
LEMMA LockSteps ==
  ASSUME IInv, Next
  PROVE  \/ UNCHANGED lock
         \/ \E g \in Gateways : Release(g)
         \/ \E k \in Conns : Acquire(k, "none") \/ (CanShare(k) /\ Acquire(k, "shared"))
         \/ \E g \in Gateways : CanReserve(g) /\ lock[g] = "shared" /\ Acquire(g, "reserved")
         \/ \E o \in Outsiders : \/ CanShare(o) /\ CanReserve(o) /\ Acquire(o, "reserved")
                                 \/ CanCommit(o) /\ Acquire(o, "exclusive")
<1> USE DEF storeVars, Conns
<1>1. ASSUME NEW g \in Gateways, MainStep(g)
      PROVE  \/ UNCHANGED lock
             \/ Release(g)
             \/ CanShare(g) /\ Acquire(g, "shared")
             \/ CanReserve(g) /\ lock[g] = "shared" /\ Acquire(g, "reserved")
  <2>1. CASE Migrate(g)
    BY <2>1 DEF Migrate, Goto, IInv, MainInv, Reading1
  <2>2. QED
    BY <1>1, <2>1 DEF MainStep, QuickCheck, ReadVersion, AcceptVersion, Validate,
         CommitStartup, StartupFails, Leave, Listen, SelectDone, SelectError,
         BeginShutdown, Drained, DrainTimeout, Exit
<1>2. ASSUME NEW g \in Gateways, WorkerStep(g)
      PROVE  \/ UNCHANGED lock
             \/ Release(g)
             \/ CanShare(g) /\ Acquire(g, "shared")
             \/ CanReserve(g) /\ lock[g] = "shared" /\ Acquire(g, "reserved")
  <2>1. CASE Insert(g)
    BY <2>1 DEF Insert, Advance, IInv, WorkerInv, Reading1
  <2>2. QED
    BY <1>2, <2>1 DEF WorkerStep, StopSampler, BeginAppend, SelectMax,
         CheckContext, CommitAppend, AppendFails, JudgeFailure, SendFailure
<1>3. ASSUME NEW c \in Clients, TakeConnection(c) \/ HandlerStep(c)
      PROVE  \/ UNCHANGED lock
             \/ \E g \in Gateways : Release(g) \/ (CanShare(g) /\ Acquire(g, "shared"))
  <2>1. call[c].server \in Gateways
    BY <1>3 DEF TakeConnection, HandlerStep, Query, CloseRows, ReadFails, Respond,
         Step, IInv, CallInv, TypeOK, CallTypes
  <2>2. QED
    BY <1>3, <2>1 DEF TakeConnection, HandlerStep, Query, CloseRows, ReadFails, Respond
<1>4. ASSUME NEW g \in Gateways, Start(g) \/ Signal(g) \/ Crash(g) \/ ServeFails(g) \/ Tick(g)
      PROVE UNCHANGED lock \/ Release(g)
  BY <1>4 DEF Start, Signal, Crash, ServeFails, Tick, Leave
<1>5. ASSUME NEW c \in Clients, Disconnect(c) \/ \E g \in Gateways : Request(c, g)
      PROVE UNCHANGED lock
  BY <1>5 DEF Disconnect, Request
<1>6. ASSUME NEW o \in Outsiders, OutsiderLocks(o) \/ OutsiderUnlocks(o)
      PROVE \/ CanShare(o) /\ Acquire(o, "shared")
            \/ CanShare(o) /\ CanReserve(o) /\ Acquire(o, "reserved")
            \/ CanCommit(o) /\ Acquire(o, "exclusive")
            \/ Acquire(o, "none")
  BY <1>6 DEF OutsiderLocks, OutsiderUnlocks
<1>7. QED
  BY <1>1, <1>2, <1>3, <1>4, <1>5, <1>6 DEF Next, Environment

(* The locks stay compatible: the guards CanShare, CanReserve, CanCommit   *)
(* are enough.                                                             *)
LEMMA LocksInductive == ASSUME IInv, Next PROVE LocksCompatible'
<1>0. TypeOK /\ LocksCompatible
  BY DEF IInv
<1> USE DEF Conns
<1>1. CASE UNCHANGED lock
  BY <1>0, <1>1 DEF LocksCompatible
<1>2. ASSUME NEW g \in Gateways, Release(g) PROVE LocksCompatible'
  BY <1>0, <1>2 DEF LocksCompatible, Release, TypeOK
<1>3. ASSUME NEW k \in Conns, Acquire(k, "none") PROVE LocksCompatible'
  BY <1>0, <1>3 DEF LocksCompatible, Acquire, TypeOK
<1>4. ASSUME NEW k \in Conns, CanShare(k), Acquire(k, "shared") PROVE LocksCompatible'
  BY <1>0, <1>4 DEF LocksCompatible, Acquire, TypeOK, CanShare
<1>5. ASSUME NEW g \in Gateways, CanReserve(g), lock[g] = "shared",
             Acquire(g, "reserved")
      PROVE LocksCompatible'
  BY <1>0, <1>5 DEF LocksCompatible, Acquire, TypeOK, CanReserve
<1>6. ASSUME NEW o \in Outsiders, CanShare(o), CanReserve(o), Acquire(o, "reserved")
      PROVE LocksCompatible'
  BY <1>0, <1>6, GatewayAssumption DEF LocksCompatible, Acquire, TypeOK, CanReserve,
       CanShare
<1>7. ASSUME NEW o \in Outsiders, CanCommit(o), Acquire(o, "exclusive")
      PROVE LocksCompatible'
  BY <1>0, <1>7, GatewayAssumption DEF LocksCompatible, Acquire, TypeOK, CanCommit
<1>8. QED
  BY <1>1, <1>2, <1>3, <1>4, <1>5, <1>6, <1>7, LockSteps

(* What a step can do to the file: nothing, or the effect of one COMMIT.   *)
LEMMA DurableSteps ==
  ASSUME IInv, Next
  PROVE  \/ UNCHANGED <<file, rows>>
         \/ \E g \in Gateways :
              Commits(g)
<1> USE DEF storeVars
<1>1. ASSUME NEW g \in Gateways, MainStep(g)
      PROVE  \/ UNCHANGED <<file, rows>>
             \/ MakeDurable(g) /\ CanCommit(g) /\ main[g] = "committing"
  <2>1. CASE CommitStartup(g) /\ pending[g] = {}
    BY <2>1 DEF CommitStartup, MakeDurable, View, SeedPresent
  <2>2. QED
    BY <1>1, <2>1 DEF MainStep, QuickCheck, ReadVersion, AcceptVersion, Validate,
         CommitStartup, StartupFails, Migrate, Goto, Listen, SelectDone, SelectError,
         BeginShutdown, Drained, DrainTimeout, Exit
<1>2. ASSUME NEW g \in Gateways, WorkerStep(g)
      PROVE  \/ UNCHANGED <<file, rows>>
             \/ MakeDurable(g) /\ CanCommit(g) /\ worker[g] = "committing"
  BY <1>2 DEF WorkerStep, StopSampler, BeginAppend, SelectMax, Insert,
       CheckContext, CommitAppend, AppendFails, JudgeFailure, SendFailure, Advance
<1>3. ASSUME NEW c \in Clients, TakeConnection(c) \/ HandlerStep(c)
      PROVE UNCHANGED <<file, rows>>
    BY <1>3 DEF TakeConnection, HandlerStep, Query, CloseRows, ReadFails, Respond
<1>4. ASSUME Environment
      PROVE UNCHANGED <<file, rows>>
  BY <1>4 DEF Environment, Start, Signal, Crash, ServeFails, Tick, Disconnect, Request,
       OutsiderLocks, OutsiderUnlocks
<1>7. QED
  BY <1>1, <1>2, <1>3, <1>4 DEF Next, Commits

(* COMMIT creates the seeded preview in an empty file, or changes nothing, *)
(* or appends exactly the next reading: the sequence read at the start of  *)
(* the transaction is still the last one, thanks to the lock.              *)
LEMMA CommitEffect ==
  ASSUME IInv, NEW g \in Gateways, Commits(g)
  PROVE  \/ file = Empty /\ file' = Preview /\ rows' = Rows(0)
         \/ UNCHANGED <<file, rows>>
         \/ /\ Usable /\ file' = file
            /\ \E n \in 0 .. MaxSequence - 1 : rows = Rows(n) /\ rows' = Rows(n + 1)
<1>1. CASE main[g] = "committing" /\ Migrating(g)
  <2>1. rows = {} /\ file = Empty
    BY <1>1 DEF IInv, FileInv, Migrating
  <2>2. SeedPresent(pending[g]) /\ View(g) = Rows(0)
    BY <1>1, <2>1, RowsType DEF Migrating, View
  <2>3. QED
    BY <2>1, <2>2 DEF MakeDurable, Commits
<1>2. CASE main[g] = "committing" /\ ~Migrating(g)
  <2>1. pending[g] = {}
    BY <1>2 DEF IInv, MainInv, Reading1
  <2>2. QED
    BY <2>1 DEF MakeDurable, View, SeedPresent, Commits
<1>3. CASE worker[g] = "committing"
  <2>1. main[g] \in Serving /\ Usable
    BY <1>3 DEF IInv, WorkerInv, MainInv
  <2> DEFINE n == previous[g]
  <2>2. /\ rows = Rows(n) /\ n < MaxSequence /\ n \in Nat
        /\ pending[g] = {Reading(n + 1)}
    BY <1>3 DEF IInv, WorkerInv, TypeOK
  <2>3. View(g) = Rows(n + 1)
    BY <2>2, RowsAppend DEF View
  <2>4. ~SeedPresent(pending[g])
    BY <2>2, ReadingDistinct DEF SeedPresent
  <2>5. n \in 0 .. MaxSequence - 1
    BY <2>2, GatewayAssumption
  <2>6. QED
    BY <2>1, <2>2, <2>3, <2>4, <2>5 DEF MakeDurable, Commits
<1>4. QED
  BY <1>1, <1>2, <1>3 DEF Commits

(* Hence no step loses a reading or spoils a usable file.                  *)
LEMMA RowsGrow == ASSUME IInv, Next PROVE rows \subseteq rows' /\ (Usable => Usable')
<1>1. CASE UNCHANGED <<file, rows>>
  BY <1>1 DEF Usable
<1>2. ASSUME NEW g \in Gateways, Commits(g)
      PROVE rows \subseteq rows' /\ (Usable => Usable')
  <2>1. rows \subseteq rows'
    BY <1>2 DEF MakeDurable, View, Commits
  <2>2. ASSUME Usable PROVE Usable'
    <3>1. file # Empty
      BY <2>2 DEF Usable, Empty, Preview, Contents
    <3>2. file' = file
      BY <1>2, <3>1, CommitEffect
    <3>3. QED
      BY <2>1, <2>2, <3>2 DEF Usable, SeedPresent
  <2>3. QED
    BY <2>1, <2>2
<1>3. QED
  BY <1>1, <1>2, DurableSteps

LEMMA FileInductive ==
  ASSUME IInv, Next
  PROVE  FileInv'
<1>0. FileInv
  BY DEF IInv
<1>1. CASE UNCHANGED <<file, rows>>
  BY <1>0, <1>1 DEF FileInv, GapFree, Usable
<1>2. ASSUME file = Empty, file' = Preview, rows' = Rows(0)
      PROVE  FileInv'
  <2>1. 0 \in 0 .. MaxSequence /\ Preview # Empty /\ Preview \in FileKinds
    BY GatewayAssumption DEF Preview, Empty, FileKinds, Contents
  <2>2. QED
    BY <1>2, <2>1 DEF FileInv, GapFree
<1>3. ASSUME Usable, file' = file, NEW n \in 0 .. MaxSequence - 1, rows' = Rows(n + 1)
      PROVE  FileInv'
  <2>1. n + 1 \in 0 .. MaxSequence
    BY GatewayAssumption
  <2>2. file # Empty
    BY <1>3 DEF Usable, Preview, Empty, Contents
  <2>3. QED
    BY <1>0, <1>3, <2>1, <2>2 DEF FileInv, GapFree
<1>4. QED
  BY <1>1, <1>2, <1>3, DurableSteps, CommitEffect
-----------------------------------------------------------------------------
(* Types. *)
LEMMA DurableType ==
  ASSUME TypeOK, NEW g \in Gateways, MakeDurable(g)
  PROVE  file' \in FileTypes /\ rows' \subseteq Readings
<1>1. View(g) \subseteq Readings
  BY DEF TypeOK, View
<1>2. file \in FileTypes /\ Preview \in FileTypes
  BY DEF TypeOK, Preview, FileTypes, Contents
<1>3. QED
  BY <1>1, <1>2 DEF MakeDurable

LEMMA LeaveType ==
  ASSUME TypeOK, NEW g \in Gateways, NEW s \in {"ok", "failure", "killed"}, Leave(g, s),
         file' \in FileTypes, rows' \subseteq Readings
  PROVE  TypeOK'
<1>1. NoCall \in CallTypes
  BY DEF NoCall, CallPhases, CallTypes
<1>2. call' \in [Clients -> CallTypes]
  BY <1>1 DEF TypeOK, Leave
<1>3. QED
  BY <1>2 DEF TypeOK, Leave, Release, MainPhases, WorkerPhases, FileTypes

LEMMA StepType ==
  ASSUME TypeOK, NEW c \in Clients, NEW to \in CallPhases,
         call' = [call EXCEPT ![c].phase = to]
  PROVE  call' \in [Clients -> CallTypes]
  BY DEF TypeOK, CallTypes

LEMMA TypeInductive ==
  ASSUME IInv, Next
  PROVE  TypeOK'
<1> USE DEF storeVars, processVars, workerVars, clientVars, WorkerPhases, MainPhases,
     CallPhases, Starting, Advance, Goto, Acquire, Release
<1>0. TypeOK /\ file \in FileTypes /\ rows \subseteq Readings
  BY DEF IInv, TypeOK
<1>1. ASSUME NEW g \in Gateways, Start(g) PROVE TypeOK'
  BY <1>1, <1>0 DEF TypeOK, Start
<1>2. ASSUME NEW g \in Gateways, Signal(g) PROVE TypeOK'
  BY <1>2, <1>0 DEF TypeOK, Signal
<1>3. ASSUME NEW g \in Gateways, Crash(g) PROVE TypeOK'
  BY <1>3, <1>0, LeaveType DEF Crash
<1>4. ASSUME NEW g \in Gateways, ServeFails(g) PROVE TypeOK'
  BY <1>4, <1>0 DEF TypeOK, ServeFails
<1>5. ASSUME NEW g \in Gateways, QuickCheck(g) PROVE TypeOK'
  BY <1>5, <1>0 DEF TypeOK, QuickCheck
<1>6. ASSUME NEW g \in Gateways, ReadVersion(g) PROVE TypeOK'
  BY <1>6, <1>0 DEF TypeOK, ReadVersion
<1>7. ASSUME NEW g \in Gateways, Migrate(g) PROVE TypeOK'
  <2>1. Rows(0) \subseteq Readings /\ TypeOK
    BY <1>7, RowsType DEF IInv
  <2>4. QED
   BY <1>7, <2>1 DEF Migrate, TypeOK, Goto, Acquire, MainPhases, Starting, workerVars,
        clientVars
<1>8. ASSUME NEW g \in Gateways, AcceptVersion(g) PROVE TypeOK'
  BY <1>8, <1>0 DEF TypeOK, AcceptVersion
<1>9. ASSUME NEW g \in Gateways, Validate(g) PROVE TypeOK'
  BY <1>9, <1>0 DEF TypeOK, Validate
<1>10. ASSUME NEW g \in Gateways, CommitStartup(g) PROVE TypeOK'
  <2>1. file' \in FileTypes /\ rows' \subseteq Readings
    BY <1>10, <1>0, DurableType DEF CommitStartup
  <2>2. QED
    BY <1>10, <1>0, <2>1 DEF CommitStartup, TypeOK
<1>11. ASSUME NEW g \in Gateways, StartupFails(g) PROVE TypeOK'
  BY <1>11, <1>0, LeaveType, DurableType DEF StartupFails
<1>12. ASSUME NEW g \in Gateways, Listen(g) PROVE TypeOK'
  BY <1>12, <1>0 DEF TypeOK, Listen
<1>13. ASSUME NEW g \in Gateways, SelectDone(g) PROVE TypeOK'
  BY <1>13, <1>0 DEF TypeOK, SelectDone
<1>14. ASSUME NEW g \in Gateways, SelectError(g) PROVE TypeOK'
  BY <1>14, <1>0 DEF TypeOK, SelectError
<1>15. ASSUME NEW g \in Gateways, BeginShutdown(g) PROVE TypeOK'
  BY <1>15, <1>0 DEF TypeOK, BeginShutdown
<1>16. ASSUME NEW g \in Gateways, Drained(g) PROVE TypeOK'
  BY <1>16, <1>0 DEF TypeOK, Drained
<1>17. ASSUME NEW g \in Gateways, DrainTimeout(g) PROVE TypeOK'
  BY <1>17, <1>0 DEF TypeOK, DrainTimeout
<1>18. ASSUME NEW g \in Gateways, Exit(g) PROVE TypeOK'
  BY <1>18, <1>0, LeaveType DEF Exit
<1>19. ASSUME NEW g \in Gateways, Tick(g) PROVE TypeOK'
  BY <1>19, <1>0 DEF TypeOK, Tick
<1>20. ASSUME NEW g \in Gateways, StopSampler(g) PROVE TypeOK'
  BY <1>20, <1>0 DEF TypeOK, StopSampler
<1>21. ASSUME NEW g \in Gateways, BeginAppend(g) PROVE TypeOK'
  BY <1>21, <1>0 DEF TypeOK, BeginAppend
<1>22. ASSUME NEW g \in Gateways, SelectMax(g) PROVE TypeOK'
  <2>1. owner[g] = "worker" /\ Clean(g) /\ main[g] \in Serving /\ TypeOK
    BY <1>22 DEF SelectMax, Advance, IInv, WorkerInv
  <2>2. LastSequence(View(g)) \in Nat
    BY <1>22, <2>1, ServingView DEF Clean
  <2>3. QED
   BY <1>22, <2>1, <2>2 DEF SelectMax, TypeOK, Advance, Acquire, WorkerPhases,
        processVars, clientVars
<1>23. ASSUME NEW g \in Gateways, Insert(g) PROVE TypeOK'
  <2>1. TypeOK /\ previous[g] \in Nat
    BY <1>23 DEF IInv, TypeOK
  <2>2. Reading(previous[g] + 1) \in Readings
    BY <1>23, <2>1, ReadingType
  <2>3. pending' \in [Gateways -> SUBSET Readings]
    BY <1>23, <2>1, <2>2 DEF TypeOK, Insert
  <2>4. QED
   BY <1>23, <2>1, <2>3 DEF Insert, TypeOK, Advance, Acquire, WorkerPhases,
        processVars, clientVars
<1>24. ASSUME NEW g \in Gateways, CheckContext(g) PROVE TypeOK'
  BY <1>24, <1>0 DEF TypeOK, CheckContext
<1>25. ASSUME NEW g \in Gateways, CommitAppend(g) PROVE TypeOK'
  <2>1. file' \in FileTypes /\ rows' \subseteq Readings
    BY <1>25, <1>0, DurableType DEF CommitAppend
  <2>2. QED
    BY <1>25, <1>0, <2>1 DEF CommitAppend, TypeOK
<1>26. ASSUME NEW g \in Gateways, AppendFails(g) PROVE TypeOK'
  <2>1. TypeOK /\ file \in FileTypes /\ rows \subseteq Readings
    BY <1>26 DEF IInv, TypeOK, FileTypes
  <2>2. file' \in FileTypes /\ rows' \subseteq Readings
    BY <1>26, <2>1, DurableType DEF AppendFails
  <2>4. QED
   BY <1>26, <2>1, <2>2 DEF AppendFails, TypeOK, Advance, Release, WorkerPhases,
        processVars, clientVars, FileTypes
<1>27. ASSUME NEW g \in Gateways, JudgeFailure(g) PROVE TypeOK'
  BY <1>27, <1>0 DEF TypeOK, JudgeFailure
<1>28. ASSUME NEW g \in Gateways, SendFailure(g) PROVE TypeOK'
  BY <1>28, <1>0 DEF TypeOK, SendFailure
<1>29. ASSUME NEW c \in Clients, TakeConnection(c) PROVE TypeOK'
  <2>1. call' \in [Clients -> CallTypes]
    BY <1>29, <1>0, StepType DEF TakeConnection, Step
  <2>2. QED
    BY <1>29, <1>0, <2>1 DEF TypeOK, TakeConnection
<1>30. ASSUME NEW c \in Clients, Query(c) PROVE TypeOK'
  <2> DEFINE g == call[c].server
  <2>1. TypeOK /\ call[c].phase = "holding" /\ g \in Gateways /\ Clean(g)
        /\ main[g] \in Serving
    BY <1>30 DEF Query, IInv, CallInv, TypeOK, CallTypes
  <2>2. LastSequence(View(g)) \in Nat
    BY <1>30, <2>1, ServingView DEF Clean
  <2>3. call' \in [Clients -> CallTypes]
    <3> DEFINE new == [call[c] EXCEPT !.phase = "reading", !.got = LastSequence(View(g))]
    <3>1. new \in CallTypes
      BY <1>30, <2>1, <2>2 DEF TypeOK, CallPhases, CallTypes
    <3>2. call' = [call EXCEPT ![c] = new]
      BY <1>30 DEF Query
    <3>3. QED
      BY <1>30, <2>1, <3>1, <3>2 DEF TypeOK
  <2>4. QED
   BY <1>30, <2>1, <2>3 DEF Query, TypeOK, Acquire, processVars, workerVars
<1>31. ASSUME NEW c \in Clients, CloseRows(c) PROVE TypeOK'
  <2>1. TypeOK
    BY <1>31 DEF IInv
  <2>3. call' \in [Clients -> CallTypes]
    BY <1>31, <2>1, StepType DEF CloseRows, Step, CallPhases
  <2>4. QED
   BY <1>31, <2>1, <2>3 DEF CloseRows, TypeOK, Release, processVars, workerVars
<1>32. ASSUME NEW c \in Clients, ReadFails(c) PROVE TypeOK'
  <2>1. call' \in [Clients -> CallTypes]
    BY <1>32, <1>0, StepType DEF ReadFails
  <2>2. QED
    BY <1>32, <1>0, <2>1 DEF ReadFails, TypeOK
<1>33. ASSUME NEW c \in Clients, Respond(c) PROVE TypeOK'
  <2>1. TypeOK
    BY <1>33 DEF IInv
  <2>2. call[c].got \in Nat
    BY <1>33, <2>1 DEF TypeOK, CallTypes
  <2>4. QED
   BY <1>33, <2>1, <2>2 DEF Respond, TypeOK, storeVars, processVars, workerVars,
        NoCall, CallPhases, CallTypes
<1>34. ASSUME NEW c \in Clients, Disconnect(c) PROVE TypeOK'
  BY <1>34, <1>0 DEF TypeOK, CallTypes, Disconnect, Step, NoCall
<1>35. ASSUME NEW o \in Outsiders, OutsiderLocks(o) PROVE TypeOK'
  BY <1>35, <1>0 DEF TypeOK, OutsiderLocks
<1>36. ASSUME NEW o \in Outsiders, OutsiderUnlocks(o) PROVE TypeOK'
  BY <1>36, <1>0 DEF TypeOK, OutsiderUnlocks
<1>37. ASSUME NEW c \in Clients, NEW g \in Gateways, Request(c, g) PROVE TypeOK'
  <2>1. Usable /\ TypeOK
    BY <1>37 DEF IInv, MainInv, Request, Serving, TypeOK
  <2>2. PICK n \in 0 .. MaxSequence : rows = Rows(n)
    BY <1>37, <2>1 DEF IInv, FileInv, GapFree
  <2>3. LastSequence(rows) \in Nat
    BY <1>37, <2>2, LastOfRows, GatewayAssumption
  <2>4. QED
   BY <1>37, <2>1, <2>3 DEF Request, TypeOK, storeVars, processVars, workerVars,
        CallPhases, CallTypes
<1> HIDE DEF storeVars, processVars, workerVars, clientVars, WorkerPhases, MainPhases,
     CallPhases, Starting, Advance, Goto, Acquire, Release
<1>38. QED
  BY <1>1, <1>2, <1>3, <1>4, <1>5, <1>6, <1>7, <1>8, <1>9, <1>10, <1>11, <1>12, <1>13,
       <1>14, <1>15, <1>16, <1>17, <1>18, <1>19, <1>20, <1>21, <1>22, <1>23, <1>24,
       <1>25, <1>26, <1>27, <1>28, <1>29, <1>30, <1>31, <1>32, <1>33, <1>34, <1>35,
       <1>36, <1>37 DEF Next, MainStep, WorkerStep, HandlerStep, Environment
-----------------------------------------------------------------------------
(* Gateways: a step of one leaves the others' invariants alone. *)
LEMMA GatewayFrame ==
  ASSUME NEW k \in Gateways, GatewayInv(k), Untouched(k), UNCHANGED <<file, rows>>
  PROVE GatewayInv(k)'
  BY DEF GatewayInv, Untouched, MainInv, WorkerInv, Clean, Reading1, Migrating, Valid,
       View, Usable

LEMMA CommitFrame ==
  ASSUME IInv, NEW g \in Gateways, NEW k \in Gateways \ {g},
         Untouched(k), Commits(g)
  PROVE GatewayInv(k)'
<1>1. lock[k] = "none" /\ GatewayInv(k)
  BY DEF Commits, CanCommit, Conns, IInv, GatewayInv, ConnectionReturnedClean, Clean
<1>2. main[k] \notin {"version", "validate", "committing"}
      /\ worker[k] \notin {"insert", "commit", "committing"}
  BY <1>1 DEF GatewayInv, MainInv, WorkerInv, Reading1, Migrating
<1>3. (Usable => Usable') /\ (file.sound => file'.sound)
  <2>1. CASE file = Empty /\ file' = Preview /\ rows' = Rows(0)
    BY <2>1 DEF Usable, Empty, Preview, Contents
  <2>2. CASE UNCHANGED <<file, rows>>
    BY <2>2 DEF Usable
  <2>3. CASE Usable /\ file' = file
             /\ \E n \in 0 .. MaxSequence - 1 : rows = Rows(n) /\ rows' = Rows(n + 1)
    <3>1. SeedPresent(rows')
      BY <2>3, RowsType, GatewayAssumption
    <3>2. QED
      BY <2>3, <3>1 DEF Usable
  <2>4. QED
    BY CommitEffect, <2>1, <2>2, <2>3
<1>4. QED
  BY <1>1, <1>2, <1>3 DEF GatewayInv, Untouched, MainInv, WorkerInv, Clean, Reading1,
       Valid, View

LEMMA LeaveOwn ==
  ASSUME IInv, NEW g \in Gateways, NEW s, Leave(g, s)
  PROVE  GatewayInv(g)' /\ \A k \in Gateways \ {g} : Untouched(k)
<1>1. TypeOK
  BY DEF IInv
<1>2. /\ main'[g] = "down" /\ worker'[g] = "off" /\ owner'[g] = None
      /\ lock'[g] = "none" /\ pending'[g] = {}
      /\ \A k \in Gateways \ {g} : Untouched(k)
  BY <1>1 DEF Leave, Release, TypeOK, Untouched, Conns
<1>3. QED
  BY <1>2, GatewayAssumption DEF GatewayInv, MainInv, WorkerInv, Clean, Serving

LEMMA LeaveInv ==
  ASSUME IInv, NEW g \in Gateways, NEW k \in Gateways,
         Crash(g) \/ StartupFails(g) \/ Exit(g)
  PROVE  GatewayInv(k)'
<1>1. GatewayInv(g)' /\ \A j \in Gateways \ {g} : Untouched(j)
  BY LeaveOwn DEF Crash, StartupFails, Exit
<1>2. UNCHANGED <<file, rows>> \/ Commits(g)
  BY DEF Crash, StartupFails, Exit, Commits
<1>3. CASE k # g /\ UNCHANGED <<file, rows>>
  BY <1>1, <1>3, GatewayFrame, IInvParts
<1>4. CASE k # g /\ Commits(g)
  BY <1>1, <1>4, CommitFrame
<1>5. QED
  BY <1>1, <1>2, <1>3, <1>4

LEMMA CommitStartupInv ==
  ASSUME IInv, NEW g \in Gateways, CommitStartup(g), NEW k \in Gateways
  PROVE  GatewayInv(k)'
<1>0. TypeOK /\ MainInv(g) /\ WorkerInv(g) /\ FileInv
  BY DEF IInv
<1>1. ASSUME NEW j \in Gateways \ {g} PROVE Untouched(j)
  BY <1>0 DEF CommitStartup, Goto, Release, workerVars, Untouched, Conns, TypeOK
<1>2. main'[g] = "listen" /\ owner'[g] = None /\ lock'[g] = "none"
      /\ pending'[g] = {} /\ UNCHANGED worker[g]
      /\ main[g] = "committing"
  BY <1>0 DEF CommitStartup, Goto, Release, workerVars, Untouched, Conns, TypeOK
<1>3. Usable'
  <2>1. CASE Migrating(g)
    <3>1. SeedPresent(pending[g])
      BY <2>1, RowsType DEF Migrating
    <3>2. QED
     BY <3>1 DEF CommitStartup, MakeDurable, Usable, View, SeedPresent
  <2>2. CASE ~Migrating(g)
    <3>1. pending[g] = {} /\ file.version = 1 /\ file.sound /\ Valid(g)
      BY <2>2, <1>0, <1>2 DEF MainInv, Reading1
    <3>2. SeedPresent(rows) /\ file.port
      BY <3>1 DEF Valid, View
    <3>3. file = Preview
      BY <3>1, <3>2, <1>0 DEF FileInv, FileKinds, Contents, Empty, Preview,
           PortAltered, Newer, Unrelated, Damaged
    <3>4. UNCHANGED <<file, rows>>
      BY <3>1 DEF CommitStartup, MakeDurable, View, SeedPresent
    <3>5. QED
      BY <3>2, <3>3, <3>4 DEF Usable
  <2>3. QED
    BY <2>1, <2>2
<1>4. GatewayInv(g)'
  BY <1>0, <1>2, <1>3, GatewayAssumption DEF GatewayInv, MainInv, WorkerInv, Clean,
       Serving, Usable, Preview, Contents
<1>5. CASE pending[g] = {}
  <2>1. UNCHANGED <<file, rows>>
      BY <1>5 DEF CommitStartup, MakeDurable, View, SeedPresent
  <2>2. QED
    BY <1>1, <1>4, <2>1, GatewayFrame, IInvParts
<1>6. CASE pending[g] # {}
  BY <1>1, <1>4, <1>6, CommitFrame DEF CommitStartup, Goto, Commits
<1>7. QED
  BY <1>5, <1>6

LEMMA AppendEndsInv ==
  ASSUME IInv, NEW g \in Gateways, CommitAppend(g) \/ AppendFails(g), NEW k \in Gateways
  PROVE  GatewayInv(k)'
<1>0. TypeOK /\ MainInv(g) /\ WorkerInv(g) /\ FileInv
      /\ worker[g] \in {"begin", "select", "insert", "commit", "committing"}
  BY DEF IInv, CommitAppend, AppendFails, Advance
<1>1. ASSUME NEW j \in Gateways \ {g} PROVE Untouched(j)
  BY <1>0 DEF CommitAppend, AppendFails, Advance, Release, processVars, Untouched,
       Conns, TypeOK
<1>2. /\ UNCHANGED main[g]
      /\ worker'[g] \in {"idle", "failed"}
      /\ \/ owner'[g] = None /\ lock'[g] = "none" /\ pending'[g] = {}
         \/ worker[g] = "begin" /\ UNCHANGED <<owner[g], lock[g], pending[g]>>
  BY <1>0 DEF CommitAppend, AppendFails, Advance, Release, processVars, Untouched,
       Conns, TypeOK
<1>3. /\ main[g] \in Serving /\ main[g] \notin {"draining", "closing"}
      /\ Usable /\ UNCHANGED file
      /\ rows' = rows \/ (worker[g] = "committing" /\ MakeDurable(g) /\ CanCommit(g))
  <2>1. main[g] \in Serving /\ main[g] \notin {"draining", "closing"} /\ Usable
    BY <1>0 DEF WorkerInv, MainInv
  <2>2. \/ UNCHANGED <<file, rows>>
        \/ worker[g] = "committing" /\ MakeDurable(g) /\ CanCommit(g)
    BY DEF CommitAppend, AppendFails, Advance
  <2>3. file # Empty
    BY <2>1 DEF Usable, Preview, Empty, Contents
  <2>4. UNCHANGED file
    <3>1. CASE worker[g] = "committing" /\ MakeDurable(g) /\ CanCommit(g)
      BY <2>3, <3>1, CommitEffect DEF Commits
    <3>2. QED
      BY <2>2, <3>1
  <2>5. QED
    BY <2>1, <2>2, <2>4
<1>4. SeedPresent(rows')
  BY <1>3 DEF Usable, SeedPresent, MakeDurable, View
<1>5. Usable'
  BY <1>3, <1>4 DEF Usable
<1>6. GatewayInv(g)'
  BY <1>0, <1>2, <1>3, <1>5, IInvParts, GatewayAssumption DEF GatewayInv, MainInv,
       WorkerInv, Clean, Serving
<1>7. QED
  BY <1>1, <1>3, <1>6, GatewayFrame, CommitFrame, IInvParts DEF Commits

LEMMA ReadVersionInv ==
  ASSUME IInv, NEW g \in Gateways, ReadVersion(g), NEW k \in Gateways
  PROVE  GatewayInv(k)'
<1>0. TypeOK /\ GatewayInv(g) /\ main[g] = "begin"
  BY IInvParts DEF ReadVersion, Goto
<1>1. ASSUME NEW j \in Gateways \ {g} PROVE Untouched(j)
  BY <1>0 DEF ReadVersion, Goto, Acquire, workerVars, Untouched, Conns, TypeOK
<1>2. owner[g] = None
  <2>1. worker[g] = "off"
    BY <1>0 DEF GatewayInv, WorkerInv, Serving, TypeOK
  <2>2. \A c \in Clients : owner[g] # c
    BY <1>0, IInvParts DEF CallInv, Serving
  <2>3. QED
    BY <1>0, <2>1, <2>2 DEF GatewayInv, MainInv, WorkerInv, TypeOK
<1>3. /\ main'[g] = "version" /\ owner'[g] = "main" /\ lock'[g] = "shared"
      /\ pending'[g] = {}
      /\ UNCHANGED <<worker[g], previous[g], file, rows>>
  BY <1>0, <1>2 DEF ReadVersion, Goto, Acquire, workerVars, TypeOK, Conns, GatewayInv,
       Clean
<1>4. GatewayInv(g)'
  BY <1>0, <1>3, GatewayAssumption DEF GatewayInv, MainInv, WorkerInv, Reading1, Serving
<1>5. QED
  BY <1>1, <1>3, <1>4, GatewayFrame, IInvParts

LEMMA MigrateInv ==
  ASSUME IInv, NEW g \in Gateways, Migrate(g), NEW k \in Gateways
  PROVE  GatewayInv(k)'
<1>0. TypeOK /\ GatewayInv(g) /\ main[g] = "version" /\ file.version = 0
      /\ ~file.objects /\ FileInv /\ file.sound
  BY IInvParts DEF Migrate, Goto, IInv, GatewayInv, MainInv
<1>1. ASSUME NEW j \in Gateways \ {g} PROVE Untouched(j)
  BY <1>0 DEF Migrate, Goto, Acquire, workerVars, Untouched, Conns, TypeOK
<1>2. file = Empty
  BY <1>0 DEF FileInv, FileKinds, Contents, Empty, Preview, PortAltered, Newer,
       Unrelated, Damaged
<1>3. /\ main'[g] = "validate" /\ owner'[g] = "main" /\ lock'[g] = "reserved"
      /\ pending'[g] = Rows(0)
      /\ UNCHANGED <<worker[g], previous[g], file, rows>>
  BY <1>0 DEF Migrate, Goto, Acquire, workerVars, TypeOK, Conns, GatewayInv, MainInv
<1>4. GatewayInv(g)'
  BY <1>0, <1>2, <1>3, GatewayAssumption DEF GatewayInv, MainInv, WorkerInv, Migrating,
       Serving
<1>5. QED
  BY <1>1, <1>3, <1>4, GatewayFrame, IInvParts

LEMMA ValidateInv ==
  ASSUME IInv, NEW g \in Gateways, Validate(g), NEW k \in Gateways
  PROVE  GatewayInv(k)'
<1>0. TypeOK /\ GatewayInv(g) /\ main[g] = "validate" /\ Valid(g)
  BY IInvParts DEF Validate, Goto
<1>1. ASSUME NEW j \in Gateways \ {g} PROVE Untouched(j)
  BY <1>0 DEF Validate, Goto, storeVars, workerVars, Untouched, Conns, TypeOK
<1>3. /\ main'[g] = "committing"
      /\ UNCHANGED <<worker[g], owner[g], lock[g], pending[g],
                     previous[g], file, rows>>
  BY <1>0 DEF Validate, Goto, storeVars, workerVars, TypeOK
<1>4. GatewayInv(g)'
  BY <1>0, <1>3 DEF GatewayInv, MainInv, WorkerInv, Migrating, Reading1, Clean,
       Serving, Valid, View
<1>5. QED
  BY <1>1, <1>3, <1>4, GatewayFrame, IInvParts

LEMMA SelectMaxInv ==
  ASSUME IInv, NEW g \in Gateways, SelectMax(g), NEW k \in Gateways
  PROVE  GatewayInv(k)'
<1>0. TypeOK /\ GatewayInv(g) /\ worker[g] = "select" /\ Clean(g) /\ main[g] \in Serving
  BY IInvParts DEF SelectMax, Advance, GatewayInv, WorkerInv
<1>1. ASSUME NEW j \in Gateways \ {g} PROVE Untouched(j)
  BY <1>0 DEF SelectMax, Advance, Acquire, processVars, Untouched, Conns, TypeOK
<1>2. rows = Rows(LastSequence(View(g)))
  BY <1>0, ServingView DEF Clean
<1>3. /\ worker'[g] = "insert" /\ lock'[g] = "shared" /\ rows = Rows(previous'[g])
      /\ UNCHANGED <<main[g], owner[g], pending[g], file, rows>>
  BY <1>0, <1>2 DEF SelectMax, Advance, Acquire, processVars, TypeOK, Conns
<1>4. GatewayInv(g)'
  BY <1>0, <1>3, GatewayAssumption DEF GatewayInv, MainInv, WorkerInv, Reading1, Clean,
       Serving, Usable
<1>5. QED
  BY <1>1, <1>3, <1>4, GatewayFrame, IInvParts

LEMMA InsertInv ==
  ASSUME IInv, NEW g \in Gateways, Insert(g), NEW k \in Gateways
  PROVE  GatewayInv(k)'
<1>0. TypeOK /\ GatewayInv(g) /\ worker[g] = "insert" /\ previous[g] < MaxSequence
  BY IInvParts DEF Insert, Advance
<1>1. ASSUME NEW j \in Gateways \ {g} PROVE Untouched(j)
  BY <1>0 DEF Insert, Advance, Acquire, processVars, Untouched, Conns, TypeOK
<1>2. pending[g] = {}
  BY <1>0 DEF GatewayInv, WorkerInv, Reading1
<1>3. /\ worker'[g] = "commit" /\ lock'[g] = "reserved"
      /\ pending'[g] = {Reading(previous[g] + 1)}
      /\ UNCHANGED <<main[g], owner[g], previous[g], file, rows>>
  BY <1>0, <1>2 DEF Insert, Advance, Acquire, processVars, TypeOK, Conns
<1>4. GatewayInv(g)'
  BY <1>0, <1>3, GatewayAssumption DEF GatewayInv, MainInv, WorkerInv, Serving, Usable
<1>5. QED
  BY <1>1, <1>3, <1>4, GatewayFrame, IInvParts

LEMMA ReadEndsInv ==
  ASSUME IInv, NEW c \in Clients, CloseRows(c) \/ ReadFails(c), NEW k \in Gateways
  PROVE  GatewayInv(k)'
<1>a. call[c].server \in Gateways /\ call[c].phase \in {"holding", "reading"}
  BY IInvParts DEF CloseRows, ReadFails, Step, CallInv, TypeOK, CallTypes
<1> PICK g \in Gateways : g = call[c].server
  BY <1>a
<1>0. TypeOK /\ GatewayInv(g) /\ main[g] \in Serving /\ owner[g] = c
  BY <1>a, IInvParts, GatewayAssumption DEF CallInv
<1>1. ASSUME NEW j \in Gateways \ {g} PROVE Untouched(j)
  BY <1>0 DEF CloseRows, ReadFails, Release, processVars, workerVars, Untouched, Conns,
       TypeOK
<1>3. /\ owner'[g] = None /\ lock'[g] = "none" /\ pending'[g] = {}
      /\ UNCHANGED <<main[g], worker[g], previous[g], file, rows>>
  BY <1>0 DEF CloseRows, ReadFails, Release, processVars, workerVars, TypeOK, Conns
<1>4. GatewayInv(g)'
  BY <1>0, <1>3, GatewayAssumption DEF GatewayInv, MainInv, WorkerInv, Clean, Usable
<1>5. QED
  BY <1>0, <1>1, <1>3, <1>4, GatewayFrame, IInvParts

LEMMA OutsiderInv ==
  ASSUME IInv, NEW o \in Outsiders, OutsiderLocks(o) \/ OutsiderUnlocks(o),
         NEW k \in Gateways
  PROVE  GatewayInv(k)'
<1>1. Untouched(k) /\ UNCHANGED <<file, rows>>
  BY GatewayAssumption, IInvParts DEF OutsiderLocks, OutsiderUnlocks, Acquire,
       processVars, workerVars, Untouched, Conns, TypeOK
<1>2. QED
  BY <1>1, GatewayFrame, IInvParts

LEMMA GatewayInductive ==
  ASSUME IInv, Next, NEW k \in Gateways
  PROVE  GatewayInv(k)'
<1> USE DEF storeVars, processVars, workerVars, clientVars, Advance, Goto, Acquire,
     Release
<1>0. TypeOK /\ GatewayInv(k) /\ (\A g \in Gateways : GatewayInv(g))
  BY IInvParts
<1>a. \A c \in Clients : CallInv(c)
  BY IInvParts
<1> USE GatewayAssumption DEF GatewayInv, MainInv, WorkerInv, Clean, Reading1,
     Migrating, Valid, Usable, View, Serving
<1>1. ASSUME NEW g \in Gateways, Start(g) PROVE GatewayInv(k)'
  BY <1>1, <1>0 DEF TypeOK, Start
<1>2. ASSUME NEW g \in Gateways, Signal(g) PROVE GatewayInv(k)'
  BY <1>2, <1>0 DEF TypeOK, Signal
<1>3. ASSUME NEW g \in Gateways, Crash(g) PROVE GatewayInv(k)'
  BY <1>3, LeaveInv
<1>4. ASSUME NEW g \in Gateways, ServeFails(g) PROVE GatewayInv(k)'
  BY <1>4, <1>0 DEF TypeOK, ServeFails
<1>5. ASSUME NEW g \in Gateways, QuickCheck(g) PROVE GatewayInv(k)'
  BY <1>5, <1>0 DEF TypeOK, QuickCheck
<1>6. ASSUME NEW g \in Gateways, ReadVersion(g) PROVE GatewayInv(k)'
  BY <1>6, ReadVersionInv
<1>7. ASSUME NEW g \in Gateways, Migrate(g) PROVE GatewayInv(k)'
  BY <1>7, MigrateInv
<1>8. ASSUME NEW g \in Gateways, AcceptVersion(g) PROVE GatewayInv(k)'
  BY <1>8, <1>0 DEF TypeOK, AcceptVersion
<1>9. ASSUME NEW g \in Gateways, Validate(g) PROVE GatewayInv(k)'
  BY <1>9, ValidateInv
<1>10. ASSUME NEW g \in Gateways, CommitStartup(g) PROVE GatewayInv(k)'
  BY <1>10, CommitStartupInv
<1>11. ASSUME NEW g \in Gateways, StartupFails(g) PROVE GatewayInv(k)'
  BY <1>11, LeaveInv
<1>12. ASSUME NEW g \in Gateways, Listen(g) PROVE GatewayInv(k)'
  BY <1>12, <1>0 DEF TypeOK, Listen
<1>13. ASSUME NEW g \in Gateways, SelectDone(g) PROVE GatewayInv(k)'
  BY <1>13, <1>0 DEF TypeOK, SelectDone
<1>14. ASSUME NEW g \in Gateways, SelectError(g) PROVE GatewayInv(k)'
  BY <1>14, <1>0 DEF TypeOK, SelectError
<1>15. ASSUME NEW g \in Gateways, BeginShutdown(g) PROVE GatewayInv(k)'
  BY <1>15, <1>0 DEF TypeOK, BeginShutdown
<1>16. ASSUME NEW g \in Gateways, Drained(g) PROVE GatewayInv(k)'
  BY <1>16, <1>0 DEF TypeOK, Drained
<1>17. ASSUME NEW g \in Gateways, DrainTimeout(g) PROVE GatewayInv(k)'
  BY <1>17, <1>0 DEF TypeOK, DrainTimeout
<1>18. ASSUME NEW g \in Gateways, Exit(g) PROVE GatewayInv(k)'
  BY <1>18, LeaveInv
<1>19. ASSUME NEW g \in Gateways, Tick(g) PROVE GatewayInv(k)'
  BY <1>19, <1>0 DEF TypeOK, Tick
<1>20. ASSUME NEW g \in Gateways, StopSampler(g) PROVE GatewayInv(k)'
  BY <1>20, <1>0 DEF TypeOK, StopSampler
<1>21. ASSUME NEW g \in Gateways, BeginAppend(g) PROVE GatewayInv(k)'
  BY <1>21, <1>0 DEF TypeOK, BeginAppend
<1>22. ASSUME NEW g \in Gateways, SelectMax(g) PROVE GatewayInv(k)'
  BY <1>22, SelectMaxInv
<1>23. ASSUME NEW g \in Gateways, Insert(g) PROVE GatewayInv(k)'
  BY <1>23, InsertInv
<1>24. ASSUME NEW g \in Gateways, CheckContext(g) PROVE GatewayInv(k)'
  BY <1>24, <1>0 DEF TypeOK, CheckContext
<1>25. ASSUME NEW g \in Gateways, CommitAppend(g) PROVE GatewayInv(k)'
  BY <1>25, AppendEndsInv
<1>26. ASSUME NEW g \in Gateways, AppendFails(g) PROVE GatewayInv(k)'
  BY <1>26, AppendEndsInv
<1>27. ASSUME NEW g \in Gateways, JudgeFailure(g) PROVE GatewayInv(k)'
  BY <1>27, <1>0 DEF TypeOK, JudgeFailure
<1>28. ASSUME NEW g \in Gateways, SendFailure(g) PROVE GatewayInv(k)'
  BY <1>28, <1>0 DEF TypeOK, SendFailure
<1>29. ASSUME NEW c \in Clients, TakeConnection(c) PROVE GatewayInv(k)'
  BY <1>29, <1>0, <1>a DEF TypeOK, TakeConnection, Step, NoCall, CallInv
<1>30. ASSUME NEW c \in Clients, Query(c) PROVE GatewayInv(k)'
  BY <1>30, <1>0, <1>a DEF TypeOK, Query, Step, NoCall, CallInv
<1>31. ASSUME NEW c \in Clients, CloseRows(c) PROVE GatewayInv(k)'
  BY <1>31, ReadEndsInv
<1>32. ASSUME NEW c \in Clients, ReadFails(c) PROVE GatewayInv(k)'
  BY <1>32, ReadEndsInv
<1>33. ASSUME NEW c \in Clients, Respond(c) PROVE GatewayInv(k)'
  BY <1>33, <1>0, <1>a DEF TypeOK, Respond, Step, NoCall, CallInv
<1>34. ASSUME NEW c \in Clients, Disconnect(c) PROVE GatewayInv(k)'
  BY <1>34, <1>0, <1>a DEF TypeOK, Disconnect, Step, NoCall, CallInv
<1>35. ASSUME NEW o \in Outsiders, OutsiderLocks(o) PROVE GatewayInv(k)'
  BY <1>35, OutsiderInv
<1>36. ASSUME NEW o \in Outsiders, OutsiderUnlocks(o) PROVE GatewayInv(k)'
  BY <1>36, OutsiderInv
<1>37. ASSUME NEW c \in Clients, NEW g \in Gateways, Request(c, g) PROVE GatewayInv(k)'
  BY <1>37, <1>0 DEF TypeOK, Request
<1> HIDE DEF storeVars, processVars, workerVars, clientVars, Advance, Goto, Acquire,
     Release, GatewayInv, MainInv, WorkerInv, Clean, Reading1, Migrating, Valid,
     Usable, View, Serving
<1>38. QED
  BY <1>1, <1>2, <1>3, <1>4, <1>5, <1>6, <1>7, <1>8, <1>9, <1>10, <1>11, <1>12, <1>13,
       <1>14, <1>15, <1>16, <1>17, <1>18, <1>19, <1>20, <1>21, <1>22, <1>23, <1>24,
       <1>25, <1>26, <1>27, <1>28, <1>29, <1>30, <1>31, <1>32, <1>33, <1>34, <1>35,
       <1>36, <1>37 DEF Next, MainStep, WorkerStep, HandlerStep, Environment
-----------------------------------------------------------------------------
(* Clients: what a handler has seen stays durable, and the connection it   *)
(* holds is not touched by anyone else.                                    *)
LEMMA CallFrame ==
  ASSUME IInv, NEW c \in Clients, UNCHANGED <<call[c], served[c]>>,
         rows \subseteq rows', Usable => Usable',
         \A g \in Gateways : main[g] \in Serving => main'[g] \in Serving,
         \A g \in Gateways : owner'[g] = c <=> owner[g] = c,
         \A g \in Gateways : owner[g] = c => UNCHANGED <<lock[g], pending[g]>>
  PROVE  CallInv(c)'
<1>1. CallInv(c) /\ TypeOK
  BY DEF IInv
<1>2. QED
  BY <1>1 DEF CallInv, Clean, Reading1, TypeOK, CallTypes

LEMMA AppendFailsCall ==
  ASSUME IInv, NEW g \in Gateways, AppendFails(g), rows \subseteq rows',
         Usable => Usable', NEW d \in Clients
  PROVE  CallInv(d)'
<1>1. TypeOK /\ worker[g] \in {"begin", "select", "insert", "commit", "committing"}
      /\ GatewayInv(g) /\ UNCHANGED <<main, call, served>>
  BY IInvParts DEF AppendFails, processVars, clientVars
<1>2. \/ owner[g] = "worker" /\ Release(g)
      \/ UNCHANGED <<owner, lock, pending>>
  BY <1>1 DEF AppendFails, GatewayInv, WorkerInv
<1>3. \A k \in Gateways : /\ owner'[k] = d <=> owner[k] = d
                          /\ owner[k] = d => UNCHANGED <<lock[k], pending[k]>>
  <2>1. CASE UNCHANGED <<owner, lock, pending>>
    BY <2>1
  <2>2. CASE owner[g] = "worker" /\ Release(g)
    BY <1>1, <2>2, GatewayAssumption DEF Release, TypeOK, Conns
  <2>3. QED
    BY <1>2, <2>1, <2>2
<1>4. QED
  BY <1>1, <1>3, CallFrame

LEMMA QueryCall ==
  ASSUME IInv, NEW c \in Clients, Query(c), NEW d \in Clients
  PROVE  CallInv(d)'
<1>0. call[c].server \in Gateways /\ call[c].phase = "holding"
  BY IInvParts DEF Query, CallInv, TypeOK, CallTypes
<1> PICK g \in Gateways : g = call[c].server
  BY <1>0
<1>1. TypeOK /\ CallInv(c) /\ owner[g] = c /\ Clean(g) /\ main[g] \in Serving
      /\ (\A k \in Gateways : owner[k] = c => k = g)
  BY <1>0, IInvParts, GatewayAssumption DEF CallInv
<1>2. UNCHANGED <<file, rows, owner, pending, main, served>> /\ Acquire(g, "shared")
  BY DEF Query, processVars
<1> DEFINE n == LastSequence(View(g))
<1>3. n \in Nat /\ rows = Rows(n)
  BY <1>1, ServingView DEF Clean
<1>4. Reading(n) \in rows
  BY <1>3, RowsMember
<1>5. call[c].floor <= n
  <2>1. Reading(call[c].floor) \in rows /\ call[c].floor \in Nat
    BY <1>0, <1>1 DEF CallInv, TypeOK, CallTypes
  <2>2. QED
    BY <1>3, <2>1, RowsMember
<1>6. CASE d = c
  <2> DEFINE new == [call[c] EXCEPT !.phase = "reading", !.got = n]
  <2>1. call'[c] = new
    BY <1>1 DEF Query, TypeOK
  <2>2. /\ call'[c].phase = "reading" /\ call'[c].server = g
        /\ call'[c].floor = call[c].floor /\ call'[c].got = n
    <3>1. call[c] \in CallTypes
      BY <1>1 DEF TypeOK
    <3>2. QED
      BY <2>1, <3>1 DEF CallTypes
  <2>3. lock'[g] = "shared" /\ pending'[g] = {}
    BY <1>1, <1>2 DEF Acquire, Clean, TypeOK, Conns
  <2>4. QED
    BY <1>0, <1>1, <1>2, <1>4, <1>5, <1>6, <2>2, <2>3 DEF CallInv, Reading1, Usable
<1>7. CASE d # c
  <2>1. UNCHANGED call[d]
    BY <1>7, <1>1 DEF Query, TypeOK
  <2>2. \A k \in Gateways : owner[k] = d => UNCHANGED <<lock[k], pending[k]>>
    BY <1>1, <1>2, <1>7 DEF Acquire, TypeOK, Conns
  <2>3. QED
    BY <1>2, <2>1, <2>2, CallFrame DEF Usable
<1>8. QED
  BY <1>6, <1>7

LEMMA RequestCall ==
  ASSUME IInv, NEW c \in Clients, NEW g \in Gateways, Request(c, g), NEW d \in Clients
  PROVE  CallInv(d)'
<1>1. TypeOK /\ CallInv(c) /\ main[g] \in Serving /\ Usable
  BY IInvParts DEF Request, GatewayInv, MainInv, Serving
<1>2. PICK n \in 0 .. MaxSequence : rows = Rows(n)
  BY <1>1 DEF IInv, FileInv, GapFree
<1>3. n \in Nat /\ LastSequence(rows) = n /\ Reading(n) \in rows
  BY <1>2, LastOfRows, RowsMember, GatewayAssumption
<1>4. served[c] <= n
  <2>1. CASE served[c] = 0
    BY <1>3, <2>1
  <2>2. CASE served[c] # 0
    BY <1>1, <1>2, <1>3, <2>2, RowsMember DEF CallInv, TypeOK
  <2>3. QED
    BY <2>1, <2>2
<1>5. UNCHANGED <<file, rows, owner, lock, pending, main, served>>
  BY DEF Request, storeVars, processVars
<1>6. CASE d = c
  <2>1. call'[c] = [phase |-> "queued", server |-> g, floor |-> n, got |-> 0]
    BY <1>1, <1>3 DEF Request, TypeOK
  <2>2. call[c].phase = "idle" /\ call[c].server = None
    BY DEF Request, NoCall
  <2>3. QED
    BY <1>1, <1>3, <1>4, <1>5, <1>6, <2>1, <2>2, GatewayAssumption DEF CallInv, Usable
<1>7. CASE d # c
  <2>1. UNCHANGED call[d]
    BY <1>7, <1>1 DEF Request, TypeOK
  <2>3. QED
    BY <1>5, <2>1, CallFrame DEF Usable
<1>8. QED
  BY <1>6, <1>7

LEMMA CallInductive ==
  ASSUME IInv, Next, NEW d \in Clients
  PROVE  CallInv(d)'
<1> USE DEF storeVars, processVars, workerVars, clientVars, Starting, Serving, Advance,
     Goto, Acquire, Release, Leave
<1>0. TypeOK /\ (\A g \in Gateways : GatewayInv(g)) /\ \A c \in Clients : CallInv(c)
  BY IInvParts
<1>a. rows \subseteq rows' /\ (Usable => Usable')
  BY RowsGrow
<1> USE GatewayAssumption DEF Clean, Reading1, CallInv, GatewayInv, MainInv, WorkerInv,
     TypeOK, CallTypes
<1>1. ASSUME NEW g \in Gateways, Start(g) PROVE CallInv(d)'
  BY <1>1, <1>0, <1>a DEF Start, NoCall
<1>2. ASSUME NEW g \in Gateways, Signal(g) PROVE CallInv(d)'
  BY <1>2, <1>0, <1>a DEF Signal, NoCall
<1>3. ASSUME NEW g \in Gateways, Crash(g) PROVE CallInv(d)'
  BY <1>3, <1>0, <1>a DEF Crash, NoCall
<1>4. ASSUME NEW g \in Gateways, ServeFails(g) PROVE CallInv(d)'
  BY <1>4, <1>0, <1>a DEF ServeFails, NoCall
<1>5. ASSUME NEW g \in Gateways, QuickCheck(g) PROVE CallInv(d)'
  BY <1>5, <1>0, <1>a DEF QuickCheck, NoCall
<1>6. ASSUME NEW g \in Gateways, ReadVersion(g) PROVE CallInv(d)'
  BY <1>6, <1>0, <1>a DEF ReadVersion, NoCall
<1>7. ASSUME NEW g \in Gateways, Migrate(g) PROVE CallInv(d)'
  BY <1>7, <1>0, <1>a DEF Migrate, NoCall
<1>8. ASSUME NEW g \in Gateways, AcceptVersion(g) PROVE CallInv(d)'
  BY <1>8, <1>0, <1>a DEF AcceptVersion, NoCall
<1>9. ASSUME NEW g \in Gateways, Validate(g) PROVE CallInv(d)'
  BY <1>9, <1>0, <1>a DEF Validate, NoCall
<1>10. ASSUME NEW g \in Gateways, CommitStartup(g) PROVE CallInv(d)'
  BY <1>10, <1>0, <1>a DEF CommitStartup, NoCall
<1>11. ASSUME NEW g \in Gateways, StartupFails(g) PROVE CallInv(d)'
  BY <1>11, <1>0, <1>a DEF StartupFails, NoCall
<1>12. ASSUME NEW g \in Gateways, Listen(g) PROVE CallInv(d)'
  BY <1>12, <1>0, <1>a DEF Listen, NoCall
<1>13. ASSUME NEW g \in Gateways, SelectDone(g) PROVE CallInv(d)'
  BY <1>13, <1>0, <1>a DEF SelectDone, NoCall
<1>14. ASSUME NEW g \in Gateways, SelectError(g) PROVE CallInv(d)'
  BY <1>14, <1>0, <1>a DEF SelectError, NoCall
<1>15. ASSUME NEW g \in Gateways, BeginShutdown(g) PROVE CallInv(d)'
  BY <1>15, <1>0, <1>a DEF BeginShutdown, NoCall
<1>16. ASSUME NEW g \in Gateways, Drained(g) PROVE CallInv(d)'
  BY <1>16, <1>0, <1>a DEF Drained, NoCall
<1>17. ASSUME NEW g \in Gateways, DrainTimeout(g) PROVE CallInv(d)'
  BY <1>17, <1>0, <1>a DEF DrainTimeout, NoCall
<1>18. ASSUME NEW g \in Gateways, Exit(g) PROVE CallInv(d)'
  BY <1>18, <1>0, <1>a DEF Exit, NoCall
<1>19. ASSUME NEW g \in Gateways, Tick(g) PROVE CallInv(d)'
  BY <1>19, <1>0, <1>a DEF Tick, NoCall
<1>20. ASSUME NEW g \in Gateways, StopSampler(g) PROVE CallInv(d)'
  BY <1>20, <1>0, <1>a DEF StopSampler, NoCall
<1>21. ASSUME NEW g \in Gateways, BeginAppend(g) PROVE CallInv(d)'
  BY <1>21, <1>0, <1>a DEF BeginAppend, NoCall
<1>22. ASSUME NEW g \in Gateways, SelectMax(g) PROVE CallInv(d)'
  BY <1>22, <1>0, <1>a DEF SelectMax, NoCall
<1>23. ASSUME NEW g \in Gateways, Insert(g) PROVE CallInv(d)'
  BY <1>23, <1>0, <1>a DEF Insert, NoCall
<1>24. ASSUME NEW g \in Gateways, CheckContext(g) PROVE CallInv(d)'
  BY <1>24, <1>0, <1>a DEF CheckContext, NoCall
<1>25. ASSUME NEW g \in Gateways, CommitAppend(g) PROVE CallInv(d)'
  BY <1>25, <1>0, <1>a DEF CommitAppend, NoCall
<1>26. ASSUME NEW g \in Gateways, AppendFails(g) PROVE CallInv(d)'
  BY <1>26, <1>a, AppendFailsCall
<1>27. ASSUME NEW g \in Gateways, JudgeFailure(g) PROVE CallInv(d)'
  BY <1>27, <1>0, <1>a DEF JudgeFailure, NoCall
<1>28. ASSUME NEW g \in Gateways, SendFailure(g) PROVE CallInv(d)'
  BY <1>28, <1>0, <1>a DEF SendFailure, NoCall
<1>29. ASSUME NEW c \in Clients, TakeConnection(c) PROVE CallInv(d)'
  BY <1>29, <1>0, <1>a DEF TakeConnection, Step, NoCall
<1>30. ASSUME NEW c \in Clients, Query(c) PROVE CallInv(d)'
  BY <1>30, <1>a, QueryCall
<1>31. ASSUME NEW c \in Clients, CloseRows(c) PROVE CallInv(d)'
  BY <1>31, <1>0, <1>a DEF CloseRows, Step, NoCall
<1>32. ASSUME NEW c \in Clients, ReadFails(c) PROVE CallInv(d)'
  BY <1>32, <1>0, <1>a DEF ReadFails, Step, NoCall
<1>33. ASSUME NEW c \in Clients, Respond(c) PROVE CallInv(d)'
  BY <1>33, <1>0, <1>a DEF Respond, Step, NoCall
<1>34. ASSUME NEW c \in Clients, Disconnect(c) PROVE CallInv(d)'
  BY <1>34, <1>0, <1>a DEF Disconnect, Step, NoCall
<1>35. ASSUME NEW o \in Outsiders, OutsiderLocks(o) PROVE CallInv(d)'
  BY <1>35, <1>0, <1>a DEF OutsiderLocks, Conns
<1>36. ASSUME NEW o \in Outsiders, OutsiderUnlocks(o) PROVE CallInv(d)'
  BY <1>36, <1>0, <1>a DEF OutsiderUnlocks, Conns
<1>37. ASSUME NEW c \in Clients, NEW g \in Gateways, Request(c, g) PROVE CallInv(d)'
  BY <1>37, RequestCall
<1> HIDE DEF storeVars, processVars, workerVars, clientVars, Starting, Serving,
     Advance, Goto, Acquire, Release, Leave, Clean, Reading1, CallInv, GatewayInv,
     MainInv, WorkerInv, TypeOK, CallTypes
<1>38. QED
  BY <1>1, <1>2, <1>3, <1>4, <1>5, <1>6, <1>7, <1>8, <1>9, <1>10, <1>11, <1>12, <1>13,
       <1>14, <1>15, <1>16, <1>17, <1>18, <1>19, <1>20, <1>21, <1>22, <1>23, <1>24,
       <1>25, <1>26, <1>27, <1>28, <1>29, <1>30, <1>31, <1>32, <1>33, <1>34, <1>35,
       <1>36, <1>37 DEF Next, MainStep, WorkerStep, HandlerStep, Environment
-----------------------------------------------------------------------------
LEMMA Initially ==
  ASSUME Init
  PROVE  IInv
<1>1. Rows(0) \subseteq Readings /\ Rows(1) \subseteq Readings
      /\ \A n \in 0 .. MaxSequence : Rows(n) \subseteq Readings
  BY RowsType, GatewayAssumption
<1>2. Reading(0) \notin Rows(1) \ Rows(0)
  BY RowsMember
<1>3. FileInv /\ file \in FileTypes /\ rows \subseteq Readings
  <2> USE DEF FileInv, FileKinds, FileTypes, GapFree, Usable, SeedPresent, Contents,
       Empty, Preview, PortAltered, Newer, Unrelated, Damaged
  <2>1. CASE file = Empty /\ rows = {}
    BY <2>1
  <2>2. CASE file = Preview /\ rows \in {Rows(n) : n \in 0 .. MaxSequence}
    BY <1>1, <2>2
  <2>3. CASE file = Preview /\ rows = Rows(1) \ Rows(0)
    BY <1>1, <1>2, <2>3
  <2>4. CASE file \in {PortAltered, Newer, Damaged} /\ rows = Rows(0)
    <3>1. CASE file = PortAltered
      BY <1>1, <2>4, <3>1
    <3>2. CASE file = Newer
      BY <1>1, <2>4, <3>2
    <3>3. CASE file = Damaged
      BY <1>1, <2>4, <3>3
    <3>4. QED
      BY <2>4, <3>1, <3>2, <3>3
  <2>5. CASE file = Unrelated /\ rows = {}
    BY <2>5
  <2>6. QED
    BY <2>1, <2>2, <2>3, <2>4, <2>5 DEF Init, InitFile
<1>4. TypeOK
  BY <1>3 DEF Init, TypeOK, MainPhases, WorkerPhases, CallTypes, CallPhases, NoCall,
       Starting
<1>5. LocksCompatible /\ ConnectionReturnedClean
  BY DEF Init, LocksCompatible, ConnectionReturnedClean, Conns
<1>6. ASSUME NEW g \in Gateways PROVE MainInv(g) /\ WorkerInv(g)
  BY GatewayAssumption DEF Init, MainInv, WorkerInv, Serving, Conns
<1>7. ASSUME NEW c \in Clients PROVE CallInv(c)
  BY GatewayAssumption DEF Init, CallInv, NoCall
<1>8. QED
  BY <1>3, <1>4, <1>5, <1>6, <1>7 DEF IInv

LEMMA Inductive ==
  ASSUME IInv, [Next]_vars
  PROVE  IInv'
<1>1. CASE Next
  <2>1. TypeOK' /\ FileInv' /\ LocksCompatible'
    BY <1>1, TypeInductive, FileInductive, LocksInductive
  <2>2. (\A g \in Gateways : GatewayInv(g)') /\ \A c \in Clients : CallInv(c)'
    BY <1>1, GatewayInductive, CallInductive
  <2>3. QED
    BY <2>1, <2>2 DEF IInv, GatewayInv, ConnectionReturnedClean, Clean
<1>2. CASE UNCHANGED vars
  <2> USE <1>2 DEF vars, storeVars, processVars, workerVars, clientVars
  <2>1. TypeOK' /\ FileInv' /\ LocksCompatible' /\ ConnectionReturnedClean'
    BY DEF IInv, TypeOK, FileInv, GapFree, Usable, LocksCompatible,
         ConnectionReturnedClean
  <2>2. ASSUME NEW g \in Gateways PROVE GatewayInv(g)'
    BY IInvParts, GatewayFrame DEF Untouched
  <2>3. ASSUME NEW c \in Clients PROVE CallInv(c)'
    BY IInvParts, CallFrame DEF Usable
  <2>4. QED
    BY <2>1, <2>2, <2>3 DEF IInv, GatewayInv
<1>3. QED
  BY <1>1, <1>2

(* The invariant holds of every reachable state.                           *)
THEOREM Invariance == Spec => []IInv
<1>1. Init => IInv
  BY Initially
<1>2. IInv /\ [Next]_vars => IInv'
  BY Inductive
<1>3. QED
  BY <1>1, <1>2, PTL DEF Spec

(* Every variable keeps its type.                                          *)
THEOREM TypeCorrect == Spec => []TypeOK
<1>1. IInv => TypeOK
  BY DEF IInv
<1>2. QED
  BY <1>1, Invariance, PTL

(* store.go: whichever processes crash, fail or race, a served database    *)
(* holds the seed and every reading up to the last, never past the replay. *)
THEOREM HistoryGapFree == Spec => []GapFree
<1>1. IInv => GapFree
  BY DEF IInv, FileInv
<1>2. QED
  BY <1>1, Invariance, PTL

(* http.go: a response never shows a reading of an open transaction, nor   *)
(* one older than the request.                                             *)
THEOREM AnswersAreDurable == Spec => []FreshAnswers
<1>1. IInv => FreshAnswers
  BY DEF IInv, CallInv, FreshAnswers, TypeOK, CallTypes
<1>2. QED
  BY <1>1, Invariance, PTL

(* store.go: on every path the pooled connection is returned without a     *)
(* lock and without a transaction.                                         *)
THEOREM ConnectionStaysClean == Spec => []ConnectionReturnedClean
<1>1. IInv => ConnectionReturnedClean
  BY DEF IInv
<1>2. QED
  BY <1>1, Invariance, PTL

(* main.go: the sampler is over before HTTP drains and SQLite closes.      *)
THEOREM SamplerStopsFirst == Spec => []ShutdownOrder
<1>1. IInv => ShutdownOrder
  BY DEF IInv, WorkerInv, ShutdownOrder
<1>2. QED
  BY <1>1, Invariance, PTL

(* store.go: only a valid preview database is ever served.                 *)
THEOREM OnlyUsableServed == Spec => []ServesUsable
<1>1. IInv => ServesUsable
  BY DEF IInv, MainInv, ServesUsable, Serving, TypeOK, MainPhases
<1>2. QED
  BY <1>1, Invariance, PTL

(* store.go: no step removes a durable reading, and a file that startup    *)
(* refuses is never changed.                                               *)
THEOREM HistoryNeverLost == Spec => HistoryPreserved
<1>1. IInv /\ [Next]_vars =>
        [/\ rows \subseteq rows'
         /\ <<file, rows>>' # <<file, rows>> => file = Empty \/ Usable]_vars
  <2> SUFFICES ASSUME IInv, Next
               PROVE  /\ rows \subseteq rows'
                      /\ <<file, rows>>' # <<file, rows>> => file = Empty \/ Usable
    OBVIOUS
  <2>1. rows \subseteq rows'
    BY RowsGrow
  <2>2. UNCHANGED <<file, rows>> \/ file = Empty \/ Usable
    BY DurableSteps, CommitEffect
  <2>3. QED
    BY <2>1, <2>2
<1>2. QED
  BY <1>1, Invariance, PTL DEF Spec, HistoryPreserved
-----------------------------------------------------------------------------
(* The exit status.  A step leaves DrainInv of a gateway alone that does    *)
(* not touch the gateway's run() and gives it no request.                  *)
LEMMA DrainFrame ==
  ASSUME NEW k \in Gateways, DrainInv(k),
         UNCHANGED <<main[k], exit[k], err[k]>>, Active(k)' \subseteq Active(k)
  PROVE  DrainInv(k)'
  BY DEF DrainInv

(* The end of a gateway. *)
LEMMA LeaveDrain ==
  ASSUME TypeOK, NEW g \in Gateways, NEW s, Leave(g, s),
         NEW k \in Gateways, DrainInv(k)
  PROVE  DrainInv(k)'
<1>1. \A c \in Clients : call'[c].server = k => call[c].server = k \/ call'[c] = NoCall
  BY DEF Leave
<1>2. CASE k = g
  <2>1. main'[k] = "down"
    BY <1>2 DEF Leave, TypeOK
  <2>2. QED
    BY <2>1 DEF DrainInv
<1>3. CASE k # g
  <2>1. UNCHANGED <<main[k], exit[k], err[k]>>
    BY <1>3 DEF Leave, TypeOK
  <2>2. Active(k)' \subseteq Active(k)
    BY GatewayAssumption DEF Active, Leave, NoCall
  <2>3. QED
    BY <2>1, <2>2, DrainFrame
<1>4. QED
  BY <1>2, <1>3

(* A step of run() from one phase to the next, on no account of requests.  *)
LEMMA GotoDrain ==
  ASSUME TypeOK, NEW g \in Gateways, NEW from, NEW to, Goto(g, from, to),
         from # "down", to \notin {"draining", "closing"},
         UNCHANGED <<call, exit>>, \A k \in Gateways \ {g} : UNCHANGED err[k],
         NEW k \in Gateways, DrainInv(k)
  PROVE  DrainInv(k)'
<1>1. CASE k = g
  BY <1>1 DEF Goto, DrainInv, TypeOK
<1>2. CASE k # g
  <2>1. UNCHANGED <<main[k], exit[k], err[k]>> /\ Active(k)' = Active(k)
    BY <1>2 DEF Goto, TypeOK, Active
  <2>2. QED
    BY <2>1, DrainFrame
<1>3. QED
  BY <1>1, <1>2

LEMMA MainDrain ==
  ASSUME TypeOK, NEW g \in Gateways, MainStep(g), NEW k \in Gateways, DrainInv(k)
  PROVE  DrainInv(k)'
<1> USE DEF clientVars
<1>1. CASE QuickCheck(g) \/ ReadVersion(g) \/ Migrate(g) \/ AcceptVersion(g)
           \/ Validate(g) \/ CommitStartup(g) \/ SelectDone(g)
  BY <1>1, GotoDrain DEF QuickCheck, ReadVersion, Migrate, AcceptVersion, Validate,
     CommitStartup, SelectDone
<1>2. CASE Listen(g)
  BY <1>2, GotoDrain DEF Listen, TypeOK
<1>3. CASE SelectError(g)
  BY <1>3, GotoDrain DEF SelectError, TypeOK
<1>4. CASE StartupFails(g) \/ Exit(g)
  BY <1>4, LeaveDrain DEF StartupFails, Exit
<1>5. CASE (BeginShutdown(g) \/ Drained(g) \/ DrainTimeout(g)) /\ k # g
  <2>1. UNCHANGED <<main[k], exit[k], err[k]>> /\ Active(k)' = Active(k)
    BY <1>5 DEF BeginShutdown, Drained, DrainTimeout, Goto, TypeOK, Active
  <2>2. QED
    BY <2>1, DrainFrame
<1>6. CASE BeginShutdown(g) /\ k = g
  BY <1>6 DEF BeginShutdown, Goto, TypeOK, DrainInv
<1>7. CASE Drained(g) /\ k = g
  <2>1. Active(k)' = {}
    BY <1>7 DEF Drained, Active
  <2>2. QED
    BY <1>7, <2>1 DEF Drained, Goto, TypeOK, DrainInv
<1>8. CASE DrainTimeout(g) /\ k = g
  BY <1>8 DEF DrainTimeout, Goto, TypeOK, DrainInv
<1>9. QED
  BY <1>1, <1>2, <1>3, <1>4, <1>5, <1>6, <1>7, <1>8 DEF MainStep

LEMMA DrainInductive ==
  ASSUME IInv, \A g \in Gateways : DrainInv(g), [Next]_vars, NEW k \in Gateways
  PROVE  DrainInv(k)'
<1>1. TypeOK /\ DrainInv(k)
  BY DEF IInv
<1> USE DEF processVars, clientVars
<1>2. CASE UNCHANGED vars
  BY <1>1, <1>2 DEF vars, DrainInv, Active
<1>3. ASSUME NEW g \in Gateways, MainStep(g) PROVE DrainInv(k)'
  BY <1>1, <1>3, MainDrain
<1>4. ASSUME NEW g \in Gateways, WorkerStep(g) PROVE DrainInv(k)'
  <2>1. UNCHANGED <<main, exit, err, call>>
    BY <1>4 DEF WorkerStep, StopSampler, BeginAppend, SelectMax, Insert, CheckContext,
       CommitAppend, AppendFails, JudgeFailure, SendFailure
  <2>2. QED
    BY <1>1, <2>1, DrainFrame DEF Active
<1>5. ASSUME NEW c \in Clients,
             \/ TakeConnection(c) \/ HandlerStep(c) \/ Disconnect(c)
      PROVE  DrainInv(k)'
  <2>1. UNCHANGED <<main, exit, err>>
    BY <1>5 DEF TakeConnection, HandlerStep, Query, CloseRows, ReadFails, Respond, Disconnect
  <2>2. \A d \in Clients : call'[d].server \in {call[d].server, None}
    <3>1. PICK to : \/ call' = [call EXCEPT ![c].phase = to]
                    \/ call' = [call EXCEPT ![c] = NoCall]
                    \/ call' = [call EXCEPT ![c] = [@ EXCEPT !.phase = "reading", !.got = to]]
      BY <1>5 DEF TakeConnection, HandlerStep, Query, CloseRows, ReadFails, Respond,
         Disconnect, Step
    <3>2. NoCall.server = None /\ call \in [Clients -> CallTypes]
      BY <1>1 DEF NoCall, TypeOK
    <3>3. CASE call' = [call EXCEPT ![c].phase = to]
      BY <3>2, <3>3 DEF CallTypes
    <3>4. CASE call' = [call EXCEPT ![c] = NoCall]
      BY <3>2, <3>4
    <3>5. CASE call' = [call EXCEPT ![c] = [@ EXCEPT !.phase = "reading", !.got = to]]
      BY <3>2, <3>5 DEF CallTypes
    <3>6. QED
      BY <3>1, <3>3, <3>4, <3>5
  <2>3. Active(k)' \subseteq Active(k)
    BY <2>2, GatewayAssumption DEF Active
  <2>4. QED
    BY <1>1, <2>1, <2>3, DrainFrame
\* Only a gateway that has not drained is given a request.
<1>6. ASSUME NEW c \in Clients, NEW g \in Gateways, Request(c, g) PROVE DrainInv(k)'
  <2>1. UNCHANGED <<main, exit, err>> /\ main[g] # "closing"
    BY <1>6 DEF Request
  <2>2. CASE k = g
    BY <1>1, <2>1, <2>2 DEF DrainInv
  <2>3. CASE k # g
    <3>1. \A d \in Clients : call'[d].server \in {call[d].server, g}
      BY <1>1, <1>6 DEF Request, TypeOK, CallTypes
    <3>2. Active(k)' \subseteq Active(k)
      BY <2>3, <3>1 DEF Active
    <3>3. QED
      BY <1>1, <2>1, <3>2, DrainFrame
  <2>4. QED
    BY <2>2, <2>3
<1>7. ASSUME NEW g \in Gateways, Crash(g) PROVE DrainInv(k)'
  BY <1>1, <1>7, LeaveDrain DEF Crash
<1>8. ASSUME NEW g \in Gateways, Start(g) \/ Signal(g) \/ ServeFails(g) \/ Tick(g)
      PROVE  DrainInv(k)'
  BY <1>1, <1>8 DEF Start, Signal, ServeFails, Tick, Goto, TypeOK, DrainInv, Active
<1>9. ASSUME NEW o \in Outsiders, OutsiderLocks(o) \/ OutsiderUnlocks(o)
      PROVE  DrainInv(k)'
  BY <1>1, <1>9, DrainFrame DEF OutsiderLocks, OutsiderUnlocks, Active
<1>10. QED
  BY <1>2, <1>3, <1>4, <1>5, <1>6, <1>7, <1>8, <1>9 DEF Next, Environment

(* main.go: a process whose exit status is 0 has answered every request it *)
(* accepted; a drain that was cut short is an error.                       *)
THEOREM CleanExits == Spec => CleanExitAnsweredAll
<1>1. Init => \A g \in Gateways : DrainInv(g)
  BY DEF Init, DrainInv
<1>2. ASSUME IInv, \A k \in Gateways : DrainInv(k), [Next]_vars, NEW g \in Gateways,
             main[g] = "closing", exit'[g] = "ok"
      PROVE  Active(g) = {}
  <2>1. ~err[g]
    <3>1. exit[g] = "none" /\ TypeOK
      BY <1>2 DEF DrainInv, IInv
    <3> USE DEF processVars
    <3>2. ASSUME NEW h \in Gateways, MainStep(h) PROVE ~err[g]
      BY <1>2, <3>1, <3>2 DEF MainStep, QuickCheck, ReadVersion, Migrate, AcceptVersion,
         Validate, CommitStartup, StartupFails, Leave, Listen, SelectDone, SelectError,
         BeginShutdown, Drained, DrainTimeout, Exit, TypeOK
    <3>3. ASSUME NEW h \in Gateways,
                 WorkerStep(h) \/ Start(h) \/ Signal(h) \/ Crash(h) \/ ServeFails(h) \/ Tick(h)
          PROVE  exit'[g] # "ok"
      BY <1>2, <3>1, <3>3 DEF WorkerStep, StopSampler, BeginAppend, SelectMax, Insert,
         CheckContext, CommitAppend, AppendFails, JudgeFailure, SendFailure, Start, Signal,
         Crash, Leave, ServeFails, Tick, TypeOK
    <3>4. ASSUME NEW c \in Clients,
                 \/ TakeConnection(c) \/ HandlerStep(c) \/ Disconnect(c)
                 \/ \E h \in Gateways : Request(c, h)
          PROVE  exit' = exit
      BY <3>4 DEF TakeConnection, HandlerStep, Query, CloseRows, ReadFails, Respond,
         Disconnect, Request
    <3>5. ASSUME NEW o \in Outsiders, OutsiderLocks(o) \/ OutsiderUnlocks(o)
          PROVE  exit' = exit
      BY <3>5 DEF OutsiderLocks, OutsiderUnlocks
    <3>6. CASE UNCHANGED vars
      BY <1>2, <3>1, <3>6 DEF vars
    <3>7. QED
      BY <1>2, <3>1, <3>2, <3>3, <3>4, <3>5, <3>6 DEF Next, Environment
  <2>2. QED
    BY <1>2, <2>1 DEF DrainInv
<1>3. Spec => [](\A g \in Gateways : DrainInv(g))
  <2>1. IInv /\ (\A g \in Gateways : DrainInv(g)) /\ [Next]_vars
          => (\A g \in Gateways : DrainInv(g))'
    BY DrainInductive
  <2>2. QED
    BY <1>1, <2>1, Invariance, PTL DEF Spec
<1>4. IInv /\ (\A g \in Gateways : DrainInv(g)) /\ [Next]_vars =>
        [\A g \in Gateways :
           (main[g] = "closing" /\ exit'[g] = "ok") => Active(g) = {}]_vars
  BY <1>2
<1>5. QED
  BY <1>3, <1>4, Invariance, PTL DEF Spec, CleanExitAnsweredAll
-----------------------------------------------------------------------------
(* The refinement: what the abstract log calls history and served.         *)
History == IF Usable THEN rows ELSE {}

LEMMA HistorySteps ==
  ASSUME IInv, Next
  PROVE  \/ UNCHANGED History
         \/ History = {} /\ History' = Rows(0)
         \/ \E n \in 0 .. MaxSequence - 1 : History = Rows(n) /\ History' = Rows(n + 1)
<1>1. CASE UNCHANGED <<file, rows>>
  BY <1>1 DEF History, Usable
<1>2. CASE file = Empty /\ file' = Preview /\ rows' = Rows(0)
  <2>1. ~Usable
    BY <1>2 DEF Usable, Empty, Preview, Contents
  <2>2. Usable'
    BY <1>2, RowsType DEF Usable
  <2>3. QED
    BY <1>2, <2>1, <2>2 DEF History
<1>3. ASSUME Usable, file' = file, NEW n \in 0 .. MaxSequence - 1,
             rows = Rows(n), rows' = Rows(n + 1)
      PROVE  History = Rows(n) /\ History' = Rows(n + 1)
  BY <1>3, RowsGrow DEF History
<1>4. QED
  BY <1>1, <1>2, <1>3, DurableSteps, CommitEffect

(* An answer with a reading is the only step that changes served.          *)
LEMMA ServedSteps ==
  ASSUME IInv, Next
  PROVE  \/ UNCHANGED served
         \/ \E c \in Clients : /\ call[c].phase = "ok" /\ UNCHANGED <<file, rows>>
                               /\ served' = [served EXCEPT ![c] = call[c].got]
<1> USE DEF clientVars
<1>1. ASSUME NEW g \in Gateways, MainStep(g) PROVE UNCHANGED served
  BY <1>1 DEF MainStep, QuickCheck, ReadVersion, AcceptVersion, Validate,
       CommitStartup, Migrate, StartupFails, Leave, Listen, SelectDone, SelectError,
       BeginShutdown, Drained, DrainTimeout, Exit
<1>2. ASSUME NEW g \in Gateways, WorkerStep(g) PROVE UNCHANGED served
  BY <1>2 DEF WorkerStep, StopSampler, BeginAppend, SelectMax, Insert,
       CheckContext, CommitAppend, AppendFails, JudgeFailure, SendFailure
<1>3. ASSUME NEW c \in Clients,
             TakeConnection(c) \/ Query(c) \/ CloseRows(c) \/ ReadFails(c)
      PROVE  UNCHANGED served
  BY <1>3 DEF TakeConnection, Query, CloseRows, ReadFails
<1>4. ASSUME NEW c \in Clients, Respond(c)
      PROVE  \/ UNCHANGED served
             \/ /\ call[c].phase = "ok" /\ UNCHANGED <<file, rows>>
                /\ served' = [served EXCEPT ![c] = call[c].got]
  BY <1>4 DEF Respond, storeVars
<1>5. ASSUME Environment PROVE UNCHANGED served
  BY <1>5 DEF Environment, Start, Signal, Crash, ServeFails, Tick, Leave, Disconnect,
       Request, OutsiderLocks, OutsiderUnlocks
<1>6. QED
  BY <1>1, <1>2, <1>3, <1>4, <1>5 DEF Next, HandlerStep

(* ReadingLog's instance has its own copy of Replay's definitions.         *)
LEMMA SameRows ==
  /\ \A n : Log!Rows(n) = Rows(n)
  /\ \A n : Log!Reading(n) = Reading(n)
  BY DEF Log!Rows, Log!Reading, Rows, Reading

LEMMA LogStep ==
  ASSUME IInv, [Next]_vars
  PROVE  [Log!Next]_(Log!logVars)
<1>1. CASE UNCHANGED vars
  BY <1>1 DEF vars, storeVars, clientVars, Log!logVars, Usable
<1>2. CASE Next /\ UNCHANGED served
  <2>1. CASE UNCHANGED History
    BY <1>2, <2>1 DEF Log!logVars, History
  <2>2. CASE History = {} /\ History' = Rows(0)
    BY <1>2, <2>2, SameRows DEF Log!Next, Log!Seed, History
  <2>3. CASE \E n \in 0 .. MaxSequence - 1 : History = Rows(n) /\ History' = Rows(n + 1)
    BY <1>2, <2>3, SameRows DEF Log!Next, Log!Append, History
  <2>4. QED
    BY <1>2, <2>1, <2>2, <2>3, HistorySteps
<1>3. ASSUME NEW c \in Clients, call[c].phase = "ok", UNCHANGED <<file, rows>>,
             served' = [served EXCEPT ![c] = call[c].got]
      PROVE  Log!Show(c)
  <2>1. /\ Reading(call[c].got) \in rows
        /\ call[c].floor <= call[c].got /\ served[c] <= call[c].floor
        /\ call[c] \in CallTypes /\ served[c] \in Nat
    BY <1>3 DEF IInv, CallInv, TypeOK
  <2>2. Usable
    BY <1>3, IInvParts DEF CallInv, GatewayInv, MainInv, TypeOK, CallTypes
  <2>3. served[c] <= call[c].got
    BY <2>1 DEF CallTypes
  <2>4. Reading(call[c].got).sequence = call[c].got
    BY DEF Reading
  <2>5. UNCHANGED History
    BY <1>3 DEF History, Usable
  <2>6. QED
    BY <1>3, <2>1, <2>2, <2>3, <2>4, <2>5 DEF Log!Show, History
<1>4. QED
  BY <1>1, <1>2, <1>3, ServedSteps DEF Log!Next

(* gateway/main.go, store.go and http.go together implement the log of     *)
(* ReadingLog: with any number of processes that crash, fail and restart,  *)
(* the history grows reading by reading and no client is taken back.       *)
THEOREM ImplementsLog == Spec => LogSpec
<1>1. Init => Log!Init
  <2> SUFFICES ASSUME Init PROVE Log!Init
    OBVIOUS
  <2>1. Usable => \E n \in 0 .. MaxSequence : rows = Rows(n)
    BY Initially DEF IInv, FileInv, GapFree
  <2>2. QED
    BY <2>1, SameRows DEF Log!Init, Init
<1>2. IInv /\ [Next]_vars => [Log!Next]_(Log!logVars)
  BY LogStep
<1>3. QED
  BY <1>1, <1>2, Invariance, PTL DEF Spec, LogSpec, Log!Spec
=============================================================================
