----------------------------- MODULE Migration -----------------------------
(***************************************************************************)
(* How puls-server instances bring a database up to date when they start:  *)
(* initStore (cmd/puls-server/main.go), then NewPostgres and migrate with  *)
(* applyConcurrentMigration (internal/store/postgres.go), or NewSQLite and *)
(* migrate (internal/store/sqlite.go).  Instances start together, fail,    *)
(* die and start again; the database outlives them.                        *)
(*                                                                         *)
(* A step is one SQL statement or one transaction as the database sees it. *)
(* A process that dies late in a statement, which Postgres carries to its  *)
(* end, is one that dies after it.  An index build takes long and can be   *)
(* cut short as well, by the timeout or with the session: StatementFails   *)
(* and Stop then leave the index invalid and the session's lock free.      *)
(***************************************************************************)
EXTENDS Integers

CONSTANTS
    Instances,      \* server processes on one database
    NoInstance,     \* nobody
    Last,           \* the newest version in the list of migrations
    Concurrent      \* Postgres migrations flagged concurrent: CREATE INDEX
                    \* CONCURRENTLY IF NOT EXISTS

ASSUME MigrationAssumption ==
    /\ NoInstance \notin Instances
    /\ Last \in Nat
    /\ Concurrent \subseteq 1..Last

Versions == 1..Last

VARIABLES
    driver,         \* the store cfg.DatabaseURL selects
    pc,             \* the next statement of each instance
    at,             \* the migration each instance has reached
    lock,           \* who holds the advisory lock
    recorded,       \* puls_schema_version, or 1..user_version
    schema,         \* what each migration was to create
    older,          \* sessions whose snapshots an index build waits out
    interrupted,    \* history: migrations whose build was cut short
    dropped         \* history: migrations whose index the operator dropped

vars == <<driver, pc, at, lock, recorded, schema, older, interrupted, dropped>>

Building == {"building", "validate"}
InMigrate == {"read", "tx", "create", "record"} \cup Building
Holding  == InMigrate \cup {"unlock", "giveup"}
Starting == Holding \cup {"lock"}

TypeOK ==
    /\ driver \in {"postgres", "sqlite"}
    /\ pc \in [Instances -> Starting \cup {"off", "ready"}]
    /\ at \in [Instances -> 0..Last + 1]
    /\ lock \in Instances \cup {NoInstance}
    /\ recorded \subseteq Versions
    /\ schema \in [Versions -> {"absent", "invalid", "built"}]
    /\ older \subseteq Instances
    /\ interrupted \subseteq Versions
    /\ dropped \subseteq Versions

\* An empty database, or one that an earlier release has brought so far.
Init ==
    /\ driver \in {"postgres", "sqlite"}
    /\ pc = [i \in Instances |-> "off"]
    /\ at = [i \in Instances |-> 0]
    /\ lock = NoInstance
    /\ \E v \in 0..Last :
          /\ recorded = 1..v
          /\ schema = [w \in Versions |-> IF w <= v THEN "built" ELSE "absent"]
    /\ older = {}
    /\ interrupted = {}
    /\ dropped = {}

----------------------------------------------------------------------------
(* Slips a change to the code could make; substituted for the definition   *)
(* named beside it, each breaks one of the properties below.               *)

NoMutex           == TRUE               \* LockFree
SkipsOne(current) == current + 2        \* FirstPending
StaysLocked       == lock               \* AfterUnlock

----------------------------------------------------------------------------
(* The loop over the migrations.                                           *)

\* SELECT COALESCE(MAX(version), 0), or PRAGMA user_version.
Current == CHOOSE v \in recorded \cup {0} : \A w \in recorded : w <= v

\* The loop skips every migration up to current.
FirstPending(current) == current + 1

Finished == IF driver = "postgres" THEN "unlock" ELSE "ready"
Failed   == IF driver = "postgres" THEN "giveup" ELSE "off"

\* A slip a change to the code could make, for FirstStage: a concurrent
\* migration is recorded, and its statements forgotten.
RecordsOnly(v) ==
    CASE v > Last                                     -> Finished
      [] v \in Concurrent /\ driver = "postgres"      -> "record"
      [] OTHER                                        -> "tx"

FirstStage(v) ==
    CASE v > Last                                     -> Finished
      [] v \in Concurrent /\ driver = "postgres"      -> "create"
      [] OTHER                                        -> "tx"

GoTo(i, stage) == pc' = [pc EXCEPT ![i] = stage]

Turn(i, v) ==
    /\ at' = [at EXCEPT ![i] = v]
    /\ GoTo(i, FirstStage(v))

\* A statement that took effect returns, or its answer is lost.
Returns(i) ==
    \/ Turn(i, at[i] + 1)
    \/ GoTo(i, Failed) /\ UNCHANGED at

\* The version table after INSERT of v; user_version = v stands for 1..v.
Recording(v) == IF driver = "postgres" THEN recorded \cup {v} ELSE 1..v

\* The table's primary key.
MayRecord(v) == driver = "postgres" => v \notin recorded

----------------------------------------------------------------------------
(* An instance.                                                            *)

Start(i) ==
    /\ pc[i] = "off"
    /\ GoTo(i, IF driver = "postgres" THEN "lock" ELSE "read")
    /\ UNCHANGED <<driver, at, lock, recorded, schema, older, interrupted, dropped>>

LockFree == lock = NoInstance

\* SELECT pg_advisory_lock.
AcquireLock(i) ==
    /\ pc[i] = "lock"
    /\ LockFree
    /\ lock' = i
    /\ older' = older \ {i}
    /\ GoTo(i, "read")
    /\ UNCHANGED <<driver, at, recorded, schema, interrupted, dropped>>

\* The version table is created if absent, and read.
ReadVersion(i) ==
    /\ pc[i] = "read"
    /\ Turn(i, FirstPending(Current))
    /\ UNCHANGED <<driver, lock, recorded, schema, older, interrupted, dropped>>

\* A migration and its version in one transaction.
CommitTx(i) ==
    /\ pc[i] = "tx"
    /\ MayRecord(at[i])
    /\ schema' = [schema EXCEPT ![at[i]] = "built"]
    /\ recorded' = Recording(at[i])
    /\ Returns(i)
    /\ UNCHANGED <<driver, lock, older, interrupted, dropped>>

\* CREATE INDEX CONCURRENTLY IF NOT EXISTS: nothing to do for an index of
\* that name in any condition, else an invalid one is committed first.
CreateIndex(i) ==
    /\ pc[i] = "create"
    /\ \/ /\ schema[at[i]] # "absent"
          /\ GoTo(i, "record")
          /\ UNCHANGED schema
       \/ /\ schema[at[i]] = "absent"
          /\ GoTo(i, "building")
          /\ schema' = [schema EXCEPT ![at[i]] = "invalid"]
    /\ UNCHANGED <<driver, at, lock, recorded, older, interrupted, dropped>>

\* After its scans the build waits for every session with an older snapshot,
\* those blocked in SELECT pg_advisory_lock included.
AwaitSnapshots(i) ==
    /\ pc[i] = "building"
    /\ GoTo(i, "validate")
    /\ older' = {j \in Instances : pc[j] = "lock"}
    /\ UNCHANGED <<driver, at, lock, recorded, schema, interrupted, dropped>>

FinishIndex(i) ==
    /\ pc[i] = "validate"
    /\ older = {}
    /\ GoTo(i, "record")
    /\ schema' = [schema EXCEPT ![at[i]] = "built"]
    /\ dropped' = dropped \ {at[i]}
    /\ UNCHANGED <<driver, at, lock, recorded, older, interrupted>>

RecordVersion(i) ==
    /\ pc[i] = "record"
    /\ MayRecord(at[i])
    /\ recorded' = Recording(at[i])
    /\ Returns(i)
    /\ UNCHANGED <<driver, lock, schema, older, interrupted, dropped>>

AfterUnlock == NoInstance

\* The deferred unlock.  After a timeout its connection is closed already,
\* which releases the lock as well.  An error ends the process.
Unlock(i) ==
    /\ pc[i] \in {"unlock", "giveup"}
    /\ lock' = AfterUnlock
    /\ GoTo(i, IF pc[i] = "unlock" THEN "ready" ELSE "off")
    /\ UNCHANGED <<driver, at, recorded, schema, older, interrupted, dropped>>

\* What becomes of an index build, and of the wait for a snapshot, when i's
\* statement ends without success.
CutShort(i) ==
    /\ interrupted' = IF pc[i] \in Building
                      THEN interrupted \cup {at[i]} ELSE interrupted
    /\ older' = IF pc[i] \in Building THEN {} ELSE older \ {i}

\* A statement fails without effect: an error, or the 30 seconds are over.
StatementFails(i) ==
    /\ pc[i] \in InMigrate \cup {"lock"}
    /\ CutShort(i)
    /\ GoTo(i, IF pc[i] = "lock" THEN "off" ELSE Failed)
    /\ UNCHANGED <<driver, at, lock, recorded, schema, dropped>>

\* A process dies, or a ready one stops; Postgres drops its session's lock.
Stop(i) ==
    /\ pc[i] # "off"
    /\ CutShort(i)
    /\ lock' = IF lock = i THEN NoInstance ELSE lock
    /\ GoTo(i, "off")
    /\ UNCHANGED <<driver, at, recorded, schema, dropped>>

----------------------------------------------------------------------------
(* Postgres and the operator.                                              *)

\* The builder waits for the snapshot of a session that waits for the
\* builder's advisory lock: the deadlock detector ends either statement.
DeadlockDetected ==
    \E i, j \in Instances :
        /\ pc[i] = "validate" /\ lock = i
        /\ j \in older /\ pc[j] = "lock"
        /\ StatementFails(i) \/ StatementFails(j)

\* "An operator [has] to DROP INDEX the invalid one and restart".
DropInvalid ==
    /\ \A i \in Instances : pc[i] = "off"
    /\ \E v \in Concurrent :
          /\ schema[v] = "invalid"
          /\ schema' = [schema EXCEPT ![v] = "absent"]
          /\ dropped' = dropped \cup {v}
    /\ UNCHANGED <<driver, pc, at, lock, recorded, older, interrupted>>

----------------------------------------------------------------------------
Statement(i) ==
    \/ ReadVersion(i) \/ CommitTx(i) \/ CreateIndex(i) \/ AwaitSnapshots(i)
    \/ FinishIndex(i) \/ RecordVersion(i) \/ Unlock(i)

Next ==
    \/ \E i \in Instances :
          \/ Start(i) \/ AcquireLock(i) \/ Statement(i)
          \/ StatementFails(i) \/ Stop(i)
    \/ DropInvalid

Spec == Init /\ [][Next]_vars

\* Statements end, Postgres grants a lock in the order of arrival and breaks
\* deadlocks.  No process has to start, stop or time out.
FairSpec ==
    /\ Spec
    /\ \A i \in Instances : WF_vars(Statement(i)) /\ SF_vars(AcquireLock(i))
    /\ WF_vars(DeadlockDetected)

----------------------------------------------------------------------------
(* Properties.                                                             *)

(***************************************************************************)
(* The version table tells no lies: whoever died where, a recorded version *)
(* has its predecessors recorded and its own statements executed.          *)
(***************************************************************************)
RecordedIsApplied ==
    \A v \in recorded :
        /\ 1..v \subseteq recorded
        /\ schema[v] # "absent" \/ v \in dropped

(***************************************************************************)
(* A store that NewPostgres or NewSQLite returned finds every migration    *)
(* complete, however many instances migrate, fail or die around it; only   *)
(* an index whose build was cut short may be left invalid.                 *)
(***************************************************************************)
ReadyIsMigrated ==
    \A i \in Instances : pc[i] = "ready" =>
        \A v \in Versions :
            schema[v] = "built" \/ v \in interrupted \cup dropped

(***************************************************************************)
(* Starting comes to an end without relying on the timeout: no instance    *)
(* waits for ever for another one's lock or snapshot.                      *)
(***************************************************************************)
StartEnds ==
    \A i \in Instances : pc[i] \in Starting ~> pc[i] \in {"ready", "off"}

(***************************************************************************)
(* postgres.go: an invalid index "needs an operator to DROP INDEX the      *)
(* invalid one and restart".  A start between the interruption and the     *)
(* operator records the version, and then no restart builds the index.     *)
(***************************************************************************)
DropAndRestartRecovers ==
    (\E i \in Instances : pc[i] = "ready") => dropped = {}
============================================================================
