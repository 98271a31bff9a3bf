-------------------------- MODULE MigrationProofs --------------------------
(***************************************************************************)
(* Proofs about Migration, for any number of instances and migrations: the *)
(* version table tells no lies, and a store that is ready is migrated.     *)
(***************************************************************************)
EXTENDS Migration, TLAPS

----------------------------------------------------------------------------
(* The inductive invariant.                                                *)

Working == {"tx", "create", "record"} \cup Building

\* Versions are recorded in order, without gaps.
Prefix == \E v \in 0..Last : recorded = 1..v

\* The advisory lock: whoever is past it holds it, and nobody else does.
LockHeld == driver = "postgres" =>
    \A i \in Instances : pc[i] \in Holding <=> lock = i

\* SQLite's migrate knows neither lock nor concurrent migrations.
SQLiteStages == driver = "sqlite" =>
    /\ \A i \in Instances : pc[i] \in {"off", "read", "tx", "ready"}
    /\ \A v \in Versions : schema[v] # "invalid"

\* An instance works on a version of the list, by the path for its kind.
PathTaken(i) ==
    /\ pc[i] \in Working => at[i] \in Versions
    /\ pc[i] \in {"create", "record"} \cup Building => at[i] \in Concurrent
    /\ pc[i] = "tx" /\ driver = "postgres" => at[i] \notin Concurrent

\* In Postgres, the lock's holder works on the first version not recorded.
NextInLine(i) == driver = "postgres" =>
    /\ pc[i] \in Working => recorded = 1..at[i] - 1
    /\ pc[i] \in {"unlock", "ready"} => recorded = Versions

\* In SQLite another process may have gone ahead, or user_version back; what
\* an instance passed by is there all the same.
PassedIsBuilt(i) == driver = "sqlite" =>
    /\ pc[i] = "tx" => \A v \in 1..at[i] - 1 : schema[v] = "built"
    /\ pc[i] = "ready" => \A v \in Versions : schema[v] = "built"

\* How far the index is that an instance builds.
IndexOf(i) ==
    /\ pc[i] \in Building => schema[at[i]] = "invalid"
    /\ pc[i] = "record" => schema[at[i]] # "absent"

\* An invalid index is being built, or its build was cut short.
InvalidExplained ==
    \A v \in Versions : schema[v] = "invalid" =>
        \/ v \in interrupted
        \/ \E i \in Instances : pc[i] \in Building /\ at[i] = v

\* What is missing of a recorded version.
RecordedIsThere ==
    \A v \in recorded : schema[v] = "absent" => driver = "postgres" /\ v \in dropped

Progress(i) == PathTaken(i) /\ NextInLine(i) /\ PassedIsBuilt(i) /\ IndexOf(i)

IInv ==
    /\ TypeOK /\ Prefix /\ LockHeld /\ SQLiteStages
    /\ \A i \in Instances : Progress(i)
    /\ InvalidExplained
    /\ RecordedIsThere

----------------------------------------------------------------------------
(* Facts about the definitions of the model.                               *)

\* The maximum of the version table, when there are no gaps in it.
LEMMA CurrentIs ==
    ASSUME NEW v \in 0..Last, recorded = 1..v
    PROVE  Current = v
<1>1. v \in recorded \cup {0} /\ \A w \in recorded : w <= v
    BY MigrationAssumption
<1>2. ASSUME NEW u \in recorded \cup {0}, \A w \in recorded : w <= u PROVE u = v
    <2>1. u \in Int /\ u <= v
        BY MigrationAssumption
    <2>2. v <= u
        BY <1>2, MigrationAssumption
    <2> QED
        BY <2>1, <2>2, MigrationAssumption
<1> QED
    BY <1>1, <1>2 DEF Current

\* The stage an instance goes to with version v, by driver and kind.
StageFits(v, stage) ==
    /\ v > Last => stage = IF driver = "postgres" THEN "unlock" ELSE "ready"
    /\ v <= Last /\ v \in Concurrent /\ driver = "postgres" => stage = "create"
    /\ v <= Last /\ ~(v \in Concurrent /\ driver = "postgres") => stage = "tx"

\* How migrate goes about version v, with either driver.
LEMMA StageOf ==
    ASSUME NEW v \in 1..Last + 1
    PROVE  StageFits(v, FirstStage(v))
<1> USE DEF StageFits, Finished
<1>1. v \in Int /\ Last \in Int /\ (v > Last => v \notin Concurrent)
    BY MigrationAssumption
<1>2. CASE v > Last
    BY <1>1, <1>2 DEF FirstStage
<1>3. CASE v <= Last
    <2>1. ~(v > Last)
        BY <1>1, <1>3
    <2> QED
        BY <2>1, <1>3 DEF FirstStage
<1> QED
    BY <1>1, <1>2, <1>3

\* The invariant holds before any instance has started.
LEMMA IInvInit == Init => IInv
<1> SUFFICES ASSUME Init PROVE IInv
    OBVIOUS
<1> USE MigrationAssumption DEF Init
<1>1. PICK v \in 0..Last :
          /\ recorded = 1..v
          /\ schema = [w \in Versions |-> IF w <= v THEN "built" ELSE "absent"]
    OBVIOUS
<1>2. TypeOK
    BY <1>1 DEF TypeOK, Starting, Holding, InMigrate, Versions
<1>3. LockHeld
    BY DEF LockHeld, Holding, InMigrate, Building
<1>4. Prefix /\ InvalidExplained /\ RecordedIsThere /\ SQLiteStages
    BY <1>1 DEF Prefix, InvalidExplained, RecordedIsThere, SQLiteStages, Versions
<1>5. ASSUME NEW i \in Instances
      PROVE  Progress(i)
    BY DEF Progress, PathTaken, NextInLine, PassedIsBuilt, IndexOf, Working,
           Building
<1> QED
    BY <1>2, <1>3, <1>4, <1>5 DEF IInv

----------------------------------------------------------------------------
(* Every step preserves it.                                                *)

\* Every statement, failure, death and repair keeps the invariant.
LEMMA IInvNext == IInv /\ [Next]_vars => IInv'
<1> SUFFICES ASSUME IInv, [Next]_vars PROVE IInv'
    OBVIOUS
<1> USE MigrationAssumption
<1> USE DEF IInv, Working, Building, InMigrate, Holding, Starting, GoTo, Versions
<1>1. ASSUME NEW i \in Instances, Start(i) PROVE IInv'
    <2> USE <1>1 DEF Start
    <2>1. TypeOK'
        BY DEF TypeOK
    <2>2. Prefix'
        BY DEF Prefix
    <2>3. LockHeld'
        BY DEF TypeOK, LockHeld, SQLiteStages
    <2>4. SQLiteStages'
        BY DEF TypeOK, SQLiteStages
    <2>5. ASSUME NEW j \in Instances PROVE Progress(j)'
        <3>1. CASE j = i
            BY <3>1 DEF TypeOK, SQLiteStages, Progress, PathTaken, NextInLine,
                        PassedIsBuilt, IndexOf
        <3>2. CASE j # i
            BY <3>2 DEF TypeOK, LockHeld, SQLiteStages, Progress, PathTaken,
                        NextInLine, PassedIsBuilt, IndexOf
        <3> QED
            BY <3>1, <3>2
    <2>6. InvalidExplained'
        BY DEF TypeOK, SQLiteStages, LockHeld, InvalidExplained, Progress,
               PathTaken, NextInLine, PassedIsBuilt, IndexOf
    <2>7. RecordedIsThere'
        BY DEF TypeOK, SQLiteStages, RecordedIsThere
    <2> QED
        BY <2>1, <2>2, <2>3, <2>4, <2>5, <2>6, <2>7
<1>2. ASSUME NEW i \in Instances, AcquireLock(i) PROVE IInv'
    <2> USE <1>2 DEF AcquireLock, LockFree
    <2>1. TypeOK'
        BY DEF TypeOK
    <2>2. Prefix'
        BY DEF Prefix
    <2>3. LockHeld'
        BY DEF TypeOK, LockHeld, SQLiteStages
    <2>4. SQLiteStages'
        BY DEF TypeOK, SQLiteStages
    <2>5. ASSUME NEW j \in Instances PROVE Progress(j)'
        <3>1. CASE j = i
            BY <3>1 DEF TypeOK, SQLiteStages, Progress, PathTaken, NextInLine,
                        PassedIsBuilt, IndexOf
        <3>2. CASE j # i
            BY <3>2 DEF TypeOK, LockHeld, SQLiteStages, Progress, PathTaken,
                        NextInLine, PassedIsBuilt, IndexOf
        <3> QED
            BY <3>1, <3>2
    <2>6. InvalidExplained'
        BY DEF TypeOK, SQLiteStages, LockHeld, InvalidExplained, Progress,
               PathTaken, NextInLine, PassedIsBuilt, IndexOf
    <2>7. RecordedIsThere'
        BY DEF TypeOK, SQLiteStages, RecordedIsThere
    <2> QED
        BY <2>1, <2>2, <2>3, <2>4, <2>5, <2>6, <2>7
<1>3. ASSUME NEW i \in Instances, CreateIndex(i) PROVE IInv'
    <2> USE <1>3 DEF CreateIndex
    <2>1. TypeOK'
        BY DEF TypeOK
    <2>2. Prefix'
        BY DEF Prefix
    <2>3. LockHeld'
        BY DEF TypeOK, LockHeld, SQLiteStages
    <2>4. SQLiteStages'
        BY DEF TypeOK, SQLiteStages
    <2>5. ASSUME NEW j \in Instances PROVE Progress(j)'
        <3>1. CASE j = i
            BY <3>1 DEF TypeOK, SQLiteStages, Progress, PathTaken, NextInLine,
                        PassedIsBuilt, IndexOf
        <3>2. CASE j # i
            BY <3>2 DEF TypeOK, LockHeld, SQLiteStages, Progress, PathTaken,
                        NextInLine, PassedIsBuilt, IndexOf
        <3> QED
            BY <3>1, <3>2
    <2>6. InvalidExplained'
        BY DEF TypeOK, SQLiteStages, LockHeld, InvalidExplained, Progress,
               PathTaken, NextInLine, PassedIsBuilt, IndexOf
    <2>7. RecordedIsThere'
        BY DEF TypeOK, SQLiteStages, RecordedIsThere
    <2> QED
        BY <2>1, <2>2, <2>3, <2>4, <2>5, <2>6, <2>7
<1>4. ASSUME NEW i \in Instances, AwaitSnapshots(i) PROVE IInv'
    <2> USE <1>4 DEF AwaitSnapshots
    <2>1. TypeOK'
        BY DEF TypeOK
    <2>2. Prefix'
        BY DEF Prefix
    <2>3. LockHeld'
        BY DEF TypeOK, LockHeld, SQLiteStages
    <2>4. SQLiteStages'
        BY DEF TypeOK, SQLiteStages
    <2>5. ASSUME NEW j \in Instances PROVE Progress(j)'
        <3>1. CASE j = i
            BY <3>1 DEF TypeOK, SQLiteStages, Progress, PathTaken, NextInLine,
                        PassedIsBuilt, IndexOf
        <3>2. CASE j # i
            BY <3>2 DEF TypeOK, LockHeld, SQLiteStages, Progress, PathTaken,
                        NextInLine, PassedIsBuilt, IndexOf
        <3> QED
            BY <3>1, <3>2
    <2>6. InvalidExplained'
        BY DEF TypeOK, SQLiteStages, LockHeld, InvalidExplained, Progress,
               PathTaken, NextInLine, PassedIsBuilt, IndexOf
    <2>7. RecordedIsThere'
        BY DEF TypeOK, SQLiteStages, RecordedIsThere
    <2> QED
        BY <2>1, <2>2, <2>3, <2>4, <2>5, <2>6, <2>7
<1>5. ASSUME NEW i \in Instances, FinishIndex(i) PROVE IInv'
    <2> USE <1>5 DEF FinishIndex
    <2>1. TypeOK'
        BY DEF TypeOK
    <2>2. Prefix'
        BY DEF Prefix
    <2>3. LockHeld'
        BY DEF TypeOK, LockHeld, SQLiteStages
    <2>4. SQLiteStages'
        BY DEF TypeOK, SQLiteStages
    <2>5. ASSUME NEW j \in Instances PROVE Progress(j)'
        <3>1. CASE j = i
            BY <3>1 DEF TypeOK, SQLiteStages, Progress, PathTaken, NextInLine,
                        PassedIsBuilt, IndexOf
        <3>2. CASE j # i
            BY <3>2 DEF TypeOK, LockHeld, SQLiteStages, Progress, PathTaken,
                        NextInLine, PassedIsBuilt, IndexOf
        <3> QED
            BY <3>1, <3>2
    <2>6. InvalidExplained'
        BY DEF TypeOK, SQLiteStages, LockHeld, InvalidExplained, Progress,
               PathTaken, NextInLine, PassedIsBuilt, IndexOf
    <2>7. RecordedIsThere'
        BY DEF TypeOK, SQLiteStages, RecordedIsThere
    <2> QED
        BY <2>1, <2>2, <2>3, <2>4, <2>5, <2>6, <2>7
<1>6. ASSUME NEW i \in Instances, Unlock(i) PROVE IInv'
    <2> USE <1>6 DEF Unlock, AfterUnlock
    <2>1. TypeOK'
        BY DEF TypeOK
    <2>2. Prefix'
        BY DEF Prefix
    <2>3. LockHeld'
        BY DEF TypeOK, LockHeld, SQLiteStages
    <2>4. SQLiteStages'
        BY DEF TypeOK, SQLiteStages
    <2>5. ASSUME NEW j \in Instances PROVE Progress(j)'
        <3>1. CASE j = i
            BY <3>1 DEF TypeOK, SQLiteStages, Progress, PathTaken, NextInLine,
                        PassedIsBuilt, IndexOf
        <3>2. CASE j # i
            BY <3>2 DEF TypeOK, LockHeld, SQLiteStages, Progress, PathTaken,
                        NextInLine, PassedIsBuilt, IndexOf
        <3> QED
            BY <3>1, <3>2
    <2>6. InvalidExplained'
        BY DEF TypeOK, SQLiteStages, LockHeld, InvalidExplained, Progress,
               PathTaken, NextInLine, PassedIsBuilt, IndexOf
    <2>7. RecordedIsThere'
        BY DEF TypeOK, SQLiteStages, RecordedIsThere
    <2> QED
        BY <2>1, <2>2, <2>3, <2>4, <2>5, <2>6, <2>7
<1>7. ASSUME NEW i \in Instances, StatementFails(i) PROVE IInv'
    <2> USE <1>7 DEF StatementFails, CutShort, Failed
    <2>1. TypeOK'
        BY DEF TypeOK, Progress, PathTaken
    <2>2. Prefix'
        BY DEF Prefix
    <2>3. LockHeld'
        BY DEF TypeOK, LockHeld, SQLiteStages
    <2>4. SQLiteStages'
        BY DEF TypeOK, SQLiteStages
    <2>5. ASSUME NEW j \in Instances PROVE Progress(j)'
        <3>1. CASE j = i
            BY <3>1 DEF TypeOK, SQLiteStages, Progress, PathTaken, NextInLine,
                        PassedIsBuilt, IndexOf
        <3>2. CASE j # i
            BY <3>2 DEF TypeOK, LockHeld, SQLiteStages, Progress, PathTaken,
                        NextInLine, PassedIsBuilt, IndexOf
        <3> QED
            BY <3>1, <3>2
    <2>6. InvalidExplained'
        <3> SUFFICES ASSUME NEW v \in Versions, schema[v] = "invalid",
                            v \notin interrupted'
                     PROVE  \E k \in Instances : pc'[k] \in Building /\ at'[k] = v
            BY DEF InvalidExplained
        <3>1. v \notin interrupted
            OBVIOUS
        <3>2. PICK k \in Instances : pc[k] \in Building /\ at[k] = v
            BY <3>1 DEF InvalidExplained
        <3>3. k # i
            BY <3>2
        <3> QED
            BY <3>2, <3>3 DEF TypeOK
    <2>7. RecordedIsThere'
        BY DEF TypeOK, SQLiteStages, RecordedIsThere
    <2> QED
        BY <2>1, <2>2, <2>3, <2>4, <2>5, <2>6, <2>7
<1>8. ASSUME NEW i \in Instances, Stop(i) PROVE IInv'
    <2> USE <1>8 DEF Stop, CutShort
    <2>1. TypeOK'
        BY DEF TypeOK, Progress, PathTaken
    <2>2. Prefix'
        BY DEF Prefix
    <2>3. LockHeld'
        BY DEF TypeOK, LockHeld, SQLiteStages
    <2>4. SQLiteStages'
        BY DEF TypeOK, SQLiteStages
    <2>5. ASSUME NEW j \in Instances PROVE Progress(j)'
        <3>1. CASE j = i
            BY <3>1 DEF TypeOK, SQLiteStages, Progress, PathTaken, NextInLine,
                        PassedIsBuilt, IndexOf
        <3>2. CASE j # i
            BY <3>2 DEF TypeOK, LockHeld, SQLiteStages, Progress, PathTaken,
                        NextInLine, PassedIsBuilt, IndexOf
        <3> QED
            BY <3>1, <3>2
    <2>6. InvalidExplained'
        <3> SUFFICES ASSUME NEW v \in Versions, schema[v] = "invalid",
                            v \notin interrupted'
                     PROVE  \E k \in Instances : pc'[k] \in Building /\ at'[k] = v
            BY DEF InvalidExplained
        <3>1. v \notin interrupted
            OBVIOUS
        <3>2. PICK k \in Instances : pc[k] \in Building /\ at[k] = v
            BY <3>1 DEF InvalidExplained
        <3>3. k # i
            BY <3>2
        <3> QED
            BY <3>2, <3>3 DEF TypeOK
    <2>7. RecordedIsThere'
        BY DEF TypeOK, SQLiteStages, RecordedIsThere
    <2> QED
        BY <2>1, <2>2, <2>3, <2>4, <2>5, <2>6, <2>7
<1>9. ASSUME NEW i \in Instances, ReadVersion(i) PROVE IInv'
    <2> USE <1>9 DEF ReadVersion, Turn, FirstPending
    <2>1. PICK v \in 0..Last : recorded = 1..v
        BY DEF Prefix
    <2>2. Current = v
        BY <2>1, CurrentIs
    <2> DEFINE stage == FirstStage(v + 1)
    <2>3. pc' = [pc EXCEPT ![i] = stage] /\ at' = [at EXCEPT ![i] = v + 1]
        BY <2>2
    <2>4. StageFits(v + 1, stage)
        BY StageOf
    <2> HIDE DEF stage
    <2> USE DEF StageFits
    <2>5. TypeOK'
        BY <2>1, <2>3, <2>4 DEF TypeOK
    <2>6. Prefix'
        BY <2>1 DEF Prefix
    <2>7. LockHeld'
        BY <2>3, <2>4 DEF TypeOK, LockHeld, SQLiteStages
    <2>8. SQLiteStages'
        BY <2>3, <2>4 DEF TypeOK, SQLiteStages
    <2>9. ASSUME NEW j \in Instances PROVE Progress(j)'
        <3>1. CASE j = i
            BY <3>1, <2>1, <2>3, <2>4 DEF TypeOK, SQLiteStages, RecordedIsThere,
                                          Progress, PathTaken, NextInLine,
                                             PassedIsBuilt, IndexOf
        <3>2. CASE j # i
            BY <3>2, <2>3 DEF TypeOK, Progress, PathTaken, NextInLine,
                              PassedIsBuilt, IndexOf
        <3> QED
            BY <3>1, <3>2
    <2>10. InvalidExplained'
        BY <2>3 DEF TypeOK, InvalidExplained
    <2>11. RecordedIsThere'
        BY DEF RecordedIsThere
    <2> QED
        BY <2>5, <2>6, <2>7, <2>8, <2>9, <2>10, <2>11
<1>10. ASSUME NEW i \in Instances, CommitTx(i) PROVE IInv'
    <2> USE <1>10 DEF CommitTx
    <2>1. at[i] \in Versions /\ (driver = "postgres" => recorded = 1..at[i] - 1)
        BY DEF Progress, PathTaken, NextInLine
    <2>2. at[i] \in Versions /\ recorded' = 1..at[i]
        <3>1. (1..at[i] - 1) \cup {at[i]} = 1..at[i]
            BY <2>1
        <3> QED
            BY <2>1, <3>1 DEF Recording
    <2>3. at[i] + 1 \in 1..Last + 1 /\ at[i] \in Int
        BY <2>2
    <2> DEFINE stage == FirstStage(at[i] + 1)
    <2>4. \/ pc' = [pc EXCEPT ![i] = stage] /\ at' = [at EXCEPT ![i] = at[i] + 1]
          \/ /\ pc' = [pc EXCEPT ![i] = IF driver = "postgres" THEN "giveup" ELSE "off"]
             /\ at' = at
        BY DEF Returns, Turn, Failed
    <2>5. StageFits(at[i] + 1, stage)
        BY <2>3, StageOf
    <2> HIDE DEF stage
    <2> USE DEF StageFits
    <2>6. TypeOK'
        BY <2>2, <2>3, <2>4, <2>5 DEF TypeOK
    <2>7. Prefix'
        BY <2>2 DEF Prefix, TypeOK
    <2>8. LockHeld'
        BY <2>4, <2>5 DEF TypeOK, LockHeld, SQLiteStages
    <2>9. SQLiteStages'
        BY <2>4, <2>5 DEF TypeOK, SQLiteStages
    <2>10. ASSUME NEW j \in Instances PROVE Progress(j)'
        <3>1. CASE j = i
            BY <3>1, <2>2, <2>3, <2>4, <2>5 DEF TypeOK, SQLiteStages,
                                                RecordedIsThere, Progress,
                                                   PathTaken, NextInLine,
                                                      PassedIsBuilt, IndexOf
        <3>2. CASE j # i
            BY <3>2, <2>2, <2>3, <2>4, <2>5 DEF TypeOK, LockHeld, SQLiteStages,
                                                Progress, PathTaken, NextInLine,
                                                   PassedIsBuilt, IndexOf
        <3> QED
            BY <3>1, <3>2
    <2>11. InvalidExplained'
        BY <2>2, <2>4 DEF TypeOK, InvalidExplained, SQLiteStages
    <2>12. RecordedIsThere'
        BY <2>2 DEF TypeOK, RecordedIsThere, SQLiteStages, Progress, PathTaken,
                    NextInLine, PassedIsBuilt, IndexOf
    <2> QED
        BY <2>6, <2>7, <2>8, <2>9, <2>10, <2>11, <2>12
<1>11. ASSUME NEW i \in Instances, RecordVersion(i) PROVE IInv'
    <2> USE <1>11 DEF RecordVersion
    <2>1. at[i] \in Versions /\ (driver = "postgres" => recorded = 1..at[i] - 1)
        BY DEF Progress, PathTaken, NextInLine
    <2>2. at[i] \in Versions /\ recorded' = 1..at[i]
        <3>1. (1..at[i] - 1) \cup {at[i]} = 1..at[i]
            BY <2>1
        <3> QED
            BY <2>1, <3>1 DEF Recording
    <2>3. at[i] + 1 \in 1..Last + 1 /\ at[i] \in Int
        BY <2>2
    <2> DEFINE stage == FirstStage(at[i] + 1)
    <2>4. \/ pc' = [pc EXCEPT ![i] = stage] /\ at' = [at EXCEPT ![i] = at[i] + 1]
          \/ /\ pc' = [pc EXCEPT ![i] = IF driver = "postgres" THEN "giveup" ELSE "off"]
             /\ at' = at
        BY DEF Returns, Turn, Failed
    <2>5. StageFits(at[i] + 1, stage)
        BY <2>3, StageOf
    <2> HIDE DEF stage
    <2> USE DEF StageFits
    <2>6. TypeOK'
        BY <2>2, <2>3, <2>4, <2>5 DEF TypeOK
    <2>7. Prefix'
        BY <2>2 DEF Prefix, TypeOK
    <2>8. LockHeld'
        BY <2>4, <2>5 DEF TypeOK, LockHeld, SQLiteStages
    <2>9. SQLiteStages'
        BY <2>4, <2>5 DEF TypeOK, SQLiteStages
    <2>10. ASSUME NEW j \in Instances PROVE Progress(j)'
        <3>1. CASE j = i
            BY <3>1, <2>2, <2>3, <2>4, <2>5 DEF TypeOK, SQLiteStages,
                                                RecordedIsThere, Progress,
                                                   PathTaken, NextInLine,
                                                      PassedIsBuilt, IndexOf
        <3>2. CASE j # i
            BY <3>2, <2>2, <2>3, <2>4, <2>5 DEF TypeOK, LockHeld, SQLiteStages,
                                                Progress, PathTaken, NextInLine,
                                                   PassedIsBuilt, IndexOf
        <3> QED
            BY <3>1, <3>2
    <2>11. InvalidExplained'
        BY <2>2, <2>4 DEF TypeOK, InvalidExplained, SQLiteStages
    <2>12. RecordedIsThere'
        BY <2>2 DEF TypeOK, RecordedIsThere, SQLiteStages, Progress, PathTaken,
                    NextInLine, PassedIsBuilt, IndexOf
    <2> QED
        BY <2>6, <2>7, <2>8, <2>9, <2>10, <2>11, <2>12
<1>12. CASE DropInvalid
    <2> USE <1>12 DEF DropInvalid
    <2>1. TypeOK' /\ Prefix' /\ LockHeld'
        BY DEF TypeOK, Prefix, LockHeld
    <2>2. SQLiteStages'
        BY DEF TypeOK, SQLiteStages
    <2>3. ASSUME NEW j \in Instances PROVE Progress(j)'
        BY DEF Progress, PathTaken, NextInLine, PassedIsBuilt, IndexOf
    <2>4. InvalidExplained' /\ RecordedIsThere'
        BY DEF TypeOK, SQLiteStages, InvalidExplained, RecordedIsThere
    <2> QED
        BY <2>1, <2>2, <2>3, <2>4
<1>13. CASE UNCHANGED vars
    BY <1>13 DEF vars, TypeOK, Prefix, LockHeld, SQLiteStages, InvalidExplained,
                 RecordedIsThere, Progress, PathTaken, NextInLine, PassedIsBuilt,
                    IndexOf
<1> QED
    BY <1>1, <1>2, <1>3, <1>4, <1>5, <1>6, <1>7, <1>8, <1>9, <1>10, <1>11, <1>12,
       <1>13
       DEF Next, Statement

\* The inductive invariant holds of every execution of the instances.
THEOREM MigrationInvariant == Spec => []IInv
BY IInvInit, IInvNext, PTL DEF Spec

----------------------------------------------------------------------------
(* What follows from it.                                                   *)

(***************************************************************************)
(* The variables keep their types; in particular no instance runs past the *)
(* end of the list of migrations.                                          *)
(***************************************************************************)
THEOREM TypeCorrect == Spec => []TypeOK
<1>1. IInv => TypeOK
    BY DEF IInv
<1> QED
    BY <1>1, MigrationInvariant, PTL

(***************************************************************************)
(* However many instances start, fail and die, a version in the table has  *)
(* all its predecessors there, and its statements were executed (unless an *)
(* operator has dropped its index since).                                  *)
(***************************************************************************)
THEOREM RecordsTrue == Spec => []RecordedIsApplied
<1>1. IInv => RecordedIsApplied
    <2> SUFFICES ASSUME IInv, NEW v \in recorded
                 PROVE  /\ 1..v \subseteq recorded
                        /\ schema[v] # "absent" \/ v \in dropped
        BY DEF RecordedIsApplied
    <2>1. PICK w \in 0..Last : recorded = 1..w
        BY DEF IInv, Prefix
    <2>2. 1..v \subseteq recorded
        BY <2>1, MigrationAssumption
    <2> QED
        BY <2>2 DEF IInv, RecordedIsThere
<1> QED
    BY <1>1, MigrationInvariant, PTL

(***************************************************************************)
(* Once NewPostgres or NewSQLite has returned a store, every migration of  *)
(* the list is complete, except an index whose build was cut short or that *)
(* was dropped.                                                            *)
(***************************************************************************)
THEOREM ReadyMigrated == Spec => []ReadyIsMigrated
<1>1. IInv => ReadyIsMigrated
    <2> SUFFICES ASSUME IInv, NEW i \in Instances, pc[i] = "ready",
                        NEW v \in Versions, schema[v] # "built",
                           v \notin interrupted
                 PROVE  v \in dropped
        BY DEF ReadyIsMigrated
    <2> USE MigrationAssumption DEF IInv
    <2>1. driver = "postgres"
        BY DEF TypeOK, Progress, PassedIsBuilt
    <2>2. recorded = Versions
        BY <2>1 DEF Progress, NextInLine
    <2>3. schema[v] # "invalid"
        <3> SUFFICES ASSUME schema[v] = "invalid" PROVE FALSE
            OBVIOUS
        <3>1. PICK k \in Instances : pc[k] \in Building /\ at[k] = v
            BY DEF InvalidExplained
        <3>2. recorded = 1..v - 1
            BY <2>1, <3>1 DEF Progress, NextInLine, Working
        <3> QED
            BY <2>2, <3>2 DEF Versions
    <2>4. schema[v] = "absent"
        BY <2>3 DEF TypeOK
    <2> QED
        BY <2>2, <2>4 DEF RecordedIsThere
<1> QED
    BY <1>1, MigrationInvariant, PTL

\* Two instances that both migrate a Postgres database.
TwoMigrate == \E i, j \in Instances : i # j /\ pc[i] \in Holding /\ pc[j] \in Holding

(***************************************************************************)
(* pg_advisory_lock does what it is for: whatever fails, times out or      *)
(* dies, two instances never migrate one Postgres database at a time.      *)
(***************************************************************************)
THEOREM OneMigrator == Spec => [](driver = "postgres" => ~TwoMigrate)
<1>1. IInv => (driver = "postgres" => ~TwoMigrate)
    BY DEF IInv, LockHeld, TwoMigrate
<1> QED
    BY <1>1, MigrationInvariant, PTL
============================================================================
