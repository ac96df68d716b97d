------------------------- MODULE SnapshotStoreProofs -------------------------
(***************************************************************************)
(* Type correctness of SnapshotStore under every fault; what the data file *)
(* holds; and what survives: AckedSurvive, RecoveryMonotone and            *)
(* CleanCloseDurable for every number of transactions and crashes when the *)
(* log stays readable and every snapshot within the limits of              *)
(* LoadTablesBytes, and IncompleteIgnored when every commit reaches its    *)
(* COMMIT record.                                                          *)
(***************************************************************************)
EXTENDS SnapshotStore, LogManagerProofs

-----------------------------------------------------------------------------
\* Recovery.

\* The largest number of a set is the one that bounds it.
LEMMA MaxOfUnique ==
  ASSUME NEW S \in SUBSET Nat, NEW m \in S, \A n \in S : n <= m
  PROVE  MaxOf(S) = m
<1> DEFINE Greatest(x) == \A n \in S : n <= x
<1>1. \A x \in S : Greatest(x) => x = m
  <2>1. SUFFICES ASSUME NEW x \in S, Greatest(x) PROVE x = m
    OBVIOUS
  <2>2. x <= m /\ m <= x /\ x \in Nat /\ m \in Nat
    BY <2>1
  <2> QED BY <2>2
<1>2. MaxOf(S) = CHOOSE x \in S : Greatest(x)
  BY DEF MaxOf
<1>3. Greatest(m)
  OBVIOUS
<1> HIDE DEF Greatest
<1> QED BY <1>1, <1>2, <1>3

\* A bounded set of numbers that is not empty has a largest one.
LEMMA MaxOfBounded ==
  ASSUME NEW S \in SUBSET Nat, S # {}, NEW b \in Nat, \A n \in S : n <= b
  PROVE  MaxOf(S) \in S /\ \A n \in S : n <= MaxOf(S)
<1>1. PICK m \in S : \A n \in S : n <= m
  BY GreatestNatural
<1> QED BY <1>1, MaxOfUnique

\* Finitely many naturals have an upper bound.  (By the least length for
\* which they would not.)
LEMMA NaturalsBounded ==
  ASSUME NEW k \in Nat, NEW f \in [1..k -> Nat]
  PROVE  \E b \in Nat : \A i \in 1..k : f[i] <= b
<1> DEFINE Bound(n, b) == \A i \in 1..n : f[i] <= b
           Unbounded == {n \in 0..k : ~ \E b \in Nat : Bound(n, b)}
<1>1. SUFFICES ASSUME Unbounded # {} PROVE FALSE
  <2>1. k \in 0..k
    OBVIOUS
  <2>2. k \notin Unbounded => \E b \in Nat : Bound(k, b)
    BY <2>1
  <2> QED BY <1>1, <2>2
<1>2. PICK m \in Unbounded : \A n \in Unbounded : m <= n
  <2>1. Unbounded \in SUBSET Nat
    OBVIOUS
  <2> HIDE DEF Unbounded
  <2> QED BY <1>1, <2>1, LeastNatural
<1>3. m \in 1..k
  <2>1. Bound(0, 0)
    OBVIOUS
  <2> QED BY <1>2, <2>1
<1>4. m - 1 \in 0..k /\ ~ (m <= m - 1)
  BY <1>3
<1>5. m - 1 \notin Unbounded
  BY <1>2, <1>4
<1>6. PICK b \in Nat : Bound(m - 1, b)
  BY <1>4, <1>5
<1>7. PICK c \in Nat : b <= c /\ f[m] <= c
  <2>1. f[m] \in Nat
    BY <1>3
  <2>2. b + f[m] \in Nat /\ b <= b + f[m] /\ f[m] <= b + f[m]
    BY <2>1
  <2> QED BY <2>2
<1>8. Bound(m, c)
  <2>1. SUFFICES ASSUME NEW i \in 1..m PROVE f[i] <= c
    OBVIOUS
  <2>2. f[i] \in Nat
    BY <1>3
  <2>3. CASE i = m
    BY <2>3, <1>7
  <2>4. CASE i \in 1..(m - 1)
    BY <2>2, <2>4, <1>6, <1>7
  <2> QED BY <2>3, <2>4, <1>3
<1> QED BY <1>2, <1>8

\* The transaction ids of a log have an upper bound.
LEMMA TxnIdsBounded ==
  ASSUME NEW r \in Seq(Rec)
  PROVE  \E b \in Nat : \A i \in 1..Len(r) : r[i].txn_id <= b
<1> DEFINE f == [i \in 1..Len(r) |-> r[i].txn_id]
<1>0. \A i \in 1..Len(r) : r[i].txn_id \in Nat
  BY RecordFields, ElementOfSeq
<1>1. f \in [1..Len(r) -> Nat] /\ Len(r) \in Nat
  BY <1>0
<1>2. \A i \in 1..Len(r) : f[i] = r[i].txn_id
  OBVIOUS
<1> HIDE DEF f
<1>3. PICK b \in Nat : \A i \in 1..Len(r) : f[i] <= b
  BY <1>1, NaturalsBounded
<1> QED BY <1>2, <1>3

\* largest_txn of RecoverCommittedTables is a number for every log.
LEMMA LargestTxnType ==
  ASSUME NEW r \in Seq(Rec)
  PROVE  LargestTxn(r) \in Nat
<1> DEFINE S == {0} \cup {r[i].txn_id : i \in 1..Len(r)}
<1>0. \A i \in 1..Len(r) : r[i].txn_id \in Nat
  BY RecordFields, ElementOfSeq
<1>1. S \in SUBSET Nat /\ S # {}
  BY <1>0
<1>2. PICK b \in Nat : \A i \in 1..Len(r) : r[i].txn_id <= b
  BY TxnIdsBounded
<1>3. \A n \in S : n <= b
  BY <1>2
<1> HIDE DEF S
<1>4. MaxOf(S) \in S
  BY <1>1, <1>3, MaxOfBounded
<1> QED BY <1>1, <1>4 DEF S, LargestTxn

\* When some COMMIT is replayable, the replayed snapshot is the payload of an
\* UPDATE record of the log.
LEMMA ReplayFacts ==
  ASSUME NEW r \in Seq(Rec), Replayable(r) # {}
  PROVE  /\ MaxOf(Replayable(r)) \in Replayable(r)
         /\ \E j \in 1..Len(r) : ReplayedSnapshot(r) = r[j].payload
<1>1. MaxOf(Replayable(r)) \in Replayable(r)
  <2>1. Replayable(r) \in SUBSET Nat /\ Len(r) \in Nat
    BY DEF Replayable
  <2>2. \A n \in Replayable(r) : n <= Len(r)
    BY DEF Replayable
  <2> QED BY <2>1, <2>2, MaxOfBounded
<1> DEFINE i == MaxOf(Replayable(r))
           U == UpdatesFor(r, i)
<1>2. i \in 1..Len(r) /\ U # {}
  BY <1>1 DEF Replayable
<1>3. MaxOf(U) \in U
  <2>1. U \in SUBSET Nat /\ \A n \in U : n <= Len(r)
    BY <1>2 DEF UpdatesFor
  <2>2. U # {} /\ Len(r) \in Nat
    BY <1>2
  <2> HIDE DEF U
  <2> QED BY <2>1, <2>2, MaxOfBounded
<1>4. MaxOf(U) \in 1..Len(r)
  BY <1>2, <1>3 DEF UpdatesFor
<1> QED BY <1>1, <1>4 DEF ReplayedSnapshot, SnapshotAt

\* What RecoverCommittedTables replays is a snapshot.
LEMMA ReplayType ==
  ASSUME NEW r \in Seq(Rec), Replayable(r) # {}
  PROVE  ReplayedSnapshot(r) \in SUBSET Txns
<1>1. PICK j \in 1..Len(r) : ReplayedSnapshot(r) = r[j].payload
  BY ReplayFacts
<1>2. r[j] \in Rec
  BY ElementOfSeq
<1> QED BY <1>1, <1>2, RecordFields, SnapshotAssumption

\* What a COMMIT finds is the payload of the UPDATE that it completes.
LEMMA SnapshotSource ==
  ASSUME NEW r \in Seq(Rec), NEW i \in Replayable(r)
  PROVE  \E u, k \in Range(r) :
           /\ u.type = "update" /\ k.type = "commit" /\ u.txn_id = k.txn_id
           /\ SnapshotAt(r, i) = u.payload
<1> DEFINE U == UpdatesFor(r, i)
<1>1. i \in 1..Len(r) /\ r[i].type = "commit" /\ U # {}
  BY DEF Replayable
<1>2. U \in SUBSET Nat /\ Len(r) \in Nat /\ \A n \in U : n <= Len(r)
  BY <1>1 DEF UpdatesFor
<1> HIDE DEF U
<1>3. MaxOf(U) \in U
  BY <1>1, <1>2, MaxOfBounded
<1>4. /\ MaxOf(U) \in 1..Len(r) /\ r[MaxOf(U)].type = "update"
      /\ r[MaxOf(U)].txn_id = r[i].txn_id
  BY <1>1, <1>3 DEF U, UpdatesFor
<1>5. SnapshotAt(r, i) = r[MaxOf(U)].payload
  BY DEF SnapshotAt, U
<1>6. r[i] \in Range(r) /\ r[MaxOf(U)] \in Range(r)
  BY <1>1, <1>4 DEF Range
<1> QED BY <1>1, <1>4, <1>5, <1>6

\* What is replayed before a snapshot is refused is a snapshot of the log.
LEMMA BeforeRefusedFacts ==
  ASSUME NEW r \in Seq(Rec), BeforeRefused(r) # {}
  PROVE  MaxOf(BeforeRefused(r)) \in Replayable(r)
<1>1. /\ BeforeRefused(r) \in SUBSET Nat /\ Len(r) \in Nat
      /\ BeforeRefused(r) \subseteq Replayable(r)
      /\ \A n \in BeforeRefused(r) : n <= Len(r)
  BY DEF BeforeRefused, Replayable
<1>2. MaxOf(BeforeRefused(r)) \in BeforeRefused(r)
  BY <1>1, MaxOfBounded
<1> QED BY <1>1, <1>2

\* The tables a refused recovery leaves are a snapshot.
LEMMA RefusedType ==
  ASSUME TypeOK, RecoverRefuses
  PROVE  tables' \in SUBSET Txns
<1> DEFINE r == ReadRecords(file)
<1>1. r \in Seq(Rec)
  BY ReadRecordsFacts, FirstOfFacts DEF TypeOK, LogTypeOK
<1>2. tables \in SUBSET Txns
  BY DEF TypeOK, StoreTypeOK
<1>3. CASE BeforeRefused(r) # {}
  <2> HIDE DEF r
  <2> DEFINE i == MaxOf(BeforeRefused(r))
  <2>1. i \in Replayable(r)
    BY <1>1, <1>3, BeforeRefusedFacts
  <2> HIDE DEF i
  <2>2. PICK u \in Range(r) : SnapshotAt(r, i) = u.payload
    BY <1>1, <2>1, SnapshotSource
  <2>3. u \in Rec
    BY <1>1, <2>2, ElementOfSeq DEF Range
  <2>4. u.payload \in SUBSET Txns
    BY <2>3, RecordFields, SnapshotAssumption
  <2>5. tables' = SnapshotAt(r, i)
    BY <1>3 DEF RecoverRefuses, r, i
  <2> QED BY <2>2, <2>4, <2>5
<1>4. CASE BeforeRefused(r) = {}
  BY <1>2, <1>4 DEF RecoverRefuses
<1> QED BY <1>3, <1>4

-----------------------------------------------------------------------------
\* Type correctness.

\* The three contents a data file can have.
LEMMA FileTypes ==
  /\ Bad \in File /\ Missing \in File
  /\ \A snap \in SUBSET Txns : Whole(snap) \in File
  /\ \A f \in File : f.snap \in SUBSET Txns
BY DEF Bad, Missing, Whole, File

\* A step that leaves the log alone keeps its types.
LEMMA LogUnchanged ==
  ASSUME LogTypeOK, UNCHANGED logVars
  PROVE  LogTypeOK'
BY DEF LogTypeOK, logVars

\* Going on to the next step of a job keeps the types.
LEMMA GotoType ==
  ASSUME StoreTypeOK, NEW step \in Steps, Goto(step), UNCHANGED histVars,
         tables' \in SUBSET Txns, data' \in File, temp' \in File,
         dataStable' \in File
  PROVE  StoreTypeOK'
BY DEF StoreTypeOK, Goto, histVars

\* The error path of every operation keeps the types.
LEMMA FailType ==
  ASSUME StoreTypeOK, Fail,
         tables' \in SUBSET Txns, data' \in File, temp' \in File,
         dataStable' \in File
  PROVE  StoreTypeOK'
<1>1. CASE job = "commit"
  BY <1>1 DEF Fail, Return, NoJob, StoreTypeOK, Jobs, Steps
<1>2. CASE job = "checkpoint"
  BY <1>2 DEF Fail, Return, NoJob, StoreTypeOK, Jobs, Steps, histVars
<1>3. CASE job \in {"close", "abort"}
  BY <1>3 DEF Fail, Goto, StoreTypeOK, Jobs, Steps, histVars
<1>4. CASE job = "open"
  BY <1>4 DEF Fail, StoreTypeOK, Jobs, Steps, histVars
<1> QED BY <1>1, <1>2, <1>3, <1>4 DEF Fail

\* The types hold before the first Open.
LEMMA InitType == Init => TypeOK
<1>1. SUFFICES ASSUME Init PROVE TypeOK
  OBVIOUS
<1>2. LogTypeOK
  <2>1. is_open \in BOOLEAN
    BY <1>1, Zenon DEF Init, LogInit
  <2>2. buf \in Seq(Rec) /\ file \in Seq(Rec) /\ stable \in Seq(Rec)
    BY <1>1, EmptySeq DEF Init, LogInit
  <2>3. kept \in 0..Len(file) /\ next_lsn \in Nat \ {0} /\ durable_lsn \in Nat
    BY <1>1, <2>2 DEF Init, LogInit
  <2> QED BY <2>1, <2>2, <2>3 DEF LogTypeOK
<1>3. data \in File /\ temp \in File /\ dataStable \in File
  BY <1>1, FileTypes DEF Init
<1>4. StoreTypeOK
  BY <1>1, <1>3, OptionsAssumption DEF Init, StoreTypeOK, Jobs, Steps
<1> QED BY <1>2, <1>4 DEF TypeOK

\* Every step of an operation keeps the types.
LEMMA StepType ==
  ASSUME TypeOK, Step
  PROVE  TypeOK'
<1> USE DEF TypeOK
<1>0. /\ tables \in SUBSET Txns /\ data \in File /\ temp \in File
      /\ dataStable \in File
  BY DEF StoreTypeOK
<1>1. CASE WriteTemp
  <2>1. LogTypeOK'
    BY <1>1, LogUnchanged DEF WriteTemp
  <2>2. temp' \in File /\ tables' \in SUBSET Txns /\ data' \in File
          /\ dataStable' \in File
    BY <1>1, <1>0, FileTypes DEF WriteTemp
  <2>3. StoreTypeOK'
    BY <1>1, <2>2, GotoType, FailType DEF WriteTemp, Steps
  <2> QED BY <2>1, <2>3
<1>2. CASE Rename
  <2>1. LogTypeOK'
    BY <1>2, LogUnchanged DEF Rename
  <2>2. temp' \in File /\ tables' \in SUBSET Txns /\ data' \in File
          /\ dataStable' \in File
    BY <1>2, <1>0, FileTypes DEF Rename
  <2>3. StoreTypeOK'
    BY <1>2, <2>2, GotoType DEF Rename, Steps
  <2> QED BY <2>1, <2>3
<1>3. CASE RenameFails
  <2>1. LogTypeOK'
    BY <1>3, LogUnchanged DEF RenameFails
  <2>2. StoreTypeOK'
    BY <1>3, <1>0, GotoType, FailType DEF RenameFails, Steps, storeVars
  <2> QED BY <2>1, <2>2
<1>4. CASE RemoveData
  <2>1. LogTypeOK'
    BY <1>4, LogUnchanged DEF RemoveData
  <2>2. StoreTypeOK'
    BY <1>4, <1>0, FileTypes, GotoType DEF RemoveData, Steps
  <2> QED BY <2>1, <2>2
<1>5. CASE AppendStep
  <2> DEFINE txn == next_wal_txn - 1
             load == IF pc = "update" THEN tables ELSE NoPayload
  <2>1. /\ txn \in Nat /\ lsn \in Nat /\ next_lsn \in Nat
        /\ load \in Payload \cup {NoPayload}
        /\ pc \in LogRecordType
    BY <1>5, SnapshotAssumption
       DEF AppendStep, StoreTypeOK, LogTypeOK, LogRecordType
  <2>2. CASE /\ AppendRecord(txn, lsn, pc, load)
             /\ lsn' = next_lsn /\ pc' = AfterAppend(pc)
             /\ logged' = IF pc = "commit" THEN logged \cup cur ELSE logged
             /\ UNCHANGED <<next_wal_txn, proc, job, cur, attempted, acked,
                            failed, opened, closedWith, crashes>>
    <3>1. LogTypeOK'
      BY <2>1, <2>2, AppendType
    <3>2. pc' \in Steps
      BY <1>5, <2>2 DEF AppendStep, AfterAppend, Steps
    <3>3. StoreTypeOK'
      BY <1>5, <2>1, <2>2, <3>2 DEF AppendStep, storeVars, StoreTypeOK
    <3> QED BY <3>1, <3>3
  <2>3. CASE AppendFails(txn, lsn, pc, load) /\ Fail
    <3>1. LogTypeOK'
      BY <2>1, <2>3, AppendType
    <3>2. StoreTypeOK'
      BY <1>5, <1>0, <2>3, FailType DEF AppendStep, storeVars
    <3> QED BY <3>1, <3>2
  <2>4. CASE UNCHANGED logVars /\ Fail
    <3>1. LogTypeOK'
      BY <2>4, LogUnchanged
    <3>2. StoreTypeOK'
      BY <1>5, <1>0, <2>4, FailType DEF AppendStep, storeVars
    <3> QED BY <3>1, <3>2
  <2> QED BY <1>5, <2>2, <2>3, <2>4 DEF AppendStep
<1>6. CASE FlushStep
  <2>1. LogTypeOK'
    BY <1>6, FlushType DEF FlushStep, StoreTypeOK
  <2>2. StoreTypeOK'
    BY <1>6, <1>0, GotoType, FailType DEF FlushStep, Steps, storeVars
  <2> QED BY <2>1, <2>2
<1>7. CASE SyncStep
  <2>1. LogTypeOK'
    BY <1>7, SyncType DEF SyncStep
  <2>2. StoreTypeOK'
    BY <1>7, <1>0, GotoType, FailType DEF SyncStep, Steps, storeVars
  <2> QED BY <2>1, <2>2
<1>8. CASE CommitReturns
  <2>1. LogTypeOK'
    BY <1>8, LogUnchanged DEF CommitReturns
  <2>2. StoreTypeOK'
    BY <1>8 DEF CommitReturns, Return, NoJob, StoreTypeOK, storeVars, Jobs, Steps
  <2> QED BY <2>1, <2>2
<1>9. CASE TruncateStep
  <2>1. LogTypeOK'
    BY <1>9, TruncateType, LogUnchanged DEF TruncateStep
  <2>2. StoreTypeOK'
    BY <1>9, <1>0, GotoType, FailType DEF TruncateStep, Steps, storeVars
  <2> QED BY <2>1, <2>2
<1>10. CASE TruncateSyncStep
  <2>1. LogTypeOK'
    BY <1>10, SyncType DEF TruncateSyncStep
  <2>2. CASE Return /\ UNCHANGED histVars
    BY <1>10, <2>1, <2>2
       DEF TruncateSyncStep, Return, NoJob, StoreTypeOK, storeVars, histVars,
           Jobs, Steps
  <2>3. CASE Fail
    <3>1. StoreTypeOK'
      BY <1>10, <1>0, <2>3, FailType DEF TruncateSyncStep, storeVars
    <3> QED BY <2>1, <3>1
  <2> QED BY <1>10, <2>2, <2>3 DEF TruncateSyncStep
<1>11. CASE CloseLog
  <2>1. LogTypeOK'
    BY <1>11, CloseType DEF CloseLog
  <2>2. StoreTypeOK'
    BY <1>11 DEF CloseLog, Gone, NoJob, StoreTypeOK, Jobs, Steps
  <2> QED BY <2>1, <2>2
<1>12. CASE LoadTables
  <2>1. LogTypeOK'
    BY <1>12, LogUnchanged DEF LoadTables
  <2>2. tables' \in SUBSET Txns
    BY <1>12, <1>0, FileTypes DEF LoadTables
  <2>3. StoreTypeOK'
    BY <1>12, <1>0, <2>2, GotoType, FailType DEF LoadTables, Steps
  <2> QED BY <2>1, <2>3
<1>13. CASE Created
  <2>1. LogTypeOK'
    BY <1>13, LogUnchanged DEF Created
  <2>2. StoreTypeOK'
    BY <1>13, <1>0, GotoType DEF Created, Steps, storeVars
  <2> QED BY <2>1, <2>2
<1>14. CASE OpenLog
  <2>1. LogTypeOK'
    BY <1>14, OpenType DEF OpenLog
  <2>2. StoreTypeOK'
    BY <1>14, <1>0, GotoType, FailType DEF OpenLog, Steps, storeVars
  <2> QED BY <2>1, <2>2
<1>15. CASE Recover
  <2> DEFINE r == ReadRecords(file)
  <2>1. LogTypeOK'
    BY <1>15, LogUnchanged DEF Recover
  <2>2. r \in Seq(Rec)
    BY ReadRecordsFacts, FirstOfFacts DEF LogTypeOK
  <2>3. next_wal_txn' \in Nat \ {0}
    <3>1. LargestTxn(r) \in Nat /\ next_wal_txn \in Nat \ {0}
      BY <2>2, LargestTxnType DEF StoreTypeOK
    <3> DEFINE S == {next_wal_txn, LargestTxn(r) + 1}
               b == next_wal_txn + LargestTxn(r) + 1
    <3>2. S \in SUBSET Nat /\ S # {} /\ 0 \notin S
      BY <3>1
    <3>3. b \in Nat /\ \A n \in S : n <= b
      BY <3>1
    <3>4. next_wal_txn' = MaxOf(S)
      BY <1>15 DEF Recover
    <3> HIDE DEF S, b
    <3>5. MaxOf(S) \in S
      BY <3>2, <3>3, MaxOfBounded
    <3> QED BY <3>2, <3>4, <3>5
  <2>4. tables' \in SUBSET Txns
    BY <1>15, <1>0, <2>2, ReplayType DEF Recover
  <2> HIDE DEF r
  <2>5. StoreTypeOK'
    BY <1>15, <2>3, <2>4
       DEF Recover, OpenReturns, NoJob, StoreTypeOK, histVars, Jobs, Steps
  <2> QED BY <2>1, <2>5
<1>16. CASE Recovered
  <2>1. LogTypeOK'
    BY <1>16, LogUnchanged DEF Recovered
  <2>2. StoreTypeOK'
    BY <1>16
       DEF Recovered, OpenReturns, NoJob, StoreTypeOK, storeVars, Jobs, Steps
  <2> QED BY <2>1, <2>2
<1>17. CASE RecoverFails
  <2>1. LogTypeOK'
    BY <1>17, LogUnchanged DEF RecoverFails
  <2>2. StoreTypeOK'
    BY <1>17, <1>0, FailType DEF RecoverFails, storeVars
  <2> QED BY <2>1, <2>2
<1>18. CASE RecoverRefuses
  <2>1. LogTypeOK'
    BY <1>18, LogUnchanged DEF RecoverRefuses
  <2>2. StoreTypeOK'
    BY <1>18, <1>0, FailType, RefusedType DEF RecoverRefuses
  <2> QED BY <2>1, <2>2
<1> QED
  BY <1>1, <1>2, <1>3, <1>4, <1>5, <1>6, <1>7, <1>8, <1>9, <1>10, <1>11, <1>12,
     <1>13, <1>14, <1>15, <1>16, <1>17, <1>18 DEF Step

\* Starting an operation keeps the types.
LEMMA CallType ==
  ASSUME TypeOK, Call
  PROVE  TypeOK'
<1> USE DEF TypeOK
<1>1. CASE BeginOpen
  <2>1. LogTypeOK'
    BY <1>1 DEF BeginOpen, LogTypeOK
  <2>2. StoreTypeOK'
    BY <1>1 DEF BeginOpen, StoreTypeOK, histVars, Jobs, Steps
  <2> QED BY <2>1, <2>2
<1>2. CASE BeginCheckpoint
  <2>1. LogTypeOK'
    BY <1>2, LogUnchanged DEF BeginCheckpoint
  <2>2. StoreTypeOK'
    BY <1>2 DEF BeginCheckpoint, StoreTypeOK, storeVars, histVars, Jobs, Steps
  <2> QED BY <2>1, <2>2
<1>3. CASE BeginClose
  <2>1. LogTypeOK'
    BY <1>3, LogUnchanged DEF BeginClose
  <2>2. StoreTypeOK'
    BY <1>3 DEF BeginClose, StoreTypeOK, storeVars, histVars, Jobs, Steps
  <2> QED BY <2>1, <2>2
<1>4. CASE Destroy
  <2>1. LogTypeOK'
    BY <1>4, LogUnchanged DEF Destroy
  <2>2. StoreTypeOK'
    BY <1>4 DEF Destroy, Gone, NoJob, StoreTypeOK, histVars, Jobs, Steps
  <2> QED BY <2>1, <2>2
<1>5. ASSUME NEW t \in Txns, BeginCommit(t) PROVE TypeOK'
  <2>1. LogTypeOK'
    BY <1>5, LogUnchanged DEF BeginCommit
  <2>2. StoreTypeOK'
    BY <1>5 DEF BeginCommit, StoreTypeOK, kInvalidLsn, Jobs, Steps
  <2> QED BY <2>1, <2>2
<1> QED BY <1>1, <1>2, <1>3, <1>4, <1>5 DEF Call

\* A crash or a writeback keeps the types.
LEMMA EnvironmentType ==
  ASSUME TypeOK, Kill \/ PowerLoss \/ Writeback
  PROVE  TypeOK'
<1> USE DEF TypeOK
<1>1. CASE Kill
  <2>1. LogTypeOK'
    BY <1>1, CrashType DEF Kill
  <2>2. StoreTypeOK'
    BY <1>1, OptionsAssumption
       DEF Kill, ProcessDies, Gone, NoJob, StoreTypeOK, Jobs, Steps
  <2> QED BY <2>1, <2>2
<1>2. CASE PowerLoss
  <2>1. LogTypeOK'
    BY <1>2, CrashType DEF PowerLoss
  <2>2. data' \in File
    BY <1>2, FileTypes DEF PowerLoss, StoreTypeOK
  <2>3. StoreTypeOK'
    BY <1>2, <2>2, OptionsAssumption
       DEF PowerLoss, ProcessDies, Gone, NoJob, StoreTypeOK, Jobs, Steps
  <2> QED BY <2>1, <2>3
<1>3. CASE Writeback
  <2>1. LogTypeOK'
    BY <1>3, LogUnchanged DEF Writeback
  <2>2. StoreTypeOK'
    BY <1>3 DEF Writeback, StoreTypeOK, ctlVars, histVars
  <2> QED BY <2>1, <2>2
<1> QED BY <1>1, <1>2, <1>3

\* Under every combination of faults and options, each variable stays within
\* its type: in particular recovery always rebuilds a table snapshot and a
\* transaction id to continue from, whatever the log holds.
THEOREM TypeCorrect == Spec => []TypeOK
<1>1. Init => TypeOK
  BY InitType
<1>2. TypeOK /\ [Next]_vars => TypeOK'
  <2>1. SUFFICES ASSUME TypeOK, [Next]_vars PROVE TypeOK'
    OBVIOUS
  <2>2. CASE Next
    BY <2>1, <2>2, StepType, CallType, EnvironmentType DEF Next
  <2>3. CASE UNCHANGED vars
    <3>1. LogTypeOK'
      BY <2>1, <2>3, LogUnchanged DEF vars, TypeOK
    <3>2. StoreTypeOK'
      BY <2>1, <2>3 DEF vars, TypeOK, StoreTypeOK, storeVars, ctlVars, histVars
    <3> QED BY <3>1, <3>2 DEF TypeOK
  <2> QED BY <2>1, <2>2, <2>3
<1> QED BY <1>1, <1>2, PTL DEF Spec
-----------------------------------------------------------------------------
(***************************************************************************)
(* The data file, under every fault of the log: what SaveTables needs is   *)
(* only that the file it writes is not cut short unnoticed and that        *)
(* rename() works.                                                         *)
(***************************************************************************)
WholeSaves == Faults \cap {"short", "rename"} = {}

\* Between WriteTemp and Rename the temporary file holds the tables; from
\* Rename on, and from the moment LoadTables has read it, the data file does.
SaveInv ==
  /\ ControlInv
  /\ FileInv
  /\ IF job = "commit" THEN cur \subseteq tables ELSE cur = {}

LEMMA WholeFields ==
  ASSUME NEW snap
  PROVE  Whole(snap).st = "ok" /\ Whole(snap).snap = snap
BY DEF Whole

\* Whatever an error interrupts, no step of SaveTables is left half done.
LEMMA FailSave ==
  ASSUME SaveInv, Fail, UNCHANGED <<tables, data, dataStable>>
  PROVE  SaveInv'
<1>1. CASE job = "commit"
  BY <1>1 DEF SaveInv, ControlInv, FileInv, Fail, Return, NoJob, histVars
<1>2. CASE job = "checkpoint"
  BY <1>2 DEF SaveInv, ControlInv, FileInv, Fail, Return, NoJob, histVars
<1>3. CASE job \in {"close", "abort"}
  BY <1>3 DEF SaveInv, ControlInv, FileInv, Fail, Goto, histVars
<1>4. CASE job = "open"
  BY <1>4 DEF SaveInv, ControlInv, FileInv, Fail, histVars
<1> QED BY <1>1, <1>2, <1>3, <1>4 DEF Fail

LEMMA StepSave ==
  ASSUME WholeSaves, TypeOK, SaveInv, Step
  PROVE  SaveInv'
<1>0. "short" \notin Faults /\ "rename" \notin Faults
  BY DEF WholeSaves
<1>1. CASE WriteTemp
  <2>1. UNCHANGED <<tables, data, dataStable>>
    BY <1>1 DEF WriteTemp
  <2>2. CASE temp' = Whole(tables) /\ Goto("rename") /\ UNCHANGED histVars
    BY <1>1, <2>1, <2>2 DEF WriteTemp, SaveInv, ControlInv, FileInv, Goto, histVars
  <2> QED BY <1>0, <1>1, <2>1, <2>2, FailSave DEF WriteTemp
<1>2. CASE Rename
  <2>1. /\ data' = Whole(tables) /\ pc' = "saved" /\ UNCHANGED <<tables, dataStable, histVars>>
        /\ UNCHANGED <<next_wal_txn, proc, job, cur, lsn>>
        /\ data'.st = "ok" /\ data'.snap = tables
    BY <1>2, WholeFields DEF Rename, Goto, SaveInv, ControlInv, FileInv
  <2> QED BY <1>2, <2>1 DEF Rename, SaveInv, ControlInv, FileInv, histVars
<1>3. CASE RenameFails
  BY <1>0, <1>3 DEF RenameFails
<1>4. CASE RemoveData
  BY <1>4 DEF RemoveData, SaveInv, ControlInv, FileInv
<1>5. CASE AppendStep
  <2>1. UNCHANGED <<tables, data, dataStable>>
    BY <1>5 DEF AppendStep, storeVars
  <2>2. CASE Fail
    BY <2>1, <2>2, FailSave
  <2>3. CASE ~Fail
    <3>1. /\ pc \in {"begin", "update", "commit"} /\ pc' = AfterAppend(pc)
          /\ UNCHANGED <<next_wal_txn, proc, job, cur, attempted, failed>>
      BY <1>5, <2>3 DEF AppendStep
    <3>2. pc' \in {"update", "commit", "flush", "temp"}
      BY <3>1 DEF AfterAppend
    <3>3. job = "commit"
      BY <3>1 DEF SaveInv, ControlInv, FileInv
    <3> QED BY <2>1, <3>1, <3>2, <3>3 DEF SaveInv, ControlInv, FileInv
  <2> QED BY <2>2, <2>3
<1>6. CASE FlushStep
  <2>1. UNCHANGED <<tables, data, dataStable>>
    BY <1>6 DEF FlushStep, storeVars
  <2>2. CASE Goto("sync") /\ UNCHANGED histVars
    BY <1>6, <2>1, <2>2 DEF FlushStep, SaveInv, ControlInv, FileInv, Goto, histVars
  <2> QED BY <1>6, <2>1, <2>2, FailSave DEF FlushStep
<1>7. CASE SyncStep
  <2>1. UNCHANGED <<tables, data, dataStable>>
    BY <1>7 DEF SyncStep, storeVars
  <2>2. CASE Goto("temp") /\ UNCHANGED histVars
    BY <1>7, <2>1, <2>2 DEF SyncStep, SaveInv, ControlInv, FileInv, Goto, histVars
  <2> QED BY <1>7, <2>1, <2>2, FailSave DEF SyncStep
<1>8. CASE CommitReturns
  <2>1. data.st = "ok" /\ data.snap = tables
    BY <1>8, WholeFields DEF CommitReturns, SaveInv, FileInv
  <2> QED BY <1>8, <2>1 DEF CommitReturns, SaveInv, ControlInv, FileInv, Return, NoJob, storeVars
<1>9. CASE TruncateStep
  <2>1. UNCHANGED <<tables, data, dataStable>>
    BY <1>9 DEF TruncateStep, storeVars
  <2>2. CASE Goto("truncsync") /\ UNCHANGED histVars
    BY <1>9, <2>1, <2>2 DEF TruncateStep, SaveInv, ControlInv, FileInv, Goto, histVars
  <2> QED BY <1>9, <2>1, <2>2, FailSave DEF TruncateStep
<1>10. CASE TruncateSyncStep
  <2>1. UNCHANGED <<tables, data, dataStable>>
    BY <1>10 DEF TruncateSyncStep, storeVars
  <2>2. CASE Return /\ UNCHANGED histVars
    BY <1>10, <2>1, <2>2
       DEF TruncateSyncStep, SaveInv, ControlInv, FileInv, Return, NoJob, histVars
  <2> QED BY <1>10, <2>1, <2>2, FailSave DEF TruncateSyncStep
<1>11. CASE CloseLog
  <2>1. /\ UNCHANGED <<data, dataStable>>
        /\ job' = "none" /\ pc' = "idle" /\ cur' = {}
        /\ \/ job = "close" /\ proc' = "closed" /\ tables' = tables
           \/ proc' = "down"
    BY <1>11 DEF CloseLog, NoJob, Gone
  <2> QED BY <2>1 DEF SaveInv, ControlInv, FileInv
<1>12. CASE LoadTables
  <2>1. UNCHANGED <<data, dataStable>>
    BY <1>12 DEF LoadTables
  <2>2. CASE data.st = "ok" /\ tables' = data.snap /\ Goto("walopen") /\ UNCHANGED histVars
    <3>1. data = Whole(data.snap)
      BY <2>2 DEF TypeOK, StoreTypeOK, File, Whole
    <3>2. data' = Whole(tables')
      BY <2>1, <2>2, <3>1
    <3> QED BY <1>12, <2>1, <2>2, <3>2 DEF LoadTables, SaveInv, ControlInv, FileInv, Goto, histVars
  <2>3. CASE Goto("temp") /\ UNCHANGED <<tables, histVars>>
    BY <1>12, <2>1, <2>3 DEF LoadTables, SaveInv, ControlInv, FileInv, Goto, histVars
  <2>4. CASE Fail /\ UNCHANGED tables
    BY <2>1, <2>4, FailSave
  <2> QED BY <1>12, <2>2, <2>3, <2>4 DEF LoadTables, Loads
<1>13. CASE Created
  BY <1>13 DEF Created, SaveInv, ControlInv, FileInv, Goto, histVars, storeVars
<1>14. CASE OpenLog
  <2>1. UNCHANGED <<tables, data, dataStable>>
    BY <1>14 DEF OpenLog, storeVars
  <2>2. CASE Goto("recover") /\ UNCHANGED histVars
    BY <1>14, <2>1, <2>2 DEF OpenLog, SaveInv, ControlInv, FileInv, Goto, histVars
  <2> QED BY <1>14, <2>1, <2>2, FailSave DEF OpenLog
<1>15. CASE Recover
  <2>1. data.st = "ok" /\ data.snap = tables
    BY <1>15, WholeFields DEF Recover, SaveInv, FileInv
  <2>2. CASE pc' = "temp"
    BY <1>15, <2>1, <2>2 DEF Recover, SaveInv, ControlInv, FileInv, histVars, OpenReturns, NoJob
  <2>3. CASE OpenReturns /\ UNCHANGED tables
    BY <1>15, <2>1, <2>3 DEF Recover, SaveInv, ControlInv, FileInv, histVars, OpenReturns, NoJob
  <2> QED BY <1>15, <2>2, <2>3 DEF Recover
<1>16. CASE RecoverFails
  BY <1>16, FailSave DEF RecoverFails, storeVars
<1>17. CASE Recovered
  <2>1. data.st = "ok" /\ data.snap = tables
    BY <1>17, WholeFields DEF Recovered, SaveInv, FileInv
  <2> QED BY <1>17, <2>1 DEF Recovered, SaveInv, ControlInv, FileInv, OpenReturns, NoJob, storeVars
<1>18. CASE RecoverRefuses
  <2>1. /\ pc = "recover" /\ job = "open" /\ job' = "abort" /\ pc' = "temp"
        /\ UNCHANGED <<data, dataStable, proc, cur, histVars>>
    BY <1>18 DEF RecoverRefuses, Fail, SaveInv, ControlInv
  <2> QED BY <2>1 DEF SaveInv, ControlInv, FileInv, histVars
<1> QED
  BY <1>1, <1>2, <1>3, <1>4, <1>5, <1>6, <1>7, <1>8, <1>9, <1>10, <1>11, <1>12,
     <1>13, <1>14, <1>15, <1>16, <1>17, <1>18 DEF Step

LEMMA OtherSave ==
  ASSUME WholeSaves, TypeOK, SaveInv,
         Call \/ Kill \/ PowerLoss \/ Writeback \/ UNCHANGED vars
  PROVE  SaveInv'
<1>1. CASE BeginOpen
  BY <1>1 DEF BeginOpen, SaveInv, ControlInv, FileInv, histVars
<1>2. CASE BeginCheckpoint
  BY <1>2 DEF BeginCheckpoint, PassedCheck, SaveInv, ControlInv, FileInv, storeVars, histVars
<1>3. CASE BeginClose
  BY <1>3 DEF BeginClose, PassedCheck, SaveInv, ControlInv, FileInv, storeVars, histVars
<1>4. CASE Destroy
  BY <1>4 DEF Destroy, Gone, NoJob, SaveInv, ControlInv, FileInv, histVars
<1>5. ASSUME NEW t \in Txns, BeginCommit(t)
      PROVE  SaveInv'
  BY <1>5 DEF BeginCommit, SaveInv, ControlInv, FileInv
<1>6. CASE Kill
  BY <1>6 DEF Kill, ProcessDies, Gone, NoJob, SaveInv, ControlInv, FileInv
<1>7. CASE PowerLoss
  <2>1. data' \in {dataStable, data, Bad} /\ dataStable' = data'
    BY <1>7 DEF PowerLoss
  <2>2. data'.st # "ok" => data'.snap = {}
    BY <2>1 DEF SaveInv, FileInv, Bad
  <2> QED BY <1>7, <2>1, <2>2 DEF PowerLoss, ProcessDies, Gone, NoJob, SaveInv, ControlInv, FileInv
<1>8. CASE Writeback
  BY <1>8 DEF Writeback, SaveInv, ControlInv, FileInv, ctlVars
<1>9. CASE UNCHANGED vars
  BY <1>9 DEF vars, storeVars, ctlVars, histVars, SaveInv, ControlInv, FileInv
<1> QED
  BY <1>1, <1>2, <1>3, <1>4, <1>5, <1>6, <1>7, <1>8, <1>9 DEF Call

\* Before the first Open there is no Database and no commit.
LEMMA InitSave == Init => SaveInv
<1> SUFFICES ASSUME Init PROVE SaveInv
  OBVIOUS
<1>1. data.st # "ok" => data.snap = {}
  BY DEF Init, Whole, Bad, Missing
<1> QED BY <1>1 DEF Init, SaveInv, ControlInv, FileInv

LEMMA SaveInductive ==
  ASSUME WholeSaves
  PROVE  Spec => []SaveInv
<1>1. Init => SaveInv
  BY InitSave
<1>2. TypeOK /\ SaveInv /\ [Next]_vars => SaveInv'
  BY StepSave, OtherSave DEF Next
<1> QED BY <1>1, <1>2, TypeCorrect, PTL DEF Spec

-----------------------------------------------------------------------------
\* The power stays on as well.
AtomicSaves == WholeSaves /\ "power" \notin Faults

\* While the Database exists the data file holds what no refused commit, and
\* no commit in progress, has put into the tables.
DataInv ==
  /\ proc \in {"up", "closed"} =>
       data.st = "ok" /\ (tables \ failed) \ cur \subseteq data.snap
  /\ attempted # {} => data.st = "ok"

LEMMA FailData ==
  ASSUME SaveInv, DataInv, Fail, UNCHANGED <<tables, data>>
  PROVE  DataInv'
BY DEF SaveInv, ControlInv, DataInv, Fail, Return, NoJob, Goto, histVars

LEMMA NextData ==
  ASSUME AtomicSaves, SaveInv, SaveInv', DataInv, [Next]_vars
  PROVE  DataInv'
<1>0. "short" \notin Faults /\ "rename" \notin Faults /\ "power" \notin Faults
  BY DEF AtomicSaves, WholeSaves
<1>1. CASE Fail /\ UNCHANGED <<tables, data>>
  BY <1>1, FailData
<1>2. CASE WriteTemp \/ RemoveData \/ RenameFails \/ FlushStep \/ SyncStep
           \/ TruncateStep \/ TruncateSyncStep \/ Created \/ OpenLog \/ RecoverFails
  <2>1. /\ UNCHANGED <<tables, data>>
        /\ Fail \/ (UNCHANGED <<proc, attempted, failed>> /\ (cur' = cur \/ Return))
    BY <1>0, <1>2
       DEF WriteTemp, RemoveData, RenameFails, FlushStep, SyncStep, TruncateStep,
           TruncateSyncStep, Created, OpenLog, RecoverFails, Goto, histVars, storeVars,
           Return, NoJob, SaveInv, ControlInv
  <2>2. CASE UNCHANGED <<proc, attempted, failed>> /\ cur' = cur
    BY <2>1, <2>2 DEF DataInv
  <2>3. CASE TruncateSyncStep /\ ~Fail
    BY <2>1, <2>3 DEF TruncateSyncStep, DataInv, SaveInv, ControlInv, Return, NoJob, histVars
  <2> QED
    BY <1>0, <1>1, <1>2, <2>1, <2>2, <2>3
       DEF WriteTemp, RemoveData, RenameFails, FlushStep, SyncStep, TruncateStep,
           Created, OpenLog, RecoverFails, Goto, histVars, storeVars
<1>3. CASE Rename
  <2>1. data'.st = "ok" /\ data'.snap = tables' /\ UNCHANGED <<proc, attempted>>
    BY <1>3, WholeFields DEF Rename, Goto, SaveInv, ControlInv, FileInv, histVars
  <2> QED BY <2>1 DEF DataInv
<1>4. CASE AppendStep
  BY <1>1, <1>4 DEF AppendStep, storeVars, DataInv
<1>5. CASE CommitReturns \/ Recovered
  <2>1. data.st = "ok" /\ data.snap = tables /\ UNCHANGED <<tables, data, attempted>>
    BY <1>5, WholeFields
       DEF CommitReturns, Recovered, OpenReturns, SaveInv, FileInv, storeVars
  <2> QED BY <2>1 DEF DataInv
<1>6. CASE CloseLog
  BY <1>6 DEF CloseLog, NoJob, Gone, DataInv, SaveInv, ControlInv
<1>7. CASE LoadTables
  BY <1>7 DEF LoadTables, Loads, Goto, Fail, histVars, DataInv, SaveInv, ControlInv
<1>8. CASE Recover
  <2>1. data.st = "ok" /\ data.snap = tables /\ UNCHANGED <<data, attempted>>
    BY <1>8, WholeFields DEF Recover, OpenReturns, SaveInv, FileInv, histVars
  <2>2. proc' = "opening" \/ tables' = tables
    BY <1>8 DEF Recover, SaveInv, ControlInv
  <2> QED BY <2>1, <2>2 DEF DataInv
<1>9. CASE BeginOpen \/ Destroy \/ Kill
  BY <1>9 DEF BeginOpen, Destroy, Kill, ProcessDies, Gone, NoJob, histVars, DataInv
<1>10. CASE BeginCheckpoint \/ BeginClose
  BY <1>10 DEF BeginCheckpoint, BeginClose, storeVars, histVars, DataInv
<1>11. ASSUME NEW t \in Txns, BeginCommit(t)
       PROVE  DataInv'
  BY <1>11 DEF BeginCommit, DataInv, SaveInv
<1>12. CASE PowerLoss \/ Writeback
  BY <1>0, <1>12 DEF PowerLoss, LogPowerLoss, Writeback
<1>13. CASE UNCHANGED vars
  BY <1>13 DEF vars, storeVars, ctlVars, histVars, DataInv
<1>14. CASE RecoverRefuses
  <2>1. /\ job = "open" /\ proc = "opening" /\ proc' = "opening"
        /\ UNCHANGED <<data, attempted>>
    BY <1>14 DEF RecoverRefuses, Fail, histVars, SaveInv, ControlInv
  <2> QED BY <2>1 DEF DataInv
<1> QED
  BY <1>2, <1>3, <1>4, <1>5, <1>6, <1>7, <1>8, <1>9, <1>10, <1>11, <1>12, <1>13,
     <1>14
     DEF Next, Step, Call

LEMMA DataInductive ==
  ASSUME AtomicSaves
  PROVE  Spec => []DataInv
<1>1. Init => DataInv
  BY DEF Init, DataInv
<1>2. SaveInv /\ SaveInv' /\ DataInv /\ [Next]_vars => DataInv'
  BY NextData
<1>3. WholeSaves
  BY DEF AtomicSaves
<1> QED BY <1>1, <1>2, <1>3, SaveInductive, PTL DEF Spec

\* SaveTables (src/src/api/db.cpp) replaces the data file in one step, the
\* rename: once an Open has succeeded, a whole snapshot is at the path at every
\* moment, whichever operation was killed at whichever step and whatever went
\* wrong in the log.
THEOREM FileStaysWhole ==
  ASSUME AtomicSaves
  PROVE  Spec => []DataFileWhole
<1>1. DataInv => DataFileWhole
  BY DEF DataInv, DataFileWhole
<1> QED BY <1>1, DataInductive, PTL

\* Whenever no operation is in progress, the data file has all the tables hold
\* except refused commits: PersistCommittedTables saves them before it returns
\* Ok, so that the engine never depends on a log that misbehaves.
THEOREM FileStaysCurrent ==
  ASSUME AtomicSaves
  PROVE  Spec => []DataFileCurrent
<1>1. SaveInv /\ DataInv => DataFileCurrent
  BY DEF SaveInv, DataInv, DataFileCurrent
<1>2. WholeSaves
  BY DEF AtomicSaves
<1> QED BY <1>1, <1>2, SaveInductive, DataInductive, PTL

-----------------------------------------------------------------------------
\* Every snapshot is within the limits of LoadTablesBytes.
InLimits == Unloadable = {}

\* The faults that leave a log in which nothing but the last record of a
\* crashed process is torn, and no snapshot that cannot be loaded.
GoodLog == InLimits /\ Faults \subseteq SafeFaults \cup {"power"}

-----------------------------------------------------------------------------
\* What appending a record does to recovery.

\* The snapshots waiting for the COMMIT at i depend on the records before i
\* only.
LEMMA UpdatesForAppend ==
  ASSUME NEW r \in Seq(Rec), NEW x \in Rec, NEW i \in 1..Len(r)
  PROVE  UpdatesFor(Append(r, x), i) = UpdatesFor(r, i)
<1> DEFINE z == Append(r, x)
<1>1. \A j \in 1..Len(r) : z[j] = r[j]
  BY AppendProperties
<1> HIDE DEF z
<1>2. \A j \in 1..i : z[j] = r[j]
  BY <1>1
<1>4. i \in 1..i /\ \A j \in 1..i - 1 : j \in 1..i
  OBVIOUS
<1>3. UpdatesFor(z, i) = UpdatesFor(r, i)
  BY <1>2, <1>4, SMTT(30) DEF UpdatesFor
<1> QED BY <1>3 DEF z

\* A record that is not a COMMIT changes nothing.
LEMMA ReplayAppend ==
  ASSUME NEW r \in Seq(Rec), NEW x \in Rec, x.type # "commit"
  PROVE  /\ Replayable(Append(r, x)) = Replayable(r)
         /\ Replayable(r) # {} =>
              ReplayedSnapshot(Append(r, x)) = ReplayedSnapshot(r)
<1> DEFINE z == Append(r, x)
<1>1. /\ Len(z) = Len(r) + 1 /\ Len(r) \in Nat
      /\ \A j \in 1..Len(r) : z[j] = r[j]
      /\ z[Len(r) + 1] = x
  BY AppendProperties
<1>2. \A i \in 1..Len(r) : UpdatesFor(z, i) = UpdatesFor(r, i)
  BY UpdatesForAppend
<1> HIDE DEF z
<1>3. Replayable(z) = Replayable(r)
  <2>1. \A i \in 1..Len(z) : z[i].type = "commit" => i \in 1..Len(r)
    BY <1>1
  <2> QED BY <1>1, <1>2, <2>1 DEF Replayable
<1>4. ASSUME Replayable(r) # {}
      PROVE  ReplayedSnapshot(z) = ReplayedSnapshot(r)
  <2> DEFINE i == MaxOf(Replayable(r))
             U == UpdatesFor(r, i)
  <2>1. i \in 1..Len(r) /\ U # {}
    BY <1>4, ReplayFacts DEF Replayable
  <2>2. UpdatesFor(z, i) = U
    BY <1>2, <2>1
  <2>3. MaxOf(U) \in 1..Len(r)
    <3>1. /\ U \in SUBSET Nat /\ Len(r) \in Nat
          /\ \A n \in U : n <= Len(r) /\ n \in 1..Len(r)
      BY <2>1 DEF UpdatesFor
    <3> HIDE DEF U
    <3> QED BY <3>1, <2>1, MaxOfBounded
  <2>4. ReplayedSnapshot(r) = r[MaxOf(U)].payload
    BY DEF ReplayedSnapshot, SnapshotAt
  <2>5. ReplayedSnapshot(z) = z[MaxOf(U)].payload
    BY <1>3, <2>2 DEF ReplayedSnapshot, SnapshotAt
  <2> HIDE DEF U
  <2> QED BY <1>1, <2>3, <2>4, <2>5
<1> QED BY <1>3, <1>4 DEF z

\* A COMMIT right after the UPDATE of its transaction makes it the snapshot.
LEMMA ReplayCommit ==
  ASSUME NEW r \in Seq(Rec), NEW x \in Rec, r # <<>>, x.type = "commit",
         r[Len(r)].type = "update", r[Len(r)].txn_id = x.txn_id
  PROVE  /\ Replayable(Append(r, x)) # {}
         /\ ReplayedSnapshot(Append(r, x)) = r[Len(r)].payload
<1> DEFINE z == Append(r, x)
           m == Len(r)
           U == UpdatesFor(z, m + 1)
<1>1. /\ Len(z) = m + 1 /\ m \in Nat \ {0}
      /\ \A j \in 1..m : z[j] = r[j]
      /\ z[m + 1] = x
  BY AppendProperties, EmptySeq
<1> HIDE DEF z, m
<1>2. z[m] = r[m] /\ m \in 1..m /\ (m + 1) - 1 = m
  BY <1>1
<1>3. m \in U /\ \A n \in U : n <= m /\ n \in Nat
  <2>1. z[m].type = "update" /\ z[m].txn_id = z[m + 1].txn_id
    BY <1>1, <1>2 DEF m
  <2>2. (m + 1)..m = {}
    BY <1>1
  <2> QED BY <1>1, <1>2, <2>1, <2>2 DEF UpdatesFor
<1>4. MaxOf(U) = m
  <2> HIDE DEF U
  <2> QED BY <1>3, MaxOfUnique
<1>5. m + 1 \in Replayable(z) /\ \A n \in Replayable(z) : n <= m + 1 /\ n \in Nat
  BY <1>1, <1>3 DEF Replayable
<1>6. MaxOf(Replayable(z)) = m + 1
  BY <1>5, MaxOfUnique
<1>7. ReplayedSnapshot(z) = r[m].payload
  BY <1>2, <1>4, <1>6 DEF ReplayedSnapshot, SnapshotAt
<1> QED BY <1>5, <1>7 DEF z, m

-----------------------------------------------------------------------------
\* SafeFor under the changes the operations make to the log.

\* Fewer acknowledged commits are easier to bring back.
LEMMA SafeWeaken ==
  ASSUME NEW snap, NEW f, NEW b, NEW a, SafeFor(snap, f, b, a),
         NEW S, a \subseteq S
  PROVE  SafeFor(S, f, b, a)
BY DEF SafeFor, Outcome

\* Nothing buffered: only the file counts.
LEMMA SafeFile ==
  ASSUME NEW snap, NEW f \in Seq(Rec), NEW a
  PROVE  SafeFor(snap, f, <<>>, a) <=>
           a \subseteq Outcome(snap, ReadRecords(f))
<1>1. f \o <<>> = f
  BY ConcatEmptySeq
<1>2. FirstOf(f, Len(f)) = f
  BY SubSeqFull DEF FirstOf
<1>3. Len(f)..Len(f) = {Len(f)}
  OBVIOUS
<1> QED BY <1>1, <1>2, <1>3 DEF SafeFor

\* What is already in the file, and what the whole log amounts to.
LEMMA SafeEnds ==
  ASSUME NEW snap, NEW f \in Seq(Rec), NEW b \in Seq(Rec), NEW a,
         SafeFor(snap, f, b, a)
  PROVE  /\ a \subseteq Outcome(snap, ReadRecords(f))
         /\ a \subseteq Outcome(snap, ReadRecords(f \o b))
<1>1. /\ f \o b \in Seq(Rec) /\ Len(f \o b) = Len(f) + Len(b)
      /\ \A i \in 1..Len(f) : (f \o b)[i] = f[i]
  BY ConcatProperties
<1>2. Len(f) \in Len(f)..Len(f \o b) /\ Len(f \o b) \in Len(f)..Len(f \o b)
  BY <1>1
<1>3. FirstOf(f \o b, Len(f)) = f
  <2>1. Len(f) \in 0..Len(f \o b)
    BY <1>1
  <2>2. /\ FirstOf(f \o b, Len(f)) \in Seq(Rec)
        /\ Len(FirstOf(f \o b, Len(f))) = Len(f)
        /\ \A i \in 1..Len(f) : FirstOf(f \o b, Len(f))[i] = f[i]
    BY <1>1, <2>1, FirstOfFacts
  <2> QED BY <2>2, SeqEqual
<1>4. FirstOf(f \o b, Len(f \o b)) = f \o b
  BY <1>1, SubSeqFull DEF FirstOf
<1> QED BY <1>2, <1>3, <1>4 DEF SafeFor

\* Records move from the buffer to the file.
LEMMA SafeSpill ==
  ASSUME NEW snap, NEW f, NEW b, NEW a, SafeFor(snap, f, b, a),
         NEW g, NEW c, g \o c = f \o b, Len(f) <= Len(g),
         Len(f) \in Nat, Len(g) \in Nat
  PROVE  SafeFor(snap, g, c, a)
BY DEF SafeFor

\* A record is appended.
LEMMA SafeAppend ==
  ASSUME NEW snap, NEW f \in Seq(Rec), NEW b \in Seq(Rec), NEW a,
         SafeFor(snap, f, b, a),
         NEW x \in Rec, NEW g \in Seq(Rec), NEW c \in Seq(Rec),
         g \o c = Append(f \o b, x), Len(f) <= Len(g),
         a \subseteq Outcome(snap, ReadRecords(Append(f \o b, x)))
  PROVE  SafeFor(snap, g, c, a)
<1> DEFINE l == f \o b
           z == Append(l, x)
<1>1. l \in Seq(Rec)
  BY ConcatProperties
<1>2. /\ z \in Seq(Rec) /\ Len(z) = Len(l) + 1 /\ Len(l) \in Nat
      /\ \A i \in 1..Len(l) : z[i] = l[i]
  BY <1>1, AppendProperties
<1> HIDE DEF l, z
<1>3. SUFFICES ASSUME NEW n \in Len(g)..Len(z)
               PROVE  a \subseteq Outcome(snap, ReadRecords(FirstOf(z, n)))
  BY DEF SafeFor, l, z
<1>4. CASE n = Len(z)
  <2>1. FirstOf(z, n) = z
    BY <1>2, <1>4, SubSeqFull DEF FirstOf
  <2> QED BY <2>1 DEF l, z
<1>5. CASE n <= Len(l)
  <2>1. n \in 0..Len(l) /\ n \in 0..Len(z) /\ n \in Len(f)..Len(l)
    BY <1>2, <1>5
  <2>2. FirstOf(z, n) = FirstOf(l, n)
    <3>1. /\ FirstOf(z, n) \in Seq(Rec) /\ FirstOf(l, n) \in Seq(Rec)
          /\ Len(FirstOf(z, n)) = n /\ Len(FirstOf(l, n)) = n
          /\ \A i \in 1..n : FirstOf(z, n)[i] = z[i]
          /\ \A i \in 1..n : FirstOf(l, n)[i] = l[i]
      BY <1>1, <1>2, <2>1, FirstOfFacts
    <3>2. \A i \in 1..n : FirstOf(z, n)[i] = FirstOf(l, n)[i]
      <4>1. SUFFICES ASSUME NEW i \in 1..n
                     PROVE  FirstOf(z, n)[i] = FirstOf(l, n)[i]
        OBVIOUS
      <4>2. i \in 1..Len(l)
        BY <1>2, <2>1
      <4> QED BY <3>1, <1>2, <4>2
    <3> QED BY <3>1, <3>2, SeqEqual
  <2> QED BY <2>1, <2>2 DEF SafeFor, l
<1> QED BY <1>2, <1>4, <1>5


-----------------------------------------------------------------------------
\* The log under the operations of LogManager.

\* An empty log has no torn record.
LEMMA EmptyIntact == Intact(<<>>)
BY DEF Intact

\* Two intact logs, one after the other, are intact.
LEMMA IntactConcat ==
  ASSUME NEW f \in Seq(Rec), NEW b \in Seq(Rec), Intact(f), Intact(b)
  PROVE  Intact(f \o b)
<1>1. /\ Len(f \o b) = Len(f) + Len(b) /\ Len(f) \in Nat /\ Len(b) \in Nat
      /\ \A i \in 1..(Len(f) + Len(b)) :
           (f \o b)[i] = IF i <= Len(f) THEN f[i] ELSE b[i - Len(f)]
  BY ConcatProperties
<1>2. SUFFICES ASSUME NEW i \in 1..(Len(f) + Len(b))
               PROVE  (f \o b)[i].type # "torn"
  BY <1>1 DEF Intact
<1>3. CASE i <= Len(f)
  BY <1>1, <1>3 DEF Intact
<1>4. CASE i > Len(f)
  <2>1. i - Len(f) \in 1..Len(b)
    BY <1>1, <1>4
  <2> QED BY <1>1, <1>4, <2>1 DEF Intact
<1> QED BY <1>1, <1>3, <1>4

\* The records of the log are those before, and the new one.
LEMMA AppendLog ==
  ASSUME TypeOK, NEW t \in Nat, NEW p \in Nat, NEW k \in LogRecordType,
         NEW l \in Payload \cup {NoPayload}, AppendRecord(t, p, k, l)
  PROVE  /\ NewRecord(t, p, k, l) \in LogRecord
         /\ Log \in Seq(Rec)
         /\ Log' = Append(Log, NewRecord(t, p, k, l))
         /\ Len(file) <= Len(file')
         /\ Intact(file) /\ Intact(buf) => Intact(file') /\ Intact(buf')
<1> DEFINE x == NewRecord(t, p, k, l)
           all == Append(buf, x)
<1>1. x \in LogRecord /\ x \in Rec
  BY DEF NewRecord, LogRecord, Rec, TypeOK, LogTypeOK
<1>2. x.type # "torn"
  BY <1>1, RecordFields
<1>3. buf \in Seq(Rec) /\ file \in Seq(Rec)
  BY DEF TypeOK, LogTypeOK
<1>4. /\ all \in Seq(Rec) /\ Len(all) = Len(buf) + 1 /\ Len(buf) \in Nat
      /\ \A i \in 1..Len(buf) : all[i] = buf[i]
      /\ all[Len(buf) + 1] = x
  BY <1>1, <1>3, AppendProperties
<1>5. PICK n \in 0..Len(all) :
        file' = file \o FirstOf(all, n) /\ buf' = SubSeq(all, n + 1, Len(all))
  BY DEF AppendRecord
<1> HIDE DEF x, all
<1>6. FirstOf(all, n) \in Seq(Rec) /\ buf' \in Seq(Rec)
  BY <1>4, <1>5, FirstOfFacts
<1>7. FirstOf(all, n) \o buf' = all
  <2>1. /\ 1 \in 1..(Len(all) + 1) /\ n \in (1 - 1)..Len(all)
        /\ Len(all) \in n..Len(all)
    BY <1>4
  <2>2. SubSeq(all, 1, n) \o SubSeq(all, n + 1, Len(all)) = SubSeq(all, 1, Len(all))
    BY <1>4, <2>1, ConcatAdjacentSubSeq
  <2> QED BY <1>4, <1>5, <2>2, SubSeqFull DEF FirstOf
<1>8. file' \o buf' = file \o all
  <2> DEFINE g == FirstOf(all, n)
             c == buf'
  <2>1. file \in Seq(Rec) /\ g \in Seq(Rec) /\ c \in Seq(Rec)
    BY <1>3, <1>6
  <2> HIDE DEF g, c
  <2>2. (file \o g) \o c = file \o (g \o c)
    BY <2>1, ConcatAssociative, SMTT(30)
  <2> QED BY <2>2, <1>5, <1>7 DEF g, c
<1>9. file \o all = Append(file \o buf, x)
  <2>1. all = buf \o <<x>> /\ <<x>> \in Seq(Rec)
    BY <1>1, <1>3, AppendIsConcat DEF all
  <2>2. file \o (buf \o <<x>>) = (file \o buf) \o <<x>>
    BY <1>3, <2>1, ConcatAssociative
  <2>3. file \o buf \in Seq(Rec)
    BY <1>3, ConcatProperties
  <2> QED BY <1>1, <2>1, <2>2, <2>3, AppendIsConcat
<1>10. Len(file) <= Len(file')
  BY <1>3, <1>5, <1>6, ConcatProperties
<1>11. ASSUME Intact(file), Intact(buf)
       PROVE  Intact(file') /\ Intact(buf')
  <2>1. \A i \in 1..Len(all) : all[i].type # "torn"
    BY <1>2, <1>4, <1>11 DEF Intact
  <2>2. /\ Len(FirstOf(all, n)) = n
        /\ \A i \in 1..n : FirstOf(all, n)[i] = all[i]
    BY <1>4, FirstOfFacts
  <2>3. \A i \in 1..n : FirstOf(all, n)[i].type # "torn"
    BY <2>1, <2>2, <1>4
  <2>4. Intact(file')
    <3>1. /\ Len(file') = Len(file) + n
          /\ \A i \in 1..(Len(file) + n) : file'[i] =
               IF i <= Len(file) THEN file[i] ELSE FirstOf(all, n)[i - Len(file)]
      <4> DEFINE g == FirstOf(all, n)
      <4>1. file \in Seq(Rec) /\ g \in Seq(Rec) /\ Len(g) = n
        BY <1>3, <1>6, <2>2
      <4> HIDE DEF g
      <4>2. /\ Len(file \o g) = Len(file) + Len(g)
            /\ \A i \in 1..(Len(file) + Len(g)) : (file \o g)[i] =
                 IF i <= Len(file) THEN file[i] ELSE g[i - Len(file)]
        BY <4>1, ConcatProperties
      <4> QED BY <4>1, <4>2, <1>5 DEF g
    <3> SUFFICES ASSUME NEW i \in 1..Len(file') PROVE file'[i].type # "torn"
      BY DEF Intact
    <3>2. CASE i <= Len(file)
      BY <3>1, <3>2, <1>3, <1>11 DEF Intact
    <3>3. CASE i > Len(file)
      <4>1. i - Len(file) \in 1..n
        BY <3>1, <3>3, <1>3
      <4> QED BY <3>1, <3>3, <4>1, <2>3, <1>3
    <3> QED BY <3>2, <3>3, <3>1, <1>3
  <2>5. Intact(buf')
    <3>1. \A i \in (n + 1)..Len(all) : all[i] \in Rec
      BY <1>4
    <3>2. /\ Len(buf') = IF n + 1 <= Len(all) THEN Len(all) - (n + 1) + 1 ELSE 0
          /\ \A i \in 1..(Len(all) - (n + 1) + 1) : buf'[i] = all[(n + 1) + i - 1]
      BY <1>4, <1>5, <3>1, SubSeqProperties
    <3> SUFFICES ASSUME NEW i \in 1..Len(buf') PROVE buf'[i].type # "torn"
      BY DEF Intact
    <3>3. i \in 1..(Len(all) - (n + 1) + 1) /\ (n + 1) + i - 1 \in 1..Len(all)
      BY <3>2, <1>4
    <3> QED BY <3>2, <3>3, <2>1
  <2> QED BY <2>4, <2>5
<1>12. Log \in Seq(Rec) /\ Log' = Append(Log, x)
  BY <1>3, <1>8, <1>9, ConcatProperties DEF Log
<1> QED BY <1>1, <1>10, <1>11, <1>12 DEF x

\* An empty log leaves what the data file holds.
LEMMA EmptyLogSafe ==
  ASSUME NEW snap, NEW a, a \subseteq snap
  PROVE  SafeFor(snap, <<>>, <<>>, a)
<1>1. <<>> \in Seq(Rec) /\ ReadRecords(<<>>) = <<>>
  BY EmptyIntact, ReadIntact, EmptySeq
<1>2. Replayable(<<>>) = {}
  BY DEF Replayable
<1>3. Outcome(snap, <<>>) = snap
  BY <1>2 DEF Outcome
<1> QED BY <1>1, <1>3, SafeFile

\* Cutting a torn tail off changes nothing that ReadRecords sees.
LEMMA CutTailSafe ==
  ASSUME TypeOK, CutTail, NEW snap, NEW a, SafeFor(snap, file, <<>>, a)
  PROVE  /\ file' \in Seq(Rec) /\ Intact(file')
         /\ SafeFor(snap, file', <<>>, a)
<1>1. file \in Seq(Rec)
  BY DEF TypeOK, LogTypeOK
<1>2. PICK n \in 0..Len(file) : /\ ReadRecords(file) = FirstOf(file, n)
                               /\ Intact(FirstOf(file, n))
  BY <1>1, ReadRecordsFacts
<1>3. file' \in Seq(Rec) /\ Intact(file') /\ file' = ReadRecords(file)
  BY <1>1, <1>2, FirstOfFacts DEF CutTail
<1>4. ReadRecords(file') = ReadRecords(file)
  BY <1>3, ReadIntact
<1> QED BY <1>1, <1>3, <1>4, SafeFile

-----------------------------------------------------------------------------
\* The log is intact at every step but for the last record of a crashed
\* process.

\* What GoodLog rules out.
LEMMA NoOtherFaults ==
  ASSUME GoodLog
  PROVE  /\ WholeSaves
         /\ "append" \notin Faults /\ "flush" \notin Faults
         /\ "stat" \notin Faults /\ "load" \notin Faults
         /\ "short" \notin Faults /\ "rename" \notin Faults
BY DEF GoodLog, SafeFaults, WholeSaves

\* Within the limits, neither the data file nor a committed snapshot in the log
\* is refused for what it holds.
LEMMA NoRefusal ==
  ASSUME GoodLog
  PROVE  /\ Loads <=> data.st = "ok"
         /\ \A r : Refused(r) = {}
BY DEF GoodLog, InLimits, Loads, Refused

\* At most the last record of s is torn.
TornLast(s) == \A i \in 1..(Len(s) - 1) : s[i].type # "torn"

LEMMA TornLastFacts ==
  /\ TornLast(<<>>)
  /\ \A s \in Seq(Rec) : Intact(s) => TornLast(s)
  /\ \A s \in Seq(Rec) : Intact(s) => TornLast(Append(s, Torn))
<1>1. ASSUME NEW s \in Seq(Rec), Intact(s)
      PROVE  TornLast(s) /\ TornLast(Append(s, Torn))
  <2>1. /\ Len(Append(s, Torn)) = Len(s) + 1 /\ Len(s) \in Nat
        /\ \A i \in 1..Len(s) : Append(s, Torn)[i] = s[i]
    BY TornIsRec, AppendProperties
  <2> QED BY <1>1, <2>1 DEF TornLast, Intact
<1> QED BY <1>1 DEF TornLast

\* A prefix of a log whose last record may be torn, possibly with a piece of
\* the next record, is such a log.
LEMMA TornLastPieces ==
  ASSUME NEW s \in Seq(Rec), TornLast(s), NEW min \in Nat, NEW p \in Pieces(s, min)
  PROVE  TornLast(p)
<1>0. Len(s) \in Nat
  OBVIOUS
<1>1. ASSUME NEW n \in min..Len(s), p = FirstOf(s, n)
      PROVE  TornLast(p)
  <2>1. /\ Len(p) = n /\ \A i \in 1..n : p[i] = s[i]
    BY <1>0, <1>1, FirstOfFacts
  <2> QED BY <1>0, <2>1 DEF TornLast
<1>2. ASSUME NEW n \in min..(Len(s) - 1), p = Append(FirstOf(s, n), Torn)
      PROVE  TornLast(p)
  <2>1. /\ FirstOf(s, n) \in Seq(Rec) /\ Len(FirstOf(s, n)) = n
        /\ \A i \in 1..n : FirstOf(s, n)[i] = s[i]
    BY <1>0, FirstOfFacts
  <2>2. \A i \in 1..n : s[i].type # "torn"
    BY <1>0 DEF TornLast
  <2>3. Intact(FirstOf(s, n))
    BY <2>1, <2>2 DEF Intact
  <2> QED BY <1>2, <2>1, <2>3, TornLastFacts
<1> QED BY <1>1, <1>2 DEF Pieces

\* A step that leaves the log alone, and does not start to use it.
LEMMA QuietLog ==
  ASSUME LogInv, UNCHANGED <<buf, file, stable, is_open>>,
         buf # <<>> => proc' = "up",
         SyncOnCommit /\ job' = "commit" /\ pc' \in {"sync", "temp", "rename", "saved"}
           => buf = <<>>,
         job' = "commit" /\ pc' # "begin" => is_open,
         pc' = "recover" => is_open,
         pc' \in {"load", "walopen"} => ~is_open,
         proc' \in {"down", "closed"} => ~is_open,
         is_open /\ job' # "abort" => job # "abort"
  PROVE  LogInv'
BY DEF LogInv

\* An error leaves the log as it is.
LEMMA FailLog ==
  ASSUME SaveInv, LogInv, Fail, UNCHANGED <<buf, file, stable, is_open>>
  PROVE  LogInv'
<1>1. CASE job = "commit"
  BY <1>1, QuietLog DEF Fail, Return, NoJob, LogInv, SaveInv, ControlInv
<1>2. CASE job = "checkpoint"
  BY <1>2, QuietLog DEF Fail, Return, NoJob, LogInv, SaveInv, ControlInv
<1>3. CASE job \in {"close", "abort"}
  BY <1>3, QuietLog DEF Fail, Goto, LogInv, SaveInv, ControlInv
<1>4. CASE job = "open"
  BY <1>4, QuietLog DEF Fail, LogInv, SaveInv, ControlInv
<1> QED BY <1>1, <1>2, <1>3, <1>4 DEF Fail

\* A step that closes the log.
LEMMA ClosedLog ==
  ASSUME LogInv, buf' = <<>>, ~is_open', TornLast(file'), TornLast(stable'),
         pc' # "recover", job' = "commit" => pc' = "begin"
  PROVE  LogInv'
BY EmptyIntact DEF LogInv, TornLast

LEMMA StepLog ==
  ASSUME GoodLog, TypeOK, TypeOK', SaveInv, LogInv, Step
  PROVE  LogInv'
<1>0. /\ file \in Seq(Rec) /\ buf \in Seq(Rec) /\ file' \in Seq(Rec)
      /\ TornLast(file) /\ TornLast(stable)
      /\ job \in Jobs /\ is_open \in BOOLEAN
  BY DEF TypeOK, LogTypeOK, StoreTypeOK, LogInv, TornLast
<1>1. CASE WriteTemp
  <2>1. UNCHANGED <<buf, file, stable, is_open>>
    BY <1>1 DEF WriteTemp, logVars
  <2>2. CASE Goto("rename")
    BY <1>1, <2>1, <2>2, QuietLog DEF WriteTemp, Goto, LogInv, SaveInv, ControlInv
  <2> QED BY <1>1, <2>1, <2>2, FailLog DEF WriteTemp
<1>2. CASE Rename
  BY <1>2, QuietLog DEF Rename, Goto, logVars, LogInv, SaveInv, ControlInv
<1>3. CASE RenameFails
  BY <1>3, NoOtherFaults DEF RenameFails
<1>4. CASE RemoveData
  BY <1>4 DEF RemoveData, SaveInv, ControlInv
<1>5. CASE AppendStep
  <2>1. CASE Fail /\ UNCHANGED logVars
    BY <2>1, FailLog DEF logVars
  <2>2. CASE ~(Fail /\ UNCHANGED logVars)
    <3> DEFINE txn  == next_wal_txn - 1
               load == IF pc = "update" THEN tables ELSE NoPayload
    <3>1. /\ pc \in {"begin", "update", "commit"}
          /\ AppendRecord(txn, lsn, pc, load)
          /\ pc' = AfterAppend(pc) /\ UNCHANGED <<next_wal_txn, proc, job, cur>>
      BY <1>5, <2>2, NoOtherFaults DEF AppendStep, AppendFails
    <3>2. /\ txn \in Nat /\ lsn \in Nat /\ pc \in LogRecordType
          /\ load \in Payload \cup {NoPayload}
      BY <3>1, SnapshotAssumption DEF TypeOK, StoreTypeOK, LogRecordType
    <3> HIDE DEF txn, load
    <3>3. is_open /\ UNCHANGED <<is_open, stable>> /\ job = "commit"
      BY <3>1 DEF AppendRecord, SaveInv, ControlInv
    <3>4. Intact(file') /\ Intact(buf')
      BY <3>1, <3>2, <3>3, AppendLog DEF LogInv
    <3>5. TornLast(file')
      BY <3>4, <1>0, TornLastFacts
    <3>6. /\ pc' \in {"update", "commit", "flush", "temp"}
          /\ pc' = "temp" => ~SyncOnCommit
      BY <3>1 DEF AfterAppend
    <3>7. proc \in {"up", "closed"} /\ (proc = "closed" => ~is_open)
      BY <3>3 DEF LogInv, SaveInv, ControlInv
    <3> QED BY <3>1, <3>3, <3>4, <3>5, <3>6, <3>7 DEF LogInv, TornLast
  <2> QED BY <2>1, <2>2
<1>6. CASE FlushStep
  <2>1. /\ pc = "flush" /\ pc' = "sync" /\ is_open /\ is_open' = is_open
        /\ file' = file \o buf /\ buf' = <<>> /\ stable' = stable
        /\ UNCHANGED <<proc, job>>
    BY <1>6, NoOtherFaults DEF FlushStep, FlushStream, FlushStreamFails, Goto
  <2>2. job = "commit" /\ Intact(file')
    BY <2>1, <1>0, IntactConcat DEF LogInv, SaveInv, ControlInv
  <2>3. TornLast(file')
    BY <2>2, <1>0, TornLastFacts
  <2> QED BY <2>1, <2>2, <2>3, EmptyIntact DEF LogInv, TornLast
<1>7. CASE SyncStep
  <2>1. pc = "sync" /\ job = "commit" /\ UNCHANGED <<buf, file, is_open>>
    BY <1>7 DEF SyncStep, SyncFile, SyncFileFails, logVars, SaveInv, ControlInv
  <2>2. CASE SyncFile /\ Goto("temp")
    <3>1. pc' = "temp" /\ stable' = file /\ UNCHANGED <<proc, job>>
      BY <2>2 DEF SyncFile, Goto
    <3> QED BY <1>0, <2>1, <3>1 DEF LogInv, TornLast
  <2> QED BY <1>7, <2>2, FailLog DEF SyncStep, SyncFileFails, logVars
<1>8. CASE CommitReturns
  BY <1>8, QuietLog DEF CommitReturns, Return, NoJob, logVars, LogInv, SaveInv, ControlInv
<1>9. CASE TruncateStep
  <2>1. CASE Truncate /\ Goto("truncsync")
    <3>1. /\ file' = <<>> /\ buf' = <<>> /\ stable' = stable /\ is_open /\ is_open' = is_open
          /\ pc' = "truncsync" /\ UNCHANGED <<proc, job>> /\ job = "checkpoint"
      BY <1>9, <2>1 DEF TruncateStep, Truncate, Goto
    <3> QED BY <3>1, EmptyIntact, TornLastFacts DEF LogInv, TornLast
  <2>2. CASE TruncateFails /\ Fail
    <3>1. /\ buf' = <<>> /\ is_open' = FALSE /\ stable' = stable
          /\ file' = file \o buf \/ file' = <<>>
          /\ is_open /\ job = "checkpoint" /\ job' = "none" /\ pc' = "idle"
      BY <1>9, <2>2, NoOtherFaults
         DEF TruncateStep, TruncateFails, Drained, Fail, Return, NoJob
    <3>2. TornLast(file')
      BY <3>1, <1>0, IntactConcat, TornLastFacts DEF LogInv
    <3> QED BY <1>0, <3>1, <3>2, ClosedLog
  <2>3. CASE UNCHANGED logVars /\ Fail
    BY <2>3, FailLog DEF logVars
  <2> QED BY <1>9, <2>1, <2>2, <2>3 DEF TruncateStep
<1>10. CASE TruncateSyncStep
  <2>1. pc = "truncsync" /\ job = "checkpoint" /\ UNCHANGED <<buf, file, is_open>>
    BY <1>10 DEF TruncateSyncStep, SyncFile, SyncFileFails, logVars, SaveInv, ControlInv
  <2>2. CASE SyncFile /\ Return
    <3>1. pc' = "idle" /\ job' = "none" /\ stable' = file /\ proc' = proc
      BY <2>2 DEF SyncFile, Return, NoJob
    <3> QED BY <1>0, <2>1, <3>1 DEF LogInv, TornLast
  <2> QED BY <1>10, <2>2, FailLog DEF TruncateSyncStep, SyncFileFails, logVars
<1>11. CASE CloseLog
  <2>1. /\ buf' = <<>> /\ is_open' = FALSE /\ stable' = stable /\ file' = file \o buf
        /\ job' = "none" /\ pc' = "idle"
    BY <1>11, NoOtherFaults DEF CloseLog, Close, Drained, Gone, NoJob
  <2>2. buf # <<>> => Intact(file)
    BY DEF LogInv, SaveInv, ControlInv
  <2>3. TornLast(file')
    <3>1. CASE buf = <<>>
      BY <1>0, <2>1, <3>1, ConcatEmptySeq
    <3>2. CASE buf # <<>>
      BY <1>0, <2>1, <2>2, <3>2, IntactConcat, TornLastFacts DEF LogInv
    <3> QED BY <3>1, <3>2
  <2> QED BY <1>0, <2>1, <2>3, ClosedLog
<1>12. CASE LoadTables
  <2>1. pc = "load" /\ job = "open" /\ ~is_open /\ UNCHANGED <<buf, file, stable, is_open>>
    BY <1>12 DEF LoadTables, logVars, LogInv, SaveInv, ControlInv
  <2>2. CASE Goto("walopen") \/ Goto("temp")
    BY <2>1, <2>2, QuietLog DEF Goto, LogInv
  <2> QED BY <1>12, <2>1, <2>2, FailLog DEF LoadTables
<1>13. CASE Created
  BY <1>13, QuietLog DEF Created, Goto, logVars, LogInv
<1>14. CASE OpenLog
  <2>1. pc = "walopen" /\ job = "open" /\ buf = <<>> /\ ~is_open /\ proc = "opening"
    BY <1>14 DEF OpenLog, LogInv, SaveInv, ControlInv
  <2>2. CutTail => Intact(file')
    <3>1. PICK n \in 0..Len(file) : /\ ReadRecords(file) = FirstOf(file, n)
                                   /\ Intact(FirstOf(file, n))
      BY <1>0, ReadRecordsFacts
    <3> QED BY <3>1 DEF CutTail
  <2>3. TornLast(file')
    BY <1>0, <1>14, <2>2, TornLastFacts DEF OpenLog, Open, OpenFails
  <2>4. CASE Open /\ Goto("recover")
    <3>1. /\ CutTail /\ is_open' /\ pc' = "recover" /\ UNCHANGED <<buf, stable, proc, job>>
      BY <2>4, NoOtherFaults DEF Open, Goto
    <3> QED BY <2>1, <2>2, <2>3, <3>1 DEF LogInv, TornLast
  <2>5. CASE OpenFails /\ Fail
    <3>1. job' = "abort" /\ pc' = "temp" /\ UNCHANGED <<buf, stable, proc>>
      BY <2>1, <2>5 DEF OpenFails, Fail
    <3> QED BY <2>1, <2>3, <3>1 DEF LogInv, TornLast
  <2> QED BY <1>14, <2>4, <2>5 DEF OpenLog
<1>15. CASE Recover
  <2>1. /\ UNCHANGED <<buf, file, stable, is_open>> /\ is_open /\ buf = <<>>
        /\ job = "open" /\ pc' \in {"temp", "idle"} /\ job' \in {"open", "none"}
        /\ proc' \in {"opening", "up"}
    BY <1>15 DEF Recover, OpenReturns, NoJob, logVars, LogInv, SaveInv, ControlInv
  <2> QED BY <2>1, QuietLog
<1>16. CASE RecoverFails
  BY <1>16, FailLog DEF RecoverFails, logVars
<1>17. CASE Recovered
  BY <1>17, QuietLog DEF Recovered, OpenReturns, NoJob, logVars, LogInv, SaveInv, ControlInv
<1>18. CASE RecoverRefuses
  BY <1>18, NoRefusal DEF RecoverRefuses
<1> QED
  BY <1>1, <1>2, <1>3, <1>4, <1>5, <1>6, <1>7, <1>8, <1>9, <1>10, <1>11, <1>12,
     <1>13, <1>14, <1>15, <1>16, <1>17, <1>18 DEF Step

LEMMA OtherLog ==
  ASSUME GoodLog, TypeOK, TypeOK', SaveInv, LogInv,
         Call \/ Kill \/ PowerLoss \/ Writeback \/ UNCHANGED vars
  PROVE  LogInv'
<1>0. /\ file \in Seq(Rec) /\ buf \in Seq(Rec) /\ file' \in Seq(Rec)
      /\ stable \in Seq(Rec) /\ TornLast(file) /\ TornLast(stable)
      /\ job \in Jobs /\ is_open \in BOOLEAN /\ kept \in Nat
  BY DEF TypeOK, LogTypeOK, StoreTypeOK, LogInv, TornLast
<1>1. CASE BeginOpen
  BY <1>1, QuietLog DEF BeginOpen, LogInv
<1>2. CASE BeginCheckpoint
  BY <1>2, QuietLog DEF BeginCheckpoint, logVars, LogInv, SaveInv, ControlInv
<1>3. CASE BeginClose
  BY <1>3, QuietLog DEF BeginClose, logVars, LogInv, SaveInv, ControlInv
<1>4. CASE Destroy
  BY <1>4, QuietLog DEF Destroy, Gone, NoJob, logVars, LogInv
<1>5. ASSUME NEW t \in Txns, BeginCommit(t)
      PROVE  LogInv'
  BY <1>5, QuietLog DEF BeginCommit, logVars, LogInv
<1>6. CASE Kill
  <2>1. /\ buf' = <<>> /\ is_open' = FALSE /\ stable' = stable
        /\ file' = file \/ (buf # <<>> /\ file' = Append(file, Torn))
        /\ job' = "none" /\ pc' = "idle"
    BY <1>6 DEF Kill, LogKill, LogProcessDies, ProcessDies, Gone, NoJob
  <2>2. buf # <<>> => Intact(file)
    BY DEF LogInv, SaveInv, ControlInv
  <2>3. TornLast(file')
    BY <1>0, <2>1, <2>2, TornLastFacts
  <2> QED BY <1>0, <2>1, <2>3, ClosedLog
<1>7. CASE PowerLoss
  <2>1. /\ buf' = <<>> /\ is_open' = FALSE /\ stable' = file'
        /\ file' \in {stable} \cup Pieces(file, kept)
        /\ job' = "none" /\ pc' = "idle"
    BY <1>7 DEF PowerLoss, LogPowerLoss, LogProcessDies, ProcessDies, Gone, NoJob
  <2>2. TornLast(file')
    BY <1>0, <2>1, TornLastPieces
  <2> QED BY <1>0, <2>1, <2>2, ClosedLog
<1>8. CASE Writeback
  BY <1>8, QuietLog DEF Writeback, logVars, ctlVars, LogInv
<1>9. CASE UNCHANGED vars
  BY <1>9, QuietLog DEF vars, logVars, ctlVars, LogInv
<1> QED
  BY <1>1, <1>2, <1>3, <1>4, <1>5, <1>6, <1>7, <1>8, <1>9 DEF Call

-----------------------------------------------------------------------------
\* What the log holds, compared with the tables.

\* While the log is open, reading it back gives all of it.
LEMMA OpenLogRead ==
  ASSUME TypeOK, LogInv, is_open, job # "abort"
  PROVE  /\ file \in Seq(Rec) /\ buf \in Seq(Rec) /\ Log \in Seq(Rec)
         /\ ReadRecords(Log) = Log
         /\ ReadRecords(file) = file
<1>1. file \in Seq(Rec) /\ buf \in Seq(Rec) /\ Intact(file) /\ Intact(buf)
  BY DEF TypeOK, LogTypeOK, LogInv
<1>2. Log \in Seq(Rec) /\ Intact(Log)
  BY <1>1, IntactConcat, ConcatProperties DEF Log
<1> QED BY <1>1, <1>2, ReadIntact

\* The last record of the log when its tables have just been appended.
Appended ==
  /\ Log # <<>>
  /\ Log[Len(Log)].type = "update"
  /\ Log[Len(Log)].txn_id = next_wal_txn - 1
  /\ Log[Len(Log)].payload = tables

\* An error gives up the commit, and leaves the log as it is or empties it.
LEMMA FailCommit ==
  ASSUME SaveInv, CommitInv, Fail, tables' = tables,
         ReadRecords(Log') = ReadRecords(Log) \/ ReadRecords(Log') = <<>>
  PROVE  CommitInv'
<1>0. Outcome(tables, <<>>) = tables
  BY DEF Outcome, Replayable
<1>1. /\ pc' \in {"idle", "unsaved", "temp"} /\ job' \in {"none", "close", "abort"}
      /\ job' # "commit" /\ cur' = {} /\ proc' = proc
      /\ (tables \ failed') \ cur' \subseteq (tables \ failed) \ cur
  BY DEF SaveInv, ControlInv, Fail, Return, NoJob, Goto, histVars
<1>2. proc \in {"up", "closed"} =>
        (tables \ failed') \ cur' \subseteq Outcome(tables, ReadRecords(Log'))
  BY <1>0, <1>1 DEF CommitInv
<1> QED BY <1>1, <1>2 DEF CommitInv

\* A step of SaveTables, or one that ends an operation, with the same log.
LEMMA SameCommit ==
  ASSUME CommitInv, Log' = Log,
         UNCHANGED <<tables, next_wal_txn, job, cur, failed, proc, is_open>>,
         pc' # "commit",
         TablesLogged \/ ~(job = "commit" \/ (job = "open" /\ is_open))
           \/ pc' \in {"begin", "update", "recover", "walopen"}
  PROVE  CommitInv'
BY DEF CommitInv, TablesLogged

\* When no operation is in progress, only the last conjunct says something.
LEMMA IdleCommit ==
  ASSUME job' = "none", pc' = "idle", cur' = {},
         proc' \in {"up", "closed"} =>
           (tables' \ failed') \ cur' \subseteq Outcome(tables', ReadRecords(Log'))
  PROVE  CommitInv'
BY DEF CommitInv

LEMMA StepCommit ==
  ASSUME GoodLog, TypeOK, TypeOK', SaveInv, LogInv, SaveInv', LogInv', CommitInv, Step
  PROVE  CommitInv'
<1>0. /\ file \in Seq(Rec) /\ buf \in Seq(Rec) /\ Log \in Seq(Rec)
      /\ job \in Jobs /\ is_open \in BOOLEAN
  BY ConcatProperties DEF TypeOK, LogTypeOK, StoreTypeOK, Log
<1>00. /\ UNCHANGED <<file, buf>> => Log' = Log
       /\ file' = file \o buf /\ buf' = <<>> => Log' = Log
  BY <1>0, ConcatEmptySeq DEF Log
<1>1. CASE WriteTemp
  <2>1. pc = "temp" /\ UNCHANGED <<file, buf, is_open, tables>>
    BY <1>1 DEF WriteTemp, logVars
  <2>2. CASE Goto("rename") /\ UNCHANGED histVars
    BY <1>00, <2>1, <2>2, SameCommit DEF Goto, CommitInv, histVars
  <2> QED BY <1>00, <1>1, <2>1, <2>2, FailCommit, NoOtherFaults DEF WriteTemp
<1>2. CASE Rename
  <2>1. pc = "rename" /\ UNCHANGED <<file, buf, is_open, tables, failed>> /\ Goto("saved")
    BY <1>2 DEF Rename, logVars, histVars, SaveInv, ControlInv
  <2> QED BY <1>00, <2>1, SameCommit DEF Goto, CommitInv
<1>3. CASE RenameFails
  BY <1>3, NoOtherFaults DEF RenameFails
<1>4. CASE RemoveData
  BY <1>4 DEF RemoveData, SaveInv, ControlInv
<1>5. CASE AppendStep
  <2>0. pc \in {"begin", "update", "commit"} /\ tables' = tables /\ job = "commit"
    BY <1>5 DEF AppendStep, storeVars, SaveInv, ControlInv
  <2>1. CASE Fail /\ UNCHANGED logVars
    BY <1>00, <2>0, <2>1, FailCommit DEF logVars
  <2>2. CASE ~(Fail /\ UNCHANGED logVars)
    <3> DEFINE txn  == next_wal_txn - 1
               load == IF pc = "update" THEN tables ELSE NoPayload
               x    == NewRecord(txn, lsn, pc, load)
    <3>1. /\ AppendRecord(txn, lsn, pc, load)
          /\ pc' = AfterAppend(pc) /\ UNCHANGED <<next_wal_txn, proc, job, cur, failed>>
      BY <1>5, <2>2, NoOtherFaults DEF AppendStep, AppendFails
    <3>2. /\ txn \in Nat /\ lsn \in Nat /\ pc \in LogRecordType
          /\ load \in Payload \cup {NoPayload}
      BY <2>0, SnapshotAssumption DEF TypeOK, StoreTypeOK, LogRecordType
    <3>3. x.type = pc /\ x.txn_id = txn /\ x.payload = load
      BY DEF NewRecord
    <3>4. is_open /\ is_open' = is_open
      BY <3>1 DEF AppendRecord
    <3>5. pc = "update" => load = tables
      OBVIOUS
    <3> HIDE DEF txn, load
    <3>6. /\ x \in Rec /\ Log' = Append(Log, x)
      BY <3>1, <3>2, AppendLog DEF Rec
    <3> HIDE DEF x
    <3>7. /\ ReadRecords(Log) = Log /\ ReadRecords(Log') = Log'
      <4>1. ReadRecords(Log) = Log
        BY <2>0, <3>4, OpenLogRead
      <4>2. ReadRecords(Log)' = Log'
        <5>1. /\ file' \in Seq(Rec) /\ buf' \in Seq(Rec) /\ Intact(file') /\ Intact(buf')
          BY <2>0, <3>1, <3>4 DEF TypeOK, LogTypeOK, LogInv
        <5>2. Log' \in Seq(Rec) /\ Intact(Log')
          BY <5>1, IntactConcat, ConcatProperties DEF Log
        <5> QED BY <5>2, ReadIntact
      <4> QED BY <4>1, <4>2
    <3>8. CASE pc # "commit"
      <4>1. x.type # "commit"
        BY <3>3, <3>8
      <4>2. Outcome(tables, Append(Log, x)) = Outcome(tables, Log)
        BY <1>0, <3>6, <4>1, ReplayAppend DEF Outcome
      <4>3. pc' = IF pc = "begin" THEN "update" ELSE "commit"
        BY <2>0, <3>1, <3>8 DEF AfterAppend
      <4>4. /\ Append(Log, x) # <<>>
            /\ Append(Log, x)[Len(Append(Log, x))] = x
        BY <1>0, <3>6, AppendProperties
      <4>5. pc' = "commit" => Appended'
        BY <2>0, <3>1, <3>3, <3>5, <3>6, <3>8, <4>3, <4>4 DEF Appended, txn
      <4> QED BY <2>0, <3>1, <3>6, <3>7, <4>2, <4>3, <4>5 DEF CommitInv, Appended
    <3>9. CASE pc = "commit"
      <4>1. /\ Log # <<>> /\ Log[Len(Log)].type = "update"
            /\ Log[Len(Log)].txn_id = txn /\ Log[Len(Log)].payload = tables
        BY <3>9 DEF CommitInv, txn
      <4>2. /\ Replayable(Log') # {} /\ ReplayedSnapshot(Log') = tables
        BY <1>0, <3>3, <3>6, <3>9, <4>1, ReplayCommit
      <4>3. Outcome(tables, Log') = tables /\ TablesLogged'
        BY <2>0, <4>2 DEF Outcome, TablesLogged
      <4>4. pc' \in {"flush", "temp"}
        BY <3>1, <3>9 DEF AfterAppend
      <4> QED BY <2>0, <3>1, <3>7, <4>3, <4>4 DEF CommitInv
    <3> QED BY <3>8, <3>9
  <2> QED BY <2>1, <2>2
<1>6. CASE FlushStep
  <2>1. /\ pc = "flush" /\ file' = file \o buf /\ buf' = <<>> /\ is_open' = is_open
        /\ Goto("sync") /\ UNCHANGED <<tables, failed>>
    BY <1>6, NoOtherFaults
       DEF FlushStep, FlushStream, FlushStreamFails, histVars, storeVars
  <2>2. job = "commit"
    BY <2>1 DEF SaveInv, ControlInv
  <2> QED BY <1>00, <2>1, <2>2, SameCommit DEF Goto, CommitInv
<1>7. CASE SyncStep
  <2>1. pc = "sync" /\ job = "commit" /\ UNCHANGED <<buf, file, is_open, tables>>
    BY <1>7 DEF SyncStep, SyncFile, SyncFileFails, logVars, storeVars, SaveInv, ControlInv
  <2>2. CASE Goto("temp") /\ UNCHANGED histVars
    BY <1>00, <2>1, <2>2, SameCommit DEF Goto, CommitInv, histVars
  <2> QED BY <1>00, <1>7, <2>1, <2>2, FailCommit DEF SyncStep
<1>8. CASE CommitReturns
  <2>1. /\ job = "commit" /\ pc = "saved" /\ job' = "none" /\ pc' = "idle" /\ cur' = {}
        /\ UNCHANGED <<file, buf, tables>>
    BY <1>8 DEF CommitReturns, Return, NoJob, logVars, storeVars
  <2>2. is_open /\ TablesLogged
    BY <2>1 DEF LogInv, CommitInv
  <2>3. Outcome(tables, ReadRecords(Log)) = tables
    BY <2>1, <2>2, OpenLogRead DEF Outcome, TablesLogged
  <2> QED BY <1>00, <2>1, <2>3, IdleCommit
<1>9. CASE TruncateStep
  <2>0. job = "checkpoint" /\ tables' = tables
    BY <1>9 DEF TruncateStep, storeVars
  <2>1. Outcome(tables, <<>>) = tables /\ ReadRecords(<<>>) = <<>> /\ <<>> \o <<>> = <<>>
    <3>1. Outcome(tables, <<>>) = tables
      BY DEF Outcome, Replayable
    <3>2. <<>> \in Seq(Rec)
      BY EmptySeq
    <3>3. ReadRecords(<<>>) = <<>>
      BY <3>2, EmptyIntact, ReadIntact
    <3> QED BY <3>1, <3>2, <3>3, ConcatEmptySeq
  <2>2. CASE Truncate /\ Goto("truncsync")
    <3>1. file' = <<>> /\ buf' = <<>> /\ pc' = "truncsync" /\ job' = "checkpoint"
      BY <2>0, <2>2 DEF Truncate, Goto
    <3>2. Outcome(tables', ReadRecords(Log')) = tables'
      BY <2>0, <2>1, <3>1 DEF Log
    <3>3. cur' = {}
      BY <3>1 DEF SaveInv
    <3> QED BY <3>1, <3>2, <3>3 DEF CommitInv
  <2>3. CASE TruncateFails /\ Fail
    <3>1. buf' = <<>> /\ (file' = file \o buf \/ file' = <<>>)
      BY <2>3, NoOtherFaults DEF TruncateFails, Drained
    <3>2. ReadRecords(Log') = ReadRecords(Log) \/ ReadRecords(Log') = <<>>
      BY <1>00, <2>1, <3>1 DEF Log
    <3> QED BY <2>0, <2>3, <3>2, FailCommit
  <2>4. CASE UNCHANGED logVars /\ Fail
    BY <1>00, <2>0, <2>4, FailCommit DEF logVars
  <2> QED BY <1>9, <2>2, <2>3, <2>4 DEF TruncateStep
<1>10. CASE TruncateSyncStep
  <2>1. pc = "truncsync" /\ job = "checkpoint" /\ UNCHANGED <<buf, file, is_open, tables>>
    BY <1>10 DEF TruncateSyncStep, SyncFile, SyncFileFails, logVars, storeVars, SaveInv, ControlInv
  <2>2. CASE Return /\ UNCHANGED histVars
    <3>1. cur = {} /\ UNCHANGED <<failed, proc>> /\ job' = "none" /\ pc' = "idle" /\ cur' = {}
      BY <2>1, <2>2 DEF Return, NoJob, histVars, SaveInv
    <3> QED BY <1>00, <2>1, <3>1, IdleCommit DEF CommitInv
  <2> QED BY <1>00, <1>10, <2>1, <2>2, FailCommit DEF TruncateSyncStep
<1>11. CASE CloseLog
  <2>1. /\ buf' = <<>> /\ file' = file \o buf /\ failed' = failed
        /\ job' = "none" /\ pc' = "idle" /\ cur' = {}
        /\ proc' = "down" \/ (proc' = "closed" /\ job = "close" /\ tables' = tables)
    BY <1>11, NoOtherFaults DEF CloseLog, Close, Drained, Gone, NoJob
  <2>2. job = "close" => proc \in {"up", "closed"} /\ cur = {}
    BY DEF SaveInv, ControlInv
  <2> QED BY <1>00, <2>1, <2>2, IdleCommit DEF CommitInv
<1>12. CASE LoadTables
  <2>1. pc = "load" /\ job = "open" /\ ~is_open /\ UNCHANGED <<buf, file, is_open>>
    BY <1>12 DEF LoadTables, logVars, LogInv, SaveInv, ControlInv
  <2>2. CASE Goto("walopen") \/ Goto("temp")
    <3>1. pc' \in {"walopen", "temp"} /\ job' = "open" /\ ~is_open' /\ cur' = {} /\ proc' = "opening"
      BY <2>1, <2>2 DEF Goto, SaveInv, ControlInv
    <3> QED BY <3>1 DEF CommitInv
  <2> QED BY <1>00, <1>12, <2>1, <2>2, FailCommit DEF LoadTables
<1>13. CASE Created
  <2>1. job = "open" /\ ~is_open /\ UNCHANGED <<file, buf, is_open, tables, failed>> /\ Goto("walopen")
    BY <1>13 DEF Created, logVars, histVars, storeVars
  <2> QED BY <1>00, <2>1, SameCommit DEF Goto
<1>14. CASE OpenLog
  <2>1. pc = "walopen" /\ job = "open" /\ proc = "opening" /\ cur = {} /\ tables' = tables
    BY <1>14 DEF OpenLog, storeVars, SaveInv, ControlInv
  <2>2. CASE Goto("recover")
    <3>1. pc' = "recover" /\ job' = "open" /\ proc' = "opening" /\ cur' = {}
      BY <2>1, <2>2 DEF Goto
    <3> QED BY <3>1 DEF CommitInv
  <2>3. CASE Fail
    <3>1. pc' = "temp" /\ job' = "abort" /\ proc' = "opening" /\ cur' = {}
      BY <2>1, <2>3 DEF Fail
    <3> QED BY <3>1 DEF CommitInv
  <2> QED BY <1>14, <2>2, <2>3 DEF OpenLog
<1>15. CASE Recover
  <2>1. /\ UNCHANGED <<buf, file, is_open>> /\ is_open /\ buf = <<>>
        /\ job = "open" /\ proc = "opening" /\ cur = {}
    BY <1>15 DEF Recover, logVars, LogInv, SaveInv, ControlInv
  <2>2. Log = file /\ ReadRecords(file) = file /\ Log' = file
    BY <1>0, <2>1, OpenLogRead, ConcatEmptySeq DEF Log
  <2>3. CASE Replayable(file) # {}
    <3>1. /\ tables' = ReplayedSnapshot(file) /\ pc' = "temp"
          /\ UNCHANGED <<proc, job, cur>>
      BY <1>15, <2>2, <2>3 DEF Recover
    <3>2. TablesLogged'
      BY <2>2, <2>3, <3>1 DEF TablesLogged
    <3> QED BY <2>1, <3>1, <3>2 DEF CommitInv
  <2>4. CASE Replayable(file) = {}
    <3>1. /\ job' = "none" /\ pc' = "idle" /\ cur' = {} /\ tables' = tables
      BY <1>15, <2>2, <2>4 DEF Recover, OpenReturns, NoJob
    <3>2. Outcome(tables', ReadRecords(Log')) = tables'
      BY <2>2, <2>4 DEF Outcome
    <3> QED BY <3>1, <3>2, IdleCommit
  <2> QED BY <2>3, <2>4
<1>16. CASE RecoverFails
  BY <1>00, <1>16, FailCommit DEF RecoverFails, logVars, storeVars
<1>17. CASE Recovered
  <2>1. /\ job = "open" /\ pc = "saved" /\ is_open /\ UNCHANGED <<file, buf, tables>>
        /\ job' = "none" /\ pc' = "idle" /\ cur' = {}
    BY <1>17 DEF Recovered, OpenReturns, NoJob, logVars, storeVars
  <2>2. Outcome(tables, ReadRecords(Log)) = tables
    BY <2>1, OpenLogRead DEF Outcome, TablesLogged, CommitInv
  <2> QED BY <1>00, <2>1, <2>2, IdleCommit
<1>18. CASE RecoverRefuses
  BY <1>18, NoRefusal DEF RecoverRefuses
<1> QED
  BY <1>1, <1>2, <1>3, <1>4, <1>5, <1>6, <1>7, <1>8, <1>9, <1>10, <1>11, <1>12,
     <1>13, <1>14, <1>15, <1>16, <1>17, <1>18 DEF Step

LEMMA OtherCommit ==
  ASSUME TypeOK, SaveInv, LogInv, CommitInv,
         Call \/ Kill \/ PowerLoss \/ Writeback \/ UNCHANGED vars
  PROVE  CommitInv'
<1>0. UNCHANGED <<file, buf>> => Log' = Log
  BY DEF Log
<1>1. CASE BeginOpen
  <2>1. pc' = "load" /\ proc' = "opening" /\ cur' = {} /\ job' = "open"
    BY <1>1 DEF BeginOpen, SaveInv, ControlInv, TypeOK, StoreTypeOK, Jobs
  <2> QED BY <2>1 DEF CommitInv
<1>2. CASE BeginCheckpoint \/ BeginClose
  <2>1. /\ job = "none" /\ pc' = "temp" /\ job' \in {"checkpoint", "close"}
        /\ UNCHANGED <<file, buf, tables, failed, cur, proc>>
    BY <1>2 DEF BeginCheckpoint, BeginClose, histVars, logVars, storeVars
  <2> QED BY <1>0, <2>1 DEF CommitInv
<1>3. CASE Destroy
  BY <1>3, IdleCommit DEF Destroy, Gone, NoJob
<1>4. ASSUME NEW t \in Txns, BeginCommit(t)
      PROVE  CommitInv'
  <2>1. /\ proc \in {"up", "closed"} /\ job = "none"
        /\ job' = "commit" /\ pc' = "begin" /\ cur' = {t}
        /\ tables' = tables \cup {t}
        /\ UNCHANGED <<file, buf, failed, proc>>
    BY <1>4 DEF BeginCommit, logVars
  <2>2. cur = {} /\ tables \ failed \subseteq Outcome(tables, ReadRecords(Log))
    BY <2>1 DEF CommitInv
  <2>3. (tables' \ failed') \ cur' \subseteq Outcome(tables', ReadRecords(Log))
    BY <2>1, <2>2 DEF Outcome
  <2> QED BY <1>0, <2>1, <2>3 DEF CommitInv
<1>5. CASE Kill \/ PowerLoss
  BY <1>5, IdleCommit DEF Kill, PowerLoss, ProcessDies, Gone, NoJob
<1>6. CASE Writeback \/ UNCHANGED vars
  <2>1. UNCHANGED <<file, buf, is_open, tables, next_wal_txn, proc, job, pc, cur, failed>>
    BY <1>6 DEF Writeback, vars, logVars, storeVars, ctlVars, histVars
  <2> QED BY <1>0, <2>1 DEF CommitInv, TablesLogged
<1> QED
  BY <1>1, <1>2, <1>3, <1>4, <1>5, <1>6 DEF Call

\* Before the first Open the log is empty.
LEMMA InitStore == Init => LogInv /\ CommitInv
<1>1. SUFFICES ASSUME Init PROVE LogInv /\ CommitInv
  OBVIOUS
<1>2. file = <<>> /\ buf = <<>> /\ stable = <<>> /\ ~is_open
  BY <1>1 DEF Init, LogInit
<1>3. LogInv
  BY <1>1, <1>2, EmptyIntact, TornLastFacts DEF Init, LogInv, TornLast
<1>4. CommitInv
  BY <1>1 DEF Init, CommitInv
<1> QED BY <1>3, <1>4

\* The invariant about the control, the log, the data file and the commit in
\* progress, with and without sync_on_commit and under power failures too.
LEMMA StoreInductive ==
  ASSUME GoodLog
  PROVE  Spec => []StoreInv
<1>1. TypeOK /\ TypeOK' /\ SaveInv /\ LogInv /\ [Next]_vars => LogInv'
  BY StepLog, OtherLog DEF Next
<1>2. /\ TypeOK /\ TypeOK' /\ SaveInv /\ SaveInv' /\ LogInv /\ LogInv'
      /\ CommitInv /\ [Next]_vars
      => CommitInv'
  BY StepCommit, OtherCommit DEF Next
<1>3. SaveInv /\ LogInv /\ CommitInv => StoreInv
  BY DEF SaveInv, StoreInv
<1>4. Spec => []TypeOK /\ []SaveInv
  BY TypeCorrect, SaveInductive, NoOtherFaults
<1> QED BY <1>1, <1>2, <1>3, <1>4, InitStore, PTL DEF Spec

-----------------------------------------------------------------------------
(***************************************************************************)
(* A set a of transactions that is kept stays kept, whatever the engine,   *)
(* the application and a kill do; only a power failure can lose it.        *)
(***************************************************************************)

\* Whoever saves the tables, they are safe to save.
LEMMA TablesSafe ==
  ASSUME TypeOK, ControlInv, NEW a, Kept(a), job # "none", pc # "load"
  PROVE  SafeFor(tables, file, buf, a)
<1>1. CASE job \in {"open", "abort"}
  BY <1>1 DEF Kept
<1>2. CASE proc \in {"up", "closed"}
  <2>1. SafeFor(data.snap, file, buf, a) /\ a \subseteq tables
    BY <1>2 DEF Kept
  <2> QED BY <2>1, SafeWeaken
<1>3. job \notin {"open", "abort"} => proc \in {"up", "closed"}
  BY DEF ControlInv, TypeOK, StoreTypeOK, Jobs
<1> QED BY <1>1, <1>2, <1>3

\* An error, when the log can still bring back a.
LEMMA FailKept ==
  ASSUME ControlInv, NEW a, Kept(a), Fail, UNCHANGED <<tables, data>>,
         SafeFor(data.snap, file', buf', a),
         job \in {"open", "abort"} => SafeFor(tables, file', buf', a)
  PROVE  Kept(a)'
<1>1. /\ proc' = proc
      /\ job' \in {"open", "abort"} => job \in {"open", "abort"} /\ job' = "abort"
  BY DEF ControlInv, Fail, Return, NoJob, Goto
<1> QED BY <1>1 DEF Kept

\* An error that does not touch the log.
LEMMA FailKeptSame ==
  ASSUME TypeOK, ControlInv, NEW a, Kept(a), Fail, UNCHANGED <<tables, data, file, buf>>,
         job = "open" => pc # "load"
  PROVE  Kept(a)'
<1>1. SafeFor(data.snap, file, buf, a)
  BY DEF Kept
<1>2. job \in {"open", "abort"} => SafeFor(tables, file, buf, a)
  BY DEF Kept, ControlInv
<1> QED BY <1>1, <1>2, FailKept

\* The mutex is free, or nobody holds a Database.
LEMMA IdleKept ==
  ASSUME NEW a, job' = "none", SafeFor(data'.snap, file', buf', a),
         proc' \in {"up", "closed"} => a \subseteq tables'
  PROVE  Kept(a)'
BY DEF Kept

LEMMA StepKept ==
  ASSUME GoodLog, TypeOK, TypeOK', StoreInv, NEW a, Kept(a), Step
  PROVE  Kept(a)'
<1>0. /\ file \in Seq(Rec) /\ buf \in Seq(Rec) /\ file' \in Seq(Rec) /\ buf' \in Seq(Rec)
      /\ job \in Jobs /\ is_open \in BOOLEAN
      /\ SafeFor(data.snap, file, buf, a)
  BY DEF TypeOK, LogTypeOK, StoreTypeOK, Kept
<1>00. ASSUME NEW snap, SafeFor(snap, file, buf, a), file' = file \o buf, buf' = <<>>
       PROVE  SafeFor(snap, file', buf', a)
  <2>1. /\ file' \o buf' = file \o buf /\ Len(file) <= Len(file')
        /\ Len(file) \in Nat /\ Len(file') \in Nat
    BY <1>0, <1>00, ConcatEmptySeq, ConcatProperties
  <2> QED BY <1>00, <2>1, SafeSpill
<1>1. CASE WriteTemp
  <2>1. pc = "temp" /\ UNCHANGED <<file, buf, is_open, tables, data>>
    BY <1>1 DEF WriteTemp, logVars
  <2>2. CASE Goto("rename")
    BY <2>1, <2>2 DEF Goto, Kept
  <2> QED BY <1>1, <2>1, <2>2, FailKeptSame DEF WriteTemp, StoreInv
<1>2. CASE Rename
  <2>1. /\ UNCHANGED <<file, buf, is_open, tables, proc, job>>
        /\ pc = "rename" /\ pc' = "saved" /\ data' = Whole(tables)
    BY <1>2 DEF Rename, Goto, logVars, StoreInv, ControlInv, FileInv
  <2>2. SafeFor(tables, file, buf, a) /\ data'.snap = tables
    BY <2>1, TablesSafe, WholeFields DEF StoreInv, ControlInv
  <2> QED BY <2>1, <2>2 DEF Kept
<1>3. CASE RenameFails
  BY <1>3, NoOtherFaults DEF RenameFails
<1>4. CASE RemoveData
  BY <1>4 DEF RemoveData, StoreInv, ControlInv
<1>5. CASE AppendStep
  <2>0. /\ pc \in {"begin", "update", "commit"} /\ UNCHANGED <<tables, data>>
        /\ job = "commit" /\ proc \in {"up", "closed"} /\ a \subseteq tables
    BY <1>5 DEF AppendStep, storeVars, StoreInv, ControlInv, Kept
  <2>1. CASE Fail /\ UNCHANGED logVars
    BY <2>0, <2>1, FailKeptSame DEF logVars, StoreInv
  <2>2. CASE ~(Fail /\ UNCHANGED logVars)
    <3> DEFINE txn  == next_wal_txn - 1
               load == IF pc = "update" THEN tables ELSE NoPayload
               x    == NewRecord(txn, lsn, pc, load)
    <3>1. /\ AppendRecord(txn, lsn, pc, load)
          /\ UNCHANGED <<proc, job>>
      BY <1>5, <2>2, NoOtherFaults DEF AppendStep, AppendFails
    <3>2. /\ txn \in Nat /\ lsn \in Nat /\ pc \in LogRecordType
          /\ load \in Payload \cup {NoPayload}
      BY <2>0, SnapshotAssumption DEF TypeOK, StoreTypeOK, LogRecordType
    <3>3. x.type = pc /\ x.txn_id = txn /\ x.payload = load
      BY DEF NewRecord
    <3>4. is_open /\ Intact(file) /\ Intact(buf)
      BY <2>0, <3>1 DEF AppendRecord, StoreInv, LogInv
    <3> HIDE DEF txn, load
    <3>5. /\ x \in Rec /\ Log' = Append(Log, x) /\ Len(file) <= Len(file')
          /\ Intact(file') /\ Intact(buf')
      BY <3>1, <3>2, <3>4, AppendLog DEF Rec
    <3> HIDE DEF x
    <3>6. Log \in Seq(Rec) /\ ReadRecords(Log) = Log
      BY <2>0, <3>4, OpenLogRead DEF StoreInv
    <3>7. ReadRecords(Append(Log, x)) = Append(Log, x)
      <4>1. Intact(file' \o buf') /\ file' \o buf' \in Seq(Rec)
        BY <1>0, <3>5, IntactConcat, ConcatProperties
      <4>2. file' \o buf' = Append(Log, x)
        BY <3>5 DEF Log
      <4> QED BY <4>1, <4>2, ReadIntact
    <3>8. a \subseteq Outcome(data.snap, Append(Log, x))
      <4>1. CASE pc # "commit"
        <5>1. x.type # "commit"
          BY <3>3, <4>1
        <5>2. Outcome(data.snap, Append(Log, x)) = Outcome(data.snap, Log)
          BY <3>5, <3>6, <5>1, ReplayAppend DEF Outcome
        <5>3. a \subseteq Outcome(data.snap, Log)
          BY <1>0, <3>6, SafeEnds DEF Log
        <5> QED BY <5>2, <5>3
      <4>2. CASE pc = "commit"
        <5>1. /\ Log # <<>> /\ Log[Len(Log)].type = "update"
              /\ Log[Len(Log)].txn_id = txn /\ Log[Len(Log)].payload = tables
          BY <4>2 DEF StoreInv, CommitInv, txn
        <5>2. /\ Replayable(Append(Log, x)) # {}
              /\ ReplayedSnapshot(Append(Log, x)) = tables
          BY <3>3, <3>5, <3>6, <4>2, <5>1, ReplayCommit
        <5> QED BY <2>0, <5>2 DEF Outcome
      <4> QED BY <4>1, <4>2
    <3>9. SafeFor(data.snap, file', buf', a)
      BY <1>0, <3>5, <3>7, <3>8, SafeAppend DEF Log
    <3> QED BY <2>0, <3>1, <3>9 DEF Kept
  <2> QED BY <2>1, <2>2
<1>6. CASE FlushStep
  <2>1. /\ pc = "flush" /\ file' = file \o buf /\ buf' = <<>>
        /\ UNCHANGED <<tables, data, proc, job>>
    BY <1>6, NoOtherFaults DEF FlushStep, FlushStream, FlushStreamFails, storeVars, Goto
  <2>2. job = "commit"
    BY <2>1 DEF StoreInv, ControlInv
  <2> QED BY <1>0, <1>00, <2>1, <2>2 DEF Kept
<1>7. CASE SyncStep
  <2>1. /\ pc = "sync" /\ job = "commit" /\ UNCHANGED <<buf, file, is_open, tables, data>>
    BY <1>7 DEF SyncStep, SyncFile, SyncFileFails, logVars, storeVars, StoreInv, ControlInv
  <2>2. CASE Goto("temp")
    BY <2>1, <2>2 DEF Goto, Kept
  <2> QED BY <1>7, <2>1, <2>2, FailKeptSame DEF SyncStep, StoreInv
<1>8. CASE CommitReturns
  <2>1. UNCHANGED <<file, buf, tables, data, proc>> /\ job = "commit" /\ job' = "none"
    BY <1>8 DEF CommitReturns, Return, NoJob, logVars, storeVars
  <2> QED BY <2>1 DEF Kept
<1>9. CASE TruncateStep
  <2>1. /\ job = "checkpoint" /\ UNCHANGED <<tables, data>>
        /\ a \subseteq tables /\ data.snap = tables
    BY <1>9, WholeFields DEF TruncateStep, storeVars, StoreInv, ControlInv, FileInv, Kept
  <2>2. SafeFor(data.snap, <<>>, <<>>, a)
    BY <2>1, EmptyLogSafe
  <2>3. CASE Truncate /\ Goto("truncsync")
    <3>1. file' = <<>> /\ buf' = <<>> /\ UNCHANGED <<proc, job>>
      BY <2>3 DEF Truncate, Goto
    <3> QED BY <2>1, <2>2, <3>1 DEF Kept
  <2>4. CASE TruncateFails /\ Fail
    <3>1. buf' = <<>> /\ (file' = file \o buf \/ file' = <<>>)
      BY <2>4, NoOtherFaults DEF TruncateFails, Drained
    <3>2. SafeFor(data.snap, file', buf', a)
      BY <1>0, <1>00, <2>2, <3>1
    <3> QED BY <2>1, <2>4, <3>2, FailKept DEF StoreInv
  <2>5. CASE UNCHANGED logVars /\ Fail
    BY <2>1, <2>5, FailKeptSame DEF logVars, StoreInv
  <2> QED BY <1>9, <2>3, <2>4, <2>5 DEF TruncateStep
<1>10. CASE TruncateSyncStep
  <2>1. pc = "truncsync" /\ job = "checkpoint" /\ UNCHANGED <<buf, file, is_open, tables, data>>
    BY <1>10 DEF TruncateSyncStep, SyncFile, SyncFileFails, logVars, storeVars, StoreInv, ControlInv
  <2>2. CASE Return
    BY <2>1, <2>2 DEF Return, NoJob, Kept
  <2> QED BY <1>10, <2>1, <2>2, FailKeptSame DEF TruncateSyncStep, StoreInv
<1>11. CASE CloseLog
  <2>1. /\ buf' = <<>> /\ file' = file \o buf /\ data' = data /\ job' = "none"
        /\ proc' = "down" \/ (proc' = "closed" /\ job = "close" /\ tables' = tables)
    BY <1>11, NoOtherFaults DEF CloseLog, Close, Drained, Gone, NoJob
  <2>2. job = "close" => a \subseteq tables
    BY DEF StoreInv, ControlInv, Kept
  <2> QED BY <1>0, <1>00, <2>1, <2>2, IdleKept
<1>12. CASE LoadTables
  <2>1. /\ pc = "load" /\ job = "open" /\ tables = {} /\ ~is_open
        /\ data.st # "ok" => data.snap = {}
        /\ UNCHANGED <<buf, file, is_open, data>>
    BY <1>12 DEF LoadTables, logVars, StoreInv, LogInv, ControlInv, FileInv
  <2>2. CASE tables' = data.snap /\ (Goto("walopen") \/ Goto("temp"))
    <3>1. UNCHANGED <<proc, job>> /\ proc = "opening"
      BY <2>1, <2>2 DEF Goto, StoreInv, ControlInv
    <3> QED BY <1>0, <2>1, <2>2, <3>1 DEF Kept
  <2>3. CASE data.st # "ok" /\ Fail /\ UNCHANGED tables
    BY <1>0, <2>1, <2>3, FailKept DEF StoreInv
  <2> QED BY <1>12, <2>1, <2>2, <2>3, NoOtherFaults, NoRefusal DEF LoadTables, Unfound
<1>13. CASE Created
  BY <1>13 DEF Created, Goto, logVars, storeVars, Kept
<1>14. CASE OpenLog
  <2>1. /\ pc = "walopen" /\ job = "open" /\ buf = <<>> /\ ~is_open
        /\ proc = "opening" /\ UNCHANGED <<tables, data, buf>>
        /\ SafeFor(tables, file, <<>>, a) /\ SafeFor(data.snap, file, <<>>, a)
    BY <1>14
       DEF OpenLog, Open, OpenFails, storeVars, StoreInv, ControlInv, LogInv, Kept
  <2>2. SafeFor(data.snap, file', <<>>, a) /\ SafeFor(tables, file', <<>>, a)
    <3>1. CASE CutTail
      BY <2>1, <3>1, CutTailSafe
    <3>2. CASE file' = file
      BY <2>1, <3>2
    <3> QED BY <1>14, <3>1, <3>2 DEF OpenLog, Open, OpenFails
  <2>3. CASE Goto("recover")
    BY <2>1, <2>2, <2>3 DEF Goto, Kept
  <2>4. CASE Fail
    BY <2>1, <2>2, <2>4, FailKept DEF StoreInv
  <2> QED BY <1>14, <2>3, <2>4 DEF OpenLog
<1>15. CASE Recover
  <2>1. /\ pc = "recover" /\ job = "open" /\ buf = <<>> /\ is_open
        /\ proc = "opening" /\ UNCHANGED <<file, buf, is_open, data>>
        /\ SafeFor(tables, file, <<>>, a)
    BY <1>15 DEF Recover, logVars, StoreInv, ControlInv, LogInv, Kept
  <2>2. ReadRecords(file) = file
    BY <2>1, OpenLogRead DEF StoreInv
  <2>3. a \subseteq Outcome(tables, file)
    BY <1>0, <2>1, <2>2, SafeFile
  <2>4. CASE Replayable(file) # {}
    <3>1. tables' = ReplayedSnapshot(file) /\ UNCHANGED <<proc, job>>
      BY <1>15, <2>2, <2>4 DEF Recover
    <3>2. a \subseteq tables'
      BY <2>3, <2>4, <3>1 DEF Outcome
    <3>3. SafeFor(tables', file, <<>>, a)
      BY <2>1, <3>2, SafeWeaken
    <3> QED BY <1>0, <2>1, <3>1, <3>2, <3>3 DEF Kept
  <2>5. CASE Replayable(file) = {}
    <3>1. job' = "none" /\ tables' = tables
      BY <1>15, <2>2, <2>5 DEF Recover, OpenReturns, NoJob
    <3>2. a \subseteq tables
      BY <2>3, <2>5 DEF Outcome
    <3> QED BY <1>0, <2>1, <3>1, <3>2, IdleKept
  <2> QED BY <2>4, <2>5
<1>16. CASE RecoverFails
  BY <1>16, FailKeptSame DEF RecoverFails, logVars, storeVars, StoreInv
<1>17. CASE Recovered
  <2>1. UNCHANGED <<file, buf, tables, data>> /\ job' = "none" /\ a \subseteq tables
    BY <1>17 DEF Recovered, OpenReturns, NoJob, logVars, storeVars, Kept
  <2> QED BY <1>0, <2>1, IdleKept
<1>18. CASE RecoverRefuses
  BY <1>18, NoRefusal DEF RecoverRefuses
<1> QED
  BY <1>1, <1>2, <1>3, <1>4, <1>5, <1>6, <1>7, <1>8, <1>9, <1>10, <1>11, <1>12,
     <1>13, <1>14, <1>15, <1>16, <1>17, <1>18 DEF Step

LEMMA OtherKept ==
  ASSUME TypeOK, StoreInv, NEW a, Kept(a),
         Call \/ Kill \/ Writeback \/ UNCHANGED vars
  PROVE  Kept(a)'
<1>0. /\ file \in Seq(Rec) /\ buf \in Seq(Rec)
      /\ SafeFor(data.snap, file, buf, a)
  BY DEF TypeOK, LogTypeOK, Kept
<1>1. CASE BeginOpen
  BY <1>1 DEF BeginOpen, Kept
<1>2. CASE BeginCheckpoint \/ BeginClose
  <2>1. /\ job' \in {"checkpoint", "close"}
        /\ UNCHANGED <<file, buf, tables, data, proc>>
    BY <1>2 DEF BeginCheckpoint, BeginClose, logVars, storeVars
  <2> QED BY <2>1 DEF Kept
<1>3. CASE Destroy
  BY <1>0, <1>3, IdleKept DEF Destroy, Gone, NoJob, logVars
<1>4. ASSUME NEW t \in Txns, BeginCommit(t)
      PROVE  Kept(a)'
  <2>1. /\ job' = "commit" /\ tables' = tables \cup {t}
        /\ UNCHANGED <<file, buf, data, proc>>
    BY <1>4 DEF BeginCommit, logVars
  <2> QED BY <2>1 DEF Kept
<1>5. CASE Kill
  <2>1. /\ buf' = <<>> /\ data' = data /\ job' = "none" /\ proc' = "down"
        /\ file' = file \/ (buf # <<>> /\ file' = Append(file, Torn))
    BY <1>5 DEF Kill, LogKill, LogProcessDies, ProcessDies, Gone, NoJob
  <2>2. a \subseteq Outcome(data.snap, ReadRecords(file))
    BY <1>0, SafeEnds
  <2>3. SafeFor(data.snap, file', <<>>, a)
    <3>1. CASE file' = file
      BY <1>0, <2>2, <3>1, SafeFile
    <3>2. CASE buf # <<>> /\ file' = Append(file, Torn)
      <4>1. Intact(file)
        BY <3>2 DEF StoreInv, LogInv, ControlInv
      <4>2. Append(file, Torn) \in Seq(Rec)
        BY <1>0, TornIsRec, AppendProperties
      <4>3. ReadRecords(Append(file, Torn)) = ReadRecords(file)
        BY <1>0, <4>1, ReadIntact, ReadTornTail
      <4> QED BY <2>2, <3>2, <4>2, <4>3, SafeFile
    <3> QED BY <2>1, <3>1, <3>2
  <2> QED BY <2>1, <2>3, IdleKept
<1>6. CASE Writeback \/ UNCHANGED vars
  <2>1. UNCHANGED <<file, buf, is_open, tables, data, proc, job, pc>>
    BY <1>6 DEF Writeback, vars, logVars, storeVars, ctlVars
  <2> QED BY <2>1 DEF Kept
<1> QED
  BY <1>1, <1>2, <1>3, <1>4, <1>5, <1>6 DEF Call

LEMMA NextKept ==
  ASSUME GoodLog, TypeOK, TypeOK', StoreInv, NEW a, Kept(a), [Next]_vars, ~PowerLoss
  PROVE  Kept(a)'
BY StepKept, OtherKept DEF Next

\* A smaller set is easier to keep.
LEMMA FewerKept ==
  ASSUME NEW a, NEW b, b \subseteq a, Kept(a)'
  PROVE  Kept(b)'
<1>1. \A snap, f, c : SafeFor(snap, f, c, a) => SafeFor(snap, f, c, b)
  BY DEF SafeFor
<1> QED BY <1>1 DEF Kept

-----------------------------------------------------------------------------
\* Every commit is synced, and the power stays on.
SafeEnvironment == SyncOnCommit = TRUE /\ InLimits /\ Faults \subseteq SafeFaults

\* The commit is acknowledged: its snapshot is the last one in the file.
LEMMA CommitKept ==
  ASSUME SyncOnCommit, TypeOK, StoreInv, CommitReturns, Kept(acked)
  PROVE  Kept(acked \cup cur)'
<1>1. /\ job = "commit" /\ pc = "saved" /\ job' = "none" /\ cur' = {} /\ acked' = acked \cup cur
      /\ UNCHANGED <<file, buf, tables, data>>
  BY DEF CommitReturns, Return, NoJob, logVars, storeVars
<1>2. /\ buf = <<>> /\ is_open /\ TablesLogged
      /\ acked \subseteq tables /\ cur \subseteq tables
  BY <1>1 DEF StoreInv, ControlInv, LogInv, CommitInv, Kept
<1>3. file \in Seq(Rec) /\ Log = file /\ ReadRecords(file) = file
  BY <1>1, <1>2, OpenLogRead, ConcatEmptySeq DEF Log, StoreInv
<1>4. PICK a : a = acked \cup cur
  OBVIOUS
<1>5. a \subseteq Outcome(data.snap, ReadRecords(file)) /\ a \subseteq tables
  BY <1>2, <1>3, <1>4 DEF Outcome, TablesLogged
<1>6. SafeFor(data.snap, file, <<>>, a)
  BY <1>3, <1>5, SafeFile
<1>7. Kept(a)'
  BY <1>1, <1>2, <1>5, <1>6, IdleKept
<1>8. (acked \cup cur)' = a
  BY <1>1, <1>4
<1> QED BY <1>7, <1>8 DEF Kept

\* The inductive invariant holds throughout: at every step of every operation
\* (PersistCommittedTables, Checkpoint, Close, Open), a process that dies there
\* loses no acknowledged commit.
THEOREM DurabilityInductive ==
  ASSUME SafeEnvironment
  PROVE  Spec => []DurabilityInv
<1>0. GoodLog /\ SyncOnCommit /\ "power" \notin Faults
  BY DEF SafeEnvironment, GoodLog, SafeFaults
<1>1. Init => Kept(acked)
  BY DEF Init, LogInit, Kept, SafeFor
<1>2. TypeOK /\ TypeOK' /\ StoreInv /\ Kept(acked) /\ [Next]_vars => Kept(acked)'
  <2> SUFFICES ASSUME TypeOK, TypeOK', StoreInv, Kept(acked), [Next]_vars
               PROVE  Kept(acked)'
    OBVIOUS
  <2>1. CASE CommitReturns
    <3>1. (acked \cup cur)' = acked'
      BY <2>1 DEF CommitReturns, Return, NoJob
    <3>2. Kept(acked \cup cur)'
      BY <1>0, <2>1, CommitKept
    <3> QED BY <3>1, <3>2 DEF Kept
  <2>2. CASE ~CommitReturns
    <3>1. acked' = acked
      BY <2>2
         DEF Next, Step, Call, Kill, PowerLoss, Writeback, WriteTemp, Rename,
             RenameFails, RemoveData, AppendStep, FlushStep, SyncStep,
             TruncateStep, TruncateSyncStep, CloseLog, LoadTables, Created,
             OpenLog, Recover, RecoverFails, RecoverRefuses, Recovered, BeginOpen,
             BeginCheckpoint, BeginClose, Destroy, BeginCommit, Fail,
             OpenReturns, ProcessDies, histVars, vars
    <3>2. PICK a : a = acked
      OBVIOUS
    <3>3. Kept(a)
      BY <3>2
    <3>4. ~PowerLoss
      BY <1>0 DEF PowerLoss, LogPowerLoss
    <3>5. Kept(a)'
      BY <1>0, <3>3, <3>4, NextKept
    <3> QED BY <3>1, <3>2, <3>5
  <2> QED BY <2>1, <2>2
<1>3. StoreInv /\ Kept(acked) => DurabilityInv
  BY DEF DurabilityInv
<1>4. Spec => []TypeOK /\ []StoreInv
  BY <1>0, TypeCorrect, StoreInductive
<1> QED BY <1>1, <1>2, <1>3, <1>4, PTL DEF Spec

\* A commit that returned Ok is in every Database that Open returns from then
\* on, for every number of transactions, crashes and checkpoints: what
\* PersistCommittedTables and RecoverCommittedTables promise together.
THEOREM Durability ==
  ASSUME SafeEnvironment
  PROVE  Spec => []AckedSurvive
<1>1. DurabilityInv => AckedSurvive
  BY DEF DurabilityInv, Kept, AckedSurvive
<1> QED BY <1>1, DurabilityInductive, PTL

-----------------------------------------------------------------------------
\* Recovery, with and without sync_on_commit.

\* What Open returns is what the next Open finds.
LEMMA OpenedKept ==
  ASSUME TypeOK, StoreInv, Recover \/ Recovered, proc' = "up"
  PROVE  opened' = tables' /\ Kept(opened)'
<1>1. /\ job = "open" /\ proc = "opening" /\ is_open /\ buf = <<>> /\ data = Whole(tables)
      /\ UNCHANGED <<file, buf, data>>
  BY DEF Recover, Recovered, logVars, storeVars, StoreInv, ControlInv, LogInv, FileInv
<1>2. file \in Seq(Rec) /\ Log = file /\ ReadRecords(file) = file
  BY <1>1, OpenLogRead, ConcatEmptySeq DEF Log, StoreInv
<1>3. OpenReturns /\ tables' = tables
  BY <1>1 DEF Recover, Recovered, storeVars
<1>4. Outcome(tables, file) = tables
  <2>1. CASE Recover
    BY <1>1, <1>2, <2>1 DEF Recover, Outcome
  <2>2. CASE Recovered
    BY <1>1, <1>2, <2>2 DEF Recovered, StoreInv, CommitInv, TablesLogged, Outcome
  <2> QED BY <2>1, <2>2
<1>5. PICK a : a = tables
  OBVIOUS
<1>6. data.snap = tables
  BY <1>1, WholeFields
<1>7. SafeFor(data.snap, file, <<>>, a)
  BY <1>2, <1>4, <1>5, <1>6, SafeFile
<1>8. Kept(a)'
  BY <1>1, <1>3, <1>5, <1>7, IdleKept DEF OpenReturns, NoJob
<1> QED BY <1>3, <1>5, <1>8 DEF OpenReturns

\* Recovery never goes back: what one Open returned is in what the next Open
\* returns, whichever process was killed in between and at whichever step of
\* its recovery (RecoverCommittedTables saves what it replays).
THEOREM RecoveryNeverGoesBack ==
  ASSUME InLimits, Faults \subseteq SafeFaults
  PROVE  Spec => RecoveryMonotone
<1>0. GoodLog /\ "power" \notin Faults
  BY DEF GoodLog, SafeFaults
<1>1. Init => Kept(opened)
  BY DEF Init, LogInit, Kept, SafeFor
<1>2. TypeOK /\ TypeOK' /\ StoreInv /\ Kept(opened) /\ [Next]_vars
        => Kept(opened)' /\ (proc' = "up" => opened \subseteq tables')
  <2> SUFFICES ASSUME TypeOK, TypeOK', StoreInv, Kept(opened), [Next]_vars
               PROVE  Kept(opened)' /\ (proc' = "up" => opened \subseteq tables')
    OBVIOUS
  <2>1. PICK a : a = opened
    OBVIOUS
  <2>2. ~PowerLoss
    BY <1>0 DEF PowerLoss, LogPowerLoss
  <2>3. Kept(a)'
    BY <1>0, <2>1, <2>2, NextKept
  <2>4. proc' = "up" => opened \subseteq tables'
    BY <2>1, <2>3 DEF Kept
  <2>5. CASE (Recover \/ Recovered) /\ proc' = "up"
    BY <2>4, <2>5, OpenedKept
  <2>6. CASE ~((Recover \/ Recovered) /\ proc' = "up")
    <3>1. opened' = opened
      BY <2>6
         DEF Next, Step, Call, Kill, PowerLoss, Writeback, WriteTemp, Rename,
             RenameFails, RemoveData, AppendStep, FlushStep, SyncStep,
             CommitReturns, TruncateStep, TruncateSyncStep, CloseLog, LoadTables,
             Created, OpenLog, Recover, RecoverFails, RecoverRefuses, Recovered, BeginOpen,
             BeginCheckpoint, BeginClose, Destroy, BeginCommit, Fail,
             OpenReturns, NoJob, ProcessDies, histVars, vars
    <3> QED BY <2>1, <2>3, <2>4, <3>1
  <2> QED BY <2>5, <2>6
<1>3. Spec => []TypeOK /\ []StoreInv
  BY <1>0, TypeCorrect, StoreInductive
<1>4. TypeOK /\ TypeOK' /\ StoreInv /\ Kept(opened) /\ [Next]_vars
        => [proc = "opening" /\ proc' = "up" => opened \subseteq tables']_vars
  BY <1>2
<1> QED BY <1>1, <1>2, <1>3, <1>4, PTL DEF Spec, RecoveryMonotone

-----------------------------------------------------------------------------
\* A clean Close, with and without sync_on_commit.

\* Close has written out the log, which ends with no older tables than the
\* data file holds.
LEMMA ClosedKept ==
  ASSUME GoodLog, TypeOK, TypeOK', StoreInv, CloseLog, job = "close", pc = "saved",
         NEW a, a = tables \ failed
  PROVE  Kept(a)'
<1>1. /\ buf' = <<>> /\ file' = file \o buf /\ data' = data /\ job' = "none"
      /\ tables' = tables
  BY NoOtherFaults DEF CloseLog, Close, Drained, Gone, NoJob
<1>2. data.snap = tables /\ cur = {} /\ proc \in {"up", "closed"}
  BY WholeFields DEF StoreInv, FileInv, CommitInv, ControlInv
<1>3. a \subseteq Outcome(tables, ReadRecords(file'))
  BY <1>1, <1>2 DEF StoreInv, CommitInv, Log
<1>4. SafeFor(data.snap, file', <<>>, a)
  BY <1>2, <1>3, SafeFile DEF TypeOK, LogTypeOK
<1> QED BY <1>1, <1>4, IdleKept

\* A Database closed without error keeps all it holds, refused commits apart:
\* Close saves the tables and writes out the buffered log, so that no older
\* snapshot in the log overrules the data file at the next Open, whoever is
\* killed then (and until the power fails).
THEOREM CloseKeeps ==
  ASSUME GoodLog
  PROVE  Spec => []CleanCloseDurable
<1> DEFINE K == closedWith \ failed
<1>1. Init => Kept(K)
  BY DEF Init, LogInit, Kept, SafeFor
<1>2. TypeOK /\ TypeOK' /\ StoreInv /\ Kept(K) /\ [Next]_vars => Kept(K)'
  <2> SUFFICES ASSUME TypeOK, TypeOK', StoreInv, Kept(K), [Next]_vars
               PROVE  Kept(K)'
    OBVIOUS
  <2>0. PICK b : b = K'
    OBVIOUS
  <2>1. SUFFICES Kept(b)'
    BY <2>0 DEF Kept
  <2>2. CASE CloseLog /\ job = "close" /\ pc = "saved"
    <3>1. b = tables \ failed
      BY <2>0, <2>2 DEF CloseLog
    <3> QED BY <2>2, <3>1, ClosedKept
  <2>3. CASE PowerLoss
    <3>1. b = {} /\ job' = "none" /\ proc' = "down"
      BY <2>0, <2>3 DEF PowerLoss, ProcessDies, Gone, NoJob
    <3>2. SafeFor(data'.snap, file', buf', b)
      BY <3>1 DEF SafeFor
    <3> QED BY <3>1, <3>2, IdleKept
  <2>4. CASE ~PowerLoss /\ ~(CloseLog /\ job = "close" /\ pc = "saved")
    <3>1. closedWith' = closedWith /\ failed \subseteq failed'
      BY <2>4
         DEF Next, Step, Call, Kill, Writeback, WriteTemp, Rename,
             RenameFails, RemoveData, AppendStep, FlushStep, SyncStep,
             CommitReturns, TruncateStep, TruncateSyncStep, CloseLog, LoadTables,
             Created, OpenLog, Recover, RecoverFails, RecoverRefuses, Recovered, BeginOpen,
             BeginCheckpoint, BeginClose, Destroy, BeginCommit, Fail,
             OpenReturns, ProcessDies, histVars, vars
    <3>2. PICK a : a = K
      OBVIOUS
    <3>3. Kept(a) /\ b \subseteq a
      BY <2>0, <3>1, <3>2
    <3>4. Kept(a)'
      BY <2>4, <3>3, NextKept
    <3> QED BY <3>3, <3>4, FewerKept
  <2> QED BY <2>2, <2>3, <2>4
<1>3. Kept(K) => CleanCloseDurable
  BY DEF Kept, CleanCloseDurable
<1>4. Spec => []TypeOK /\ []StoreInv
  BY TypeCorrect, StoreInductive
<1> HIDE DEF K
<1> QED BY <1>1, <1>2, <1>3, <1>4, PTL DEF Spec

-----------------------------------------------------------------------------
(***************************************************************************)
(* No recovered state has a transaction whose COMMIT was not appended.     *)
(* This needs that every commit of an open Database reaches its COMMIT: a  *)
(* failing Append, a snapshot too large for a record and a Truncate that   *)
(* leaves the log closed all leave the effects of a refused commit in the  *)
(* tables, from where the next snapshot takes them; so does a commit on a  *)
(* closed Database that a late Checkpoint saves.  Failing syncs, flushes   *)
(* and saves, torn tails that stay, and power failures do no harm.         *)
(***************************************************************************)
CommitsAreLogged == Faults \cap {"append", "large", "truncate", "late"} = {}

OpenInv ==
  /\ job = "none" <=> pc = "idle"
  /\ pc \in {"begin", "update", "commit", "flush", "sync"} => job = "commit"
  /\ pc \in {"load", "walopen", "recover"} => job = "open"
  /\ pc = "truncsync" => job = "checkpoint"
  /\ job \in {"open", "abort"} <=> proc = "opening"
  /\ job \in {"commit", "checkpoint", "close"} => proc \in {"up", "closed"}
  /\ proc = "up" => is_open
  /\ pc = "recover" => is_open
  /\ pc \in {"load", "walopen"} \/ proc \in {"down", "closed"} => ~is_open
  /\ proc = "closed" => job = "none" \/ (job = "commit" /\ pc = "begin")
  /\ proc # "up" => buf = <<>>

\* The snapshots outside the log.
SnapInv ==
  /\ opened \subseteq logged
  /\ data.snap \subseteq logged /\ dataStable.snap \subseteq logged
  /\ pc \in {"rename", "remove", "rerename"} => temp.snap \subseteq logged
  /\ proc # "closed" => tables \subseteq logged \cup cur
  /\ pc \notin {"begin", "update", "commit"} => cur \subseteq logged

\* The records Open can come to read from this file and buffer.
Known == Readable(file) \cup Range(buf)

\* An UPDATE that some COMMIT completes holds logged transactions only.
Sound(S, l) ==
  \A u, k \in S :
    (u.type = "update" /\ k.type = "commit" /\ u.txn_id = k.txn_id)
      => u.payload \subseteq l

\* The transaction ids of the UPDATEs and COMMITs are below n; n - 1 is that of
\* the commit in progress at step s.
Numbers(S, n, s, tabs) ==
  \A r \in S :
    r.type \in {"update", "commit"} =>
      /\ r.txn_id < n
      /\ s \in {"begin", "update"} => r.txn_id # n - 1
      /\ s = "commit" /\ r.txn_id = n - 1
           => r.type = "update" /\ r.payload \subseteq tabs

\* next_wal_txn has been set from the log.
Numbered == proc = "up" \/ (job = "open" /\ is_open /\ pc # "recover")

RecordInv ==
  /\ Sound(Known, logged) /\ Sound(Readable(stable), logged)
  /\ Numbered => Numbers(Known, next_wal_txn, pc, tables)

LoggedInv == OpenInv /\ SnapInv /\ RecordInv

LEMMA InitLogged == Init => LoggedInv
<1> SUFFICES ASSUME Init PROVE LoggedInv
  OBVIOUS
<1>1. buf = <<>> /\ file = <<>> /\ stable = <<>> /\ is_open = FALSE
  BY DEF Init, LogInit
<1>2. data.snap = {} /\ dataStable = data
  BY DEF Init, Whole, Bad, Missing
<1>3. Readable(<<>>) = {} /\ Range(<<>>) = {}
  BY DEF Readable, Range
<1>4. OpenInv
  BY <1>1 DEF Init, OpenInv
<1>5. SnapInv
  BY <1>2 DEF Init, SnapInv
<1>6. RecordInv
  BY <1>1, <1>3 DEF Init, RecordInv, Known, Sound, Numbered
<1> QED BY <1>4, <1>5, <1>6 DEF LoggedInv

-----------------------------------------------------------------------------
\* The control of the log.

LEMMA FailOpen ==
  ASSUME OpenInv, Fail, is_open' = is_open \/ job = "open",
         buf' = buf \/ (job = "commit" /\ proc = "up")
  PROVE  OpenInv'
<1>1. CASE job = "commit" \/ job = "checkpoint"
  BY <1>1 DEF OpenInv, Fail, Return, NoJob
<1>2. CASE job \in {"close", "abort"}
  BY <1>2 DEF OpenInv, Fail, Goto
<1>3. CASE job = "open"
  BY <1>3 DEF OpenInv, Fail
<1> QED BY <1>1, <1>2, <1>3 DEF Fail

LEMMA StepOpen ==
  ASSUME CommitsAreLogged, TypeOK, OpenInv, Step
  PROVE  OpenInv'
<1>0. "append" \notin Faults /\ "large" \notin Faults /\ "truncate" \notin Faults
      /\ "late" \notin Faults /\ is_open \in BOOLEAN
  BY DEF CommitsAreLogged, TypeOK, LogTypeOK
<1>1. CASE WriteTemp
  <2>1. buf' = buf /\ is_open' = is_open
    BY <1>1 DEF WriteTemp, logVars
  <2>2. CASE Goto("rename")
    BY <1>1, <2>1, <2>2 DEF WriteTemp, OpenInv, Goto
  <2>3. CASE Fail
    BY <2>1, <2>3, FailOpen, Zenon
  <2> QED BY <1>1, <2>2, <2>3 DEF WriteTemp
<1>2. CASE Rename
  BY <1>2 DEF Rename, OpenInv, Goto, logVars
<1>3. CASE RenameFails
  <2>1. buf' = buf /\ is_open' = is_open
    BY <1>3 DEF RenameFails, logVars
  <2>2. CASE Goto("remove") /\ pc = "rename"
    BY <2>1, <2>2 DEF OpenInv, Goto
  <2>3. CASE Fail
    BY <2>1, <2>3, FailOpen, Zenon
  <2> QED BY <1>3, <2>2, <2>3 DEF RenameFails
<1>4. CASE RemoveData
  BY <1>4 DEF RemoveData, OpenInv, Goto, logVars
<1>5. CASE AppendStep
  <2>1. job = "commit"
    BY <1>5 DEF AppendStep, OpenInv
  <2>2. CASE Fail
    <3>1. is_open' = is_open /\ (buf' = buf \/ is_open)
      BY <1>5 DEF AppendStep, AppendRecord, AppendFails, logVars
    <3> QED BY <2>1, <2>2, <3>1, FailOpen DEF OpenInv
  <2>3. CASE ~Fail
    <3>1. /\ is_open /\ is_open' = is_open /\ pc' = AfterAppend(pc)
          /\ pc \in {"begin", "update", "commit"} /\ UNCHANGED <<proc, job>>
      BY <1>5, <2>3 DEF AppendStep, AppendRecord
    <3>2. pc' \in {"update", "commit", "flush", "temp"}
      BY <3>1 DEF AfterAppend
    <3> QED BY <2>1, <3>1, <3>2 DEF OpenInv
  <2> QED BY <2>2, <2>3
<1>6. CASE FlushStep
  <2>1. is_open' = is_open /\ is_open /\ job = "commit" /\ proc = "up"
    BY <1>6 DEF FlushStep, FlushStream, FlushStreamFails, OpenInv
  <2>2. CASE Goto("sync")
    BY <1>6, <2>1, <2>2 DEF OpenInv, Goto
  <2>3. CASE Fail
    BY <2>1, <2>3, FailOpen, Zenon
  <2> QED BY <1>6, <2>2, <2>3 DEF FlushStep
<1>7. CASE SyncStep
  <2>1. buf' = buf /\ is_open' = is_open
    BY <1>7 DEF SyncStep, SyncFile, SyncFileFails, logVars
  <2>2. CASE Goto("temp")
    BY <1>7, <2>1, <2>2 DEF SyncStep, OpenInv, Goto
  <2>3. CASE Fail
    BY <2>1, <2>3, FailOpen, Zenon
  <2> QED BY <1>7, <2>2, <2>3 DEF SyncStep
<1>8. CASE CommitReturns
  BY <1>8 DEF CommitReturns, OpenInv, Return, NoJob, logVars
<1>9. CASE TruncateStep
  <2>1. proc = "up" /\ is_open
    BY <1>9 DEF TruncateStep, OpenInv
  <2>2. Truncate /\ Goto("truncsync")
    BY <1>0, <1>9, <2>1 DEF TruncateStep, TruncateFails
  <2> QED BY <1>9, <2>1, <2>2 DEF TruncateStep, Truncate, Goto, OpenInv
<1>10. CASE TruncateSyncStep
  <2>1. buf' = buf /\ is_open' = is_open
    BY <1>10 DEF TruncateSyncStep, SyncFile, SyncFileFails, logVars
  <2>2. CASE Return
    BY <1>10, <2>1, <2>2 DEF TruncateSyncStep, OpenInv, Return, NoJob
  <2>3. CASE Fail
    BY <2>1, <2>3, FailOpen, Zenon
  <2> QED BY <1>10, <2>2, <2>3 DEF TruncateSyncStep
<1>11. CASE CloseLog
  BY <1>11 DEF CloseLog, Close, OpenInv, NoJob, Gone
<1>12. CASE LoadTables
  <2>1. buf' = buf /\ is_open' = is_open /\ pc = "load"
    BY <1>12 DEF LoadTables, logVars
  <2>2. CASE Goto("walopen") \/ Goto("temp")
    BY <2>1, <2>2 DEF OpenInv, Goto
  <2>3. CASE Fail
    BY <2>1, <2>3, FailOpen, Zenon
  <2> QED BY <1>12, <2>2, <2>3 DEF LoadTables
<1>13. CASE Created
  BY <1>13 DEF Created, OpenInv, Goto, logVars
<1>14. CASE OpenLog
  <2>1. buf' = buf /\ pc = "walopen" /\ job = "open"
    BY <1>14 DEF OpenLog, Open, OpenFails, OpenInv
  <2>2. CASE Open /\ Goto("recover")
    BY <2>1, <2>2 DEF Open, OpenInv, Goto
  <2>3. CASE Fail
    BY <2>1, <2>3, FailOpen, Zenon
  <2> QED BY <1>14, <2>2, <2>3 DEF OpenLog
<1>15. CASE Recover
  <2>1. buf' = buf /\ is_open' = is_open /\ pc = "recover"
    BY <1>15 DEF Recover, logVars
  <2>2. CASE pc' = "temp" /\ UNCHANGED <<proc, job>>
    BY <2>1, <2>2 DEF OpenInv
  <2>3. CASE OpenReturns
    BY <2>1, <2>3 DEF OpenInv, OpenReturns, NoJob
  <2> QED BY <1>15, <2>2, <2>3 DEF Recover
<1>16. CASE RecoverFails
  <2>1. buf' = buf /\ is_open' = is_open /\ Fail
    BY <1>16 DEF RecoverFails, logVars
  <2> QED BY <2>1, FailOpen, Zenon
<1>17. CASE Recovered
  BY <1>17 DEF Recovered, OpenInv, OpenReturns, NoJob, logVars
<1>18. CASE RecoverRefuses
  <2>1. buf' = buf /\ is_open' = is_open /\ Fail
    BY <1>18 DEF RecoverRefuses, logVars
  <2> QED BY <2>1, FailOpen, Zenon
<1> QED
  BY <1>1, <1>2, <1>3, <1>4, <1>5, <1>6, <1>7, <1>8, <1>9, <1>10, <1>11, <1>12,
     <1>13, <1>14, <1>15, <1>16, <1>17, <1>18 DEF Step

LEMMA OtherOpen ==
  ASSUME CommitsAreLogged, TypeOK, OpenInv,
         Call \/ Kill \/ PowerLoss \/ Writeback \/ UNCHANGED vars
  PROVE  OpenInv'
<1>0. "late" \notin Faults
  BY DEF CommitsAreLogged
<1>1. CASE BeginOpen
  BY <1>1 DEF BeginOpen, OpenInv
<1>2. CASE BeginCheckpoint
  BY <1>0, <1>2 DEF BeginCheckpoint, PassedCheck, OpenInv, logVars
<1>3. CASE BeginClose
  BY <1>0, <1>3 DEF BeginClose, PassedCheck, OpenInv, logVars
<1>4. CASE Destroy
  BY <1>4 DEF Destroy, Gone, NoJob, OpenInv, logVars
<1>5. ASSUME NEW t \in Txns, BeginCommit(t)
      PROVE  OpenInv'
  BY <1>5 DEF BeginCommit, OpenInv, logVars
<1>6. CASE Kill
  BY <1>6 DEF Kill, LogKill, LogProcessDies, ProcessDies, Gone, NoJob, OpenInv
<1>7. CASE PowerLoss
  BY <1>7 DEF PowerLoss, LogPowerLoss, LogProcessDies, ProcessDies, Gone, NoJob,
              OpenInv
<1>8. CASE Writeback
  BY <1>8 DEF Writeback, logVars, ctlVars, OpenInv
<1>9. CASE UNCHANGED vars
  BY <1>9 DEF vars, logVars, ctlVars, OpenInv
<1> QED
  BY <1>1, <1>2, <1>3, <1>4, <1>5, <1>6, <1>7, <1>8, <1>9 DEF Call
-----------------------------------------------------------------------------
\* The records of the log.

\* Every transaction id of the log is below the next one.
LEMMA NextTxnAbove ==
  ASSUME NEW r \in Seq(Rec), NEW n \in Nat
  PROVE  \A x \in Range(r) : x.txn_id < MaxOf({n, LargestTxn(r) + 1})
<1> DEFINE S == {0} \cup {r[i].txn_id : i \in 1..Len(r)}
           T == {n, LargestTxn(r) + 1}
<1>1. \A i \in 1..Len(r) : r[i].txn_id \in Nat
  BY RecordFields, ElementOfSeq
<1>2. PICK b \in Nat : \A i \in 1..Len(r) : r[i].txn_id <= b
  BY TxnIdsBounded
<1>3. S \in SUBSET Nat /\ S # {} /\ \A m \in S : m <= b
  BY <1>1, <1>2
<1>4. LargestTxn(r) \in S /\ \A m \in S : m <= LargestTxn(r)
  <2> HIDE DEF S
  <2>1. MaxOf(S) \in S /\ \A m \in S : m <= MaxOf(S)
    BY <1>3, MaxOfBounded
  <2> QED BY <2>1 DEF S, LargestTxn
<1>5. LargestTxn(r) \in Nat
  BY LargestTxnType
<1> HIDE DEF S
<1>6. T \in SUBSET Nat /\ T # {} /\ n + LargestTxn(r) + 1 \in Nat
      /\ \A m \in T : m <= n + LargestTxn(r) + 1
  BY <1>5
<1> HIDE DEF T
<1>7. MaxOf(T) \in T /\ \A m \in T : m <= MaxOf(T)
  BY <1>6, MaxOfBounded
<1>8. MaxOf(T) \in Nat /\ LargestTxn(r) + 1 <= MaxOf(T)
  BY <1>6, <1>7 DEF T
<1>9. \A i \in 1..Len(r) : r[i].txn_id < MaxOf(T)
  BY <1>1, <1>4, <1>5, <1>8 DEF S
<1>10. \A x \in Range(r) : \E i \in 1..Len(r) : x = r[i]
  BY DEF Range
<1>11. \A x \in Range(r) : x.txn_id < MaxOf(T)
  BY <1>9, <1>10
<1> QED BY <1>11 DEF T

\* Both conditions on a set of records hold of its subsets, and soundness
\* when more is logged.
LEMMA FewerRecords ==
  ASSUME NEW S, NEW R \in SUBSET S
  PROVE  /\ \A l, m : Sound(S, l) /\ l \subseteq m => Sound(R, m)
         /\ \A n, s, tabs : Numbers(S, n, s, tabs) => Numbers(R, n, s, tabs)
BY DEF Sound, Numbers

\* A step of the log that only loses or copies records, and does not begin to
\* number them.
LEMMA QuietRecords ==
  ASSUME RecordInv, Known' \subseteq Known,
         Readable(stable)' \subseteq Readable(stable)
           \/ Readable(stable)' \subseteq Known,
         logged \subseteq logged',
         Numbered' => Numbered /\ next_wal_txn' = next_wal_txn,
         pc' \notin {"begin", "update", "commit"}
           \/ (pc' = pc /\ tables' = tables)
  PROVE  RecordInv'
<1>1. Sound(Known, logged) /\ Sound(Readable(stable), logged)
  BY DEF RecordInv
<1>2. Sound(Known', logged')
  BY <1>1, FewerRecords
<1>3. Sound(Readable(stable)', logged')
  BY <1>1, FewerRecords
<1>4. ASSUME Numbered'
      PROVE  Numbers(Known', next_wal_txn', pc', tables')
  <2>1. Numbers(Known, next_wal_txn, pc, tables) /\ next_wal_txn' = next_wal_txn
    BY <1>4 DEF RecordInv
  <2>2. Numbers(Known', next_wal_txn, pc, tables)
    BY <2>1, FewerRecords
  <2> QED BY <2>1, <2>2 DEF Numbers
<1> QED BY <1>2, <1>3, <1>4 DEF RecordInv

LEMMA SameLogKnown ==
  ASSUME UNCHANGED logVars
  PROVE  Known' = Known /\ Readable(stable)' = Readable(stable)
BY DEF logVars, Known, Readable

\* Closing, flushing and cutting lose or copy records only.
LEMMA LosesRecords ==
  ASSUME LogTypeOK,
         \/ CutTail /\ UNCHANGED <<buf, stable>>
         \/ \E through : FlushStream(through)
         \/ FlushStreamFails \/ SyncFile \/ Truncate \/ Close \/ LogKill
  PROVE  /\ Known' \subseteq Known
         /\ \/ Readable(stable)' \subseteq Readable(stable)
            \/ Readable(stable)' \subseteq Known
<1>0. /\ file \in Seq(Rec) /\ buf \in Seq(Rec) /\ stable \in Seq(Rec)
      /\ kept \in 0..Len(file) /\ Range(<<>>) = {}
  BY DEF LogTypeOK, Range
<1>1. Readable(file \o buf) \subseteq Readable(file) \cup Range(buf)
  BY <1>0, ReadableConcat
<1>2. CASE CutTail /\ UNCHANGED <<buf, stable>>
  <2>1. PICK n \in 0..Len(file) : file' = FirstOf(file, n)
    BY <1>0, <1>2, ReadRecordsFacts DEF CutTail
  <2>2. FirstOf(file, n) \in Seq(Rec) /\ Prefix(FirstOf(file, n), file)
    BY <1>0, FirstOfFacts DEF Prefix
  <2>3. Readable(file') \subseteq Readable(file)
    BY <1>0, <2>1, <2>2, ReadableGrows
  <2> QED BY <1>2, <2>3 DEF Known
<1>3. CASE \E through : FlushStream(through)
  <2>1. file' = file \o buf /\ buf' = <<>> /\ stable' = stable
    BY <1>3 DEF FlushStream
  <2> QED BY <1>0, <1>1, <2>1 DEF Known
<1>4. CASE FlushStreamFails
  <2>1. PICK p \in Pieces(buf, 0) : file' = file \o p
    BY <1>4 DEF FlushStreamFails
  <2>2. Readable(file') \subseteq Readable(file) \cup Range(buf)
    BY <1>0, <2>1, ReadableBehind
  <2> QED BY <1>4, <2>2 DEF Known, FlushStreamFails
<1>5. CASE SyncFile
  <2>1. stable' = file /\ file' = file /\ buf' = buf
    BY <1>5 DEF SyncFile
  <2> QED BY <2>1 DEF Known
<1>6. CASE Truncate
  <2>1. file' = <<>> /\ buf' = <<>> /\ stable' = stable
    BY <1>6 DEF Truncate
  <2>2. Readable(<<>>) = {}
    BY DEF Readable
  <2> QED BY <1>0, <2>1, <2>2 DEF Known
<1>7. CASE Close
  <2>1. /\ buf' = <<>> /\ stable' = stable
        /\ \E p \in Pieces(buf, 0) \cup {buf} : file' = file \o p
    BY <1>7 DEF Close, Drained
  <2>2. Readable(file') \subseteq Readable(file) \cup Range(buf)
    BY <1>0, <1>1, <2>1, ReadableBehind
  <2> QED BY <1>0, <2>1, <2>2 DEF Known
<1>8. CASE LogKill
  <2>1. buf' = <<>> /\ stable' = stable /\ (file' = file \/ file' = Append(file, Torn))
    BY <1>8 DEF LogKill, LogProcessDies
  <2>2. Readable(file') \subseteq Readable(file)
    BY <1>0, <2>1, ReadableTorn
  <2> QED BY <1>0, <2>1, <2>2 DEF Known
<1> QED BY <1>2, <1>3, <1>4, <1>5, <1>6, <1>7, <1>8
\* A power failure leaves the synced records, or some of the file's.
LEMMA PowerRecords ==
  ASSUME LogTypeOK, RecordInv, LogPowerLoss, logged' = logged, ~Numbered'
  PROVE  RecordInv'
<1>0. /\ file \in Seq(Rec) /\ kept \in Nat /\ Range(<<>>) = {}
  BY DEF LogTypeOK, Range
<1>1. buf' = <<>> /\ stable' = file' /\ file' \in {stable} \cup Pieces(file, kept)
  BY DEF LogPowerLoss, LogProcessDies
<1>2. Readable(file') \subseteq Readable(stable) \/ Readable(file') \subseteq Known
  BY <1>0, <1>1, ReadablePieces DEF Known
<1>3. Known' = Readable(file') /\ Readable(stable)' = Readable(file')
  BY <1>0, <1>1 DEF Known
<1>4. Sound(Readable(file'), logged)
  BY <1>2, FewerRecords DEF RecordInv
<1> QED BY <1>3, <1>4 DEF RecordInv

\* AppendRecord adds its record.
LEMMA AppendKnown ==
  ASSUME LogTypeOK, NEW t \in Nat, NEW p \in Nat, NEW k \in LogRecordType,
         NEW l \in Payload \cup {NoPayload}, AppendRecord(t, p, k, l)
  PROVE  /\ Known' \subseteq Known \cup {NewRecord(t, p, k, l)}
         /\ stable' = stable
<1> DEFINE x == NewRecord(t, p, k, l)
           all == Append(buf, x)
<1>1. file \in Seq(Rec) /\ buf \in Seq(Rec) /\ x \in Rec
  BY DEF LogTypeOK, NewRecord, LogRecord, Rec
<1>2. PICK n \in 0..Len(all) :
        file' = file \o FirstOf(all, n) /\ buf' = SubSeq(all, n + 1, Len(all))
  BY DEF AppendRecord
<1> HIDE DEF x
<1>3. /\ all \in Seq(Rec) /\ Len(all) = Len(buf) + 1 /\ all[Len(buf) + 1] = x
      /\ \A i \in 1..Len(buf) : all[i] = buf[i]
  BY <1>1
<1> HIDE DEF all
<1> DEFINE g == FirstOf(all, n)
<1>4. g \in Seq(Rec) /\ Len(g) = n /\ \A i \in 1..n : g[i] = all[i]
  BY <1>3, FirstOfFacts
<1>5. /\ buf' \in Seq(Rec) /\ Len(buf') = Len(all) - n
      /\ \A i \in 1..Len(buf') : buf'[i] = all[i + n]
  <2>1. /\ all \in Seq(Rec) /\ Len(all) \in Nat /\ n \in Nat /\ n <= Len(all)
        /\ buf' = SubSeq(all, n + 1, Len(all))
    BY <1>2, <1>3
  <2>2. /\ Len(buf') = Len(all) - n
        /\ \A i \in 1..(Len(all) - n) : buf'[i] = all[i + n]
    BY <2>1
  <2>3. buf' \in Seq(Rec)
    BY <2>1, SMTT(30)
  <2> QED BY <2>2, <2>3
<1>6. file' = file \o g
  BY <1>2
<1> HIDE DEF g
<1>7. /\ Range(all) = {all[i] : i \in 1..Len(all)} /\ Range(g) = {g[i] : i \in 1..n}
      /\ Range(buf') = {buf'[i] : i \in 1..Len(buf')}
      /\ Range(buf) = {buf[i] : i \in 1..Len(buf)}
  <2>1. \A s \in Seq(Rec) : Range(s) = {s[i] : i \in 1..Len(s)}
    BY DEF Range
  <2> QED BY <1>1, <1>3, <1>4, <1>5, <2>1
<1>8. Range(all) \subseteq Range(buf) \cup {x}
  BY <1>1, <1>3, <1>7
<1>9. Range(g) \subseteq Range(all) /\ Range(buf') \subseteq Range(all)
  BY <1>3, <1>4, <1>5, <1>7
<1>10. Readable(file') \subseteq Readable(file) \cup Range(g)
  BY <1>1, <1>4, <1>6, ReadableConcat
<1> QED BY <1>8, <1>9, <1>10 DEF Known, x, AppendRecord

\* What an Append of the commit in progress does to the records: neither does
\* its UPDATE meet a COMMIT of the same id, nor its COMMIT an UPDATE but its
\* own, whose snapshot is the tables.
LEMMA AppendRecords ==
  ASSUME TypeOK, LoggedInv, pc \in {"begin", "update", "commit"}, proc = "up",
         AppendRecord(next_wal_txn - 1, lsn, pc,
                      IF pc = "update" THEN tables ELSE NoPayload),
         logged' = IF pc = "commit" THEN logged \cup cur ELSE logged,
         pc' = AfterAppend(pc),
         next_wal_txn' = next_wal_txn, tables' = tables
  PROVE  RecordInv'
<1> DEFINE n == next_wal_txn
           load == IF pc = "update" THEN tables ELSE NoPayload
           x == NewRecord(n - 1, lsn, pc, load)
<1>1. /\ n - 1 \in Nat /\ n \in Nat /\ lsn \in Nat /\ pc \in LogRecordType
      /\ load \in Payload \cup {NoPayload} /\ LogTypeOK
  BY SnapshotAssumption DEF TypeOK, StoreTypeOK, LogRecordType
<1>2. Known' \subseteq Known \cup {x} /\ stable' = stable
  BY <1>1, AppendKnown
<1>3. x.type = pc /\ x.txn_id = n - 1 /\ (pc = "update" => x.payload = tables)
  BY DEF NewRecord
<1>4. /\ Sound(Known, logged) /\ Sound(Readable(stable), logged)
      /\ Numbers(Known, n, pc, tables)
  BY DEF LoggedInv, RecordInv, Numbered
<1>5. tables \subseteq logged \cup cur
  BY DEF LoggedInv, SnapInv
<1> HIDE DEF x, n
<1>6. Sound(Known \cup {x}, logged')
  <2>1. SUFFICES ASSUME NEW u \in Known \cup {x}, NEW k \in Known \cup {x},
                        u.type = "update", k.type = "commit", u.txn_id = k.txn_id
                 PROVE  u.payload \subseteq logged'
    BY DEF Sound
  <2>2. CASE u \in Known /\ k \in Known
    BY <1>4, <2>1, <2>2 DEF Sound
  <2>3. CASE u = x
    <3>1. pc = "update" /\ k \in Known /\ k.txn_id = n - 1
      BY <1>3, <2>1, <2>3
    <3> QED BY <1>4, <2>1, <3>1 DEF Numbers
  <2>4. CASE u \in Known /\ k = x
    <3>1. pc = "commit" /\ u.txn_id = n - 1
      BY <1>3, <2>1, <2>4
    <3>2. u.payload \subseteq tables
      BY <1>4, <2>1, <2>4, <3>1 DEF Numbers
    <3> QED BY <1>5, <3>1, <3>2
  <2> QED BY <2>1, <2>2, <2>3, <2>4
<1>7. pc' = IF pc = "begin" THEN "update" ELSE IF pc = "update" THEN "commit"
            ELSE IF SyncOnCommit THEN "flush" ELSE "temp"
  BY DEF AfterAppend
<1>8. Numbers(Known \cup {x}, n, pc', tables)
  <2>1. \A r \in Known :
          r.type \in {"update", "commit"} =>
            /\ r.txn_id < n
            /\ pc' \in {"begin", "update"} => r.txn_id # n - 1
            /\ pc' = "commit" /\ r.txn_id = n - 1
                 => r.type = "update" /\ r.payload \subseteq tables
    BY <1>4, <1>7 DEF Numbers
  <2>2. x.type \in {"update", "commit"} =>
          /\ x.txn_id < n
          /\ pc' \in {"begin", "update"} => x.txn_id # n - 1
          /\ pc' = "commit" /\ x.txn_id = n - 1
               => x.type = "update" /\ x.payload \subseteq tables
    BY <1>1, <1>3, <1>7
  <2> QED BY <2>1, <2>2 DEF Numbers
<1>9. Sound(Known', logged') /\ Numbers(Known', n, pc', tables)
  BY <1>2, <1>6, <1>8, FewerRecords
<1>10. Sound(Readable(stable)', logged')
  BY <1>2, <1>4, FewerRecords
<1> QED BY <1>9, <1>10 DEF RecordInv, n

LEMMA StepRecords ==
  ASSUME CommitsAreLogged, TypeOK, LoggedInv, Step
  PROVE  RecordInv'
<1>0. /\ "append" \notin Faults /\ "large" \notin Faults /\ "truncate" \notin Faults
      /\ LogTypeOK /\ OpenInv /\ RecordInv /\ is_open \in BOOLEAN
  BY DEF CommitsAreLogged, TypeOK, LogTypeOK, LoggedInv
<1>1. CASE UNCHANGED logVars /\ logged' = logged /\ ~Recover
           /\ pc \notin {"load", "walopen", "recover"}
  <2>1. Known' = Known /\ Readable(stable)' = Readable(stable)
    BY <1>1, SameLogKnown
  <2>2. /\ Numbered' => Numbered /\ next_wal_txn' = next_wal_txn
        /\ pc' \notin {"begin", "update", "commit"}
    <3>1. is_open' = is_open
      BY <1>1 DEF logVars
    <3>2. CASE Fail
      BY <1>0, <1>1, <3>1, <3>2
         DEF Fail, Return, NoJob, Goto, Numbered, OpenInv
    <3>3. CASE ~Fail
      <4>1. CASE WriteTemp \/ Rename \/ RenameFails \/ RemoveData \/ Created
        BY <1>0, <1>1, <3>1, <3>3, <4>1
           DEF WriteTemp, Rename, RenameFails, RemoveData, Created, Goto, Numbered,
               OpenInv
      <4>2. CASE CommitReturns \/ TruncateStep \/ TruncateSyncStep \/ SyncStep
                 \/ FlushStep \/ Recovered
        BY <1>0, <1>1, <3>1, <3>3, <4>2
           DEF CommitReturns, TruncateStep, TruncateSyncStep, SyncStep, FlushStep,
               Recovered, OpenReturns, Goto, Return, NoJob, Numbered, OpenInv
      <4>3. CASE CloseLog
        BY <4>3 DEF CloseLog, NoJob, Gone, Numbered
      <4>4. CASE AppendStep
        <5>1. next_lsn' = next_lsn /\ next_lsn \in Nat
          BY <1>0, <1>1 DEF logVars, LogTypeOK
        <5> QED BY <3>3, <4>4, <5>1 DEF AppendStep, AppendRecord
      <4> QED
        BY <1>1, <4>1, <4>2, <4>3, <4>4
           DEF Step, LoadTables, OpenLog, RecoverFails, RecoverRefuses, Recover
    <3> QED BY <3>2, <3>3
  <2> QED BY <1>0, <1>1, <2>1, <2>2, QuietRecords
<1>2. CASE AppendStep
  <2>1. storeVars' = storeVars /\ job = "commit" /\ pc \in {"begin", "update", "commit"}
    BY <1>0, <1>2 DEF AppendStep, OpenInv
  <2>2. CASE UNCHANGED logVars /\ Fail
    BY <1>1, <2>1, <2>2 DEF Fail, Recover
  <2>3. CASE ~(UNCHANGED logVars /\ Fail)
    <3>1. is_open
      BY <1>0, <1>2, <2>3 DEF AppendStep, AppendFails, TooLarge, AppendRecord
    <3>2. proc = "up"
      BY <1>0, <2>1, <3>1 DEF OpenInv
    <3>3. /\ AppendRecord(next_wal_txn - 1, lsn, pc,
                          IF pc = "update" THEN tables ELSE NoPayload)
          /\ logged' = IF pc = "commit" THEN logged \cup cur ELSE logged
          /\ pc' = AfterAppend(pc) /\ next_wal_txn' = next_wal_txn
          /\ tables' = tables
      BY <1>0, <1>2, <2>1, <2>3 DEF AppendStep, AppendFails, TooLarge, storeVars
    <3> QED BY <2>1, <3>2, <3>3, AppendRecords
  <2> QED BY <2>2, <2>3
<1>3. CASE FlushStep
  <2>1. /\ job = "commit" /\ pc = "flush" /\ is_open' = is_open
        /\ (\E through : FlushStream(through)) \/ FlushStreamFails
        /\ (Goto("sync") /\ logged' = logged) \/ Fail
    BY <1>0, <1>3 DEF FlushStep, FlushStream, FlushStreamFails, OpenInv, histVars
  <2>2. /\ logged' = logged /\ pc' \notin {"begin", "update", "commit"}
        /\ Numbered' => Numbered /\ next_wal_txn' = next_wal_txn
    BY <2>1 DEF Fail, Return, NoJob, Goto, Numbered
  <2> QED BY <1>0, <2>1, <2>2, LosesRecords, QuietRecords
<1>4. CASE SyncStep \/ TruncateSyncStep
  <2>1. CASE SyncFile
    <3>1. /\ job \in {"commit", "checkpoint"} /\ is_open' = is_open
          /\ logged' = logged
          /\ Goto("temp") \/ Return \/ Fail
      BY <1>0, <1>4, <2>1
         DEF SyncStep, TruncateSyncStep, OpenInv, SyncFile, histVars, Fail
    <3>2. /\ pc' \notin {"begin", "update", "commit"}
          /\ Numbered' => Numbered /\ next_wal_txn' = next_wal_txn
      BY <3>1 DEF Fail, Return, NoJob, Goto, Numbered
    <3> QED BY <1>0, <2>1, <3>1, <3>2, LosesRecords, QuietRecords
  <2>2. CASE SyncFileFails
    <3>1. (UNCHANGED logVars /\ Fail /\ pc \in {"sync", "truncsync"}) \/ SyncFile
      BY <1>4, <2>2 DEF SyncStep, TruncateSyncStep, SyncFileFails
    <3>2. CASE UNCHANGED logVars /\ Fail /\ pc \in {"sync", "truncsync"}
      BY <1>1, <3>2 DEF Fail, Recover, histVars
    <3> QED BY <2>1, <3>1, <3>2
  <2> QED BY <1>4, <2>1, <2>2 DEF SyncStep, TruncateSyncStep
<1>5. CASE TruncateStep
  <2>1. CASE Truncate
    <3>1. /\ is_open' = is_open /\ logged' = logged
          /\ Goto("truncsync") \/ Fail
      BY <1>5, <2>1 DEF TruncateStep, Truncate, histVars, Fail
    <3>2. /\ pc' \notin {"begin", "update", "commit"}
          /\ Numbered' => Numbered /\ next_wal_txn' = next_wal_txn
      BY <1>5, <3>1 DEF TruncateStep, Fail, Return, NoJob, Goto, Numbered
    <3> QED BY <1>0, <2>1, <3>1, <3>2, LosesRecords, QuietRecords
  <2>2. CASE UNCHANGED logVars /\ Fail
    BY <1>1, <1>5, <2>2 DEF TruncateStep, Fail, Recover, histVars
  <2> QED BY <1>0, <1>5, <2>1, <2>2 DEF TruncateStep, TruncateFails
<1>6. CASE CloseLog
  <2>1. Close /\ logged' = logged /\ pc' = "idle" /\ ~Numbered'
    BY <1>6 DEF CloseLog, NoJob, Gone, Numbered
  <2> QED BY <1>0, <2>1, LosesRecords, QuietRecords
<1>7. CASE LoadTables
  <2>1. /\ UNCHANGED logVars /\ logged' = logged /\ pc = "load" /\ ~is_open
        /\ is_open' = is_open /\ job = "open"
    BY <1>0, <1>7 DEF LoadTables, histVars, Fail, logVars, OpenInv
  <2>2. ~Numbered' /\ pc' \notin {"begin", "update", "commit"}
    BY <1>0, <1>7, <2>1 DEF LoadTables, Goto, Fail, Numbered, OpenInv
  <2> QED BY <1>0, <2>1, <2>2, SameLogKnown, QuietRecords
<1>8. CASE OpenLog
  <2>1. /\ logged' = logged /\ pc = "walopen" /\ job = "open" /\ proc = "opening"
        /\ UNCHANGED <<buf, stable>>
        /\ CutTail \/ UNCHANGED <<file, kept>>
    BY <1>0, <1>8 DEF OpenLog, Open, OpenFails, histVars, Fail, OpenInv
  <2>2. ~Numbered' /\ pc' \notin {"begin", "update", "commit"}
    BY <1>8, <2>1 DEF OpenLog, Goto, Fail, Numbered
  <2>3. Known' \subseteq Known /\ Readable(stable)' \subseteq Readable(stable)
    <3>1. CASE CutTail
      BY <1>0, <2>1, <3>1, LosesRecords
    <3>2. CASE UNCHANGED <<file, kept>>
      BY <2>1, <3>2 DEF Known
    <3> QED BY <2>1, <3>1, <3>2
  <2> QED BY <1>0, <2>1, <2>2, <2>3, QuietRecords
<1>9. CASE Recover
  <2> DEFINE r == ReadRecords(file)
  <2>1. /\ UNCHANGED logVars /\ logged' = logged /\ pc = "recover" /\ proc = "opening"
        /\ buf = <<>> /\ file \in Seq(Rec)
        /\ next_wal_txn' = MaxOf({next_wal_txn, LargestTxn(r) + 1})
        /\ pc' \in {"temp", "idle"} /\ next_wal_txn \in Nat
    BY <1>0, <1>9 DEF Recover, OpenReturns, NoJob, histVars, OpenInv, LogTypeOK,
                      TypeOK, StoreTypeOK
  <2>2. Known' = Known /\ Readable(stable)' = Readable(stable)
    BY <2>1, SameLogKnown
  <2>3. Known = Range(r) /\ r \in Seq(Rec)
    <3>1. Range(r) = Readable(file)
      BY <2>1, ReadableIsRead
    <3>2. Range(buf) = {}
      BY <2>1 DEF Range
    <3>3. r \in Seq(Rec)
      BY <2>1, ReadRecordsFacts, FirstOfFacts
    <3> QED BY <3>1, <3>2, <3>3 DEF Known
  <2>4. \A x \in Known : x.txn_id < next_wal_txn'
    BY <2>1, <2>3, NextTxnAbove
  <2>5. Numbers(Known, next_wal_txn', pc', tables')
    BY <2>1, <2>4 DEF Numbers
  <2> QED BY <1>0, <2>1, <2>2, <2>5 DEF RecordInv
<1>10. CASE RecoverFails
  <2>1. /\ UNCHANGED logVars /\ logged' = logged /\ job = "open" /\ proc = "opening"
        /\ job' = "abort" /\ proc' = proc /\ pc' = "temp"
    BY <1>0, <1>10 DEF RecoverFails, Fail, histVars, OpenInv
  <2>2. ~Numbered'
    BY <2>1 DEF Numbered
  <2> QED BY <1>0, <2>1, <2>2, SameLogKnown, QuietRecords
<1>11. CASE WriteTemp \/ Rename \/ RenameFails \/ RemoveData \/ CommitReturns
            \/ Created \/ Recovered
  <2>1. /\ UNCHANGED logVars /\ logged' = logged
        /\ pc \notin {"load", "walopen", "recover"}
    BY <1>11 DEF WriteTemp, Rename, RenameFails, RemoveData, CommitReturns, Created,
                 Recovered, OpenReturns, Fail, histVars
  <2> QED BY <1>1, <2>1 DEF Recover
<1>12. CASE RecoverRefuses
  <2>1. /\ UNCHANGED logVars /\ logged' = logged /\ job = "open" /\ proc = "opening"
        /\ job' = "abort" /\ proc' = proc /\ pc' = "temp"
    BY <1>0, <1>12 DEF RecoverRefuses, Fail, histVars, OpenInv
  <2>2. ~Numbered'
    BY <2>1 DEF Numbered
  <2> QED BY <1>0, <2>1, <2>2, SameLogKnown, QuietRecords
<1> QED
  BY <1>2, <1>3, <1>4, <1>5, <1>6, <1>7, <1>8, <1>9, <1>10, <1>11, <1>12 DEF Step
LEMMA OtherRecords ==
  ASSUME CommitsAreLogged, TypeOK, LoggedInv,
         Call \/ Kill \/ PowerLoss \/ Writeback \/ UNCHANGED vars
  PROVE  RecordInv'
<1>0. LogTypeOK /\ OpenInv /\ RecordInv /\ next_wal_txn \in Nat
  BY DEF TypeOK, LoggedInv, StoreTypeOK
<1>1. CASE BeginOpen
  <2>1. /\ UNCHANGED <<buf, file, stable>> /\ logged' = logged /\ pc' = "load"
        /\ ~Numbered'
    BY <1>0, <1>1 DEF BeginOpen, histVars, Numbered, OpenInv
  <2>2. Known' = Known /\ Readable(stable)' = Readable(stable)
    BY <2>1 DEF Known
  <2> QED BY <1>0, <2>1, <2>2, QuietRecords
<1>2. CASE BeginCheckpoint \/ BeginClose
  <2>1. /\ UNCHANGED logVars /\ logged' = logged /\ pc' = "temp"
        /\ Numbered' => Numbered /\ next_wal_txn' = next_wal_txn
    BY <1>2 DEF BeginCheckpoint, BeginClose, histVars, Numbered
  <2> QED BY <1>0, <2>1, SameLogKnown, QuietRecords
<1>3. CASE Destroy
  <2>1. UNCHANGED logVars /\ logged' = logged /\ pc' = "idle" /\ ~Numbered'
    BY <1>3 DEF Destroy, Gone, NoJob, histVars, Numbered
  <2> QED BY <1>0, <2>1, SameLogKnown, QuietRecords
<1>4. ASSUME NEW t \in Txns, BeginCommit(t)
      PROVE  RecordInv'
  <2>1. /\ UNCHANGED logVars /\ logged' = logged /\ pc' = "begin" /\ proc' = proc
        /\ job = "none" /\ next_wal_txn' = next_wal_txn + 1 /\ job' = "commit"
    BY <1>4 DEF BeginCommit
  <2>2. Known' = Known /\ Readable(stable)' = Readable(stable)
    BY <2>1, SameLogKnown
  <2>3. Numbered' => Numbers(Known, next_wal_txn, pc, tables)
    BY <1>0, <2>1 DEF RecordInv, Numbered
  <2>4. file \in Seq(Rec) /\ buf \in Seq(Rec)
    BY <1>0 DEF LogTypeOK
  <2>5. \A x \in Known : x.txn_id \in Nat
    BY <2>4, RecordFields DEF Known, Readable, Range
  <2>6. ASSUME Numbers(Known, next_wal_txn, pc, tables)
        PROVE  Numbers(Known, next_wal_txn', pc', tables')
    BY <1>0, <2>1, <2>5, <2>6 DEF Numbers
  <2> QED BY <1>0, <2>1, <2>2, <2>3, <2>6 DEF RecordInv
<1>5. CASE Kill
  <2>1. LogKill /\ logged' = logged /\ pc' = "idle" /\ ~Numbered'
    BY <1>5 DEF Kill, ProcessDies, Gone, NoJob, Numbered
  <2> QED BY <1>0, <2>1, LosesRecords, QuietRecords
<1>6. CASE PowerLoss
  <2>1. LogPowerLoss /\ logged' = logged /\ ~Numbered'
    BY <1>6 DEF PowerLoss, ProcessDies, Gone, NoJob, Numbered
  <2> QED BY <1>0, <2>1, PowerRecords
<1>7. CASE Writeback \/ UNCHANGED vars
  <2>1. /\ UNCHANGED logVars /\ logged' = logged /\ pc' = pc /\ tables' = tables
        /\ next_wal_txn' = next_wal_txn /\ proc' = proc /\ job' = job
        /\ is_open' = is_open
    BY <1>7 DEF Writeback, vars, logVars, storeVars, ctlVars, histVars
  <2>2. Numbered' = Numbered
    BY <2>1 DEF Numbered
  <2> QED BY <1>0, <2>1, <2>2, SameLogKnown, QuietRecords
<1> QED BY <1>1, <1>2, <1>3, <1>4, <1>5, <1>6, <1>7 DEF Call

-----------------------------------------------------------------------------
\* The snapshots.

LEMMA FailSnapshots ==
  ASSUME OpenInv, SnapInv, Fail, UNCHANGED <<tables, data, dataStable>>,
         pc \notin {"begin", "update", "commit"} \/ proc = "closed"
  PROVE  SnapInv'
<1>1. CASE job = "commit" \/ job = "checkpoint"
  BY <1>1 DEF OpenInv, SnapInv, Fail, Return, NoJob, histVars
<1>2. CASE job \in {"close", "abort"}
  BY <1>2 DEF OpenInv, SnapInv, Fail, Goto, histVars
<1>3. CASE job = "open"
  BY <1>3 DEF OpenInv, SnapInv, Fail, histVars
<1> QED BY <1>1, <1>2, <1>3 DEF Fail

LEMMA StepSnapshots ==
  ASSUME CommitsAreLogged, TypeOK, LoggedInv, Step
  PROVE  SnapInv'
<1>0. /\ "append" \notin Faults /\ "large" \notin Faults /\ "truncate" \notin Faults
      /\ OpenInv /\ SnapInv
  BY DEF CommitsAreLogged, LoggedInv
<1>1. CASE WriteTemp
  <2>1. UNCHANGED <<tables, data, dataStable>> /\ pc = "temp"
    BY <1>1 DEF WriteTemp
  <2>2. tables \subseteq logged
    BY <1>0, <2>1 DEF OpenInv, SnapInv
  <2>3. CASE Goto("rename") /\ temp' \in {Whole(tables), Bad} /\ UNCHANGED histVars
    <3>1. temp'.snap \subseteq logged
      BY <2>2, <2>3 DEF Whole, Bad
    <3> QED BY <1>0, <2>1, <2>3, <3>1 DEF SnapInv, Goto, histVars
  <2>4. CASE Fail
    BY <1>0, <2>1, <2>4, FailSnapshots
  <2> QED BY <1>1, <2>3, <2>4 DEF WriteTemp
<1>2. CASE Rename
  BY <1>0, <1>2 DEF Rename, SnapInv, Goto, histVars
<1>3. CASE RenameFails
  <2>1. UNCHANGED <<tables, data, dataStable, temp>>
    BY <1>3 DEF RenameFails, storeVars
  <2>2. CASE pc = "rename" /\ Goto("remove") /\ UNCHANGED histVars
    BY <1>0, <2>1, <2>2 DEF SnapInv, Goto, histVars
  <2>3. CASE pc = "rerename" /\ Fail
    BY <1>0, <2>1, <2>3, FailSnapshots
  <2> QED BY <1>3, <2>2, <2>3 DEF RenameFails
<1>4. CASE RemoveData
  BY <1>0, <1>4 DEF RemoveData, SnapInv, Goto, histVars, Missing
<1>5. CASE AppendStep
  <2>1. UNCHANGED <<tables, data, dataStable>> /\ job = "commit"
    BY <1>0, <1>5 DEF AppendStep, storeVars, OpenInv
  <2>2. CASE ~is_open /\ Fail
    <3>1. proc = "closed"
      BY <1>0, <2>1, <2>2 DEF OpenInv
    <3> QED BY <1>0, <2>1, <2>2, <3>1, FailSnapshots
  <2>3. CASE ~(~is_open /\ Fail)
    <3>1. /\ pc \in {"begin", "update", "commit"} /\ pc' = AfterAppend(pc)
          /\ logged' = IF pc = "commit" THEN logged \cup cur ELSE logged
          /\ UNCHANGED <<proc, cur, opened>>
      BY <1>0, <1>5, <2>3 DEF AppendStep, AppendFails, TooLarge
    <3>2. pc' = IF pc = "begin" THEN "update" ELSE IF pc = "update" THEN "commit"
                ELSE IF SyncOnCommit THEN "flush" ELSE "temp"
      BY <3>1 DEF AfterAppend
    <3> QED BY <1>0, <2>1, <3>1, <3>2 DEF SnapInv
  <2> QED BY <2>2, <2>3
<1>6. CASE FlushStep
  <2>1. UNCHANGED <<tables, data, dataStable>> /\ pc = "flush"
    BY <1>6 DEF FlushStep, storeVars
  <2>2. CASE Goto("sync") /\ UNCHANGED histVars
    BY <1>0, <2>1, <2>2 DEF SnapInv, Goto, histVars
  <2>3. CASE Fail
    BY <1>0, <2>1, <2>3, FailSnapshots
  <2> QED BY <1>6, <2>2, <2>3 DEF FlushStep
<1>7. CASE SyncStep
  <2>1. UNCHANGED <<tables, data, dataStable>> /\ pc = "sync"
    BY <1>7 DEF SyncStep, storeVars
  <2>2. CASE Goto("temp") /\ UNCHANGED histVars
    BY <1>0, <2>1, <2>2 DEF SnapInv, Goto, histVars
  <2>3. CASE Fail
    BY <1>0, <2>1, <2>3, FailSnapshots
  <2> QED BY <1>7, <2>2, <2>3 DEF SyncStep
<1>8. CASE CommitReturns
  BY <1>0, <1>8 DEF CommitReturns, SnapInv, Return, NoJob, storeVars
<1>9. CASE TruncateStep
  <2>1. UNCHANGED <<tables, data, dataStable>> /\ pc = "saved"
    BY <1>9 DEF TruncateStep, storeVars
  <2>2. CASE Goto("truncsync") /\ UNCHANGED histVars
    BY <1>0, <2>1, <2>2 DEF SnapInv, Goto, histVars
  <2>3. CASE Fail
    BY <1>0, <2>1, <2>3, FailSnapshots
  <2> QED BY <1>9, <2>2, <2>3 DEF TruncateStep
<1>10. CASE TruncateSyncStep
  <2>1. UNCHANGED <<tables, data, dataStable>> /\ pc = "truncsync"
    BY <1>10 DEF TruncateSyncStep, storeVars
  <2>2. CASE Return /\ UNCHANGED histVars
    BY <1>0, <2>1, <2>2 DEF SnapInv, Return, NoJob, histVars
  <2>3. CASE Fail
    BY <1>0, <2>1, <2>3, FailSnapshots
  <2> QED BY <1>10, <2>2, <2>3 DEF TruncateSyncStep
<1>11. CASE CloseLog
  BY <1>0, <1>11 DEF CloseLog, SnapInv, NoJob, Gone
<1>12. CASE LoadTables
  <2>1. UNCHANGED <<data, dataStable>> /\ pc = "load"
    BY <1>12 DEF LoadTables
  <2>2. CASE tables' = data.snap /\ Goto("walopen") /\ UNCHANGED histVars
    BY <1>0, <2>1, <2>2 DEF SnapInv, Goto, histVars
  <2>3. CASE Goto("temp") /\ UNCHANGED <<tables, histVars>>
    BY <1>0, <2>1, <2>3 DEF SnapInv, Goto, histVars
  <2>4. CASE Fail /\ UNCHANGED tables
    BY <1>0, <2>1, <2>4, FailSnapshots
  <2> QED BY <1>12, <2>2, <2>3, <2>4 DEF LoadTables
<1>13. CASE Created
  BY <1>0, <1>13 DEF Created, SnapInv, Goto, histVars, storeVars
<1>14. CASE OpenLog
  <2>1. UNCHANGED <<tables, data, dataStable>> /\ pc = "walopen"
    BY <1>14 DEF OpenLog, storeVars
  <2>2. CASE Goto("recover") /\ UNCHANGED histVars
    BY <1>0, <2>1, <2>2 DEF SnapInv, Goto, histVars
  <2>3. CASE Fail
    BY <1>0, <2>1, <2>3, FailSnapshots
  <2> QED BY <1>14, <2>2, <2>3 DEF OpenLog
<1>15. CASE Recover
  <2> DEFINE r == ReadRecords(file)
  <2>1. UNCHANGED <<data, dataStable>> /\ pc = "recover" /\ tables \subseteq logged
    BY <1>0, <1>15 DEF Recover, SnapInv, OpenInv
  <2>2. CASE Replayable(r) # {}
    <3>1. file \in Seq(Rec) /\ Sound(Known, logged)
      BY DEF TypeOK, LogTypeOK, LoggedInv, RecordInv
    <3>2. r \in Seq(Rec) /\ Range(r) = Readable(file)
      BY <3>1, ReadRecordsFacts, FirstOfFacts, ReadableIsRead
    <3>3. ReplayedSnapshot(r) \subseteq logged
      <4> HIDE DEF r
      <4>1. PICK u \in Range(r), k \in Range(r) :
               /\ u.type = "update" /\ k.type = "commit" /\ u.txn_id = k.txn_id
               /\ ReplayedSnapshot(r) = u.payload
        BY <2>2, <3>2, ReplayFacts, SnapshotSource DEF ReplayedSnapshot
      <4>2. u \in Known /\ k \in Known
        BY <3>2, <4>1 DEF Known
      <4> QED BY <3>1, <4>1, <4>2 DEF Sound
    <3>4. tables' = ReplayedSnapshot(r) /\ pc' = "temp" /\ UNCHANGED <<proc, cur, histVars>>
      BY <1>15, <2>2 DEF Recover
    <3> QED BY <1>0, <2>1, <3>3, <3>4 DEF SnapInv, histVars
  <2>3. CASE Replayable(r) = {}
    <3>1. OpenReturns /\ tables' = tables
      BY <1>15, <2>3 DEF Recover
    <3> QED BY <1>0, <2>1, <3>1 DEF SnapInv, OpenReturns, NoJob
  <2> QED BY <2>2, <2>3
<1>16. CASE RecoverFails
  BY <1>0, <1>16, FailSnapshots DEF RecoverFails, storeVars
<1>17. CASE Recovered
  <2>1. tables \subseteq logged
    BY <1>0, <1>17 DEF Recovered, SnapInv, OpenInv
  <2> QED BY <1>0, <1>17, <2>1 DEF Recovered, SnapInv, OpenReturns, NoJob, storeVars
<1>18. CASE RecoverRefuses
  <2> DEFINE r == ReadRecords(file)
  <2>1. /\ UNCHANGED <<data, dataStable>> /\ tables \subseteq logged
        /\ pc = "recover" /\ job = "open" /\ job' = "abort" /\ pc' = "temp"
        /\ UNCHANGED <<proc, cur, histVars>>
    BY <1>0, <1>18 DEF RecoverRefuses, Fail, SnapInv, OpenInv
  <2>2. tables' \subseteq logged
    <3>1. CASE BeforeRefused(r) # {}
      <4>1. file \in Seq(Rec) /\ Sound(Known, logged)
        BY DEF TypeOK, LogTypeOK, LoggedInv, RecordInv
      <4>2. r \in Seq(Rec) /\ Range(r) = Readable(file)
        BY <4>1, ReadRecordsFacts, FirstOfFacts, ReadableIsRead
      <4> HIDE DEF r
      <4> DEFINE i == MaxOf(BeforeRefused(r))
      <4>3. i \in Replayable(r)
        BY <3>1, <4>2, BeforeRefusedFacts
      <4> HIDE DEF i
      <4>4. PICK u \in Range(r), k \in Range(r) :
               /\ u.type = "update" /\ k.type = "commit" /\ u.txn_id = k.txn_id
               /\ SnapshotAt(r, i) = u.payload
        BY <4>2, <4>3, SnapshotSource
      <4>5. u \in Known /\ k \in Known
        BY <4>2, <4>4 DEF Known
      <4>6. tables' = SnapshotAt(r, i)
        BY <1>18, <3>1 DEF RecoverRefuses, r, i
      <4> QED BY <4>1, <4>4, <4>5, <4>6 DEF Sound
    <3>2. CASE BeforeRefused(r) = {}
      BY <1>18, <2>1, <3>2 DEF RecoverRefuses
    <3> QED BY <3>1, <3>2
  <2> HIDE DEF r
  <2> QED BY <1>0, <2>1, <2>2 DEF SnapInv, histVars
<1> QED
  BY <1>1, <1>2, <1>3, <1>4, <1>5, <1>6, <1>7, <1>8, <1>9, <1>10, <1>11, <1>12,
     <1>13, <1>14, <1>15, <1>16, <1>17, <1>18 DEF Step

LEMMA OtherSnapshots ==
  ASSUME CommitsAreLogged, TypeOK, LoggedInv,
         Call \/ Kill \/ PowerLoss \/ Writeback \/ UNCHANGED vars
  PROVE  SnapInv'
<1>0. OpenInv /\ SnapInv /\ "late" \notin Faults
  BY DEF LoggedInv, CommitsAreLogged
<1>1. CASE BeginOpen
  <2>1. pc = "idle"
    BY <1>0, <1>1 DEF BeginOpen, OpenInv, TypeOK, StoreTypeOK, Jobs
  <2> QED BY <1>0, <1>1, <2>1 DEF BeginOpen, SnapInv, histVars
<1>2. CASE BeginCheckpoint
  BY <1>0, <1>2 DEF BeginCheckpoint, PassedCheck, SnapInv, OpenInv, storeVars, histVars
<1>3. CASE BeginClose
  BY <1>0, <1>3 DEF BeginClose, PassedCheck, SnapInv, OpenInv, storeVars, histVars
<1>4. CASE Destroy
  BY <1>0, <1>4 DEF Destroy, Gone, NoJob, SnapInv, histVars
<1>5. ASSUME NEW t \in Txns, BeginCommit(t)
      PROVE  SnapInv'
  BY <1>0, <1>5 DEF BeginCommit, SnapInv, OpenInv
<1>6. CASE Kill
  BY <1>0, <1>6 DEF Kill, ProcessDies, Gone, NoJob, SnapInv
<1>7. CASE PowerLoss
  <2>1. data'.snap \subseteq logged /\ dataStable' = data'
    BY <1>0, <1>7 DEF PowerLoss, SnapInv, Bad
  <2> QED BY <1>0, <1>7, <2>1 DEF PowerLoss, ProcessDies, Gone, NoJob, SnapInv
<1>8. CASE Writeback
  BY <1>0, <1>8 DEF Writeback, SnapInv, ctlVars, histVars
<1>9. CASE UNCHANGED vars
  BY <1>0, <1>9 DEF vars, storeVars, ctlVars, histVars, SnapInv
<1> QED
  BY <1>1, <1>2, <1>3, <1>4, <1>5, <1>6, <1>7, <1>8, <1>9 DEF Call

LEMMA LoggedInductive ==
  ASSUME CommitsAreLogged
  PROVE  Spec => []LoggedInv
<1>1. Init => LoggedInv
  BY InitLogged
<1>2. TypeOK /\ LoggedInv /\ [Next]_vars => LoggedInv'
  BY StepOpen, OtherOpen, StepRecords, OtherRecords, StepSnapshots, OtherSnapshots
     DEF Next, LoggedInv
<1> QED BY <1>1, <1>2, TypeCorrect, PTL DEF Spec

\* What Open returns (RecoverCommittedTables, src/src/api/db.cpp) holds only
\* transactions whose COMMIT record was appended, after any number of crashes
\* and power failures: transaction ids are never given twice to records that
\* can be read together, so that no COMMIT completes the UPDATE of another.
THEOREM OnlyLoggedRecovered ==
  ASSUME CommitsAreLogged
  PROVE  Spec => []IncompleteIgnored
<1>1. LoggedInv => IncompleteIgnored
  BY DEF LoggedInv, SnapInv, IncompleteIgnored
<1> QED BY <1>1, LoggedInductive, PTL

=============================================================================
