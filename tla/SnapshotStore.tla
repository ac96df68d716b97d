---------------------------- MODULE SnapshotStore ----------------------------
(***************************************************************************)
(* Commit, checkpoint, close and recovery of a Database (src/src/api/      *)
(* db.cpp) over its log and its data file.                                 *)
(*                                                                         *)
(* A snapshot of the tables is abstracted to the set of transactions whose *)
(* effects it contains: that is all durability tells apart.  Every         *)
(* operation here runs under Database::Impl::mutex, so at most one `job` is *)
(* in progress; its steps are separate actions because the process can die *)
(* between any two of them.                                                *)
(***************************************************************************)
EXTENDS LogManager

CONSTANTS Txns,              \* the transactions that will be committed
          SyncOnCommit,      \* Options::sync_on_commit
          CreateIfMissing,   \* Options::create_if_missing
          CheckpointEnabled, \* whether the application calls Checkpoint()
          InitialFiles,      \* what may be at the path before the first Open
          Unloadable,        \* snapshots over a limit of LoadTablesBytes (tables,
                             \* columns, rows) that neither SaveTables nor
                             \* Append knows
          MaxCrashes         \* bound on the number of crashes

ASSUME SnapshotAssumption == Payload = SUBSET Txns /\ NoPayload = {}
ASSUME OptionsAssumption ==
  /\ SyncOnCommit \in BOOLEAN
  /\ CreateIfMissing \in BOOLEAN
  /\ CheckpointEnabled \in BOOLEAN
  /\ InitialFiles \subseteq {"missing", "bad", "ok"}
  /\ Unloadable \subseteq SUBSET Txns \ {{}}
  /\ MaxCrashes \in Nat

VARIABLES tables,       \* Database::Impl::tables
          data,         \* the data file
          temp,         \* the file SaveTables writes before renaming it
          dataStable,   \* the data file as stable storage has it
          next_wal_txn,
          proc,         \* the Database object: "down" before it exists
          job, pc,      \* the operation in progress, and where it is
          cur,          \* job = "commit": the one transaction it commits
          lsn           \* job = "commit": what the last Append returned

\* History variables, read by the properties only.
VARIABLES attempted,    \* transactions whose commit has started
          logged,       \* transactions whose COMMIT record was appended
          acked,        \* transactions whose commit returned Ok
          failed,       \* transactions whose commit returned an error
          opened,       \* the tables the last successful Open returned
          closedWith,   \* the tables at the last Close without error, if
                        \* no power failure came after it
          crashes

storeVars == <<tables, data, temp, dataStable>>
ctlVars   == <<next_wal_txn, proc, job, pc, cur, lsn>>
histVars  == <<attempted, logged, acked, failed, opened, closedWith, crashes>>
vars      == <<logVars, storeVars, ctlVars, histVars>>

\* A file holds a whole snapshot, or bytes LoadTablesBytes refuses (a format
\* it does not know, or a file cut short), or is not there.
Whole(snap) == [st |-> "ok", snap |-> snap]
Bad         == [st |-> "bad", snap |-> {}]
Missing     == [st |-> "missing", snap |-> {}]
File        == [st : {"ok", "bad", "missing"}, snap : SUBSET Txns]

Jobs  == {"none", "open", "abort", "commit", "checkpoint", "close"}
Steps == {"idle", "load", "walopen", "recover", "begin", "update", "commit",
          "flush", "sync", "temp", "rename", "remove", "rerename", "saved",
          "unsaved", "truncsync"}

StoreTypeOK ==
  /\ tables \in SUBSET Txns
  /\ data \in File /\ temp \in File /\ dataStable \in File
  /\ next_wal_txn \in Nat \ {0}
  /\ proc \in {"down", "opening", "up", "closed"}
  /\ job \in Jobs /\ pc \in Steps
  /\ cur \in SUBSET Txns
  /\ lsn \in Nat
  /\ attempted \in SUBSET Txns /\ logged \in SUBSET Txns
  /\ acked \in SUBSET Txns /\ failed \in SUBSET Txns
  /\ opened \in SUBSET Txns /\ closedWith \in SUBSET Txns
  /\ crashes \in 0..MaxCrashes

TypeOK == LogTypeOK /\ StoreTypeOK

Init ==
  /\ LogInit
  /\ tables = {}
  /\ data \in {f \in {Whole({}), Bad, Missing} : f.st \in InitialFiles}
  /\ temp = Missing /\ dataStable = data
  /\ next_wal_txn = 1
  /\ proc = "down" /\ job = "none" /\ pc = "idle" /\ cur = {} /\ lsn = 0
  /\ attempted = {} /\ logged = {} /\ acked = {} /\ failed = {}
  /\ opened = {} /\ closedWith = {} /\ crashes = 0

-----------------------------------------------------------------------------
\* Control of a job.

Goto(step) == pc' = step /\ UNCHANGED <<next_wal_txn, proc, job, cur, lsn>>

NoJob(p) ==
  proc' = p /\ job' = "none" /\ pc' = "idle" /\ cur' = {} /\ lsn' = 0

\* The operation returns and releases the mutex.
Return == NoJob(proc) /\ UNCHANGED next_wal_txn

\* Mutant: transaction ids start at zero.
GoneToZero == NoJob("down") /\ tables' = {} /\ next_wal_txn' = 0

\* The Database object, and with it its memory, is gone.
Gone == NoJob("down") /\ tables' = {} /\ next_wal_txn' = 1

\* Mutant: Checkpoint ignores what SaveTables returned, and truncates.
FailIgnored ==
  \/ /\ job = "commit"
     /\ Return
     /\ failed' = failed \cup cur
     /\ UNCHANGED <<attempted, logged, acked, opened, closedWith, crashes>>
  \/ /\ job = "checkpoint"
     /\ IF pc = "temp" THEN Goto("saved") ELSE Return
     /\ UNCHANGED histVars
  \/ job \in {"close", "abort"} /\ Goto("unsaved") /\ UNCHANGED histVars
  \/ /\ job = "open"
     /\ job' = "abort" /\ pc' = "temp"
     /\ UNCHANGED <<next_wal_txn, proc, cur, lsn, histVars>>

\* What an error does.  Commit and Checkpoint return it; Close goes on to
\* close the log; Open destroys the half-built Database, whose destructor
\* runs Close: SaveTables with whatever `tables` holds.
Fail ==
  \/ /\ job = "commit"
     /\ Return
     /\ failed' = failed \cup cur
     /\ UNCHANGED <<attempted, logged, acked, opened, closedWith, crashes>>
  \/ job = "checkpoint" /\ Return /\ UNCHANGED histVars
  \/ job \in {"close", "abort"} /\ Goto("unsaved") /\ UNCHANGED histVars
  \/ /\ job = "open"
     /\ job' = "abort" /\ pc' = "temp"
     /\ UNCHANGED <<next_wal_txn, proc, cur, lsn, histVars>>

-----------------------------------------------------------------------------
\* Recovery, as a function of the records in the log.

MaxOf(S) == CHOOSE m \in S : \A n \in S : n <= m

\* snapshots[txn_id] when RecoverCommittedTables meets record i: the UPDATEs
\* of that transaction that no COMMIT of it has consumed.
UpdatesFor(r, i) ==
  {j \in 1..(i - 1) :
     /\ r[j].type = "update" /\ r[j].txn_id = r[i].txn_id
     /\ \A k \in (j + 1)..(i - 1) :
          ~ (r[k].type = "commit" /\ r[k].txn_id = r[i].txn_id)}

\* The COMMIT records that find a snapshot.
Replayable(r) ==
  {i \in 1..Len(r) : r[i].type = "commit" /\ UpdatesFor(r, i) # {}}

\* Mutant: the first committed snapshot wins.
FirstSnapshot(r) ==
  LET i == CHOOSE i \in Replayable(r) : \A j \in Replayable(r) : i <= j
  IN r[MaxOf(UpdatesFor(r, i))].payload

\* Mutant: the last snapshot wins, committed or not.
LastSnapshot(r) ==
  r[MaxOf({i \in 1..Len(r) : r[i].type = "update"})].payload

\* The snapshot that the COMMIT record i finds: the last of the UPDATEs.
SnapshotAt(r, i) == r[MaxOf(UpdatesFor(r, i))].payload

\* The snapshot of the last COMMIT is the one that stays in tables.
ReplayedSnapshot(r) == SnapshotAt(r, MaxOf(Replayable(r)))

\* The COMMIT records whose snapshot LoadTablesBytes refuses.
Refused(r) == {i \in Replayable(r) : SnapshotAt(r, i) \in Unloadable}

\* The COMMIT records replayed before the first of them.
BeforeRefused(r) ==
  {i \in Replayable(r) : \A j \in Refused(r) : i < j}

LargestTxn(r) == MaxOf({0} \cup {r[i].txn_id : i \in 1..Len(r)})

-----------------------------------------------------------------------------
\* Mutant: the data file is removed before the rename.
WriteTempThenRemove ==
  /\ pc = "temp"
  /\ temp' = Whole(tables) /\ Goto("remove")
  /\ UNCHANGED <<logVars, tables, data, dataStable, histVars>>

\* SaveTables.  Neither flush() nor the destructor of the stream is checked,
\* so a file cut short by either is renamed like a whole one.  Nothing is
\* synced.
WriteTemp ==
  /\ pc = "temp"
  /\ \/ temp' = Whole(tables) /\ Goto("rename") /\ UNCHANGED histVars
     \/ "short" \in Faults /\ temp' = Bad /\ Goto("rename") /\ UNCHANGED histVars
     \/ "save" \in Faults /\ temp' \in {temp, Bad} /\ Fail
  /\ UNCHANGED <<logVars, tables, data, dataStable>>

\* Mutant: rename() does not replace a file that is there.
RenameKeepsOld ==
  /\ pc \in {"rename", "rerename"}
  /\ data' = (IF data.st = "missing" THEN temp ELSE data) /\ temp' = Missing
  /\ Goto("saved")
  /\ UNCHANGED <<logVars, tables, dataStable, histVars>>

\* rename() replaces the data file atomically.
Rename ==
  /\ pc \in {"rename", "rerename"}
  /\ data' = temp /\ temp' = Missing
  /\ Goto("saved")
  /\ UNCHANGED <<logVars, tables, dataStable, histVars>>

RenameFails ==
  /\ "rename" \in Faults
  /\ \/ pc = "rename" /\ Goto("remove") /\ UNCHANGED histVars
     \/ pc = "rerename" /\ Fail
  /\ UNCHANGED <<logVars, storeVars>>

\* After a failed rename the data file itself is removed (whether that works
\* is not checked), and the rename tried again.
RemoveData ==
  /\ pc = "remove"
  /\ data' \in {Missing, data}
  /\ Goto("rerename")
  /\ UNCHANGED <<logVars, tables, temp, dataStable, histVars>>

-----------------------------------------------------------------------------
\* PersistCommittedTables, called with t's effects already in the tables.
BeginCommit(t) ==
  /\ proc \in {"up", "closed"} /\ job = "none" /\ t \notin attempted
  /\ tables' = tables \cup {t}
  /\ next_wal_txn' = next_wal_txn + 1
  /\ job' = "commit" /\ pc' = "begin" /\ cur' = {t} /\ lsn' = kInvalidLsn
  /\ attempted' = attempted \cup {t}
  /\ UNCHANGED <<logVars, data, temp, dataStable, proc,
                 logged, acked, failed, opened, closedWith, crashes>>

AfterAppend(step) ==
  CASE step = "begin"  -> "update"
    [] step = "update" -> "commit"
    [] step = "commit" -> IF SyncOnCommit THEN "flush" ELSE "temp"

\* The snapshot does not fit into a record.
TooLarge == "large" \in Faults /\ is_open /\ pc = "update"

\* The record each of the three Append calls writes.
AppendStep ==
  /\ pc \in {"begin", "update", "commit"}
  /\ LET txn  == next_wal_txn - 1
         load == IF pc = "update" THEN tables ELSE NoPayload
     IN \/ /\ AppendRecord(txn, lsn, pc, load)
           /\ lsn' = next_lsn /\ pc' = AfterAppend(pc)
           /\ logged' = IF pc = "commit" THEN logged \cup cur ELSE logged
           /\ UNCHANGED <<next_wal_txn, proc, job, cur,
                          attempted, acked, failed, opened, closedWith, crashes>>
        \/ AppendFails(txn, lsn, pc, load) /\ Fail
        \/ TooLarge /\ UNCHANGED logVars /\ Fail
        \/ ~is_open /\ UNCHANGED logVars /\ Fail
  /\ UNCHANGED storeVars

FlushStep ==
  /\ pc = "flush"
  /\ \/ FlushStream(lsn) /\ Goto("sync") /\ UNCHANGED histVars
     \/ FlushStreamFails /\ Fail
  /\ UNCHANGED storeVars

\* Mutant: a synced commit returns without saving the tables.
SyncStepReturns ==
  /\ pc = "sync"
  /\ \/ SyncFile /\ Goto("saved") /\ UNCHANGED histVars
     \/ SyncFileFails /\ Fail
  /\ UNCHANGED storeVars

SyncStep ==
  /\ pc = "sync"
  /\ \/ SyncFile /\ Goto("temp") /\ UNCHANGED histVars
     \/ SyncFileFails /\ Fail
  /\ UNCHANGED storeVars

CommitReturns ==
  /\ job = "commit" /\ pc = "saved"
  /\ Return
  /\ acked' = acked \cup cur
  /\ UNCHANGED <<logVars, storeVars,
                 attempted, logged, failed, opened, closedWith, crashes>>

-----------------------------------------------------------------------------
\* Checkpoint and Close look at `closed` before they take the mutex: with
\* several threads, one that passed can get it when another has closed the
\* Database.
PassedCheck == proc = "up" \/ (proc = "closed" /\ "late" \in Faults)

\* Checkpoint: SaveTables, then Truncate.
BeginCheckpoint ==
  /\ CheckpointEnabled /\ PassedCheck /\ job = "none"
  /\ job' = "checkpoint" /\ pc' = "temp"
  /\ UNCHANGED <<logVars, storeVars, next_wal_txn, proc, cur, lsn, histVars>>

TruncateStep ==
  /\ job = "checkpoint" /\ pc = "saved"
  /\ \/ Truncate /\ Goto("truncsync") /\ UNCHANGED histVars
     \/ TruncateFails /\ Fail
     \/ ~is_open /\ UNCHANGED logVars /\ Fail
  /\ UNCHANGED storeVars

TruncateSyncStep ==
  /\ pc = "truncsync"
  /\ \/ SyncFile /\ Return /\ UNCHANGED histVars
     \/ SyncFileFails /\ Fail
  /\ UNCHANGED storeVars

-----------------------------------------------------------------------------
\* Close: SaveTables, then close the log whatever SaveTables returned.
BeginClose ==
  /\ PassedCheck /\ job = "none"
  /\ job' = "close" /\ pc' = "temp"
  /\ UNCHANGED <<logVars, storeVars, next_wal_txn, proc, cur, lsn, histVars>>

\* At the end of the destructor of a failed Open there is no Database left.
CloseLog ==
  /\ job \in {"close", "abort"} /\ pc \in {"saved", "unsaved"}
  /\ Close
  /\ IF job = "close"
       THEN NoJob("closed") /\ UNCHANGED <<tables, next_wal_txn>>
       ELSE Gone
  /\ closedWith' = IF job = "close" /\ pc = "saved" THEN tables ELSE closedWith
  /\ UNCHANGED <<data, temp, dataStable,
                 attempted, logged, acked, failed, opened, crashes>>

\* The closed Database is destroyed: its destructor finds it closed.
Destroy ==
  /\ proc = "closed" /\ job = "none"
  /\ Gone
  /\ UNCHANGED <<logVars, data, temp, dataStable, histVars>>

-----------------------------------------------------------------------------
\* Open builds a fresh Database::Impl with a fresh LogManager.
BeginOpen ==
  /\ proc = "down"
  /\ proc' = "opening" /\ job' = "open" /\ pc' = "load"
  /\ tables' = {} /\ next_wal_txn' = 1
  /\ next_lsn' = 1 /\ durable_lsn' = 0
  /\ UNCHANGED <<buf, file, stable, kept, is_open, data, temp, dataStable,
                 cur, lsn, histVars>>

\* A file that cannot be opened counts as one that is not there.
Unfound == data.st = "missing" \/ "load" \in Faults

\* LoadTablesBytes accepts the data file.
Loads == data.st = "ok" /\ data.snap \notin Unloadable

\* Mutant: a failed Open destroys the Database without saving it.
LoadTablesGivesUp ==
  /\ pc = "load"
  /\ IF Loads THEN tables' = data.snap /\ Goto("walopen") ELSE Gone
  /\ UNCHANGED <<logVars, data, temp, dataStable, histVars>>

LoadTables ==
  /\ pc = "load"
  /\ \/ Loads /\ tables' = data.snap /\ Goto("walopen")
          /\ UNCHANGED histVars
     \/ Unfound /\ CreateIfMissing /\ Goto("temp")
          /\ UNCHANGED <<tables, histVars>>
     \/ Unfound /\ ~CreateIfMissing /\ Fail /\ UNCHANGED tables
     \/ ~Loads /\ data.st # "missing" /\ Fail /\ UNCHANGED tables
  /\ UNCHANGED <<logVars, data, temp, dataStable>>

\* A missing data file has been created: go on with the log.
Created ==
  /\ job = "open" /\ pc = "saved" /\ ~is_open
  /\ Goto("walopen")
  /\ UNCHANGED <<logVars, storeVars, histVars>>

OpenLog ==
  /\ pc = "walopen"
  /\ \/ Open /\ Goto("recover") /\ UNCHANGED histVars
     \/ OpenFails /\ Fail
  /\ UNCHANGED storeVars

OpenReturns ==
  /\ NoJob("up")
  /\ opened' = tables
  /\ UNCHANGED <<attempted, logged, acked, failed, closedWith, crashes>>

\* RecoverCommittedTables: a snapshot found in the log is saved at once.
Recover ==
  /\ pc = "recover" /\ Refused(ReadRecords(file)) = {}
  /\ LET r == ReadRecords(file) IN
     /\ next_wal_txn' = MaxOf({next_wal_txn, LargestTxn(r) + 1})
     /\ IF Replayable(r) # {}
          THEN /\ tables' = ReplayedSnapshot(r)
               /\ pc' = "temp"
               /\ UNCHANGED <<proc, job, cur, lsn, histVars>>
          ELSE OpenReturns /\ UNCHANGED tables
  /\ UNCHANGED <<logVars, data, temp, dataStable>>

\* A committed snapshot that LoadTablesBytes refuses fails the Open; tables
\* holds what was replayed before it, and the log stays as it is.
RecoverRefuses ==
  /\ pc = "recover" /\ Refused(ReadRecords(file)) # {}
  /\ LET r == ReadRecords(file)
         B == BeforeRefused(r)
     IN tables' = IF B = {} THEN tables ELSE SnapshotAt(r, MaxOf(B))
  /\ Fail
  /\ UNCHANGED <<logVars, data, temp, dataStable>>

\* ReadAll cannot read the log.
RecoverFails ==
  /\ "walread" \in Faults /\ pc = "recover"
  /\ Fail
  /\ UNCHANGED <<logVars, storeVars>>

\* The replayed snapshot has been saved: Open returns the Database.
Recovered ==
  /\ job = "open" /\ pc = "saved" /\ is_open
  /\ OpenReturns
  /\ UNCHANGED <<logVars, storeVars, next_wal_txn>>

-----------------------------------------------------------------------------
\* The environment.  `temp` survives a crash but is never read again.
ProcessDies ==
  /\ crashes < MaxCrashes
  /\ crashes' = crashes + 1
  /\ Gone
  /\ UNCHANGED <<attempted, logged, acked, failed, opened>>

Kill ==
  /\ proc # "down"
  /\ LogKill
  /\ ProcessDies
  /\ UNCHANGED <<data, temp, dataStable, closedWith>>

\* The OS writes the data file back when it likes.
Writeback ==
  /\ "power" \in Faults /\ dataStable # data
  /\ dataStable' = data
  /\ UNCHANGED <<logVars, tables, data, temp, ctlVars, histVars>>

\* After a power failure the data file is the one last written back, or the
\* current one, or its name without its content.
PowerLoss ==
  /\ LogPowerLoss
  /\ ProcessDies
  /\ data' \in {dataStable, data} \cup (IF dataStable = data THEN {} ELSE {Bad})
  /\ dataStable' = data'
  /\ closedWith' = {}
  /\ UNCHANGED temp

-----------------------------------------------------------------------------
\* The steps the engine takes by itself once an operation has started.
Step ==
  \/ WriteTemp \/ Rename \/ RenameFails \/ RemoveData
  \/ AppendStep \/ FlushStep \/ SyncStep \/ CommitReturns
  \/ TruncateStep \/ TruncateSyncStep \/ CloseLog
  \/ LoadTables \/ Created \/ OpenLog \/ Recover \/ RecoverRefuses
  \/ RecoverFails \/ Recovered

\* What the application does.
Call ==
  \/ BeginOpen \/ BeginCheckpoint \/ BeginClose \/ Destroy
  \/ \E t \in Txns : BeginCommit(t)

Next == Step \/ Call \/ Kill \/ PowerLoss \/ Writeback

Spec == Init /\ [][Next]_vars

\* An operation that has started goes on, and an application that finds no
\* Database opens it again.
FairSpec == Spec /\ WF_vars(Step) /\ WF_vars(BeginOpen)

-----------------------------------------------------------------------------
\* A commit that returned Ok is in every Database that Open returns from then
\* on, whatever crash came after it and at whichever step of whichever
\* operation (PersistCommittedTables, Checkpoint, Close, Open itself), as long
\* as no snapshot is over the limits of LoadTablesBytes.
AckedSurvive == proc = "up" => acked \subseteq tables

\* A transaction whose COMMIT record was never appended is in no recovered
\* state: neither through its own UPDATE record nor through a later snapshot.
\* (Of the transactions modelled here, those whose commit has started.  What a
\* statement outside a transaction left in the tables before it failed, or
\* before its commit started, has no record at all; a Checkpoint saves it.)
IncompleteIgnored == opened \subseteq logged

\* Recovery never goes back: what one Open returned is in what the next Open
\* returns, even when a crash interrupts the recovery in between.
RecoveryMonotone ==
  [][proc = "opening" /\ proc' = "up" => opened \subseteq tables']_vars

\* SaveTables replaces the data file atomically: from the first successful
\* Open on, a whole snapshot is at the path at every moment, so that no crash
\* makes LoadTables fail.
DataFileWhole == proc = "up" \/ attempted # {} => data.st = "ok"

\* A Database closed without error keeps all it holds (commits that were
\* refused after it was closed apart), even with sync_on_commit off, as long as
\* the power does not fail (Close syncs nothing): it writes out the buffered
\* log, so that no older snapshot in the log can overrule the data file at the
\* next Open, whoever is killed then.
CleanCloseDurable == proc = "up" => closedWith \ failed \subseteq tables

\* Whenever the mutex is free, the data file holds every transaction in the
\* tables except those whose commit was refused, whatever the log went through.
DataFileCurrent ==
  proc = "up" /\ job = "none" =>
    data.st = "ok" /\ tables \ failed \subseteq data.snap

\* A Database can be opened again after any crash: a file cut short or of
\* another format, which LoadTables refuses, does not lock the application out
\* for good.  (A snapshot within the limits of LoadTablesBytes is meant: with
\* Unloadable = {} this holds, with a snapshot in Unloadable it does not.)
Reopens == proc = "down" ~> proc = "up"

-----------------------------------------------------------------------------
(***************************************************************************)
(* The inductive invariant behind AckedSurvive, RecoveryMonotone and       *)
(* CleanCloseDurable, for the faults that leave the log intact: failed     *)
(* syncs, saves, truncations, failures to open or to read the log, a       *)
(* snapshot too large for a record, late calls of Checkpoint and Close.    *)
(***************************************************************************)
SafeFaults == {"sync", "save", "truncate", "walopen", "walread", "late", "large"}

\* The log, as far as the process knows.
Log == file \o buf

\* What Open ends with when it finds the snapshot snap in the data file and
\* the records r in the log.
Outcome(snap, r) == IF Replayable(r) # {} THEN ReplayedSnapshot(r) ELSE snap

\* The log ends with the commit of the tables as they are.
TablesLogged == Replayable(Log) # {} /\ ReplayedSnapshot(Log) = tables

ControlInv ==
  /\ job = "none" <=> pc = "idle"
  /\ pc \in {"begin", "update", "commit", "flush", "sync"} => job = "commit"
  /\ pc \in {"load", "walopen", "recover"} => job = "open"
  /\ pc = "truncsync" => job = "checkpoint"
  /\ pc = "unsaved" => job \in {"close", "abort"}
  /\ pc \notin {"remove", "rerename"}
  /\ job \in {"open", "abort"} <=> proc = "opening"
  /\ job \in {"commit", "checkpoint", "close"} => proc \in {"up", "closed"}

\* Only an open log buffers records, and only the last record of a log that
\* was not opened with success can be torn.
LogInv ==
  /\ buf # <<>> => proc = "up" /\ is_open
  /\ SyncOnCommit /\ job = "commit" /\ pc \in {"sync", "temp", "rename", "saved"}
       => buf = <<>>
  /\ job = "commit" /\ pc # "begin" => is_open
  /\ pc = "recover" => is_open
  /\ pc \in {"load", "walopen"} => ~is_open
  /\ proc \in {"down", "closed"} => ~is_open
  /\ Intact(buf)
  /\ is_open /\ job # "abort" => Intact(file)
  /\ \A i \in 1..(Len(file) - 1) : file[i].type # "torn"
  /\ \A i \in 1..(Len(stable) - 1) : stable[i].type # "torn"

\* What the data file and the temporary file hold at each step of SaveTables.
FileInv ==
  /\ data.st # "ok" => data.snap = {}
  /\ dataStable.st # "ok" => dataStable.snap = {}
  /\ pc = "load" => tables = {}
  /\ pc = "rename" => temp = Whole(tables)
  /\ pc \in {"saved", "walopen", "recover"} => data = Whole(tables)

\* The log ends with the snapshot of the commit in progress, and holds, refused
\* commits apart, no older tables than the Database does.
CommitInv ==
  /\ IF job = "commit" THEN cur \subseteq tables ELSE cur = {}
  /\ pc = "commit" =>
       /\ Log # <<>>
       /\ Log[Len(Log)].type = "update"
       /\ Log[Len(Log)].txn_id = next_wal_txn - 1
       /\ Log[Len(Log)].payload = tables
  /\ job = "commit" /\ pc \in {"flush", "sync", "temp", "rename", "saved"}
       => TablesLogged
  /\ job = "open" /\ is_open /\ pc \in {"temp", "rename", "saved"}
       => TablesLogged
  /\ proc \in {"up", "closed"} =>
       (tables \ failed) \ cur \subseteq Outcome(tables, ReadRecords(Log))

\* Whichever part of the buffer b reaches the file f before a kill, Open brings
\* back the transactions in a.
SafeFor(snap, f, b, a) ==
  \A n \in Len(f)..Len(f \o b) :
    a \subseteq Outcome(snap, ReadRecords(FirstOf(f \o b, n)))

\* A kill at this moment, followed by Open, brings back the transactions in a.
Kept(a) ==
  /\ SafeFor(data.snap, file, buf, a)
  /\ proc \in {"up", "closed"} => a \subseteq tables
  /\ job \in {"open", "abort"} /\ pc # "load" => SafeFor(tables, file, buf, a)
  /\ job = "open" /\ is_open /\ pc \in {"temp", "rename", "saved"}
       => a \subseteq tables

StoreInv == ControlInv /\ LogInv /\ FileInv /\ CommitInv

\* At every step of every operation, a kill followed by Open brings back all
\* acknowledged commits.
DurabilityInv == StoreInv /\ Kept(acked)

=============================================================================
