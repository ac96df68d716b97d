----------------------------- MODULE LogManager -----------------------------
(***************************************************************************)
(* The write-ahead log of src/src/wal/log_manager.cpp: its state, and one  *)
(* operator per step of its operations.  LogClients drives it from several *)
(* threads; SnapshotStore drives it from the database engine.              *)
(*                                                                         *)
(* A log is a sequence of records.  It lives in three places: `buf`, the   *)
(* buffer of the std::fstream (lost when the process dies); `file`, what   *)
(* the operating system holds (lost, past `stable`, when the power fails); *)
(* and `stable`, what the last fsync put on stable storage.  The bytes of  *)
(* a record that was cut short are the pseudo-record Torn: no CRC matches  *)
(* them, and they hide every record that follows.                          *)
(***************************************************************************)
EXTENDS Integers, Sequences

CONSTANTS Payload,     \* what an UPDATE record can carry
          NoPayload,   \* the empty payload of BEGIN and COMMIT
          Faults       \* the I/O faults the environment may produce

FaultKinds == {"append", "large", "flush", "sync", "truncate",
               "walopen", "walread", "stat",
               "load", "save", "short", "rename", "power",
               "late"}

ASSUME FaultsAssumption == Faults \subseteq FaultKinds

VARIABLES buf,          \* records in the stream buffer
          file,         \* records in the file, as the OS sees it
          stable,       \* records on stable storage
          kept,         \* how many records at the front of file are the
                        \* ones at the front of stable, on the same blocks
          is_open,      \* file_.is_open()
          next_lsn,
          durable_lsn

logVars == <<buf, file, stable, kept, is_open, next_lsn, durable_lsn>>

kInvalidLsn == 0

LogRecordType == {"begin", "commit", "update"}

LogRecord == [lsn      : Nat,
              txn_id   : Nat,
              prev_lsn : Nat,
              type     : LogRecordType,
              payload  : Payload \cup {NoPayload}]

Torn == [lsn |-> 0, txn_id |-> 0, prev_lsn |-> 0, type |-> "torn",
         payload |-> NoPayload]

Rec == LogRecord \cup {Torn}

LogTypeOK ==
  /\ buf \in Seq(Rec)
  /\ file \in Seq(Rec)
  /\ stable \in Seq(Rec)
  /\ kept \in 0..Len(file)
  /\ is_open \in BOOLEAN
  /\ next_lsn \in Nat \ {0}
  /\ durable_lsn \in Nat

LogInit ==
  /\ buf = <<>> /\ file = <<>> /\ stable = <<>> /\ kept = 0
  /\ is_open = FALSE
  /\ next_lsn = 1
  /\ durable_lsn = 0

-----------------------------------------------------------------------------
\* Sequences of records.

Intact(s) == \A i \in 1..Len(s) : s[i].type # "torn"

FirstOf(s, n) == SubSeq(s, 1, n)

\* What a write of s that is cut short can leave, at least min records of it
\* being there: some records and, possibly, a piece of the next one.
Pieces(s, min) ==
  {FirstOf(s, n) : n \in min..Len(s)}
    \cup {Append(FirstOf(s, n), Torn) : n \in min..(Len(s) - 1)}

\* ReadRecords stops at the first record whose length or CRC is wrong.
ReadRecords(s) ==
  FirstOf(s, CHOOSE n \in 0..Len(s) :
               /\ Intact(FirstOf(s, n))
               /\ n < Len(s) => s[n + 1].type = "torn")

LastLsn(s) == s[Len(s)].lsn

-----------------------------------------------------------------------------
\* Mutant: the torn tail stays in the file.
CutTailSkipped == UNCHANGED <<file, kept>>

\* resize_file, when the file is longer than its valid records.
CutTail ==
  /\ file' = ReadRecords(file)
  /\ kept' = IF kept < Len(file') THEN kept ELSE Len(file')

\* Mutant: the numbering starts again although the file has records.
OpenRenumbers ==
  /\ ~is_open
  /\ CutTail
  /\ is_open' = TRUE
  /\ UNCHANGED <<buf, stable, next_lsn, durable_lsn>>

\* Open: reads the records, cuts a torn tail off the file (unless file_size
\* fails), and continues the numbering after the last record.
Open ==
  LET existing == ReadRecords(file) IN
  /\ ~is_open
  /\ CutTail \/ ("stat" \in Faults /\ UNCHANGED <<file, kept>>)
  /\ is_open' = TRUE
  /\ IF existing # <<>>
       THEN next_lsn' = LastLsn(existing) + 1 /\ durable_lsn' = LastLsn(existing)
       ELSE UNCHANGED <<next_lsn, durable_lsn>>
  /\ UNCHANGED <<buf, stable>>

\* Open cannot open the file, or cut the tail, or reopen the file after that;
\* or it cannot read the file, and then leaves the stream open.
OpenFails ==
  /\ ~is_open
  /\ \/ /\ "walopen" \in Faults
        /\ CutTail \/ UNCHANGED <<file, kept>>
        /\ UNCHANGED is_open
     \/ /\ "walread" \in Faults
        /\ is_open' = TRUE
        /\ UNCHANGED <<file, kept>>
  /\ UNCHANGED <<buf, stable, next_lsn, durable_lsn>>

\* The record Append builds; its lsn is the value Append returns.
NewRecord(txn_id, prev_lsn, type, payload) ==
  [lsn |-> next_lsn, txn_id |-> txn_id, prev_lsn |-> prev_lsn,
   type |-> type, payload |-> payload]

\* Append hands the record to the stream, which may pass any number of the
\* records it holds on to the OS.
AppendRecord(txn_id, prev_lsn, type, payload) ==
  LET all == Append(buf, NewRecord(txn_id, prev_lsn, type, payload)) IN
  /\ is_open
  /\ next_lsn' = next_lsn + 1
  /\ \E n \in 0..Len(all) :
       /\ file' = file \o FirstOf(all, n)
       /\ buf' = SubSeq(all, n + 1, Len(all))
  /\ UNCHANGED <<stable, kept, is_open, durable_lsn>>

\* The write fails part-way.  The LSN is spent.  The stream keeps what it
\* had buffered (and may have buffered a piece of the new record), although
\* the OS may already have taken some of those bytes; clear() makes the
\* stream usable again, so that they are written once more by a later flush.
AppendFails(txn_id, prev_lsn, type, payload) ==
  LET all == Append(buf, NewRecord(txn_id, prev_lsn, type, payload)) IN
  /\ "append" \in Faults /\ is_open
  /\ next_lsn' = next_lsn + 1
  /\ \E p \in Pieces(all, 0) \ {all} : file' = file \o p
  /\ buf' \in {buf, Append(buf, Torn)}
  /\ UNCHANGED <<stable, kept, is_open, durable_lsn>>

\* Flush, first part (under mutex_): the stream is emptied into the file and
\* durable_lsn_ is set, before anything has been synced.
FlushStream(through) ==
  /\ is_open
  /\ file' = file \o buf
  /\ buf' = <<>>
  /\ durable_lsn' = IF through = kInvalidLsn THEN next_lsn - 1 ELSE through
  /\ UNCHANGED <<stable, kept, is_open, next_lsn>>

FlushStreamFails ==
  /\ "flush" \in Faults /\ is_open /\ buf # <<>>
  /\ \E p \in Pieces(buf, 0) \ {buf} : file' = file \o p
  /\ UNCHANGED <<buf, stable, kept, is_open, next_lsn, durable_lsn>>

\* Mutant: the file is not synced.
SyncFileSkipped == UNCHANGED logVars

\* Flush and Truncate, last part: fsync through a descriptor of its own.
SyncFile ==
  /\ stable' = file /\ kept' = Len(file)
  /\ UNCHANGED <<buf, file, is_open, next_lsn, durable_lsn>>

SyncFileFails ==
  /\ "sync" \in Faults
  /\ UNCHANGED logVars

\* What flush() and close(), with their results ignored, can leave in the file.
Drained ==
  {file \o p : p \in IF "flush" \in Faults THEN Pieces(buf, 0) ELSE {buf}}

\* Mutant: next_lsn_ is reset to kInvalidLsn.
TruncateToZero ==
  /\ is_open
  /\ buf' = <<>> /\ file' = <<>> /\ kept' = 0
  /\ next_lsn' = 0 /\ durable_lsn' = 0
  /\ UNCHANGED <<stable, is_open>>

\* Truncate up to its SyncFile: whatever was buffered goes with the file.
Truncate ==
  /\ is_open
  /\ buf' = <<>> /\ file' = <<>> /\ kept' = 0
  /\ next_lsn' = 1 /\ durable_lsn' = 0
  /\ UNCHANGED <<stable, is_open>>

\* The file cannot be truncated, or not be reopened: the stream stays closed.
TruncateFails ==
  /\ "truncate" \in Faults /\ is_open
  /\ buf' = <<>>
  /\ \/ file' \in Drained /\ UNCHANGED kept
     \/ file' = <<>> /\ kept' = 0
  /\ is_open' = FALSE
  /\ UNCHANGED <<stable, next_lsn, durable_lsn>>

\* Mutant: what the stream still holds is dropped.
CloseDropsBuffer ==
  /\ buf' = <<>>
  /\ is_open' = FALSE
  /\ UNCHANGED <<file, stable, kept, next_lsn, durable_lsn>>

\* Close ignores the result of flush() and close().
Close ==
  /\ file' \in Drained
  /\ buf' = <<>>
  /\ is_open' = FALSE
  /\ UNCHANGED <<stable, kept, next_lsn, durable_lsn>>

-----------------------------------------------------------------------------
\* The environment.  A process that dies loses its memory; the first bytes of
\* a buffered record may have reached the OS without the rest.
LogProcessDies ==
  /\ buf' = <<>>
  /\ is_open' = FALSE
  /\ next_lsn' = 1 /\ durable_lsn' = 0

LogKill ==
  /\ LogProcessDies
  /\ file' \in {file} \cup (IF buf = <<>> THEN {} ELSE {Append(file, Torn)})
  /\ UNCHANGED <<stable, kept>>

\* A power failure also loses what was not synced.  It leaves the content
\* last synced, or that of a later moment: the records in place since the
\* last sync and some of those written after them.
LogPowerLoss ==
  /\ "power" \in Faults
  /\ LogProcessDies
  /\ file' \in {stable} \cup Pieces(file, kept)
  /\ stable' = file' /\ kept' = Len(file')

=============================================================================
