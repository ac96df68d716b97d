----------------------------- MODULE LogClients -----------------------------
(***************************************************************************)
(* One LogManager object shared by several threads.  Flush releases mutex_ *)
(* before it calls SyncFile, so that appends, truncations and other        *)
(* flushes can run between the two parts; Truncate holds mutex_ until its  *)
(* SyncFile has returned.  Every other operation is one step.  The process *)
(* can die at any point.  Failing writes of the stream itself are left to  *)
(* SnapshotStore.                                                          *)
(***************************************************************************)
EXTENDS LogManager, Functions

CONSTANTS Clients,   \* the threads
          MaxLsn     \* bound: no LSN beyond this one is allocated

ASSUME MaxLsnAssumption == MaxLsn \in Nat

VARIABLES pc,        \* where thread c is: "sync", between flush() and fsync;
                     \* "truncsync", the same with mutex_ held
          promise,   \* promise[c]: the records c's Flush or Truncate covers
          flushed    \* the records a Flush that returned Ok has covered

vars == <<logVars, pc, promise, flushed>>

TypeOK ==
  /\ LogTypeOK
  /\ pc \in [Clients -> {"idle", "sync", "truncsync"}]
  /\ promise \in [Clients -> SUBSET LogRecord]
  /\ flushed \in SUBSET LogRecord

Init ==
  /\ LogInit
  /\ pc = [c \in Clients |-> "idle"]
  /\ promise = [c \in Clients |-> {}]
  /\ flushed = {}

-----------------------------------------------------------------------------

\* Thread c is about to call an operation that takes mutex_.
Enters(c) == pc[c] = "idle" /\ \A d \in Clients : pc[d] # "truncsync"

\* Open runs before the log is shared.
OpenLog ==
  /\ pc = [c \in Clients |-> "idle"]
  /\ Open \/ OpenFails
  /\ UNCHANGED <<pc, promise, flushed>>

AppendBy(c) ==
  /\ Enters(c) /\ next_lsn <= MaxLsn
  /\ \E p \in Payload :
       AppendRecord(1, kInvalidLsn, "update", p)
  /\ UNCHANGED <<pc, promise, flushed>>

FlushBy(c) ==
  /\ Enters(c)
  /\ FlushStream(kInvalidLsn)
  /\ pc' = [pc EXCEPT ![c] = "sync"]
  /\ promise' = [promise EXCEPT ![c] = Range(file \o buf)]
  /\ UNCHANGED flushed

\* A truncation discards the records on purpose: nothing is promised of them.
TruncateBy(c) ==
  /\ Enters(c)
  /\ Truncate
  /\ pc' = [pc EXCEPT ![c] = "truncsync"]
  /\ promise' = [d \in Clients |-> {}]
  /\ flushed' = {}

TruncateFailsBy(c) ==
  /\ Enters(c)
  /\ TruncateFails
  /\ promise' = [d \in Clients |-> {}]
  /\ flushed' = {}
  /\ UNCHANGED pc

SyncBy(c) ==
  /\ pc[c] \in {"sync", "truncsync"}
  /\ \/ SyncFile /\ flushed' = flushed \cup promise[c]
     \/ SyncFileFails /\ UNCHANGED flushed
  /\ pc' = [pc EXCEPT ![c] = "idle"]
  /\ promise' = [promise EXCEPT ![c] = {}]

CloseBy(c) ==
  /\ Enters(c) /\ is_open
  /\ Close
  /\ UNCHANGED <<pc, promise, flushed>>

Crash ==
  /\ LogKill \/ LogPowerLoss
  /\ pc' = [c \in Clients |-> "idle"]
  /\ promise' = [c \in Clients |-> {}]
  /\ UNCHANGED flushed

Next ==
  \/ OpenLog
  \/ Crash
  \/ \E c \in Clients :
       \/ AppendBy(c)
       \/ FlushBy(c)
       \/ TruncateBy(c)
       \/ TruncateFailsBy(c)
       \/ SyncBy(c)
       \/ CloseBy(c)

Spec == Init /\ [][Next]_vars

-----------------------------------------------------------------------------
\* What a Flush that returned Ok covered can be read back from then on, after
\* any crash: no interleaving of Flush's two parts with the other threads, and
\* no torn tail left by an earlier crash, makes ReadRecords miss it.
FlushedSurvive == flushed \subseteq Range(ReadRecords(file))

\* The records of the log carry strictly increasing LSNs, below the one the
\* next Append takes, across restarts and truncations (Open continues the
\* numbering from the file it reads).
LsnOrder ==
  LET log == ReadRecords(file) \o buf IN
  is_open => /\ \A i, j \in 1..Len(log) : i < j => log[i].lsn < log[j].lsn
             /\ \A i \in 1..Len(log) : log[i].lsn < next_lsn

=============================================================================
