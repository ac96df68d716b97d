------------------------- MODULE TransactionManager -------------------------
(***************************************************************************)
(* The MVCC transaction manager (src/src/txn/transaction_manager.cpp):     *)
(* transaction numbers and the snapshots by which versions are visible.    *)
(* What holds mutex_ is one step.  CurrentSnapshot does not hold it, and   *)
(* its three reads race with the other threads: each reads a whole value,  *)
(* of a moment of its own.  A handle is used by one thread at a time.      *)
(***************************************************************************)
EXTENDS Integers, FiniteSetsExt

CONSTANTS MaxTxn,    \* bound on the transactions begun
          MaxSnaps   \* bound on the snapshots remembered

VARIABLES nextId,    \* next_id_
          active,    \* active_
          committed, \* committed_
          reader     \* the call of CurrentSnapshot under way, as far as it is

\* History: the snapshots handed out, each with the transactions that were
\* committed then, the ones among them it sees, those that were over, and
\* whether another thread changed active_ or next_id_ during the call.
VARIABLE snaps

vars == <<nextId, active, committed, reader, snaps>>

NoReader == [at |-> "idle", self |-> 0, xmin |-> 0, xmax |-> 0, raced |-> FALSE]

Init ==
  /\ nextId = 1 /\ active = {} /\ committed = {}
  /\ reader = NoReader /\ snaps = {}

\* committed_before_snapshot of src/ARCHITECTURE.md:290, with IsCommitted as
\* it answers now.
CommittedBefore(x, s) ==
  x = s.self \/ (x < s.xmax /\ x \notin s.active /\ x \in committed)

Visible(s) == {x \in 1..MaxTxn : CommittedBefore(x, s)}

\* The snapshot s, with what it sees as it is handed out.
Remembered(s, raced) ==
  [self |-> s.self, xmin |-> s.xmin, xmax |-> s.xmax, active |-> s.active,
   raced |-> raced, seen |-> Visible(s), committed |-> committed,
   over |-> (1..nextId - 1) \ active]

\* Mutant: the transactions that are running do not hold xmin back.
OldestAnyway(next) == next

Oldest(next) == IF active = {} THEN next ELSE Min(active)

\* A step under mutex_ while CurrentSnapshot is under way.
Locked == reader' = IF reader = NoReader THEN reader ELSE [reader EXCEPT !.raced = TRUE]

\* Mutant: the transactions that are running are left out of the snapshot.
BeginBlind ==
  /\ nextId <= MaxTxn /\ Cardinality(snaps) < MaxSnaps
  /\ nextId' = nextId + 1
  /\ snaps' = snaps \cup {Remembered([self |-> nextId, xmin |-> Oldest(nextId + 1),
                                      xmax |-> nextId + 1, active |-> {}], FALSE)}
  /\ active' = active \cup {nextId}
  /\ Locked /\ UNCHANGED committed

\* The number is taken first: xmax is the number after the transaction's own.
Begin ==
  /\ nextId <= MaxTxn /\ Cardinality(snaps) < MaxSnaps
  /\ nextId' = nextId + 1
  /\ snaps' = snaps \cup {Remembered([self |-> nextId, xmin |-> Oldest(nextId + 1),
                                      xmax |-> nextId + 1, active |-> active], FALSE)}
  /\ active' = active \cup {nextId}
  /\ Locked /\ UNCHANGED committed

Commit(t) ==
  /\ t \in active
  /\ active' = active \ {t} /\ committed' = committed \cup {t}
  /\ Locked /\ UNCHANGED <<nextId, snaps>>

Abort(t) ==
  /\ t \in active
  /\ active' = active \ {t}
  /\ Locked /\ UNCHANGED <<nextId, committed, snaps>>

\* CurrentSnapshot, for a transaction or for none (0), reads xmin ...
ReadXmin(self) ==
  /\ reader = NoReader
  /\ reader' = [at |-> "xmax", self |-> self, xmin |-> Oldest(nextId), xmax |-> 0,
                raced |-> FALSE]
  /\ UNCHANGED <<nextId, active, committed, snaps>>

\* ... then xmax ...
ReadXmax ==
  /\ reader.at = "xmax"
  /\ reader' = [reader EXCEPT !.at = "active", !.xmax = nextId]
  /\ UNCHANGED <<nextId, active, committed, snaps>>

\* ... then the transactions that are running.
ReadActive ==
  /\ reader.at = "active" /\ Cardinality(snaps) < MaxSnaps
  /\ snaps' = snaps \cup {Remembered([self |-> reader.self, xmin |-> reader.xmin,
                                      xmax |-> reader.xmax,
                                      active |-> active \ {reader.self}], reader.raced)}
  /\ reader' = NoReader
  /\ UNCHANGED <<nextId, active, committed>>

Next ==
  \/ Begin
  \/ \E t \in active : Commit(t) \/ Abort(t)
  \/ \E self \in active \cup {0} : ReadXmin(self)
  \/ ReadXmax \/ ReadActive

-----------------------------------------------------------------------------
\* A snapshot never changes its mind: however many transactions begin, commit
\* and abort afterwards, it sees what it saw when it was handed out, even if
\* CurrentSnapshot raced; without a race, that is everything committed then.
SnapshotStable ==
  \A s \in snaps :
    /\ Visible(s) = s.seen
    /\ ~s.raced => s.seen \ {s.self} = s.committed \ {s.self}

\* What vacuum relies on (src/ARCHITECTURE.md:319): below xmin every
\* transaction was over when the snapshot was handed out, its own one apart.
XminSafe ==
  \A s \in snaps : \A x \in 1..s.xmin - 1 : x \in s.over \cup {s.self}
=============================================================================
