---------------------------- MODULE Transactions ----------------------------
(***************************************************************************)
(* Connections of one Database (src/src/api/db.cpp): BEGIN copies the      *)
(* tables, statements work on the copy, COMMIT installs the copy unless    *)
(* the generation has changed.  A statement outside a transaction changes  *)
(* the shared tables at once, without the mutex, and takes the mutex only  *)
(* to persist them.                                                        *)
(*                                                                         *)
(* The content of the tables is abstracted to the sequence of the effects  *)
(* that the statements had on it.  What runs under Database::Impl::mutex   *)
(* is one step; SnapshotStore opens up the persisting part of that step.   *)
(***************************************************************************)
EXTENDS Integers, Sequences

CONSTANTS Conns,          \* the connections, one thread each
          TxnConns,       \* those that use explicit transactions
          AutoConns,      \* those that run statements outside of one
          Stmts,          \* the writing statements, each executed once
          CommitsFail,    \* whether PersistCommittedTables can fail
          MaxGeneration   \* bound on db.generation

ASSUME ConnsAssumption == TxnConns \subseteq Conns /\ AutoConns \subseteq Conns
ASSUME BoundsAssumption == CommitsFail \in BOOLEAN /\ MaxGeneration \in Nat

VARIABLES tables,        \* Database::Impl::tables
          generation,    \* Database::Impl::generation
          active,        \* active[c]: transaction_tables is not null
          rows,          \* rows[c]: *transaction_tables
          gen,           \* gen[c]: transaction_generation
          handle,        \* handle[c]: a Transaction object is not finished
          pc             \* pc[c]: where a statement outside a transaction is

\* History variables, read by the properties only.
VARIABLES base,          \* base[c]: the tables that BEGIN copied
          wrote,         \* wrote[c]: the effects of c not yet committed
          issued,        \* statements that have been executed
          logged,        \* the snapshot last persisted
          acked,         \* statements committed with Ok
          raced,         \* an unlocked access met another one
          crashed        \* a null transaction_tables was dereferenced

dbVars   == <<tables, generation, logged, acked>>
connVars == <<active, rows, gen, base, wrote>>
vars     == <<dbVars, connVars, handle, pc, issued, raced, crashed>>

\* A statement that fails midway (a later row of an INSERT, say) leaves the
\* part it has done: nothing undoes it.
Effects == [stmt : Stmts, part : BOOLEAN]

Done(s) == {s[i].stmt : i \in {j \in 1..Len(s) : ~s[j].part}}

TypeOK ==
  /\ tables \in Seq(Effects) /\ logged \in Seq(Effects)
  /\ generation \in Nat
  /\ active \in [Conns -> BOOLEAN] /\ handle \in [Conns -> BOOLEAN]
  /\ rows \in [Conns -> Seq(Effects)] /\ base \in [Conns -> Seq(Effects)]
  /\ wrote \in [Conns -> Seq(Effects)]
  /\ gen \in [Conns -> Nat]
  /\ pc \in [Conns -> {"idle", "exec", "persist"}]
  /\ issued \in SUBSET Stmts /\ acked \in SUBSET Stmts
  /\ raced \in BOOLEAN /\ crashed \in BOOLEAN

Init ==
  /\ tables = <<>> /\ logged = <<>> /\ generation = 0
  /\ active = [c \in Conns |-> FALSE] /\ handle = [c \in Conns |-> FALSE]
  /\ rows = [c \in Conns |-> <<>>] /\ base = [c \in Conns |-> <<>>]
  /\ wrote = [c \in Conns |-> <<>>]
  /\ gen = [c \in Conns |-> 0]
  /\ pc = [c \in Conns |-> "idle"]
  /\ issued = {} /\ acked = {}
  /\ raced = FALSE /\ crashed = FALSE

-----------------------------------------------------------------------------
\* Thread c touches db.tables.  The mutex keeps out those that take it, and
\* not a statement that is executing outside a transaction.
Touch(c) ==
  raced' = (raced \/ \E d \in Conns \ {c} : pc[d] = "exec")

Idle(c) == ~crashed /\ pc[c] = "idle"

\* Mutant: the generation before the current one is noted.
BeginOffByOne(c) ==
  /\ Idle(c) /\ c \in TxnConns /\ ~active[c]
  /\ Touch(c)
  /\ active' = [active EXCEPT ![c] = TRUE]
  /\ rows' = [rows EXCEPT ![c] = tables]
  /\ gen' = [gen EXCEPT ![c] = generation - 1]
  /\ base' = [base EXCEPT ![c] = tables]
  /\ UNCHANGED <<dbVars, wrote, pc, issued, crashed>>

\* BEGIN, as SQL or as Connection::Begin.
Begin(c) ==
  /\ Idle(c) /\ c \in TxnConns /\ ~active[c]
  /\ Touch(c)
  /\ active' = [active EXCEPT ![c] = TRUE]
  /\ rows' = [rows EXCEPT ![c] = tables]
  /\ gen' = [gen EXCEPT ![c] = generation]
  /\ base' = [base EXCEPT ![c] = tables]
  /\ UNCHANGED <<dbVars, wrote, pc, issued, crashed>>

SqlBegin(c) == Begin(c) /\ UNCHANGED handle

HandleBegin(c) == Begin(c) /\ ~handle[c] /\ handle' = [handle EXCEPT ![c] = TRUE]

\* A statement in a transaction works on the copy.
Statement(c) ==
  /\ Idle(c) /\ active[c]
  /\ \E s \in Stmts \ issued, part \in BOOLEAN :
       LET e == [stmt |-> s, part |-> part] IN
       /\ issued' = issued \cup {s}
       /\ rows' = [rows EXCEPT ![c] = Append(@, e)]
       /\ wrote' = [wrote EXCEPT ![c] = Append(@, e)]
  /\ UNCHANGED <<dbVars, active, gen, base, handle, pc, raced, crashed>>

\* transaction_tables.reset()
EndTxn(c) ==
  /\ active' = [active EXCEPT ![c] = FALSE]
  /\ rows' = [rows EXCEPT ![c] = <<>>]
  /\ base' = [base EXCEPT ![c] = <<>>]
  /\ wrote' = [wrote EXCEPT ![c] = <<>>]
  /\ UNCHANGED gen

\* Mutant: the generation stays the same.
PersistSameGeneration(c, snapshot) ==
  /\ logged' = snapshot /\ acked' = acked \cup Done(wrote[c])
  /\ UNCHANGED generation

\* Mutant: the status of PersistCommittedTables is dropped.
PersistAlwaysOk(c, snapshot) ==
  /\ generation < MaxGeneration
  /\ generation' = generation + 1
  /\ logged' \in {logged, snapshot}
  /\ acked' = acked \cup Done(wrote[c])

\* ++generation and PersistCommittedTables: when it fails, the snapshot may or
\* may not have reached the log, and the tables stay as they are.
Persist(c, snapshot) ==
  /\ generation < MaxGeneration
  /\ generation' = generation + 1
  /\ \/ logged' = snapshot /\ acked' = acked \cup Done(wrote[c])
     \/ CommitsFail /\ logged' \in {logged, snapshot} /\ UNCHANGED acked

\* Mutant: no conflict check.
CommitUnchecked(c) ==
  /\ Touch(c)
  /\ tables' = rows[c] /\ Persist(c, rows[c])
  /\ EndTxn(c)
  /\ UNCHANGED <<pc, issued, crashed>>

\* COMMIT, as SQL or as Transaction::Commit, with the mutex held.
Commit(c) ==
  /\ Touch(c)
  /\ \/ generation # gen[c] /\ UNCHANGED dbVars
     \/ generation = gen[c] /\ tables' = rows[c] /\ Persist(c, rows[c])
  /\ EndTxn(c)
  /\ UNCHANGED <<pc, issued, crashed>>

SqlCommit(c) == Idle(c) /\ active[c] /\ Commit(c) /\ UNCHANGED handle

SqlRollback(c) ==
  /\ Idle(c) /\ EndTxn(c)
  /\ UNCHANGED <<dbVars, handle, pc, issued, raced, crashed>>

\* Transaction::Commit does not ask whether the connection still has the
\* transaction: SQL may have ended it.
HandleCommit(c) ==
  /\ Idle(c) /\ handle[c]
  /\ \/ /\ active[c] \/ generation # gen[c]
        /\ Commit(c)
        /\ handle' = [handle EXCEPT ![c] = FALSE]
     \/ /\ ~active[c] /\ generation = gen[c]
        /\ crashed' = TRUE
        /\ UNCHANGED <<dbVars, connVars, handle, pc, issued, raced>>

\* Transaction::Rollback, also called by its destructor.
HandleRollback(c) ==
  /\ Idle(c) /\ handle[c]
  /\ EndTxn(c)
  /\ handle' = [handle EXCEPT ![c] = FALSE]
  /\ UNCHANGED <<dbVars, pc, issued, raced, crashed>>

\* A Transaction that is assigned another one: its own is dropped without a
\* rollback, and the connection stays in the transaction.
HandleDrop(c) ==
  /\ Idle(c) /\ handle[c]
  /\ handle' = [handle EXCEPT ![c] = FALSE]
  /\ UNCHANGED <<dbVars, connVars, pc, issued, raced, crashed>>

-----------------------------------------------------------------------------
\* A statement outside a transaction: from RefreshCatalog to its last change
\* it uses db.tables without the mutex.
AutoEnter(c) ==
  /\ Idle(c) /\ c \in AutoConns /\ ~active[c]
  /\ Touch(c)
  /\ pc' = [pc EXCEPT ![c] = "exec"]
  /\ UNCHANGED <<dbVars, connVars, handle, issued, crashed>>

\* It only reads, or fails midway, or goes on to persist what it has done.
AutoExec(c) ==
  /\ ~crashed /\ pc[c] = "exec"
  /\ \/ pc' = [pc EXCEPT ![c] = "idle"] /\ UNCHANGED <<tables, wrote, issued>>
     \/ \E s \in Stmts \ issued, part \in BOOLEAN :
          LET e == [stmt |-> s, part |-> part] IN
          /\ issued' = issued \cup {s}
          /\ tables' = Append(tables, e)
          /\ pc' = [pc EXCEPT ![c] = IF part THEN "idle" ELSE "persist"]
          /\ wrote' = [wrote EXCEPT ![c] = IF part THEN <<>> ELSE <<e>>]
  /\ UNCHANGED <<generation, logged, acked, active, rows, gen, base, handle,
                 raced, crashed>>

AutoPersist(c) ==
  /\ ~crashed /\ pc[c] = "persist"
  /\ Touch(c)
  /\ Persist(c, tables)
  /\ pc' = [pc EXCEPT ![c] = "idle"]
  /\ wrote' = [wrote EXCEPT ![c] = <<>>]
  /\ UNCHANGED <<tables, active, rows, gen, base, handle, issued, crashed>>

Next ==
  \E c \in Conns :
    \/ SqlBegin(c) \/ HandleBegin(c)
    \/ Statement(c)
    \/ SqlCommit(c) \/ HandleCommit(c)
    \/ SqlRollback(c) \/ HandleRollback(c) \/ HandleDrop(c)
    \/ AutoEnter(c) \/ AutoExec(c) \/ AutoPersist(c)

Spec == Init /\ [][Next]_vars

-----------------------------------------------------------------------------
\* Explicit transactions are serializable: the generation check lets a COMMIT
\* through only when the copy it installs was made from the tables it
\* replaces, whatever the other connections, failed commits and stale
\* Transaction handles did since BEGIN.
Serial == INSTANCE SerialDatabase
            WITH db <- tables, running <- active, pending <- wrote

SerialSpec == Serial!Spec

\* A statement acknowledged as committed stays in the tables and in the last
\* persisted snapshot (as long as no unlocked accesses met, which leaves the
\* tables undefined).
AckedKept == ~raced => acked \subseteq Done(tables) \cap Done(logged)

\* The invariant behind SerialSpec, without statements outside transactions:
\* a copy of the current generation was made from the current tables.
CopyInv ==
  \A c \in Conns :
    /\ gen[c] <= generation
    /\ pc[c] = "idle"
    /\ ~active[c] => wrote[c] = <<>>
    /\ active[c] => /\ rows[c] = base[c] \o wrote[c]
                    /\ gen[c] = generation => base[c] = tables

=============================================================================
