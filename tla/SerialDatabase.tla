--------------------------- MODULE SerialDatabase ---------------------------
(***************************************************************************)
(* What explicit transactions promise: each one that commits takes effect  *)
(* as if all of its statements ran at the moment of its COMMIT, on the     *)
(* database as it is then; one that does not commit has no effect.         *)
(***************************************************************************)
EXTENDS Sequences

CONSTANTS Conns,   \* the connections
          Effects  \* what a statement can do to the tables

VARIABLES db,       \* the effects in the database, in order
          running,  \* running[c]: connection c is in a transaction
          pending   \* pending[c]: the effects of that transaction

vars == <<db, running, pending>>

Init ==
  /\ db = <<>>
  /\ running = [c \in Conns |-> FALSE]
  /\ pending = [c \in Conns |-> <<>>]

Begin(c) ==
  /\ ~running[c]
  /\ running' = [running EXCEPT ![c] = TRUE]
  /\ UNCHANGED <<db, pending>>

Issue(c, e) ==
  /\ running[c]
  /\ pending' = [pending EXCEPT ![c] = Append(@, e)]
  /\ UNCHANGED <<db, running>>

End(c) ==
  /\ running[c]
  /\ running' = [running EXCEPT ![c] = FALSE]
  /\ pending' = [pending EXCEPT ![c] = <<>>]

Commit(c) == End(c) /\ db' = db \o pending[c]

Abort(c) == End(c) /\ UNCHANGED db

Next ==
  \E c \in Conns :
    \/ Begin(c)
    \/ \E e \in Effects : Issue(c, e)
    \/ Commit(c)
    \/ Abort(c)

Spec == Init /\ [][Next]_vars

=============================================================================
