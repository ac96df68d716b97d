---------------------------- MODULE Expressions -----------------------------
(***************************************************************************)
(* Eval in src/src/api/db.cpp, on trees.  It is a recursive operator, and  *)
(* is therefore apart from the operators it applies.                       *)
(***************************************************************************)
EXTENDS SqlOperators

\* Eval with the row (empty when there is none) and the bound parameters.
RECURSIVE Eval(_, _, _)
Eval(e, row, params) ==
  CASE e.op = "lit"   -> e.val
    [] e.op = "param" -> IF e.index > Len(params) THEN Error ELSE params[e.index]
    [] e.op = "col"   -> IF e.col \notin 1..Len(row) THEN Error ELSE row[e.col]
    [] e.op = "bad"   -> Error
    [] e.op \notin {"lit", "param", "col", "bad"} ->
         Apply(e.op, [i \in 1..Len(e.args) |-> Eval(e.args[i], row, params)])
=============================================================================
