--------------------------- MODULE PureFunctions ----------------------------
(***************************************************************************)
(* What Libraries says of SQL text, and Eval, which it takes as a          *)
(* parameter: both use recursive operators.                                *)
(***************************************************************************)
EXTENDS Libraries, Expressions

CONSTANT MaxArgs

Sql == INSTANCE SqlParser

\* An expression is read as its parentheses and precedence say; NOT is put where
\* ARCHITECTURE.md:490 and the code agree on what it applies to.
ParseRoundTrip == subject = "parser" => Sql!ParsesBack(input)
=============================================================================
