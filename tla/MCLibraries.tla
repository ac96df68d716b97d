---------------------------- MODULE MCLibraries -----------------------------
(***************************************************************************)
(* The inputs of the run Libraries.                                        *)
(***************************************************************************)
EXTENDS PureFunctions

\* With Base = 8 and Mantissa = 16: integers at both ends, around zero and
\* beyond the exact ones; both zeros, NaN of either sign, infinity; texts
\* around the end of a group of two.
MCValues ==
  {Null} \cup {Boolean(b) : b \in BOOLEAN}
  \cup {Integer(n) : n \in {-32, -1, 0, 16, 17, 31}}
  \cup {Real(bits) : bits \in {0, 16, 17, 30, 31, 32, 33, 63}}
  \cup {Text(s) : s \in {<<>>, <<0>>, <<7>>, <<1, 0>>, <<1, 0, 0>>, <<1, 7, 2, 3>>}}
  \cup {Blob(s) : s \in {<<>>, <<1, 2, 3>>}}

MCPredicates ==
  LET operands == {Col(1), Col(2), Lit(Integer(1))} IN
  {Node(op, <<Col(1), y>>) : op \in {"=", "<"}, y \in operands}
  \cup {Node("is null", <<x>>) : x \in {Col(1), Node("abs", <<Col(1)>>), Node("pos", <<Col(2)>>)}}
  \cup {Node("in", <<Col(1), Lit(Null), y>>) : y \in operands}
  \cup {Node("=", <<Node(op, <<Col(1), Col(2)>>), Lit(Integer(1))>>) :
          op \in {"+", "-", "*", "/", "%"}}
  \cup {Node("<", <<Node("coalesce", <<Node("neg", <<Col(1)>>), Col(2)>>), Lit(Integer(1))>>),
        Node("not", <<Node("=", <<Col(1), Col(2)>>)>>),
        Lit(Null), Lit(Boolean(TRUE)), Col(2), Node("is not null", <<Col(2)>>),
        [op |-> "param", index |-> 1]}

MCRows == {Null, Integer(1), Integer(-32), Real(2)} \X {Null, Integer(0), Integer(1), Boolean(FALSE)}

MCTables ==
  LET id(type) == [name |-> <<1>>, type |-> type, nullable |-> FALSE,
                   primary |-> TRUE, unique |-> FALSE]
      x        == [name |-> <<2, 3>>, type |-> 4, nullable |-> TRUE,
                   primary |-> FALSE, unique |-> TRUE]
      row(v)   == <<v, Text(<<0>>)>>
      table(c, r) == [name |-> <<2>>, columns |-> c, rows |-> r]
  IN  {<<>>, <<table(<<>>, <<>>)>>,
       <<table(<<id(2)>>, <<>>), [table(<<id(1)>>, <<<<Boolean(TRUE)>>>>) EXCEPT !.name = <<3>>]>>,
       <<table(<<id(2), x>>, <<row(Integer(-1)), row(Real(33)), row(Null)>>)>>}
      \cup {<<table(<<id(2), x>>, <<row(v)>>)>> : v \in MCValues}

MCTrees ==
  LET leaves == {Sql!Leaf("col", "a"), Sql!Leaf("lit", "1")}
      unary(S) == {Sql!Tree(op, <<x>>) : op \in {"not", "-", "is null", "call"}, x \in S}
      binary(S) == {Sql!Tree(op, <<x, y>>) :
                      op \in {"or", "and", "=", "like", "+", "-", "*", "in"}, x \in S, y \in S}
      small == {Sql!Leaf("col", "a")} \cup unary({Sql!Leaf("col", "a")})
               \cup binary({Sql!Leaf("col", "a")})
  IN  leaves \cup unary(leaves \cup binary(leaves)) \cup binary(small)
      \cup {Sql!Tree("call", <<x, y>>) : x \in leaves, y \in leaves}
      \cup {Sql!Tree("in", <<x, y, y>>) : x \in leaves, y \in small}
      \cup {Sql!Tree("call", <<>>), Sql!Leaf("col", "*")}
      \cup binary({Sql!Tree("qualified", <<Sql!Leaf("col", "a"), Sql!Leaf("col", "b")>>)})

MCMagic == <<6, 6, 6>>
=============================================================================
