----------------------------- MODULE MCSqlTable -----------------------------
(***************************************************************************)
(* The statements of the run SqlTable, on a table                          *)
(*   (id INTEGER PRIMARY KEY, v INTEGER UNIQUE, x TEXT),                   *)
(* on one with two columns of the same name, and on the catalog.           *)
(***************************************************************************)
EXTENDS SqlTable, Expressions

Num(n) == Lit(Integer(n))
A      == Lit(Text(<<65>>))
NULL   == Lit(Text(<<78, 85, 76, 76>>))   \* the text 'NULL'
None   == Lit(Null)
BadSql == Node("bad", <<>>)

Id == Col(1)
V  == Col(2)
X  == Col(3)

Schema == <<Column(1, 2, FALSE, TRUE, FALSE), Column(2, 2, TRUE, FALSE, TRUE),
            Column(3, 4, TRUE, FALSE, FALSE)>>

\* A table with two columns of one name.
Twice == <<Column(1, 2, TRUE, FALSE, FALSE), Column(1, 4, TRUE, FALSE, FALSE)>>

Create(t, again) ==
  [kind |-> "create", table |-> t, columns |-> IF t = 1 THEN Schema ELSE Twice,
   ifNotExists |-> again]
Drop(t) == [kind |-> "drop", table |-> t]
Insert(t, targets, values) ==
  [kind |-> "insert", table |-> t, targets |-> targets, values |-> values, params |-> <<>>]
UpdateSet(cols, exprs, where) ==
  [kind |-> "update", table |-> 1, set |-> [cols |-> cols, exprs |-> exprs],
   where |-> where, params |-> <<Integer(1)>>]
DeleteFrom(t, where) == [kind |-> "delete", table |-> t, where |-> where, params |-> <<>>]
Query(t, where) ==
  [kind |-> "select", table |-> t, exprs |-> <<>>, where |-> where, order |-> <<>>,
   desc |-> FALSE, limit |-> <<>>, distinct |-> FALSE, count |-> FALSE, params |-> <<>>]

MCStatements ==
  {Create(1, FALSE), Create(1, TRUE), Create(2, FALSE), Drop(1), Drop(2), Drop(0)}
  \cup {Insert(1, <<>>, <<<<Num(1), None, None>>>>),
        Insert(1, <<3, 1>>, <<<<NULL, Num(2)>>, <<A, Num(3)>>>>),
        Insert(1, <<>>, <<<<Num(3), Num(1), A>>, <<Num(1), Num(1), A>>>>),
        Insert(1, <<1, 1>>, <<<<Num(1), Lit(Real(2))>>>>),
        Insert(1, <<>>, <<<<Num(1), A, A>>>>),
        Insert(1, <<1>>, <<<<Num(1), Num(2)>>>>),
        Insert(1, <<4>>, <<<<Num(1)>>>>),
        Insert(2, <<>>, <<<<Num(1), A>>>>),
        Insert(0, <<>>, <<<<Num(3), A, Num(0), Num(0)>>>>)}
  \cup {UpdateSet(<<1>>, <<Node("+", <<Id, Num(1)>>)>>, <<Node("<", <<Id, Num(3)>>)>>),
        UpdateSet(<<1, 2>>, <<V, Id>>, <<>>),
        UpdateSet(<<3, 3>>, <<Node("neg", <<X>>), A>>, <<>>),
        UpdateSet(<<2>>, <<[op |-> "param", index |-> 1]>>, <<Node("<", <<X, NULL>>)>>),
        UpdateSet(<<2>>, <<BadSql>>, <<>>)}
  \cup {DeleteFrom(1, where) : where \in {<<>>, <<BadSql>>, <<Node("=", <<X, A>>)>>,
                                          <<Node("<", <<X, NULL>>)>>}}
  \cup {DeleteFrom(0, <<>>)}
  \cup {[Query(1, where) EXCEPT !.count = c] :
          where \in {<<>>, <<Node("=", <<X, A>>)>>, <<Node("<", <<X, NULL>>)>>}, c \in BOOLEAN}
  \cup {[Query(1, <<>>) EXCEPT !.exprs = <<e>>, !.distinct = TRUE, !.limit = l] :
          e \in {X, Lit(Null)}, l \in {<<>>, <<Num(1)>>, <<Num(2)>>}}
  \cup {[Query(1, <<>>) EXCEPT !.order = <<e>>, !.desc = d, !.limit = l] :
          e \in {V, X, Node("neg", <<Id>>), Node("neg", <<X>>)}, d \in BOOLEAN,
          l \in {<<>>, <<Num(1)>>, <<Num(1), Num(1)>>}}
  \cup {[Query(1, <<>>) EXCEPT !.limit = <<A>>], [Query(1, <<BadSql>>) EXCEPT !.limit = <<Num(0)>>],
        [Query(1, <<BadSql>>) EXCEPT !.order = <<V>>],
        [Query(1, <<>>) EXCEPT !.order = <<BadSql>>, !.count = TRUE],
        [Query(1, <<>>) EXCEPT !.exprs = <<Node("neg", <<V>>)>>],
        Query(2, <<>>), Query(0, <<>>), Query(-1, <<>>), [Query(0, <<V>>) EXCEPT !.count = TRUE]}
=============================================================================
