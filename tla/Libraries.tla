----------------------------- MODULE Libraries ------------------------------
(***************************************************************************)
(* The classes and functions of TupleStone that work by themselves, each   *)
(* under its own callers: the storage library (transaction manager, table  *)
(* heap, index, replacer), the LIKE loop, and the pure functions on        *)
(* values, expressions, snapshots and SQL text.  `subject` says which of   *)
(* them a behaviour is about; nothing connects them.  What is said of SQL  *)
(* text is in PureFunctions.                                               *)
(***************************************************************************)
EXTENDS SqlOperators, SnapshotCodec

CONSTANTS MaxTxn, MaxSnaps,
          Tuples, SlotsPerPage, MaxInserts,
          Keys, Rids, NoRid,
          Frames, K, Capacity, MaxClock,
          Chars, MaxLen

\* The inputs of the pure functions.
CONSTANTS SampleValues, SamplePredicates, SampleRows, SampleTables, SampleTrees,
          Evaluate(_, _, _)   \* Eval of module Expressions: an expression, a row, parameters

ASSUME CounterAssumption ==
  /\ MaxTxn \in Nat
  /\ SlotsPerPage \in Nat \ {0}
  /\ K \in Nat \ {0}          \* the constructor replaces 0 by 1
ASSUME CharsAssumption == "%" \notin Chars
ASSUME ValuesAssumption == \A v \in SampleValues : IsValue(v) /\ InRange(v)

ASSUME TablesAssumption ==
  \A tables \in SampleTables :
    /\ Len(tables) \in 0..2 * Half - 1 /\ tables = [i \in 1..Len(tables) |-> tables[i]]
    /\ \A i \in 1..Len(tables) : Storable(tables[i])

\* A predicate gives a value or Error, and what is built from two of them is
\* evaluated by applying its operator (other operators are not needed here).
ASSUME PredicatesAssumption ==
  \A p, q \in SamplePredicates, row \in SampleRows :
    LET v(e)    == Evaluate(e, row, <<>>)
        negated == {Node("not", <<p>>), Node("not", <<q>>)}
        both    == Node("and", <<p, q>>)
    IN
    /\ v(p) = Error \/ (IsValue(v(p)) /\ InRange(v(p)))
    /\ \A op \in {"not", "is null"}, e \in {p, q, both} :
         v(Node(op, <<e>>)) = Apply(op, <<v(e)>>)
    /\ \A op \in {"and", "or"} :
         /\ v(Node(op, <<p, q>>)) = Apply(op, <<v(p), v(q)>>)
         /\ \A e, f \in negated : v(Node(op, <<e, f>>)) = Apply(op, <<v(e), v(f)>>)

VARIABLES subject, input
VARIABLES nextId, active, committed, reader, snaps
VARIABLES tuples, nextPage, nextSlot, stored, given
VARIABLES unique, entries, pairs, misled
VARIABLES accesses, evictable, clock, history, ignored
VARIABLES value, pattern, vi, pi, wildcard, wildcardValue, result

Txn   == INSTANCE TransactionManager
Heap  == INSTANCE TableHeap
Index == INSTANCE BPlusTree
Lruk  == INSTANCE LRUKReplacer
Loop  == INSTANCE LikeMatch

choice    == <<subject, input>>
txnVars   == <<nextId, active, committed, reader, snaps>>
heapVars  == <<tuples, nextPage, nextSlot, stored, given>>
indexVars == <<unique, entries, pairs, misled>>
lrukVars  == <<accesses, evictable, clock, history, ignored>>
likeVars  == <<value, pattern, vi, pi, wildcard, wildcardValue, result>>

vars == <<choice, txnVars, heapVars, indexVars, lrukVars, likeVars>>

Inputs(s) ==
  CASE s = "values"     -> SampleValues \X SampleValues \X SampleValues
    [] s = "predicates" -> SamplePredicates \X SamplePredicates \X SampleRows
    [] s = "snapshots"  -> SampleTables
    [] s = "parser"     -> SampleTrees
    [] OTHER            -> {<<>>}

Subjects == {"transactions", "heap", "index", "replacer", "like",
             "values", "predicates", "snapshots", "parser"}

Init ==
  /\ subject \in Subjects /\ input \in Inputs(subject)
  /\ Txn!Init /\ Heap!Init /\ Lruk!Init
  /\ IF subject = "index" THEN Index!Init ELSE Index!Init /\ unique
  /\ IF subject = "like" THEN Loop!Init ELSE Loop!Start(<<>>, <<>>)

TransactionStep ==
  /\ subject = "transactions" /\ Txn!Next
  /\ UNCHANGED <<choice, heapVars, indexVars, lrukVars, likeVars>>

HeapStep ==
  /\ subject = "heap" /\ Heap!Next
  /\ UNCHANGED <<choice, txnVars, indexVars, lrukVars, likeVars>>

IndexStep ==
  /\ subject = "index" /\ Index!Next
  /\ UNCHANGED <<choice, txnVars, heapVars, lrukVars, likeVars>>

ReplacerStep ==
  /\ subject = "replacer" /\ Lruk!Next
  /\ UNCHANGED <<choice, txnVars, heapVars, indexVars, likeVars>>

LikeStep ==
  /\ subject = "like" /\ Loop!Next
  /\ UNCHANGED <<choice, txnVars, heapVars, indexVars, lrukVars>>

Next == TransactionStep \/ HeapStep \/ IndexStep \/ ReplacerStep \/ LikeStep

\* A loop that has begun goes on: nothing blocks it.
Spec == Init /\ [][Next]_vars /\ WF_vars(LikeStep)

-----------------------------------------------------------------------------
\* The properties of the modules, named here for the run.

\* A snapshot sees what was committed when it was taken, and its own work.
SnapshotStable == Txn!SnapshotStable

\* Below xmin of a snapshot, everything was over when it was taken.
XminSafe == Txn!XminSafe

\* Row addresses are never given out twice, and lead to what was stored.
HeapFaithful == Heap!HeapFaithful

\* The index holds the pairs its callers put there.
IndexFaithful == Index!IndexFaithful

\* The last K accesses are enough to find the victim of LRU-K.
EvictsByLruK == Lruk!EvictsByLruK

\* The LIKE loop finds a match exactly when there is one.
LikeCorrect == Loop!LikeCorrect

\* The LIKE loop ends.
LikeEnds == subject = "like" => Loop!LikeEnds

\* Keys are in the order of the values, ascending and descending: as Compare
\* has it, and where Compare does not tell two values apart as KeyOrdering says
\* (-0.0 before +0.0, NaN with a sign first, without one last, which is not what
\* ARCHITECTURE.md:352 says of them).
KeyOrder == subject = "values" => KeysFollow(input[1], input[2])

\* Keys are read back, and cut keys refused; -0.0 and +0.0 are each read back, as
\* their keys differ, against ARCHITECTURE.md:352.
KeyRoundTrip == subject = "values" => KeyReads(input[1])

\* Compare orders the values of a column, as stable_sort requires.
CompareOrders == subject = "values" => Ordered(input[1], input[2], input[3])

-----------------------------------------------------------------------------
\* A row is selected by exactly one of p, NOT p and p IS NULL, for every
\* predicate that is BOOLEAN on it: this is what WHERE with three truth values
\* has to keep, through every operator.
Partition(p, row) ==
  Evaluate(p, row, <<>>).type \in {0, 1} =>
    \E chosen \in {p, Node("not", <<p>>), Node("is null", <<p>>)} :
      \A e \in {p, Node("not", <<p>>), Node("is null", <<p>>)} :
        Truthy(Evaluate(e, row, <<>>)) <=> e = chosen

\* FALSE, UNKNOWN and TRUE in their order: AND is the least, OR the greatest of
\* its operands.
Rank(v) == IF IsNull(v) THEN 1 ELSE 2 * v.data[1]

Lattice(p, q, row) ==
  LET v(e) == Evaluate(e, row, <<>>) IN
  {v(p).type, v(q).type} \subseteq {0, 1} =>
    LET both == {Rank(v(p)), Rank(v(q))} IN
    /\ \A r \in both : Rank(v(Node("and", <<p, q>>))) <= r /\ r <= Rank(v(Node("or", <<p, q>>)))
    /\ {Rank(v(Node(op, <<p, q>>))) : op \in {"and", "or"}} = both

\* De Morgan's law, for NULL operands and failing ones as well.
DeMorgan(p, q, row) ==
  Evaluate(Node("not", <<Node("and", <<p, q>>)>>), row, <<>>)
    = Evaluate(Node("or", <<Node("not", <<p>>), Node("not", <<q>>)>>), row, <<>>)

\* Every row is in exactly one of p, NOT p and p IS NULL; AND and OR are the
\* least and the greatest truth value; NOT exchanges them.
ThreeValuedLogic ==
  subject = "predicates" =>
    /\ \A p \in {input[1], Node("and", <<input[1], input[2]>>)} : Partition(p, input[3])
    /\ Lattice(input[1], input[2], input[3])
    /\ DeMorgan(input[1], input[2], input[3])

\* x IN (y, z) is x = y OR x = z, where no candidate is NULL and no operand is
\* NaN (IN passes over what cannot be compared, = makes it NULL).
InIsOr(x, y, z) ==
  /\ ~IsNull(y) /\ ~IsNull(z) /\ y.type = z.type /\ x.type \in {0, y.type}
  /\ \A v \in {x, y, z} : ~IsNaN(v)
  =>
    Apply("in", <<x, y, z>>)
      = Logic("or", Equality("=", Compare(x, y)), Equality("=", Compare(x, z)))

\* IN agrees with a chain of OR.
InMatchesOr == subject = "values" => InIsOr(input[1], input[2], input[3])

\* A snapshot is loaded as it was saved, or refused.
SnapshotRoundTrip == subject = "snapshots" => SnapshotReads(input)
=============================================================================
