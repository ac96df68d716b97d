--------------------------- MODULE SqlTableProofs ---------------------------
(***************************************************************************)
(* For every set of statements and every way to evaluate expressions: the  *)
(* constraints of the tables hold between any two steps, a statement has   *)
(* the effect it says, and SELECT returns and counts the rows it should.   *)
(***************************************************************************)
EXTENDS SqlTable, ValuesProofs, FiniteSetTheorems

-----------------------------------------------------------------------------
(***************************************************************************)
(* Values: when operator== takes two of them for the same.                 *)
(***************************************************************************)
LEMMA SameSymmetric ==
  ASSUME NEW a, NEW b, Same(a, b)
  PROVE  Same(b, a)
<1>1. CASE IsNull(a) \/ IsNull(b)
  BY <1>1 DEF Same, Compare
<1>2. CASE ~IsNull(a) /\ ~IsNull(b)
  <2>1. Compare(a, b) = "eq"
    BY <1>2 DEF Same
  <2>2. CASE IsNumber(a) /\ IsNumber(b)
    <3>1. /\ ~IsNaN(a) /\ ~IsNaN(b)
          /\ ~(AsDouble(a) < AsDouble(b)) /\ ~(AsDouble(a) > AsDouble(b))
      BY <1>2, <2>1, <2>2 DEF Compare
    <3>2. ~(AsDouble(b) < AsDouble(a)) /\ ~(AsDouble(b) > AsDouble(a))
      BY <3>1
    <3> QED BY <1>2, <2>2, <3>1, <3>2 DEF Same, Compare
  <2>3. CASE ~(IsNumber(a) /\ IsNumber(b))
    <3>1. a.type = b.type /\ ~Less(a.data, b.data) /\ ~Less(b.data, a.data)
      BY <1>2, <2>1, <2>3 DEF Compare
    <3> QED BY <1>2, <2>3, <3>1 DEF Same, Compare
  <2> QED BY <2>2, <2>3
<1> QED BY <1>1, <1>2

LEMMA SameNotNull ==
  ASSUME NEW a, NEW b, Same(a, b), ~IsNull(a)
  PROVE  ~IsNull(b)
BY DEF Same, Compare

\* Different numbers that are exact as REAL are not the same.
LEMMA IntegersDiffer ==
  ASSUME NEW i \in 1..Mantissa, NEW k \in 1..Mantissa, i # k
  PROVE  ~Same(Integer(i), Integer(k))
<1>0. Mantissa \in Nat
  BY WidthAssumption
<1>1. Rounded(i) = i /\ Rounded(k) = k
  BY <1>0 DEF Rounded
<1>2. AsDouble(Integer(i)) = i /\ AsDouble(Integer(k)) = k
  BY <1>1 DEF AsDouble, Integer, AsInteger
<1>3. i < k \/ k < i
  OBVIOUS
<1>4. /\ ~IsNull(Integer(i)) /\ IsNumber(Integer(i)) /\ ~IsNaN(Integer(i))
      /\ ~IsNull(Integer(k)) /\ IsNumber(Integer(k)) /\ ~IsNaN(Integer(k))
  BY DEF IsNull, IsNumber, IsNaN, Integer
<1>5. Compare(Integer(i), Integer(k)) # "eq"
  BY <1>2, <1>3, <1>4 DEF Compare
<1> QED BY <1>4, <1>5 DEF Same

LEMMA TextsDiffer ==
  ASSUME NEW a \in Int, NEW b \in Int, a # b
  PROVE  ~Same(Text(<<a>>), Text(<<b>>))
<1>1. ASSUME NEW x \in Int, NEW y \in Int, x < y
      PROVE  Less(<<x>>, <<y>>)
  <2>1. Len(<<x>>) = 1 /\ Len(<<y>>) = 1 /\ <<x>>[0 + 1] = x /\ <<y>>[0 + 1] = y
    OBVIOUS
  <2>2. SubSeq(<<x>>, 1, 0) = SubSeq(<<y>>, 1, 0)
    OBVIOUS
  <2>3. 0 \in 0..Len(<<x>>) /\ 0 < Len(<<y>>)
    BY <2>1
  <2> QED BY <1>1, <2>1, <2>2, <2>3 DEF Less
<1>2. Less(<<a>>, <<b>>) \/ Less(<<b>>, <<a>>)
  BY <1>1
<1>3. /\ ~IsNull(Text(<<a>>)) /\ ~IsNumber(Text(<<a>>)) /\ Text(<<a>>).data = <<a>>
      /\ ~IsNull(Text(<<b>>)) /\ ~IsNumber(Text(<<b>>)) /\ Text(<<b>>).data = <<b>>
      /\ Text(<<a>>).type = Text(<<b>>).type
  BY DEF IsNull, IsNumber, Text
<1>4. Compare(Text(<<a>>), Text(<<b>>)) # "eq"
  BY <1>2, <1>3 DEF Compare
<1> QED BY <1>3, <1>4 DEF Same

-----------------------------------------------------------------------------
(***************************************************************************)
(* Sequences: a name list in order, and a flattened sequence.              *)
(***************************************************************************)
LEMMA SeqIsSeq ==
  ASSUME NEW S, NEW s \in Seq(S)
  PROVE  IsSeq(s)
<1>1. \A i \in 1..Len(s) : s[i] \in ToSet(s)
  BY DEF ToSet
<1>2. s \in [1..Len(s) -> ToSet(s)] /\ Len(s) \in Nat
  BY <1>1
<1>3. s \in Seq(ToSet(s))
  BY <1>2
<1> QED BY <1>3 DEF IsSeq

LEMMA SeqFacts ==
  ASSUME NEW s, IsSeq(s)
  PROVE  /\ Len(s) \in Nat /\ DOMAIN s = 1..Len(s)
         /\ s = [i \in 1..Len(s) |-> s[i]]
BY DEF IsSeq

LEMMA FunctionIsSeq ==
  ASSUME NEW n \in Nat, NEW s, DOMAIN s = 1..n, s = [i \in 1..n |-> s[i]]
  PROVE  IsSeq(s) /\ Len(s) = n
<1> DEFINE S == {s[i] : i \in 1..n}
<1>1. s \in [1..n -> S]
  OBVIOUS
<1> HIDE DEF S
<1>2. s \in Seq(S) /\ Len(s) = n
  BY <1>1
<1> QED BY <1>2, SeqIsSeq

LEMMA AppendIsSeq ==
  ASSUME NEW s, IsSeq(s), NEW e
  PROVE  /\ IsSeq(Append(s, e)) /\ Len(Append(s, e)) = Len(s) + 1
         /\ Append(s, e)[Len(s) + 1] = e
         /\ \A i \in 1..Len(s) : Append(s, e)[i] = s[i]
<1>1. PICK S : s \in Seq(S)
  BY DEF IsSeq
<1>2. s \in Seq(S \cup {e}) /\ e \in S \cup {e}
  BY <1>1
<1>3. PICK T : T = S \cup {e}
  OBVIOUS
<1>4. s \in Seq(T) /\ e \in T
  BY <1>2, <1>3
<1>5. Append(s, e) \in Seq(T)
  BY <1>4
<1>6. Len(Append(s, e)) = Len(s) + 1
  BY <1>4
<1>7. Append(s, e)[Len(s) + 1] = e
  BY <1>4
<1>8. \A i \in 1..Len(s) : Append(s, e)[i] = s[i]
  BY <1>4
<1> QED BY <1>5, <1>6, <1>7, <1>8, SeqIsSeq

Increasing(f, names) ==
  /\ f \in [1..Cardinality(names) -> names]
  /\ \A i, j \in DOMAIN f : i < j => f[i] < f[j]

\* A finite set of integers that is not empty has a greatest element.
LEMMA GreatestExists ==
  ASSUME NEW T \in SUBSET Int, IsFiniteSet(T), T # {}
  PROVE  \E x \in T : \A y \in T : y <= x
<1> DEFINE S == {n \in Nat : \A U \in SUBSET Int : IsFiniteSet(U) /\ Cardinality(U) = n + 1
                                => \E x \in U : \A y \in U : y <= x}
<1>1. 0 \in S
  <2> SUFFICES ASSUME NEW U \in SUBSET Int, IsFiniteSet(U), Cardinality(U) = 0 + 1
               PROVE  \E x \in U : \A y \in U : y <= x
    OBVIOUS
  <2>1. PICK x : U = {x}
    BY FS_Singleton
  <2> QED BY <2>1
<1>2. ASSUME NEW n \in S PROVE n + 1 \in S
  <2>1. n \in Nat
    OBVIOUS
  <2> SUFFICES ASSUME NEW U \in SUBSET Int, IsFiniteSet(U), Cardinality(U) = (n + 1) + 1
               PROVE  \E x \in U : \A y \in U : y <= x
    BY <2>1
  <2>2. U # {}
    BY <2>1, FS_EmptySet
  <2>3. PICK u \in U : TRUE
    BY <2>2
  <2>4. IsFiniteSet(U \ {u}) /\ Cardinality(U \ {u}) = n + 1
    BY <2>1, <2>3, FS_RemoveElement
  <2>5. PICK x \in U \ {u} : \A y \in U \ {u} : y <= x
    BY <2>4
  <2> QED BY <2>3, <2>5
<1>3. S = Nat
  <2>1. S \in SUBSET Nat
    OBVIOUS
  <2> HIDE DEF S
  <2> QED BY <1>1, <1>2, <2>1, Inductive
<1>4. Cardinality(T) \in Nat /\ Cardinality(T) # 0
  BY FS_CardinalityType, FS_EmptySet
<1>5. PICK n \in Nat : Cardinality(T) = n + 1
  <2>1. Cardinality(T) - 1 \in Nat /\ Cardinality(T) = (Cardinality(T) - 1) + 1
    BY <1>4
  <2> QED BY <2>1
<1>6. n \in S
  <2> HIDE DEF S
  <2> QED BY <1>3
<1> QED BY <1>5, <1>6

LEMMA InOrderExists ==
  ASSUME NEW T \in SUBSET Int, IsFiniteSet(T)
  PROVE  \E f : Increasing(f, T)
<1> DEFINE S == {n \in Nat : \A U \in SUBSET Int : IsFiniteSet(U) /\ Cardinality(U) = n
                                => \E f : Increasing(f, U)}
<1>1. 0 \in S
  <2> SUFFICES ASSUME NEW U \in SUBSET Int, IsFiniteSet(U), Cardinality(U) = 0
               PROVE  \E f : Increasing(f, U)
    OBVIOUS
  <2>1. PICK f : f = [i \in 1..0 |-> 0]
    OBVIOUS
  <2>2. f \in [1..0 -> U] /\ DOMAIN f = 1..0
    BY <2>1
  <2>3. Increasing(f, U)
    BY <2>2 DEF Increasing
  <2> QED BY <2>3
<1>2. ASSUME NEW n \in S PROVE n + 1 \in S
  <2>1. n \in Nat
    OBVIOUS
  <2> SUFFICES ASSUME NEW U \in SUBSET Int, IsFiniteSet(U), Cardinality(U) = n + 1
               PROVE  \E f : Increasing(f, U)
    BY <2>1
  <2>2. U # {}
    BY <2>1, FS_EmptySet
  <2>3. PICK u \in U : \A y \in U : y <= u
    BY <2>2, GreatestExists
  <2>4. PICK W : W = U \ {u}
    OBVIOUS
  <2>5. IsFiniteSet(W) /\ Cardinality(W) = n /\ W \in SUBSET Int
    <3>1. IsFiniteSet(U \ {u}) /\ Cardinality(U \ {u}) = (n + 1) - 1
      BY <2>3, FS_RemoveElement
    <3>2. (n + 1) - 1 = n
      BY <2>1
    <3> QED BY <2>4, <3>1, <3>2
  <2>6. PICK f : Increasing(f, W)
    BY <2>1, <2>5
  <2>7. f \in [1..n -> W] /\ \A i, j \in 1..n : i < j => f[i] < f[j]
    BY <2>5, <2>6 DEF Increasing
  <2> HIDE DEF S
  <2> DEFINE g == [i \in 1..n + 1 |-> IF i = n + 1 THEN u ELSE f[i]]
  <2>8. ASSUME NEW i \in 1..n + 1 PROVE i = n + 1 \/ i \in 1..n
    BY <2>1
  <2>9. g \in [1..n + 1 -> U]
    <3>1. ASSUME NEW i \in 1..n + 1
          PROVE  (IF i = n + 1 THEN u ELSE f[i]) \in U
      BY <2>3, <2>4, <2>7, <2>8
    <3> QED BY <3>1
  <2>10. ASSUME NEW i \in 1..n + 1, NEW j \in 1..n + 1, i < j
         PROVE  g[i] < g[j]
    <3>1. i \in 1..n /\ i # n + 1
      BY <2>1, <2>10
    <3>2. g[i] = f[i] /\ f[i] \in W
      BY <2>7, <3>1
    <3>3. CASE j = n + 1
      <4>1. g[j] = u
        BY <3>3
      <4>2. f[i] \in Int /\ u \in Int /\ f[i] # u /\ f[i] <= u
        BY <2>3, <2>4, <3>2
      <4> HIDE DEF g
      <4> QED BY <3>2, <4>1, <4>2
    <3>4. CASE j # n + 1
      <4>1. j \in 1..n
        BY <2>8, <3>4
      <4>2. g[j] = f[j]
        BY <3>4
      <4> HIDE DEF g
      <4> QED BY <2>7, <2>10, <3>1, <3>2, <4>1, <4>2
    <3> QED BY <3>3, <3>4
  <2>11. DOMAIN g = 1..n + 1
    OBVIOUS
  <2> HIDE DEF g
  <2>12. Increasing(g, U)
    BY <2>9, <2>10, <2>11 DEF Increasing
  <2> QED BY <2>12
<1>3. S = Nat
  <2>1. S \in SUBSET Nat
    OBVIOUS
  <2> HIDE DEF S
  <2> QED BY <1>1, <1>2, <2>1, Inductive
<1>4. Cardinality(T) \in Nat
  BY FS_CardinalityType
<1>5. Cardinality(T) \in S
  <2> HIDE DEF S
  <2> QED BY <1>3, <1>4
<1> QED BY <1>5

LEMMA InOrderFacts ==
  ASSUME NEW T \in SUBSET Int, IsFiniteSet(T)
  PROVE  Increasing(InOrder(T), T)
<1>1. PICK f : Increasing(f, T)
  BY InOrderExists
<1>2. /\ f \in [1..Cardinality(T) -> T]
      /\ \A i, j \in DOMAIN f : i < j => f[i] < f[j]
  BY <1>1 DEF Increasing
<1>3. /\ InOrder(T) \in [1..Cardinality(T) -> T]
      /\ \A i, j \in DOMAIN InOrder(T) : i < j => InOrder(T)[i] < InOrder(T)[j]
  BY <1>2 DEF InOrder
<1> QED BY <1>3 DEF Increasing

\* The elements of a flattened sequence are those of its parts.
LEMMA FlattenFacts ==
  ASSUME NEW E, NEW q \in Seq(Seq(E))
  PROVE  FlattenSeq(q) \in Seq(E)
<1>0. Len(q) \in Nat
  OBVIOUS
<1>1. CASE Len(q) = 0
  <2>1. FlattenSeq(q) = q
    BY <1>1 DEF FlattenSeq
  <2>2. q = <<>>
    BY <1>1
  <2> QED BY <2>1, <2>2
<1>2. CASE Len(q) # 0
  <2>1. PICK F : F = CHOOSE f : FlatTo(f, q, Len(q))
    OBVIOUS
  <2>2. FlattenSeq(q) = F[Len(q)]
    BY <1>2, <2>1 DEF FlattenSeq, FlatTo, FlatAt
  <2>3. \E f : FlatTo(f, q, Len(q))
    BY <1>0, FlatExists
  <2>4. \A i \in 1..Len(q) : F[i] = FlatAt(F, q, i)
    <3>1. FlatTo(F, q, Len(q))
      BY <2>1, <2>3
    <3> QED BY <3>1 DEF FlatTo
  <2> DEFINE S == {n \in Nat : n + 1 <= Len(q) => F[n + 1] \in Seq(E)}
  <2>5. 0 \in S
    <3> SUFFICES ASSUME 1 <= Len(q) PROVE F[1] \in Seq(E)
      OBVIOUS
    <3>1. 1 \in 1..Len(q)
      BY <1>0
    <3>2. F[1] = q[1] /\ q[1] \in Seq(E)
      BY <2>4, <3>1 DEF FlatAt
    <3> QED BY <3>2
  <2>6. ASSUME NEW n \in S PROVE n + 1 \in S
    <3>1. n \in Nat
      OBVIOUS
    <3> SUFFICES ASSUME (n + 1) + 1 <= Len(q) PROVE F[(n + 1) + 1] \in Seq(E)
      BY <3>1
    <3>2. /\ n + 1 <= Len(q) /\ (n + 1) + 1 \in 1..Len(q) /\ (n + 1) + 1 # 1
          /\ ((n + 1) + 1) - 1 = n + 1
      BY <1>0, <3>1
    <3>3. F[n + 1] \in Seq(E) /\ q[(n + 1) + 1] \in Seq(E)
      BY <3>2
    <3> HIDE DEF S
    <3>4. F[(n + 1) + 1] = FlatAt(F, q, (n + 1) + 1)
      BY <2>4, <3>2
    <3>5. F[(n + 1) + 1] = F[n + 1] \o q[(n + 1) + 1]
      BY <3>2, <3>4 DEF FlatAt
    <3>6. F[n + 1] \o q[(n + 1) + 1] \in Seq(E)
      BY <3>3, ConcatProperties
    <3> QED BY <3>5, <3>6
  <2>7. S = Nat
    <3>1. S \in SUBSET Nat
      OBVIOUS
    <3> HIDE DEF S
    <3> QED BY <2>5, <2>6, <3>1, Inductive, Zenon
  <2>8. PICK n \in Nat : Len(q) = n + 1
    <3>1. Len(q) - 1 \in Nat /\ Len(q) = (Len(q) - 1) + 1
      BY <1>0, <1>2
    <3> QED BY <3>1
  <2>9. n \in S
    <3> HIDE DEF S
    <3> QED BY <2>7
  <2>10. F[n + 1] \in Seq(E)
    BY <2>8, <2>9
  <2> QED BY <2>2, <2>8, <2>10
<1> QED BY <1>1, <1>2

OneAssigned(last, row, k) ==
  [last EXCEPT ![stmt.set.cols[k]] = Evaluate(stmt.set.exprs[k], row, stmt.params)]

AssignAt(f, row, k) == IF k = 0 THEN row ELSE OneAssigned(f[k - 1], row, k)

AssignTo(f, row, hi) == f = [k \in 0..hi |-> AssignAt(f, row, k)]

LEMMA AssignExists ==
  ASSUME NEW row, NEW hi \in Nat
  PROVE  \E f : AssignTo(f, row, hi)
<1> DEFINE S == {n \in Nat : \E f : AssignTo(f, row, n)}
<1>1. 0 \in S
  <2> DEFINE f == [n \in 0..0 |-> row]
  <2>1. \A n \in 0..0 : AssignAt(f, row, n) = row
    BY DEF AssignAt
  <2>2. AssignTo(f, row, 0)
    BY <2>1 DEF AssignTo
  <2> HIDE DEF f
  <2> QED BY <2>2
<1>2. ASSUME NEW n \in S PROVE n + 1 \in S
  <2>1. n \in Nat
    OBVIOUS
  <2>2. PICK f : AssignTo(f, row, n)
    OBVIOUS
  <2> HIDE DEF S
  <2> DEFINE g == [k \in 0..n + 1 |-> IF k = n + 1 THEN AssignAt(f, row, n + 1) ELSE f[k]]
  <2>3. ASSUME NEW k \in 0..n + 1
        PROVE  g[k] = AssignAt(g, row, k)
    <3>1. k # 0 => k - 1 \in 0..n /\ k - 1 # n + 1 /\ k - 1 \in 0..n + 1
      BY <2>1
    <3>2. k # 0 => g[k - 1] = f[k - 1]
      BY <3>1
    <3>3. AssignAt(g, row, k) = AssignAt(f, row, k)
      BY <3>2 DEF AssignAt
    <3>4. CASE k = n + 1
      BY <3>3, <3>4
    <3>5. CASE k # n + 1
      <4>1. k \in 0..n
        BY <2>1, <3>5
      <4>2. g[k] = f[k]
        BY <3>5
      <4>3. f[k] = AssignAt(f, row, k)
        BY <2>2, <4>1 DEF AssignTo
      <4> QED BY <3>3, <4>2, <4>3
    <3> QED BY <3>4, <3>5
  <2>4. g = [k \in 0..n + 1 |-> g[k]]
    OBVIOUS
  <2> HIDE DEF g
  <2>5. AssignTo(g, row, n + 1)
    BY <2>3, <2>4 DEF AssignTo
  <2> QED BY <2>1, <2>5 DEF S
<1>3. S = Nat
  <2>1. S \in SUBSET Nat
    OBVIOUS
  <2> HIDE DEF S
  <2> QED BY <1>1, <1>2, <2>1, Inductive
<1> QED BY <1>3

\* What the first n assignments make of the column j.
SetUpTo(s, row, n, j) ==
  LET sets == {k \in 1..n : s.set.cols[k] = j} IN
  IF sets = {} THEN row[j] ELSE Evaluate(s.set.exprs[Max(sets)], row, s.params)

LEMMA SetNext ==
  ASSUME NEW s, NEW row, NEW n \in Nat, NEW j
  PROVE  SetUpTo(s, row, n + 1, j) =
           IF s.set.cols[n + 1] = j THEN Evaluate(s.set.exprs[n + 1], row, s.params)
           ELSE SetUpTo(s, row, n, j)
<1> DEFINE A == {k \in 1..n : s.set.cols[k] = j}
           B == {k \in 1..n + 1 : s.set.cols[k] = j}
<1>1. CASE s.set.cols[n + 1] = j
  <2>1. n + 1 \in B /\ \A k \in B : k \in Nat /\ k <= n + 1
    BY <1>1
  <2> HIDE DEF A, B
  <2>2. Max(B) \in B /\ \A k \in B : Max(B) >= k
    <3>1. \E x \in B : \A y \in B : x >= y
      BY <2>1
    <3> QED BY <3>1 DEF Max
  <2>3. Max(B) = n + 1
    BY <2>1, <2>2
  <2> QED BY <1>1, <2>1, <2>3 DEF SetUpTo, B
<1>2. CASE s.set.cols[n + 1] # j
  <2>1. A = B
    BY <1>2
  <2> HIDE DEF A, B
  <2> QED BY <1>2, <2>1 DEF SetUpTo, A, B
<1> QED BY <1>1, <1>2

\* SET changes values of a row and not its columns, all of them computed from
\* the row as it was.
LEMMA AssignedFacts ==
  ASSUME NEW row, IsSeq(row), Len(stmt.set.cols) \in Nat
  PROVE  /\ IsSeq(Assigned(row)) /\ Len(Assigned(row)) = Len(row)
         /\ \A j \in 1..Len(row) :
              Assigned(row)[j] = SetUpTo(stmt, row, Len(stmt.set.cols), j)
<1>1. PICK hi \in Nat : hi = Len(stmt.set.cols)
  OBVIOUS
<1>2. PICK F : F = CHOOSE f : AssignTo(f, row, hi)
  OBVIOUS
<1>3. Assigned(row) = F[hi]
  BY <1>1, <1>2 DEF Assigned, AssignTo, AssignAt, OneAssigned
<1>4. \A k \in 0..hi : F[k] = AssignAt(F, row, k)
  <2>1. AssignTo(F, row, hi)
    BY <1>2, AssignExists
  <2> QED BY <2>1 DEF AssignTo
<1> DEFINE Good(n) == /\ IsSeq(F[n]) /\ Len(F[n]) = Len(row)
                      /\ \A j \in 1..Len(row) : F[n][j] = SetUpTo(stmt, row, n, j)
           S == {n \in Nat : n <= hi => Good(n)}
<1>5. 0 \in S
  <2>1. F[0] = row
    BY <1>4 DEF AssignAt
  <2>2. \A j : SetUpTo(stmt, row, 0, j) = row[j]
    BY DEF SetUpTo
  <2>3. Good(0)
    BY <2>1, <2>2
  <2> HIDE DEF Good
  <2> QED BY <2>3
<1>6. ASSUME NEW n \in S PROVE n + 1 \in S
  <2> SUFFICES ASSUME n + 1 <= hi PROVE Good(n + 1)
    <3> HIDE DEF Good
    <3> QED OBVIOUS
  <2>1. n \in Nat /\ n <= hi /\ n + 1 \in 0..hi /\ n + 1 # 0 /\ (n + 1) - 1 = n
    OBVIOUS
  <2>2. Good(n)
    <3> HIDE DEF Good
    <3> QED BY <2>1
  <2> HIDE DEF S
  <2>3. F[n + 1] = OneAssigned(F[n], row, n + 1)
    BY <1>4, <2>1 DEF AssignAt
  <2>4. PICK s : s = F[n]
    OBVIOUS
  <2>4a. PICK m \in Nat : m = Len(s) /\ DOMAIN s = 1..m
    BY <2>2, <2>4, SeqFacts
  <2>5. PICK t : t = OneAssigned(s, row, n + 1)
    OBVIOUS
  <2>6. /\ DOMAIN t = 1..m /\ t = [i \in 1..m |-> t[i]]
        /\ \A j \in 1..m : t[j] = SetUpTo(stmt, row, n + 1, j)
    <3>1. PICK c : c = stmt.set.cols[n + 1]
      OBVIOUS
    <3>2. PICK e : e = Evaluate(stmt.set.exprs[n + 1], row, stmt.params)
      OBVIOUS
    <3>3. t = [s EXCEPT ![c] = e]
      BY <2>5, <3>1, <3>2 DEF OneAssigned
    <3>4. \A j \in 1..m : t[j] = IF c = j THEN e ELSE s[j]
      BY <2>4a, <3>3
    <3>5. \A j \in 1..m : s[j] = SetUpTo(stmt, row, n, j)
      BY <2>2, <2>4, <2>4a
    <3>6. \A j \in 1..m : t[j] = SetUpTo(stmt, row, n + 1, j)
      BY <2>1, <3>1, <3>2, <3>4, <3>5, SetNext
    <3> QED BY <2>4a, <3>3, <3>6
  <2>7. IsSeq(t) /\ Len(t) = m
    BY <2>6, FunctionIsSeq
  <2> QED BY <2>2, <2>3, <2>4, <2>4a, <2>5, <2>6, <2>7
<1>7. S = Nat
  <2>1. S \in SUBSET Nat
    OBVIOUS
  <2> HIDE DEF S
  <2> QED BY <1>5, <1>6, <2>1, Inductive
<1>8. Good(hi)
  <2> HIDE DEF Good
  <2>1. hi \in S
    BY <1>7
  <2> QED BY <2>1
<1> QED BY <1>1, <1>3, <1>8

-----------------------------------------------------------------------------
(***************************************************************************)
(* The tables.                                                             *)
(***************************************************************************)
RowInv(row, columns) ==
  /\ IsSeq(row) /\ Len(row) = Len(columns)
  /\ \A j \in 1..Len(columns) : Fits(row[j], columns[j])

\* No two rows have the same key.
KeysInv(rows, columns) ==
  \A j \in 1..Len(columns) : IsKey(columns[j]) =>
    \A i, k \in 1..Len(rows) :
      i # k /\ ~IsNull(rows[i][j]) => ~Same(rows[i][j], rows[k][j])

TableInv(table) ==
  /\ table = [columns |-> table.columns, rows |-> table.rows]
  /\ table.columns \in Seq(Columns)
  /\ IsSeq(table.rows)
  /\ \A i \in 1..Len(table.rows) : RowInv(table.rows[i], table.columns)
  /\ KeysInv(table.rows, table.columns)

UserNames == {s.table : s \in Created}

NamesInv(names) == names \subseteq Reserved \cup UserNames

\* The schema of a catalog table, and its rows as they are made anew.
LEMMA SchemaTyped ==
  ASSUME NEW n
  PROVE  CatalogSchema(n) \in Seq(Columns)
<1>1. \A name \in Nat, type \in 1..5, nullable, primary, unique \in BOOLEAN :
        Column(name, type, nullable, primary, unique) \in Columns
  BY DEF Column, Columns
<1>2. /\ TRUE \in BOOLEAN /\ FALSE \in BOOLEAN /\ 1 \in 1..5 /\ 2 \in 1..5 /\ 4 \in 1..5
      /\ 1 \in Nat /\ 2 \in Nat /\ 3 \in Nat /\ 4 \in Nat /\ 5 \in Nat /\ 6 \in Nat
  OBVIOUS
<1> HIDE DEF Columns
<1>3. CASE n = TablesName
  <2>1. PICK a, b, c, d \in Columns :
          /\ a = Column(1, 2, FALSE, TRUE, TRUE) /\ b = Column(2, 4, FALSE, FALSE, TRUE)
          /\ c = Column(3, 2, FALSE, FALSE, FALSE) /\ d = Column(4, 2, FALSE, FALSE, FALSE)
    BY <1>1, <1>2, Zenon
  <2>2. <<a, b, c, d>> \in Seq(Columns)
    OBVIOUS
  <2> QED BY <1>3, <2>1, <2>2, Zenon DEF CatalogSchema
<1>4. CASE n # TablesName
  <2>1. PICK a, b, c, d, e, f \in Columns :
          /\ a = Column(1, 2, FALSE, FALSE, FALSE) /\ b = Column(2, 2, FALSE, FALSE, FALSE)
          /\ c = Column(3, 4, FALSE, FALSE, FALSE) /\ d = Column(4, 2, FALSE, FALSE, FALSE)
          /\ e = Column(5, 1, FALSE, FALSE, FALSE) /\ f = Column(6, 1, FALSE, FALSE, FALSE)
    BY <1>1, <1>2, Zenon
  <2>2. <<a, b, c, d, e, f>> \in Seq(Columns)
    OBVIOUS
  <2> QED BY <1>4, <2>1, <2>2, Zenon DEF CatalogSchema
<1> QED BY <1>3, <1>4

LEMMA FourIsSeq ==
  ASSUME NEW a, NEW b, NEW c, NEW d
  PROVE  IsSeq(<<a, b, c, d>>) /\ Len(<<a, b, c, d>>) = 4
<1>1. PICK S : a \in S /\ b \in S /\ c \in S /\ d \in S
  <2>1. \E S : S = {a, b, c, d}
    OBVIOUS
  <2> QED BY <2>1
<1>2. <<a, b, c, d>> \in Seq(S)
  BY <1>1
<1> QED BY <1>2, SeqIsSeq

LEMMA TablesCatalog ==
  ASSUME NEW t, NEW n \in Nat, n <= Mantissa, NEW names \in [1..n -> Int],
         \A i, j \in 1..n : i < j => names[i] < names[j]
  PROVE  TableInv([columns |-> CatalogSchema(TablesName),
                   rows    |-> CatalogRows(t, names, TablesName)])
<1>0. PICK columns : columns = CatalogSchema(TablesName)
  OBVIOUS
<1>1. columns \in Seq(Columns)
  BY <1>0, SchemaTyped
<1>2. /\ Len(columns) = 4
      /\ columns[1].type = 2 /\ columns[2].type = 4 /\ columns[3].type = 2 /\ columns[4].type = 2
      /\ ~IsKey(columns[3]) /\ ~IsKey(columns[4])
  BY <1>0 DEF CatalogSchema, Column, IsKey
<1> DEFINE row(i) == <<Integer(i), Text(<<names[i]>>), Integer(0), Integer(Len(t[names[i]].rows))>>
<1>3. PICK rows : rows = [i \in 1..n |-> row(i)]
  OBVIOUS
<1>4. CatalogRows(t, names, TablesName) = rows
  BY <1>3 DEF CatalogRows
<1>5. IsSeq(rows) /\ Len(rows) = n
  <2> HIDE DEF row
  <2> QED BY <1>3, FunctionIsSeq
<1>6. ASSUME NEW i \in 1..n
      PROVE  /\ rows[i][1] = Integer(i) /\ rows[i][2] = Text(<<names[i]>>)
             /\ RowInv(rows[i], columns)
  <2>1. rows[i] = row(i)
    BY <1>3
  <2>2. IsSeq(row(i)) /\ Len(row(i)) = 4
    BY FourIsSeq
  <2>3. /\ row(i)[1] = Integer(i) /\ row(i)[2] = Text(<<names[i]>>)
        /\ row(i)[3] = Integer(0) /\ row(i)[4] = Integer(Len(t[names[i]].rows))
    OBVIOUS
  <2> HIDE DEF row
  <2>4. \A x, c : c.type = 2 => Fits(Integer(x), c)
    BY DEF Fits, Integer, IsNull
  <2>5. \A x, c : c.type = 4 => Fits(Text(x), c)
    BY DEF Fits, Text, IsNull
  <2>6. \A j \in 1..4 : j = 1 \/ j = 2 \/ j = 3 \/ j = 4
    OBVIOUS
  <2>7. \A j \in 1..4 : Fits(row(i)[j], columns[j])
    BY <1>2, <2>3, <2>4, <2>5, <2>6
  <2> QED BY <1>2, <2>1, <2>2, <2>3, <2>7 DEF RowInv
<1>7. KeysInv(rows, columns)
  <2> SUFFICES ASSUME NEW j \in 1..4, IsKey(columns[j]), NEW i \in 1..n, NEW k \in 1..n, i # k
               PROVE  ~Same(rows[i][j], rows[k][j])
    BY <1>2, <1>5 DEF KeysInv
  <2>1. j = 1 \/ j = 2
    BY <1>2
  <2>2. i \in 1..Mantissa /\ k \in 1..Mantissa
    BY WidthAssumption
  <2>3. ~Same(Integer(i), Integer(k))
    BY <2>2, IntegersDiffer
  <2>4. names[i] \in Int /\ names[k] \in Int /\ names[i] # names[k]
    BY i < k \/ k < i
  <2>5. ~Same(Text(<<names[i]>>), Text(<<names[k]>>))
    BY <2>4, TextsDiffer
  <2> QED BY <1>6, <2>1, <2>3, <2>5
<1> QED BY <1>0, <1>1, <1>4, <1>5, <1>6, <1>7 DEF TableInv

\* The row of a column in the catalog.
ColumnRow(i, j, c) ==
  <<Integer(i), Integer(j - 1), Text(<<c.name>>), Integer(c.type),
    Boolean(c.nullable), Boolean(c.primary)>>

LEMMA ColumnsCatalog ==
  ASSUME NEW t, NEW n \in Nat, NEW names, DOMAIN names = 1..n,
         \A i \in 1..n : t[names[i]].columns \in Seq(Columns)
  PROVE  TableInv([columns |-> CatalogSchema(ColumnsName),
                   rows    |-> CatalogRows(t, names, ColumnsName)])
<1>0. PICK columns : columns = CatalogSchema(ColumnsName)
  OBVIOUS
<1>1. columns \in Seq(Columns)
  BY <1>0, SchemaTyped
<1>2. /\ Len(columns) = 6 /\ \A j \in 1..6 : ~IsKey(columns[j])
      /\ columns[1].type = 2 /\ columns[2].type = 2 /\ columns[3].type = 4
      /\ columns[4].type = 2 /\ columns[5].type = 1 /\ columns[6].type = 1
  <2>1. ColumnsName # TablesName
    BY DEF ColumnsName, TablesName
  <2>2. PICK a, b, c, d, e, f :
          /\ a = Column(1, 2, FALSE, FALSE, FALSE) /\ b = Column(2, 2, FALSE, FALSE, FALSE)
          /\ c = Column(3, 4, FALSE, FALSE, FALSE) /\ d = Column(4, 2, FALSE, FALSE, FALSE)
          /\ e = Column(5, 1, FALSE, FALSE, FALSE) /\ f = Column(6, 1, FALSE, FALSE, FALSE)
    OBVIOUS
  <2>3. columns = <<a, b, c, d, e, f>>
    BY <1>0, <2>1, <2>2 DEF CatalogSchema
  <2>4. /\ a.type = 2 /\ b.type = 2 /\ c.type = 4 /\ d.type = 2 /\ e.type = 1 /\ f.type = 1
        /\ ~IsKey(a) /\ ~IsKey(b) /\ ~IsKey(c) /\ ~IsKey(d) /\ ~IsKey(e) /\ ~IsKey(f)
    BY <2>2 DEF Column, IsKey
  <2>5. \A j \in 1..6 : columns[j] \in {a, b, c, d, e, f}
    BY <2>3
  <2> QED BY <2>3, <2>4, <2>5
<1> DEFINE E == {ColumnRow(i, j, c) : i \in Nat, j \in Nat, c \in Columns}
           part(i) == [j \in DOMAIN t[names[i]].columns |-> ColumnRow(i, j, t[names[i]].columns[j])]
           q == [i \in 1..n |-> part(i)]
<1>3. CatalogRows(t, names, ColumnsName) = FlattenSeq(q)
  <2>1. ColumnsName # TablesName
    BY DEF ColumnsName, TablesName
  <2> QED BY <2>1, Zenon DEF CatalogRows, ColumnRow
<1>4. ASSUME NEW i \in 1..n PROVE part(i) \in Seq(E)
  <2>1. PICK cs \in Seq(Columns) : cs = t[names[i]].columns
    OBVIOUS
  <2>2. \A j \in 1..Len(cs) : ColumnRow(i, j, cs[j]) \in E
    <3>1. \A j \in 1..Len(cs) : cs[j] \in Columns /\ j \in Nat /\ i \in Nat
      BY <2>1
    <3> QED BY <3>1
  <2>3. part(i) = [j \in 1..Len(cs) |-> ColumnRow(i, j, cs[j])]
    BY <2>1
  <2> HIDE DEF E, part
  <2>4. part(i) \in [1..Len(cs) -> E] /\ Len(cs) \in Nat
    BY <2>2, <2>3
  <2> QED BY <2>4
<1>5. q \in Seq(Seq(E))
  <2> HIDE DEF E, part
  <2>1. q \in [1..n -> Seq(E)]
    BY <1>4
  <2> HIDE DEF q
  <2> QED BY <2>1
<1>6. PICK rows : rows = FlattenSeq(q)
  OBVIOUS
<1>7. rows \in Seq(E)
  <2> HIDE DEF E, q
  <2> QED BY <1>5, <1>6, FlattenFacts
<1>8. IsSeq(rows)
  <2> HIDE DEF E, q
  <2> QED BY <1>7, SeqIsSeq
<1>9. ASSUME NEW i \in 1..Len(rows) PROVE RowInv(rows[i], columns)
  <2>1. rows[i] \in E
    <3> HIDE DEF E, q
    <3> QED BY <1>7
  <2>2. PICK x, y, c : rows[i] = ColumnRow(x, y, c)
    BY <2>1
  <2>3. PICK a, b, d, e, f, g : /\ a = Integer(x) /\ b = Integer(y - 1) /\ d = Text(<<c.name>>)
                                /\ e = Integer(c.type) /\ f = Boolean(c.nullable)
                                /\ g = Boolean(c.primary)
    OBVIOUS
  <2>4. rows[i] = <<a, b, d, e, f, g>>
    BY <2>2, <2>3 DEF ColumnRow
  <2>5. a.type = 2 /\ b.type = 2 /\ d.type = 4 /\ e.type = 2 /\ f.type = 1 /\ g.type = 1
    BY <2>3 DEF Integer, Text, Boolean
  <2>6. PICK S : S = {a, b, d, e, f, g}
    OBVIOUS
  <2>7. rows[i] \in Seq(S) /\ Len(rows[i]) = 6
    BY <2>4, <2>6
  <2>9. /\ rows[i][1] = a /\ rows[i][2] = b /\ rows[i][3] = d
        /\ rows[i][4] = e /\ rows[i][5] = f /\ rows[i][6] = g
    BY <2>4
  <2>10. \A j \in 1..6 : j = 1 \/ j = 2 \/ j = 3 \/ j = 4 \/ j = 5 \/ j = 6
    OBVIOUS
  <2>11. \A j \in 1..6 : Fits(rows[i][j], columns[j])
    <3>1. /\ Fits(a, columns[1]) /\ Fits(b, columns[2]) /\ Fits(d, columns[3])
          /\ Fits(e, columns[4]) /\ Fits(f, columns[5]) /\ Fits(g, columns[6])
      BY <1>2, <2>5 DEF Fits, IsNull
    <3> QED BY <2>9, <2>10, <3>1
  <2>12. IsSeq(rows[i])
    BY <2>7, SeqIsSeq
  <2> QED BY <1>2, <2>7, <2>11, <2>12 DEF RowInv
<1>10. KeysInv(rows, columns)
  BY <1>2 DEF KeysInv
<1> HIDE DEF E, q
<1> QED BY <1>0, <1>1, <1>3, <1>6, <1>8, <1>9, <1>10 DEF TableInv

\* RefreshCatalog makes catalog tables that keep their own constraints.
LEMMA RefreshKeeps ==
  ASSUME NEW t, NamesInv(DOMAIN t), \A n \in DOMAIN t : TableInv(t[n])
  PROVE  /\ NamesInv(DOMAIN RefreshCatalog(t))
         /\ \A n \in DOMAIN RefreshCatalog(t) : TableInv(RefreshCatalog(t)[n])
<1>1. PICK T : T = DOMAIN t \ Reserved
  OBVIOUS
<1>2. UserNames \in SUBSET Int /\ IsFiniteSet(UserNames) /\ Cardinality(UserNames) <= Mantissa
  BY StatementAssumption DEF UserNames
<1>3. T \subseteq UserNames /\ T \subseteq DOMAIN t
  BY <1>1 DEF NamesInv
<1>4. IsFiniteSet(T) /\ Cardinality(T) <= Cardinality(UserNames)
  BY <1>2, <1>3, FS_Subset
<1>5. Cardinality(T) \in Nat /\ Cardinality(UserNames) \in Nat /\ Mantissa \in Nat
  BY <1>2, <1>4, FS_CardinalityType, WidthAssumption
<1>6. PICK n \in Nat : n = Cardinality(T) /\ n <= Mantissa
  BY <1>2, <1>4, <1>5
<1>7. PICK names : names = InOrder(T)
  OBVIOUS
<1>8. names \in [1..n -> T] /\ \A i, j \in 1..n : i < j => names[i] < names[j]
  <2>1. Increasing(names, T)
    BY <1>2, <1>3, <1>4, <1>7, InOrderFacts
  <2> QED BY <1>6, <2>1 DEF Increasing
<1>9. names \in [1..n -> Int] /\ DOMAIN names = 1..n
  BY <1>2, <1>3, <1>8
<1>10. \A i \in 1..n : t[names[i]].columns \in Seq(Columns)
  BY <1>3, <1>8 DEF TableInv
<1>11. TableInv([columns |-> CatalogSchema(TablesName),
                 rows    |-> CatalogRows(t, names, TablesName)])
  BY <1>6, <1>8, <1>9, TablesCatalog
<1>12. TableInv([columns |-> CatalogSchema(ColumnsName),
                 rows    |-> CatalogRows(t, names, ColumnsName)])
  BY <1>9, <1>10, ColumnsCatalog
<1>13. DOMAIN RefreshCatalog(t) = Reserved \cup DOMAIN t
  BY DEF RefreshCatalog
<1>14. ASSUME NEW m \in Reserved \cup DOMAIN t PROVE TableInv(RefreshCatalog(t)[m])
  <2>1. CASE m \in Reserved
    <3>1. RefreshCatalog(t)[m] = [columns |-> CatalogSchema(m), rows |-> CatalogRows(t, names, m)]
      BY <1>1, <1>7, <2>1 DEF RefreshCatalog
    <3>2. m = TablesName \/ m = ColumnsName
      BY <2>1 DEF Reserved
    <3> QED BY <1>11, <1>12, <3>1, <3>2
  <2>2. CASE m \notin Reserved
    <3>1. RefreshCatalog(t)[m] = t[m] /\ m \in DOMAIN t
      BY <2>2 DEF RefreshCatalog
    <3> QED BY <3>1
  <2> QED BY <2>1, <2>2
<1>15. NamesInv(Reserved \cup DOMAIN t)
  BY DEF NamesInv
<1> QED BY <1>13, <1>14, <1>15

-----------------------------------------------------------------------------
(***************************************************************************)
(* What the statements do to one table.                                    *)
(***************************************************************************)
LEMMA ValidateFacts ==
  ASSUME NEW table, TableInv(table), NEW row, IsSeq(row), NEW ignored,
         ValidateRow(table, row, ignored)
  PROVE  /\ RowInv(row, table.columns)
         /\ \A j \in 1..Len(table.columns) : IsKey(table.columns[j]) =>
              \A i \in 1..Len(table.rows) : i # ignored =>
                /\ ~IsNull(table.rows[i][j]) => ~Same(table.rows[i][j], row[j])
                /\ ~IsNull(row[j]) => ~Same(row[j], table.rows[i][j])
<1>1. /\ DOMAIN row = 1..Len(row) /\ Len(row) = Len(table.columns)
      /\ DOMAIN table.rows = 1..Len(table.rows)
  BY SeqFacts DEF TableInv, ValidateRow
<1>2. \A j \in 1..Len(table.columns) : Fits(row[j], table.columns[j])
  BY <1>1 DEF ValidateRow
<1>3. \A j \in 1..Len(table.columns), i \in 1..Len(table.rows) :
        IsKey(table.columns[j]) /\ i # ignored /\ ~IsNull(row[j])
          => ~Same(table.rows[i][j], row[j])
  BY <1>1 DEF ValidateRow, Duplicate
<1>4. ASSUME NEW j \in 1..Len(table.columns), IsKey(table.columns[j]),
             NEW i \in 1..Len(table.rows), i # ignored
      PROVE  /\ ~IsNull(table.rows[i][j]) => ~Same(table.rows[i][j], row[j])
             /\ ~IsNull(row[j]) => ~Same(row[j], table.rows[i][j])
  <2>1. ASSUME ~IsNull(table.rows[i][j]), Same(table.rows[i][j], row[j]) PROVE FALSE
    BY <1>3, <1>4, <2>1, SameNotNull
  <2>2. ASSUME ~IsNull(row[j]), Same(row[j], table.rows[i][j]) PROVE FALSE
    BY <1>3, <1>4, <2>2, SameSymmetric
  <2> QED BY <2>1, <2>2
<1> QED BY <1>1, <1>2, <1>4 DEF RowInv

\* A table with other rows.
WithRows(table, rows) == [columns |-> table.columns, rows |-> rows]

LEMMA RowsReplaced ==
  ASSUME NEW n \in DOMAIN tables, TableInv(tables[n]), NEW rows,
         tables' = [tables EXCEPT ![n].rows = rows]
  PROVE  /\ DOMAIN tables' = DOMAIN tables
         /\ tables'[n] = WithRows(tables[n], rows)
         /\ \A m \in DOMAIN tables : m # n => tables'[m] = tables[m]
<1>1. PICK table : table = tables[n]
  OBVIOUS
<1>2. tables' = [tables EXCEPT ![n] = [table EXCEPT !.rows = rows]]
  BY <1>1
<1>3. table = [columns |-> table.columns, rows |-> table.rows]
  BY <1>1 DEF TableInv
<1>4. [table EXCEPT !.rows = rows] = [columns |-> table.columns, rows |-> rows]
  BY <1>3
<1> QED BY <1>1, <1>2, <1>4 DEF WithRows

LEMMA AppendKeeps ==
  ASSUME NEW table, TableInv(table), NEW row, IsSeq(row), ValidateRow(table, row, 0)
  PROVE  TableInv(WithRows(table, Append(table.rows, row)))
<1>1. PICK rows : rows = Append(table.rows, row)
  OBVIOUS
<1>2. PICK n \in Nat : n = Len(table.rows)
  BY SeqFacts DEF TableInv
<1>3. /\ IsSeq(rows) /\ Len(rows) = n + 1 /\ rows[n + 1] = row
      /\ \A i \in 1..n : rows[i] = table.rows[i]
  BY <1>1, <1>2, AppendIsSeq DEF TableInv
<1>4. \A i \in 1..n + 1 : i \in 1..n \/ i = n + 1
  OBVIOUS
<1>5. \A i \in 1..n : i # 0
  OBVIOUS
<1>6. /\ RowInv(row, table.columns)
      /\ \A j \in 1..Len(table.columns) : IsKey(table.columns[j]) =>
           \A i \in 1..n :
             /\ ~IsNull(table.rows[i][j]) => ~Same(table.rows[i][j], row[j])
             /\ ~IsNull(row[j]) => ~Same(row[j], table.rows[i][j])
  BY <1>2, <1>5, ValidateFacts
<1>7. \A i \in 1..n + 1 : RowInv(rows[i], table.columns)
  <2>1. \A i \in 1..n : RowInv(table.rows[i], table.columns)
    BY <1>2 DEF TableInv
  <2> QED BY <1>3, <1>4, <1>6, <2>1
<1>8. KeysInv(rows, table.columns)
  <2> SUFFICES ASSUME NEW j \in 1..Len(table.columns), IsKey(table.columns[j]),
                      NEW i \in 1..n + 1, NEW k \in 1..n + 1, i # k, ~IsNull(rows[i][j])
               PROVE  ~Same(rows[i][j], rows[k][j])
    BY <1>3 DEF KeysInv
  <2>1. CASE i \in 1..n /\ k \in 1..n
    BY <1>2, <1>3, <2>1 DEF TableInv, KeysInv
  <2>2. CASE i \in 1..n /\ k = n + 1
    BY <1>3, <1>6, <2>2
  <2>3. CASE i = n + 1 /\ k \in 1..n
    BY <1>3, <1>6, <2>3
  <2> QED BY <1>4, <2>1, <2>2, <2>3
<1>9. table.columns \in Seq(Columns)
  BY DEF TableInv
<1> QED BY <1>1, <1>3, <1>7, <1>8, <1>9 DEF TableInv, WithRows

LEMMA ReplaceKeeps ==
  ASSUME NEW table, TableInv(table), NEW k \in 1..Len(table.rows), NEW row, IsSeq(row),
         ValidateRow(table, row, k)
  PROVE  TableInv(WithRows(table, [table.rows EXCEPT ![k] = row]))
<1>1. PICK rows : rows = [table.rows EXCEPT ![k] = row]
  OBVIOUS
<1>2. PICK n \in Nat : n = Len(table.rows) /\ DOMAIN table.rows = 1..n
  BY SeqFacts DEF TableInv
<1>3. /\ DOMAIN rows = 1..n /\ rows = [i \in 1..n |-> rows[i]]
      /\ rows[k] = row /\ \A i \in 1..n : i # k => rows[i] = table.rows[i]
  BY <1>1, <1>2
<1>4. IsSeq(rows) /\ Len(rows) = n
  BY <1>3, FunctionIsSeq
<1>6. /\ RowInv(row, table.columns)
      /\ \A j \in 1..Len(table.columns) : IsKey(table.columns[j]) =>
           \A i \in 1..n : i # k =>
             /\ ~IsNull(table.rows[i][j]) => ~Same(table.rows[i][j], row[j])
             /\ ~IsNull(row[j]) => ~Same(row[j], table.rows[i][j])
  BY <1>2, ValidateFacts
<1>7. \A i \in 1..n : RowInv(rows[i], table.columns)
  <2>1. \A i \in 1..n : RowInv(table.rows[i], table.columns)
    BY <1>2 DEF TableInv
  <2> QED BY <1>3, <1>6, <2>1
<1>8. KeysInv(rows, table.columns)
  <2> SUFFICES ASSUME NEW j \in 1..Len(table.columns), IsKey(table.columns[j]),
                      NEW i \in 1..n, NEW m \in 1..n, i # m, ~IsNull(rows[i][j])
               PROVE  ~Same(rows[i][j], rows[m][j])
    BY <1>4 DEF KeysInv
  <2>1. CASE i # k /\ m # k
    BY <1>2, <1>3, <2>1 DEF TableInv, KeysInv
  <2>2. CASE i # k /\ m = k
    BY <1>3, <1>6, <2>2
  <2>3. CASE i = k /\ m # k
    BY <1>3, <1>6, <2>3
  <2> QED BY <2>1, <2>2, <2>3
<1>9. table.columns \in Seq(Columns)
  BY DEF TableInv
<1> QED BY <1>1, <1>4, <1>7, <1>8, <1>9 DEF TableInv, WithRows

\* The rows of b are rows before the m-th, no two of them the same one.
Kept(b, rows, m) ==
  /\ IsSeq(b)
  /\ \E f \in [1..Len(b) -> 1..Len(rows)] :
       /\ \A k \in 1..Len(b) : f[k] < m /\ b[k] = rows[f[k]]
       /\ \A i, k \in 1..Len(b) : i # k => f[i] # f[k]

LEMMA KeptLater ==
  ASSUME NEW b, NEW rows, Len(rows) \in Nat, NEW m \in Nat, Kept(b, rows, m)
  PROVE  Kept(b, rows, m + 1)
<1>1. PICK f \in [1..Len(b) -> 1..Len(rows)] :
        /\ \A k \in 1..Len(b) : f[k] < m /\ b[k] = rows[f[k]]
        /\ \A i, k \in 1..Len(b) : i # k => f[i] # f[k]
  BY DEF Kept
<1>2. \A k \in 1..Len(b) : f[k] < m + 1
  BY <1>1
<1> QED BY <1>1, <1>2 DEF Kept

LEMMA KeptMore ==
  ASSUME NEW b, NEW rows, Len(rows) \in Nat, NEW m \in 1..Len(rows), Kept(b, rows, m)
  PROVE  Kept(Append(b, rows[m]), rows, m + 1)
<1>1. PICK c : c = Append(b, rows[m])
  OBVIOUS
<1>2. PICK n \in Nat : n = Len(b)
  BY SeqFacts DEF Kept
<1>3. PICK f \in [1..n -> 1..Len(rows)] :
        /\ \A k \in 1..n : f[k] < m /\ b[k] = rows[f[k]]
        /\ \A i, k \in 1..n : i # k => f[i] # f[k]
  BY <1>2 DEF Kept
<1>4. /\ IsSeq(c) /\ Len(c) = n + 1 /\ c[n + 1] = rows[m]
      /\ \A i \in 1..n : c[i] = b[i]
  BY <1>1, <1>2, AppendIsSeq DEF Kept
<1>5. PICK g : g = [k \in 1..n + 1 |-> IF k = n + 1 THEN m ELSE f[k]]
  OBVIOUS
<1>6. \A i \in 1..n + 1 : i \in 1..n \/ i = n + 1
  OBVIOUS
<1>7. g[n + 1] = m /\ \A i \in 1..n : g[i] = f[i]
  BY <1>5
<1>8. g \in [1..n + 1 -> 1..Len(rows)]
  <2>1. \A k \in 1..n + 1 : (IF k = n + 1 THEN m ELSE f[k]) \in 1..Len(rows)
    BY <1>3, <1>6
  <2> QED BY <1>5, <2>1
<1>9. \A k \in 1..n + 1 : g[k] < m + 1 /\ c[k] = rows[g[k]]
  <2>1. ASSUME NEW k \in 1..n PROVE g[k] < m + 1 /\ c[k] = rows[g[k]]
    <3>1. g[k] = f[k] /\ f[k] \in 1..Len(rows) /\ f[k] < m /\ b[k] = rows[f[k]] /\ c[k] = b[k]
      BY <1>3, <1>4, <1>7
    <3>2. f[k] < m + 1
      BY <3>1
    <3> QED BY <3>1, <3>2
  <2>2. g[n + 1] < m + 1 /\ c[n + 1] = rows[g[n + 1]]
    BY <1>4, <1>7
  <2> QED BY <1>6, <2>1, <2>2
<1>10. \A i, k \in 1..n + 1 : i # k => g[i] # g[k]
  <2> SUFFICES ASSUME NEW i \in 1..n + 1, NEW k \in 1..n + 1, i # k PROVE g[i] # g[k]
    OBVIOUS
  <2>1. \A x \in 1..n : g[x] # m
    BY <1>3, <1>7
  <2> QED BY <1>3, <1>6, <1>7, <2>1
<1>11. Kept(c, rows, m + 1)
  <2>1. g \in [1..Len(c) -> 1..Len(rows)]
    BY <1>4, <1>8
  <2>2. \A k \in 1..Len(c) : g[k] < m + 1 /\ c[k] = rows[g[k]]
    BY <1>4, <1>9
  <2>3. \A i, k \in 1..Len(c) : i # k => g[i] # g[k]
    BY <1>4, <1>10
  <2> QED BY <1>4, <2>1, <2>2, <2>3 DEF Kept
<1> QED BY <1>1, <1>11

LEMMA DeleteKeeps ==
  ASSUME NEW table, TableInv(table), NEW b, NEW m, Kept(b, table.rows, m)
  PROVE  TableInv(WithRows(table, b))
<1>1. PICK f \in [1..Len(b) -> 1..Len(table.rows)] :
        /\ \A k \in 1..Len(b) : f[k] < m /\ b[k] = table.rows[f[k]]
        /\ \A i, k \in 1..Len(b) : i # k => f[i] # f[k]
  BY DEF Kept
<1>2. \A i \in 1..Len(b) : RowInv(b[i], table.columns)
  BY <1>1 DEF TableInv
<1>3. KeysInv(b, table.columns)
  <2> SUFFICES ASSUME NEW j \in 1..Len(table.columns), IsKey(table.columns[j]),
                      NEW i \in 1..Len(b), NEW k \in 1..Len(b), i # k, ~IsNull(b[i][j])
               PROVE  ~Same(b[i][j], b[k][j])
    BY DEF KeysInv
  <2>1. /\ f[i] \in 1..Len(table.rows) /\ f[k] \in 1..Len(table.rows) /\ f[i] # f[k]
        /\ b[i] = table.rows[f[i]] /\ b[k] = table.rows[f[k]]
    BY <1>1
  <2> QED BY <2>1 DEF TableInv, KeysInv
<1>4. table.columns \in Seq(Columns) /\ IsSeq(b)
  BY DEF TableInv, Kept
<1> QED BY <1>2, <1>3, <1>4 DEF TableInv, WithRows

-----------------------------------------------------------------------------
(***************************************************************************)
(* The invariant, and one lemma for each action that disturbs it.          *)
(***************************************************************************)
TablesInv == NamesInv(DOMAIN tables) /\ \A n \in DOMAIN tables : TableInv(tables[n])

\* A statement is executed by the steps of its kind.
ControlInv ==
  /\ at \in Nat /\ 1 <= at
  /\ pc \in Kinds => stmt \in Statements /\ stmt.kind = pc

\* DELETE has kept rows of its table.
DeleteInv == pc = "delete" /\ Exists => Kept(buffer, Table.rows, at)

SqlInv == TablesInv /\ ControlInv /\ DeleteInv

LEMMA InitInv == Init => SqlInv
<1> SUFFICES ASSUME Init PROVE SqlInv
  OBVIOUS
<1>1. PICK t : t = << >>
  OBVIOUS
<1>2. DOMAIN t = {}
  BY <1>1
<1>3. NamesInv(DOMAIN t) /\ \A n \in DOMAIN t : TableInv(t[n])
  BY <1>2 DEF NamesInv
<1>4. tables = RefreshCatalog(t)
  BY <1>1 DEF Init
<1>5. TablesInv
  BY <1>3, <1>4, RefreshKeeps DEF TablesInv
<1>6. ControlInv /\ DeleteInv
  BY DEF Init, ControlInv, DeleteInv, Kinds
<1> QED BY <1>5, <1>6 DEF SqlInv

LEMMA BeginKeeps ==
  ASSUME SqlInv, NEW s \in Statements, Begin(s)
  PROVE  SqlInv'
<1>1. PICK t : t = tables
  OBVIOUS
<1>2. PICK u : u = RefreshCatalog(t)
  OBVIOUS
<1>3. NamesInv(DOMAIN u) /\ \A n \in DOMAIN u : TableInv(u[n])
  BY <1>1, <1>2, RefreshKeeps DEF SqlInv, TablesInv
<1>4. tables' = u
  BY <1>1, <1>2 DEF Begin
<1>5. TablesInv'
  BY <1>3, <1>4 DEF TablesInv
<1>6. ControlInv'
  BY DEF Begin, ControlInv
<1>7. DeleteInv'
  <2>1. buffer' = <<>>
    BY DEF Begin
  <2>2. PICK b : b = << >>
    OBVIOUS
  <2>3. ASSUME NEW rows, NEW m PROVE Kept(b, rows, m)
    <3>1. IsSeq(b) /\ Len(b) = 0
      BY <2>2 DEF IsSeq
    <3>2. PICK f : f = [k \in 1..0 |-> 0]
      OBVIOUS
    <3>3. f \in [1..Len(b) -> 1..Len(rows)] /\ 1..Len(b) = {}
      BY <3>1, <3>2
    <3> QED BY <3>1, <3>3 DEF Kept
  <2> QED BY <2>1, <2>2, <2>3 DEF DeleteInv
<1> QED BY <1>5, <1>6, <1>7 DEF SqlInv

\* A step that changes no table and leaves the loop of DELETE.
LEMMA QuietKeeps ==
  ASSUME SqlInv, UNCHANGED <<tables, stmt>>, at' \in Nat, 1 <= at',
         pc' = pc \/ pc' = "idle" \/ pc' = "output", pc' # "delete"
  PROVE  SqlInv'
<1>1. TablesInv'
  BY DEF SqlInv, TablesInv
<1>2. ControlInv'
  BY DEF SqlInv, ControlInv, Kinds
<1>3. DeleteInv'
  BY DEF DeleteInv
<1> QED BY <1>1, <1>2, <1>3 DEF SqlInv

LEMMA CreateKeeps ==
  ASSUME SqlInv, CreateTable
  PROVE  SqlInv'
<1>1. CASE Exists
  <2>1. pc' = "idle" /\ UNCHANGED <<tables, stmt, at>>
    BY <1>1 DEF CreateTable, Finish, Fail
  <2>2. at' \in Nat /\ 1 <= at'
    BY <2>1 DEF SqlInv, ControlInv
  <2> QED BY <2>1, <2>2, QuietKeeps
<1>2. CASE ~Exists
  <2>1. /\ pc' = "idle" /\ UNCHANGED <<stmt, at>>
        /\ tables' = [n \in DOMAIN tables \cup {stmt.table} |->
                        IF n = stmt.table THEN [columns |-> stmt.columns, rows |-> <<>>]
                        ELSE tables[n]]
    BY <1>2 DEF CreateTable, Finish
  <2>2. stmt \in Created
    BY DEF SqlInv, ControlInv, CreateTable, Kinds, Created
  <2>3. stmt.columns \in Seq(Columns) /\ stmt.table \in UserNames
    BY <2>2, StatementAssumption DEF UserNames
  <2>4. TableInv([columns |-> stmt.columns, rows |-> <<>>])
    <3>1. PICK r : r = << >>
      OBVIOUS
    <3>2. IsSeq(r) /\ 1..Len(r) = {}
      BY <3>1 DEF IsSeq
    <3>3. KeysInv(r, stmt.columns)
      BY <3>2 DEF KeysInv
    <3> QED BY <2>3, <3>1, <3>2, <3>3 DEF TableInv
  <2>5. TablesInv'
    <3>1. DOMAIN tables' = DOMAIN tables \cup {stmt.table}
      BY <2>1
    <3>2. NamesInv(DOMAIN tables')
      BY <2>3, <3>1 DEF SqlInv, TablesInv, NamesInv
    <3>3. ASSUME NEW n \in DOMAIN tables' PROVE TableInv(tables'[n])
      <4>1. CASE n = stmt.table
        BY <2>1, <2>4, <4>1
      <4>2. CASE n # stmt.table
        <5>1. n \in DOMAIN tables /\ tables'[n] = tables[n]
          BY <2>1, <3>1, <4>2
        <5> QED BY <5>1 DEF SqlInv, TablesInv
      <4> QED BY <4>1, <4>2
    <3> QED BY <3>2, <3>3 DEF TablesInv
  <2>6. ControlInv' /\ DeleteInv'
    BY <2>1 DEF SqlInv, ControlInv, DeleteInv, Kinds
  <2> QED BY <2>5, <2>6 DEF SqlInv
<1> QED BY <1>1, <1>2

LEMMA DropKeeps ==
  ASSUME SqlInv, DropTable
  PROVE  SqlInv'
<1>1. CASE ~Exists
  <2>1. pc' = "idle" /\ UNCHANGED <<tables, stmt, at>>
    BY <1>1 DEF DropTable, Fail
  <2>2. at' \in Nat /\ 1 <= at'
    BY <2>1 DEF SqlInv, ControlInv
  <2> QED BY <2>1, <2>2, QuietKeeps
<1>2. CASE Exists
  <2>1. /\ pc' = "idle" /\ UNCHANGED <<stmt, at>>
        /\ tables' = [n \in DOMAIN tables \ {stmt.table} |-> tables[n]]
    BY <1>2 DEF DropTable, Finish
  <2>2. TablesInv'
    <3>1. DOMAIN tables' = DOMAIN tables \ {stmt.table}
      BY <2>1
    <3>2. \A n \in DOMAIN tables' : n \in DOMAIN tables /\ tables'[n] = tables[n]
      BY <2>1
    <3>3. NamesInv(DOMAIN tables')
      BY <3>1 DEF SqlInv, TablesInv, NamesInv
    <3> QED BY <3>2, <3>3 DEF SqlInv, TablesInv
  <2>3. ControlInv' /\ DeleteInv'
    BY <2>1 DEF SqlInv, ControlInv, DeleteInv, Kinds
  <2> QED BY <2>2, <2>3 DEF SqlInv
<1> QED BY <1>1, <1>2

\* A step of a statement that gives its table other rows.
LEMMA RowsKeep ==
  ASSUME SqlInv, Exists, NEW rows, TableInv(WithRows(Table, rows)),
         tables' = [tables EXCEPT ![stmt.table].rows = rows]
  PROVE  TablesInv'
<1>1. PICK n : n = stmt.table
  OBVIOUS
<1>2. n \in DOMAIN tables /\ TableInv(tables[n])
  BY <1>1 DEF Exists, SqlInv, TablesInv
<1>3. /\ DOMAIN tables' = DOMAIN tables
      /\ tables'[n] = WithRows(tables[n], rows)
      /\ \A m \in DOMAIN tables : m # n => tables'[m] = tables[m]
  BY <1>1, <1>2, RowsReplaced
<1>4. TableInv(tables'[n])
  BY <1>1, <1>3 DEF Table
<1> QED BY <1>3, <1>4 DEF SqlInv, TablesInv

LEMMA TableKept ==
  ASSUME SqlInv, Exists
  PROVE  TableInv(Table)
BY DEF SqlInv, TablesInv, Exists, Table

LEMMA InsertKeeps ==
  ASSUME SqlInv, InsertRow
  PROVE  SqlInv'
<1>0. at \in Nat /\ 1 <= at /\ pc = "insert" /\ UNCHANGED stmt
  BY DEF SqlInv, ControlInv, InsertRow
<1>1. Exists
  BY DEF InsertRow, Rejected
<1>2. PICK values : values = ValuesOf(stmt.values[at], <<>>)
  OBVIOUS
<1>3. PICK row : row = RowOf(values)
  OBVIOUS
<1>4. IsSeq(row)
  <2>1. PICK n \in Nat : n = Len(Table.columns) /\ DOMAIN Table.columns = 1..n
    BY <1>1, TableKept DEF TableInv
  <2>2. DOMAIN row = 1..n /\ row = [j \in 1..n |-> row[j]]
    BY <1>3, <2>1 DEF RowOf
  <2> QED BY <2>2, FunctionIsSeq
<1>5. CASE \/ Len(values) # Len(Targets) \/ Failed(values) \/ ~ValidateRow(Table, row, 0)
  <2>1. pc' = "idle" /\ UNCHANGED <<tables, stmt, at>>
    BY <1>2, <1>3, <1>5 DEF InsertRow, Fail
  <2> QED BY <1>0, <2>1, QuietKeeps
<1>6. CASE ~(\/ Len(values) # Len(Targets) \/ Failed(values) \/ ~ValidateRow(Table, row, 0))
  <2>1. /\ tables' = [tables EXCEPT ![stmt.table].rows = Append(@, row)]
        /\ at' = at + 1 /\ (pc' = "idle" \/ pc' = pc)
    BY <1>2, <1>3, <1>6 DEF InsertRow, Finish
  <2>2. PICK rows : rows = Append(Table.rows, row)
    OBVIOUS
  <2>3. tables' = [tables EXCEPT ![stmt.table].rows = rows]
    BY <1>1, <2>1, <2>2 DEF Table, Exists
  <2>4. TableInv(WithRows(Table, rows))
    BY <1>1, <1>4, <1>6, <2>2, TableKept, AppendKeeps
  <2>5. TablesInv'
    BY <1>1, <2>3, <2>4, RowsKeep
  <2>6. ControlInv' /\ DeleteInv'
    BY <1>0, <2>1 DEF SqlInv, ControlInv, DeleteInv, Kinds
  <2> QED BY <2>5, <2>6 DEF SqlInv
<1> QED BY <1>5, <1>6

LEMMA UpdateKeeps ==
  ASSUME SqlInv, UpdateRow
  PROVE  SqlInv'
<1>0. at \in Nat /\ 1 <= at /\ pc = "update" /\ UNCHANGED stmt
  BY DEF SqlInv, ControlInv, UpdateRow
<1>1. Exists /\ at <= Len(Table.rows)
  BY DEF UpdateRow, Rejected
<1>2. stmt \in Statements /\ stmt.kind = "update"
  BY <1>0 DEF SqlInv, ControlInv, Kinds
<1>3. Len(stmt.set.cols) \in Nat
  BY <1>2, StatementAssumption
<1>4. PICK old : old = Table.rows[at]
  OBVIOUS
<1>5. PICK row : row = Assigned(old)
  OBVIOUS
<1>6. Len(Table.rows) \in Nat /\ at \in 1..Len(Table.rows)
  BY <1>0, <1>1, TableKept, SeqFacts DEF TableInv
<1>7. IsSeq(row)
  <2>1. IsSeq(old)
    BY <1>1, <1>4, <1>6, TableKept DEF TableInv, RowInv
  <2> QED BY <1>3, <1>5, <2>1, AssignedFacts
<1>8. \/ pc' = "idle" /\ UNCHANGED <<tables, at>>
      \/ at' = at + 1 /\ UNCHANGED <<tables, pc>>
      \/ /\ ValidateRow(Table, row, at) /\ at' = at + 1 /\ UNCHANGED pc
         /\ tables' = [tables EXCEPT ![stmt.table].rows[at] = row]
  BY <1>4, <1>5 DEF UpdateRow, Fail
<1>9. CASE pc' = "idle" /\ UNCHANGED <<tables, at>>
  BY <1>0, <1>9, QuietKeeps
<1>10. CASE at' = at + 1 /\ UNCHANGED <<tables, pc>>
  BY <1>0, <1>10, QuietKeeps
<1>11. CASE /\ ValidateRow(Table, row, at) /\ at' = at + 1 /\ UNCHANGED pc
            /\ tables' = [tables EXCEPT ![stmt.table].rows[at] = row]
  <2>1. PICK rows : rows = [Table.rows EXCEPT ![at] = row]
    OBVIOUS
  <2>2. tables' = [tables EXCEPT ![stmt.table].rows = rows]
    BY <1>1, <1>11, <2>1 DEF Table, Exists
  <2>3. TableInv(WithRows(Table, rows))
    BY <1>1, <1>6, <1>7, <1>11, <2>1, TableKept, ReplaceKeeps
  <2>4. TablesInv'
    BY <1>1, <2>2, <2>3, RowsKeep
  <2>5. ControlInv' /\ DeleteInv'
    BY <1>0, <1>11 DEF SqlInv, ControlInv, DeleteInv, Kinds
  <2> QED BY <2>4, <2>5 DEF SqlInv
<1> QED BY <1>8, <1>9, <1>10, <1>11

LEMMA FilterKeeps ==
  ASSUME SqlInv, FilterRow
  PROVE  SqlInv'
<1>0. /\ at \in Nat /\ 1 <= at /\ pc \in {"delete", "select"}
      /\ UNCHANGED <<tables, stmt>>
  BY DEF SqlInv, ControlInv, FilterRow
<1>1. Exists /\ at <= Len(Table.rows)
  BY DEF FilterRow, Rejected
<1>2. Len(Table.rows) \in Nat /\ at \in 1..Len(Table.rows)
  BY <1>0, <1>1, TableKept, SeqFacts DEF TableInv
<1>3. \/ pc' = "idle" /\ UNCHANGED at
      \/ /\ at' = at + 1 /\ UNCHANGED pc
         /\ buffer' = buffer \/ buffer' = Append(buffer, Table.rows[at])
  BY DEF FilterRow, Fail
<1>4. CASE pc' = "idle" /\ UNCHANGED at
  BY <1>0, <1>4, QuietKeeps
<1>5. CASE pc = "select" /\ at' = at + 1 /\ UNCHANGED pc
  BY <1>0, <1>5, QuietKeeps
<1>6. CASE /\ pc = "delete" /\ at' = at + 1 /\ UNCHANGED pc
           /\ buffer' = buffer \/ buffer' = Append(buffer, Table.rows[at])
  <2>1. PICK rows, b, m : rows = Table.rows /\ b = buffer /\ m = at
    OBVIOUS
  <2>2. Len(rows) \in Nat /\ m \in 1..Len(rows) /\ m \in Nat
    BY <1>0, <1>2, <2>1
  <2>3. Kept(b, rows, m)
    BY <1>1, <1>6, <2>1 DEF SqlInv, DeleteInv
  <2>4. Kept(b, rows, m + 1) /\ Kept(Append(b, rows[m]), rows, m + 1)
    BY <2>2, <2>3, KeptLater, KeptMore
  <2>5. Kept(buffer', rows, m + 1)
    BY <1>6, <2>1, <2>4
  <2>6. Table'.rows = rows /\ at' = m + 1
    BY <1>0, <1>6, <2>1 DEF Table
  <2>7. DeleteInv'
    BY <2>5, <2>6 DEF DeleteInv
  <2>8. ControlInv'
    BY <1>0, <1>6 DEF SqlInv, ControlInv
  <2>9. TablesInv'
    BY <1>0 DEF SqlInv, TablesInv
  <2> QED BY <2>7, <2>8, <2>9 DEF SqlInv
<1> QED BY <1>0, <1>3, <1>4, <1>5, <1>6

LEMMA DeleteEndKeeps ==
  ASSUME SqlInv, DeleteEnd
  PROVE  SqlInv'
<1>1. /\ Exists /\ pc = "delete" /\ pc' = "idle" /\ UNCHANGED <<stmt, at>>
      /\ tables' = [tables EXCEPT ![stmt.table].rows = buffer]
  BY DEF DeleteEnd, Rejected, Finish
<1>2. Kept(buffer, Table.rows, at)
  BY <1>1 DEF SqlInv, DeleteInv
<1>3. TableInv(WithRows(Table, buffer))
  BY <1>1, <1>2, TableKept, DeleteKeeps
<1>4. PICK b : b = buffer
  OBVIOUS
<1>5. TableInv(WithRows(Table, b)) /\ tables' = [tables EXCEPT ![stmt.table].rows = b]
  BY <1>1, <1>3, <1>4
<1>6. TablesInv'
  BY <1>1, <1>5, RowsKeep
<1>7. ControlInv' /\ DeleteInv'
  BY <1>1 DEF SqlInv, ControlInv, DeleteInv, Kinds
<1> QED BY <1>6, <1>7 DEF SqlInv

LEMMA OthersKeep ==
  ASSUME SqlInv, Reject \/ UpdateEnd \/ SortRows \/ OutputRow \/ OutputEnd
  PROVE  SqlInv'
<1>1. UNCHANGED <<tables, stmt>> /\ at \in Nat /\ 1 <= at
  BY DEF SqlInv, ControlInv, Reject, UpdateEnd, SortRows, OutputRow, OutputEnd
<1>2. CASE Reject
  <2>1. pc' = "idle" /\ at' = at
    BY <1>2 DEF Reject, Fail
  <2> QED BY <1>1, <2>1, QuietKeeps
<1>3. CASE UpdateEnd
  <2>1. pc' = "idle" /\ at' = at
    BY <1>3 DEF UpdateEnd, Finish
  <2> QED BY <1>1, <2>1, QuietKeeps
<1>4. CASE SortRows
  <2>1. pc' = "output" /\ at' = 1
    BY <1>4 DEF SortRows
  <2> QED BY <1>1, <2>1, QuietKeeps
<1>5. CASE OutputRow
  <2>1. pc = "output" /\ (pc' = pc \/ pc' = "idle") /\ (at' = at \/ at' = at + 1)
    BY <1>5 DEF OutputRow, Fail
  <2> QED BY <1>1, <2>1, QuietKeeps
<1>6. CASE OutputEnd
  <2>1. pc' = "idle" /\ at' = at
    BY <1>6 DEF OutputEnd, Finish
  <2> QED BY <1>1, <2>1, QuietKeeps
<1> QED BY <1>2, <1>3, <1>4, <1>5, <1>6

LEMMA NextKeeps ==
  ASSUME SqlInv, [Next]_vars
  PROVE  SqlInv'
<1>1. CASE Next
  BY <1>1, BeginKeeps, CreateKeeps, DropKeeps, InsertKeeps, UpdateKeeps, FilterKeeps,
     DeleteEndKeeps, OthersKeep DEF Next
<1>2. CASE UNCHANGED vars
  <2>1. UNCHANGED <<tables, stmt, pc, at, buffer>>
    BY <1>2 DEF vars
  <2>2. TablesInv'
    BY <2>1 DEF SqlInv, TablesInv
  <2>3. ControlInv'
    BY <2>1 DEF SqlInv, ControlInv
  <2>4. DeleteInv'
    BY <2>1 DEF SqlInv, DeleteInv, Exists, Table
  <2> QED BY <2>2, <2>3, <2>4 DEF SqlInv
<1> QED BY <1>1, <1>2

LEMMA SqlInductive == Spec => []SqlInv
<1>1. Init => SqlInv
  BY InitInv
<1>2. SqlInv /\ [Next]_vars => SqlInv'
  BY NextKeeps
<1> QED BY <1>1, <1>2, PTL DEF Spec

\* After every step of every statement, of those that fail half-way too, the
\* rows of every table have its columns, NULL only where it may be, and no key
\* twice: what ValidateRow checks one row at a time holds of the whole table.
THEOREM ConstraintsAlwaysHold == Spec => []ConstraintsHold
<1>1. SqlInv => ConstraintsHold
  <2> SUFFICES ASSUME SqlInv, NEW n \in DOMAIN tables
               PROVE  LET columns == tables[n].columns  rows == tables[n].rows IN
                      /\ \A i \in DOMAIN rows :
                           /\ Len(rows[i]) = Len(columns)
                           /\ \A j \in DOMAIN columns : Fits(rows[i][j], columns[j])
                      /\ \A j \in DOMAIN columns : IsKey(columns[j]) =>
                           \A i, k \in DOMAIN rows :
                             i # k /\ ~IsNull(rows[i][j]) => ~Same(rows[i][j], rows[k][j])
    BY DEF ConstraintsHold
  <2>1. TableInv(tables[n])
    BY DEF SqlInv, TablesInv
  <2>2. PICK columns, rows : columns = tables[n].columns /\ rows = tables[n].rows
    OBVIOUS
  <2>3. DOMAIN columns = 1..Len(columns) /\ DOMAIN rows = 1..Len(rows)
    BY <2>1, <2>2, SeqFacts DEF TableInv
  <2>4. \A i \in 1..Len(rows) : RowInv(rows[i], columns)
    BY <2>1, <2>2 DEF TableInv
  <2>5. KeysInv(rows, columns)
    BY <2>1, <2>2 DEF TableInv
  <2> QED BY <2>2, <2>3, <2>4, <2>5 DEF RowInv, KeysInv
<1> QED BY <1>1, SqlInductive, PTL

-----------------------------------------------------------------------------
(***************************************************************************)
(* What a statement does to the rows it found, for given statements, rows  *)
(* and columns: s is the statement, old is its table when it began, new    *)
(* its table now.                                                          *)
(***************************************************************************)
HitBy(s, row) ==
  (IF s.where = <<>> THEN Boolean(TRUE) ELSE Evaluate(s.where[1], row, s.params)) = Boolean(TRUE)

\* The columns of an INSERT, and a row with the given values in them.
TargetsOf(s, columns) == IF s.targets = <<>> THEN [j \in DOMAIN columns |-> j] ELSE s.targets

Placed(targets, values, columns) ==
  [j \in DOMAIN columns |->
     LET named == {k \in DOMAIN targets : targets[k] = j} IN
     IF named = {} THEN Null ELSE values[Max(named)]]

\* The i-th row of VALUES.
NewRow(s, columns, i) ==
  Placed(TargetsOf(s, columns),
         [k \in DOMAIN s.values[i] |-> Evaluate(s.values[i][k], <<>>, s.params)], columns)

ReplacedBy(s, row) ==
  [j \in DOMAIN row |->
     LET sets == {k \in DOMAIN s.set.cols : s.set.cols[k] = j} IN
     IF sets = {} THEN row[j] ELSE Evaluate(s.set.exprs[Max(sets)], row, s.params)]

ThoseAt(f, s, rows, hit, k) ==
  IF k = 0 THEN <<>>
  ELSE IF HitBy(s, rows[k]) <=> hit THEN Append(f[k - 1], rows[k]) ELSE f[k - 1]

ThoseTo(f, s, rows, hit, n) == f = [k \in 0..n |-> ThoseAt(f, s, rows, hit, k)]

\* At n, the rows up to the n-th that are selected, or that are not.
Filter(s, rows, hit) ==
  LET those[k \in 0..Len(rows)] ==
        IF k = 0 THEN <<>>
        ELSE IF HitBy(s, rows[k]) <=> hit THEN Append(those[k - 1], rows[k]) ELSE those[k - 1]
  IN  those

\* Before the row a, INSERT has appended its rows, and UPDATE replaced those
\* that are selected.
Inserted(s, a, columns, old, new) ==
  /\ Len(new) = Len(old) + (a - 1)
  /\ \A i \in 1..Len(old) : new[i] = old[i]
  /\ \A i \in 1..a - 1 : new[Len(old) + i] = NewRow(s, columns, i)

Updated(s, a, old, new) ==
  /\ Len(new) = Len(old) /\ a <= Len(old) + 1
  /\ \A i \in 1..Len(old) :
       new[i] = IF i < a /\ HitBy(s, old[i]) THEN ReplacedBy(s, old[i]) ELSE old[i]

\* DELETE changes its table at its end, if it gets there.
Deleted(s, p, a, st, b, old, new) ==
  /\ new = IF p = "idle" /\ st = "ok" THEN Filter(s, old, FALSE)[Len(old)] ELSE old
  /\ p = "delete" => a <= Len(old) + 1 /\ b = Filter(s, old, FALSE)[a - 1]

Queried(s, p, a, b, old, new) ==
  /\ new = old
  /\ p = "select" => a <= Len(old) + 1 /\ b = Filter(s, old, TRUE)[a - 1]

RowKinds == {"insert", "update", "delete", "select"}

\* One of the expressions gives an error for the row.
Fails(s, exprs, row) == \E k \in DOMAIN exprs : Evaluate(exprs[k], row, s.params) = Failure

\* Before the row a, no value that was inserted or assigned was an error.
ErrorFree(s, a, old) ==
  /\ s.kind = "insert" => \A i \in 1..a - 1 : ~Fails(s, s.values[i], <<>>)
  /\ s.kind = "update" =>
       \A i \in 1..a - 1 : HitBy(s, old[i]) => ~Fails(s, s.set.exprs, old[i])

\* What a statement that goes over rows has made of its table.
TableEffect(s, p, a, st, b, old, new) ==
  /\ new.columns = old.columns
  /\ ErrorFree(s, a, old.rows)
  /\ s.kind = "insert" => Inserted(s, a, old.columns, old.rows, new.rows)
  /\ s.kind = "update" => Updated(s, a, old.rows, new.rows)
  /\ s.kind = "delete" => Deleted(s, p, a, st, b, old.rows, new.rows)
  /\ s.kind = "select" => Queried(s, p, a, b, old.rows, new.rows)

\* A statement that succeeded has found its table, and gone through its rows.
Completed(s, a, old) ==
  /\ s.kind \in RowKinds => s.table \in DOMAIN old
  /\ s.kind = "insert" => a = Len(s.values) + 1
  /\ s.kind = "update" => a = Len(old[s.table].rows) + 1

\* There are such functions, for every length.
LEMMA ThoseExist ==
  ASSUME NEW s, NEW rows, NEW hit, NEW hi \in Nat
  PROVE  \E f : ThoseTo(f, s, rows, hit, hi)
<1> DEFINE S == {n \in Nat : \E f : ThoseTo(f, s, rows, hit, n)}
<1>1. 0 \in S
  <2> DEFINE f == [n \in 0..0 |-> <<>>]
  <2>1. \A n \in 0..0 : ThoseAt(f, s, rows, hit, n) = <<>>
    BY DEF ThoseAt
  <2>2. ThoseTo(f, s, rows, hit, 0)
    BY <2>1 DEF ThoseTo
  <2> HIDE DEF f
  <2> QED BY <2>2
<1>2. ASSUME NEW n \in S PROVE n + 1 \in S
  <2>1. n \in Nat
    OBVIOUS
  <2>2. PICK f : ThoseTo(f, s, rows, hit, n)
    OBVIOUS
  <2> HIDE DEF S
  <2> DEFINE g == [k \in 0..n + 1 |->
                     IF k = n + 1 THEN ThoseAt(f, s, rows, hit, n + 1) ELSE f[k]]
  <2>3. ASSUME NEW k \in 0..n + 1
        PROVE  g[k] = ThoseAt(g, s, rows, hit, k)
    <3>1. k # 0 => k - 1 \in 0..n /\ k - 1 # n + 1 /\ k - 1 \in 0..n + 1
      BY <2>1
    <3>2. k # 0 => g[k - 1] = f[k - 1]
      BY <3>1
    <3> HIDE DEF g
    <3>3. ThoseAt(g, s, rows, hit, k) = ThoseAt(f, s, rows, hit, k)
      BY <3>2 DEF ThoseAt
    <3>4. CASE k = n + 1
      BY <3>3, <3>4 DEF g
    <3>5. CASE k # n + 1
      <4>1. k \in 0..n
        BY <2>1, <3>5
      <4>2. g[k] = f[k]
        BY <3>5 DEF g
      <4>3. f[k] = ThoseAt(f, s, rows, hit, k)
        BY <2>2, <4>1 DEF ThoseTo
      <4> QED BY <3>3, <4>2, <4>3
    <3> QED BY <3>4, <3>5
  <2>4. g = [k \in 0..n + 1 |-> g[k]]
    OBVIOUS
  <2> HIDE DEF g
  <2>5. ThoseTo(g, s, rows, hit, n + 1)
    BY <2>3, <2>4 DEF ThoseTo
  <2> QED BY <2>1, <2>5 DEF S
<1>3. S = Nat
  <2>1. S \in SUBSET Nat
    OBVIOUS
  <2> HIDE DEF S
  <2> QED BY <1>1, <1>2, <2>1, Inductive
<1> QED BY <1>3

LEMMA FilterUnfolds ==
  ASSUME NEW s, NEW rows, NEW hit, Len(rows) \in Nat
  PROVE  /\ Filter(s, rows, hit)[0] = <<>>
         /\ \A k \in 1..Len(rows) :
              Filter(s, rows, hit)[k] =
                IF HitBy(s, rows[k]) <=> hit THEN Append(Filter(s, rows, hit)[k - 1], rows[k])
                ELSE Filter(s, rows, hit)[k - 1]
<1>1. PICK F : F = Filter(s, rows, hit)
  OBVIOUS
<1>2. F = CHOOSE f : ThoseTo(f, s, rows, hit, Len(rows))
  BY <1>1 DEF Filter, ThoseTo, ThoseAt
<1>3. ThoseTo(F, s, rows, hit, Len(rows))
  BY <1>2, ThoseExist
<1>4. \A k \in 0..Len(rows) : F[k] = ThoseAt(F, s, rows, hit, k)
  BY <1>3 DEF ThoseTo
<1>5. F[0] = <<>>
  BY <1>4 DEF ThoseAt
<1>6. ASSUME NEW k \in 1..Len(rows)
      PROVE  F[k] = IF HitBy(s, rows[k]) <=> hit THEN Append(F[k - 1], rows[k]) ELSE F[k - 1]
  <2>1. k \in 0..Len(rows) /\ k # 0
    OBVIOUS
  <2>2. F[k] = ThoseAt(F, s, rows, hit, k)
    BY <1>4, <2>1
  <2> QED BY <2>1, <2>2 DEF ThoseAt
<1> QED BY <1>1, <1>5, <1>6

\* What is kept are rows of the table.
RowsFrom(b, rows) == IsSeq(b) /\ \A k \in 1..Len(b) : \E i \in 1..Len(rows) : b[k] = rows[i]

LEMMA FilterOfRows ==
  ASSUME NEW s, NEW rows, NEW hit, Len(rows) \in Nat, NEW n \in 0..Len(rows)
  PROVE  RowsFrom(Filter(s, rows, hit)[n], rows)
<1>1. PICK F : F = Filter(s, rows, hit)
  OBVIOUS
<1> DEFINE Good(b) == IsSeq(b) /\ \A k \in 1..Len(b) : \E i \in 1..Len(rows) : b[k] = rows[i]
           S == {m \in Nat : m <= Len(rows) => Good(F[m])}
<1>2. 0 \in S
  <2>1. PICK b : b = << >>
    OBVIOUS
  <2>2. IsSeq(b) /\ 1..Len(b) = {}
    BY <2>1 DEF IsSeq
  <2>3. F[0] = b
    BY <1>1, <2>1, FilterUnfolds
  <2> QED BY <2>2, <2>3
<1>3. ASSUME NEW m \in S PROVE m + 1 \in S
  <2> SUFFICES ASSUME m + 1 <= Len(rows) PROVE Good(F[m + 1])
    <3> HIDE DEF Good
    <3> QED OBVIOUS
  <2>1. m \in Nat /\ m <= Len(rows) /\ m + 1 \in 1..Len(rows) /\ (m + 1) - 1 = m
    OBVIOUS
  <2>2. PICK b : b = F[m]
    OBVIOUS
  <2>3. Good(b)
    <3> HIDE DEF Good
    <3> QED BY <2>1, <2>2
  <2> HIDE DEF S
  <2>4. PICK c : c = Append(b, rows[m + 1])
    OBVIOUS
  <2>5. F[m + 1] = b \/ F[m + 1] = c
    <3>1. F[m + 1] = IF HitBy(s, rows[m + 1]) <=> hit THEN Append(F[(m + 1) - 1], rows[m + 1])
                     ELSE F[(m + 1) - 1]
      BY <1>1, <2>1, FilterUnfolds
    <3> QED BY <2>1, <2>2, <2>4, <3>1
  <2>6. Good(c)
    <3>1. PICK len \in Nat : len = Len(b)
      BY <2>3, SeqFacts
    <3>2. /\ IsSeq(c) /\ Len(c) = len + 1 /\ c[len + 1] = rows[m + 1]
          /\ \A k \in 1..len : c[k] = b[k]
      BY <2>3, <2>4, <3>1, AppendIsSeq
    <3>3. \A k \in 1..len + 1 : k \in 1..len \/ k = len + 1
      OBVIOUS
    <3>4. \A k \in 1..len : \E i \in 1..Len(rows) : c[k] = rows[i]
      BY <2>3, <3>1, <3>2
    <3> QED BY <2>1, <3>2, <3>3, <3>4
  <2> HIDE DEF Good
  <2> QED BY <2>3, <2>5, <2>6
<1>4. S = Nat
  <2>1. S \in SUBSET Nat
    OBVIOUS
  <2> HIDE DEF S
  <2> QED BY <1>2, <1>3, <2>1, Inductive
<1>5. Good(F[n])
  <2> HIDE DEF Good
  <2>1. n \in S /\ n <= Len(rows)
    BY <1>4
  <2> QED BY <2>1
<1> QED BY <1>1, <1>5 DEF RowsFrom

LEMMA InsertedMore ==
  ASSUME NEW s, NEW a \in Nat, 1 <= a, NEW columns, NEW old, IsSeq(old), NEW new, IsSeq(new),
         Inserted(s, a, columns, old, new)
  PROVE  Inserted(s, a + 1, columns, old, Append(new, NewRow(s, columns, a)))
<1>1. PICK row : row = NewRow(s, columns, a)
  OBVIOUS
<1>2. PICK c : c = Append(new, row)
  OBVIOUS
<1>3. Len(old) \in Nat /\ Len(new) = Len(old) + (a - 1)
  BY SeqFacts DEF Inserted
<1>4. /\ Len(c) = Len(new) + 1 /\ c[Len(new) + 1] = row
      /\ \A i \in 1..Len(new) : c[i] = new[i]
  BY <1>2, AppendIsSeq
<1>5. Len(c) = Len(old) + ((a + 1) - 1)
  BY <1>3, <1>4
<1>6. ASSUME NEW i \in 1..Len(old) PROVE c[i] = old[i]
  <2>1. i \in 1..Len(new)
    BY <1>3
  <2> QED BY <1>4, <2>1 DEF Inserted
<1>7. ASSUME NEW i \in 1..(a + 1) - 1 PROVE c[Len(old) + i] = NewRow(s, columns, i)
  <2>1. CASE i = a
    <3>1. Len(old) + i = Len(new) + 1
      BY <1>3, <2>1
    <3> QED BY <1>1, <1>4, <2>1, <3>1
  <2>2. CASE i # a
    <3>1. i \in 1..a - 1 /\ Len(old) + i \in 1..Len(new)
      BY <1>3, <2>2
    <3>2. new[Len(old) + i] = NewRow(s, columns, i)
      BY <3>1 DEF Inserted
    <3> QED BY <1>4, <3>1, <3>2
  <2> QED BY <2>1, <2>2
<1>8. Inserted(s, a + 1, columns, old, c)
  BY <1>5, <1>6, <1>7 DEF Inserted
<1> QED BY <1>1, <1>2, <1>8

\* What INSERT has made of the table is the concatenation.
LEMMA InsertedRows ==
  ASSUME NEW s, NEW a \in Nat, 1 <= a, NEW columns, NEW old, IsSeq(old), NEW new, IsSeq(new),
         Inserted(s, a, columns, old, new)
  PROVE  new = old \o [i \in 1..a - 1 |-> NewRow(s, columns, i)]
<1>1. PICK n \in Nat : n = a - 1
  OBVIOUS
<1>2. PICK add : add = [i \in 1..n |-> NewRow(s, columns, i)]
  OBVIOUS
<1>3. IsSeq(add) /\ Len(add) = n
  <2>1. DOMAIN add = 1..n /\ add = [i \in 1..n |-> add[i]]
    BY <1>2
  <2> QED BY <2>1, FunctionIsSeq
<1>4. PICK S : S = ToSet(old) \cup ToSet(add) \cup ToSet(new)
  OBVIOUS
<1>5. old \in Seq(S) /\ add \in Seq(S) /\ new \in Seq(S)
  BY <1>3, <1>4 DEF IsSeq
<1>6. PICK all : all = old \o add
  OBVIOUS
<1>7. /\ all \in Seq(S) /\ Len(all) = Len(old) + Len(add)
      /\ \A i \in 1..Len(old) : all[i] = old[i]
      /\ \A i \in 1..Len(add) : all[Len(old) + i] = add[i]
  BY <1>5, <1>6, ConcatProperties
<1>8. Len(old) \in Nat /\ Len(new) = Len(all)
  BY <1>1, <1>3, <1>5, <1>7 DEF Inserted
<1>9. ASSUME NEW i \in 1..Len(all) PROVE new[i] = all[i]
  <2>1. CASE i <= Len(old)
    <3>1. i \in 1..Len(old)
      BY <1>8, <2>1
    <3> QED BY <1>7, <3>1 DEF Inserted
  <2>2. CASE ~(i <= Len(old))
    <3>1. PICK k \in 1..n : i = Len(old) + k
      <4>1. i - Len(old) \in 1..n /\ i = Len(old) + (i - Len(old))
        BY <1>3, <1>7, <1>8, <2>2
      <4> QED BY <4>1
    <3>2. new[Len(old) + k] = NewRow(s, columns, k)
      BY <1>1 DEF Inserted
    <3>3. all[Len(old) + k] = add[k] /\ add[k] = NewRow(s, columns, k)
      BY <1>2, <1>3, <1>7
    <3> QED BY <3>1, <3>2, <3>3
  <2> QED BY <2>1, <2>2
<1>10. new = all
  BY <1>5, <1>7, <1>8, <1>9, SeqEqual
<1> QED BY <1>1, <1>2, <1>6, <1>10

LEMMA UpdatedMore ==
  ASSUME NEW s, NEW old, IsSeq(old), NEW new, IsSeq(new), NEW a \in 1..Len(old),
         Updated(s, a, old, new)
  PROVE  /\ new[a] = old[a]
         /\ ~HitBy(s, old[a]) => Updated(s, a + 1, old, new)
         /\ HitBy(s, old[a]) =>
              Updated(s, a + 1, old, [new EXCEPT ![a] = ReplacedBy(s, old[a])])
<1>1. PICK n \in Nat : n = Len(old) /\ n = Len(new) /\ DOMAIN new = 1..n
  BY SeqFacts DEF Updated
<1>2. a \in Nat /\ a \in 1..n /\ a + 1 <= n + 1
  BY <1>1
<1>3. \A i \in 1..n : new[i] = IF i < a /\ HitBy(s, old[i]) THEN ReplacedBy(s, old[i]) ELSE old[i]
  BY <1>1 DEF Updated
<1>4. new[a] = old[a]
  <2>1. ~(a < a)
    BY <1>2
  <2> QED BY <1>2, <1>3, <2>1
<1>5. \A i \in 1..n : i # a => (i < a + 1 <=> i < a)
  BY <1>2
<1>6. a < a + 1
  BY <1>2
<1>7. ASSUME ~HitBy(s, old[a]) PROVE Updated(s, a + 1, old, new)
  <2>1. ASSUME NEW i \in 1..n
        PROVE  new[i] = IF i < a + 1 /\ HitBy(s, old[i]) THEN ReplacedBy(s, old[i]) ELSE old[i]
    <3>1. CASE i = a
      BY <1>4, <1>7, <3>1
    <3>2. CASE i # a
      BY <1>3, <1>5, <3>2
    <3> QED BY <3>1, <3>2
  <2> QED BY <1>1, <1>2, <2>1 DEF Updated
<1>8. ASSUME HitBy(s, old[a])
      PROVE  Updated(s, a + 1, old, [new EXCEPT ![a] = ReplacedBy(s, old[a])])
  <2>1. PICK row : row = ReplacedBy(s, old[a])
    OBVIOUS
  <2>2. PICK c : c = [new EXCEPT ![a] = row]
    OBVIOUS
  <2>3. /\ DOMAIN c = 1..n /\ c = [i \in 1..n |-> c[i]]
        /\ c[a] = row /\ \A i \in 1..n : i # a => c[i] = new[i]
    BY <1>1, <1>2, <2>2
  <2>4. Len(c) = n
    BY <2>3, FunctionIsSeq
  <2>5. ASSUME NEW i \in 1..n
        PROVE  c[i] = IF i < a + 1 /\ HitBy(s, old[i]) THEN ReplacedBy(s, old[i]) ELSE old[i]
    <3>1. CASE i = a
      BY <1>6, <1>8, <2>1, <2>3, <3>1
    <3>2. CASE i # a
      BY <1>3, <1>5, <2>3, <3>2
    <3> QED BY <3>1, <3>2
  <2>6. Updated(s, a + 1, old, c)
    BY <1>1, <1>2, <2>4, <2>5 DEF Updated
  <2> QED BY <2>1, <2>2, <2>6
<1> QED BY <1>4, <1>7, <1>8

\* One row more without an error; statements of other kinds have none.
LEMMA ErrorFreeMore ==
  ASSUME NEW s, NEW a \in Nat, 1 <= a, NEW old, ErrorFree(s, a, old),
         s.kind = "insert" => ~Fails(s, s.values[a], <<>>),
         s.kind = "update" /\ HitBy(s, old[a]) => ~Fails(s, s.set.exprs, old[a])
  PROVE  ErrorFree(s, a + 1, old)
<1>1. \A i \in 1..(a + 1) - 1 : i = a \/ i \in 1..a - 1
  OBVIOUS
<1> QED BY <1>1, Zenon DEF ErrorFree

LEMMA NoErrors ==
  ASSUME NEW s, s.kind # "insert", s.kind # "update"
  PROVE  \A a, old : ErrorFree(s, a, old)
BY DEF ErrorFree

\* What a statement has done before its first row.
LEMMA NothingDone ==
  ASSUME NEW s, NEW p, p # "idle", NEW st, NEW table, TableInv(table)
  PROVE  TableEffect(s, p, 1, st, <<>>, table, table)
<1>1. PICK n \in Nat : n = Len(table.rows)
  BY SeqFacts DEF TableInv
<1>2. Inserted(s, 1, table.columns, table.rows, table.rows)
  BY <1>1 DEF Inserted
<1>3. Updated(s, 1, table.rows, table.rows)
  BY <1>1 DEF Updated
<1>4. /\ <<>> = Filter(s, table.rows, FALSE)[1 - 1]
      /\ <<>> = Filter(s, table.rows, TRUE)[1 - 1]
  <2>1. 1 - 1 = 0
    OBVIOUS
  <2>2. Len(table.rows) \in Nat
    BY <1>1
  <2>3. \A hit : Filter(s, table.rows, hit)[0] = <<>>
    BY <2>2, FilterUnfolds
  <2>4. Filter(s, table.rows, FALSE)[0] = <<>> /\ Filter(s, table.rows, TRUE)[0] = <<>>
    BY <2>3
  <2> QED BY <2>1, <2>4
<1>5. 1 <= Len(table.rows) + 1
  BY <1>1
<1>6. ErrorFree(s, 1, table.rows)
  BY DEF ErrorFree
<1> QED BY <1>2, <1>3, <1>4, <1>5, <1>6 DEF TableEffect, Deleted, Queried

-----------------------------------------------------------------------------
(***************************************************************************)
(* The invariant of the effect, and one lemma for each action.             *)
(***************************************************************************)
StageInv ==
  /\ stmt.kind # "none" => stmt \in Statements
  /\ pc = "idle" \/ pc = stmt.kind \/ (pc = "output" /\ stmt.kind = "select")
  /\ pc # "idle" => stmt.kind # "none"
  /\ \A n \in DOMAIN start : TableInv(start[n])

OthersInv ==
  /\ \A n \in (DOMAIN start \cup DOMAIN tables) \ {stmt.table} :
       n \in DOMAIN start \cap DOMAIN tables /\ tables[n] = start[n]
  /\ pc = "idle" /\ stmt.kind = "create" => stmt.table \in DOMAIN tables
  /\ pc = "idle" /\ stmt.kind = "drop" => stmt.table \notin DOMAIN tables
  /\ pc = "idle" /\ status = "ok" => Completed(stmt, at, start)
  /\ pc = "output" => stmt.table \in DOMAIN start
  /\ stmt.kind \in RowKinds => DOMAIN tables = DOMAIN start
  /\ stmt.kind \in RowKinds /\ stmt.table \in DOMAIN start =>
       TableEffect(stmt, pc, at, status, buffer, start[stmt.table], tables[stmt.table])

EffectInv == StageInv /\ (stmt.kind # "none" => OthersInv)

\* A step that changes no table.
LEMMA QuietEffect ==
  ASSUME SqlInv, EffectInv, stmt.kind # "none", UNCHANGED <<tables, stmt, start>>,
         pc' = pc \/ pc' = "idle" \/ (pc' = "output" /\ stmt.kind = "select"),
         pc' = "output" => stmt.table \in DOMAIN start,
         pc' = "idle" /\ stmt.kind = "create" => Exists,
         pc' = "idle" /\ stmt.kind = "drop" => ~Exists,
         pc' = "idle" /\ status' = "ok" => Completed(stmt, at', start),
         stmt.kind \in RowKinds /\ stmt.table \in DOMAIN start =>
           TableEffect(stmt, pc', at', status', buffer', start[stmt.table], tables[stmt.table])
  PROVE  EffectInv'
<1>1. StageInv'
  BY DEF EffectInv, StageInv
<1>2. OthersInv'
  <2>1. \A n \in (DOMAIN start \cup DOMAIN tables) \ {stmt.table} :
          n \in DOMAIN start \cap DOMAIN tables /\ tables[n] = start[n]
    BY DEF EffectInv, OthersInv
  <2>2. stmt.kind \in RowKinds => DOMAIN tables = DOMAIN start
    BY DEF EffectInv, OthersInv
  <2> QED BY <2>1, <2>2 DEF OthersInv, Exists
<1> QED BY <1>1, <1>2 DEF EffectInv

\* A step that gives the statement's table other rows.
LEMMA RowsEffect ==
  ASSUME SqlInv, EffectInv, Exists, stmt.kind \in RowKinds, UNCHANGED <<stmt, start>>,
         NEW rows, tables' = [tables EXCEPT ![stmt.table].rows = rows],
         pc' = pc \/ pc' = "idle", pc' # "output",
         pc' = "idle" /\ status' = "ok" => Completed(stmt, at', start),
         TableEffect(stmt, pc', at', status', buffer', start[stmt.table], WithRows(Table, rows))
  PROVE  EffectInv'
<1>0. stmt.kind # "none" /\ stmt.kind # "create" /\ stmt.kind # "drop"
  BY DEF RowKinds
<1>1. StageInv'
  BY <1>0 DEF EffectInv, StageInv
<1>2. PICK n : n = stmt.table
  OBVIOUS
<1>3. n \in DOMAIN tables /\ TableInv(tables[n])
  BY <1>2 DEF Exists, SqlInv, TablesInv
<1>4. /\ DOMAIN tables' = DOMAIN tables
      /\ tables'[n] = WithRows(tables[n], rows)
      /\ \A m \in DOMAIN tables : m # n => tables'[m] = tables[m]
  BY <1>2, <1>3, RowsReplaced
<1>5. OthersInv'
  <2>1. \A m \in (DOMAIN start \cup DOMAIN tables) \ {n} :
          m \in DOMAIN start \cap DOMAIN tables /\ tables[m] = start[m]
    BY <1>0, <1>2 DEF EffectInv, OthersInv
  <2>2. DOMAIN tables = DOMAIN start
    BY <1>0 DEF EffectInv, OthersInv
  <2>3. \A m \in (DOMAIN start \cup DOMAIN tables') \ {n} :
          m \in DOMAIN start \cap DOMAIN tables' /\ tables'[m] = start[m]
    BY <1>4, <2>1
  <2>4. TableEffect(stmt, pc', at', status', buffer', start[stmt.table], tables'[stmt.table])
    BY <1>2, <1>4 DEF Table
  <2> QED BY <1>0, <1>2, <1>4, <2>2, <2>3, <2>4 DEF OthersInv
<1> QED BY <1>0, <1>1, <1>5 DEF EffectInv

LEMMA BeginEffect ==
  ASSUME SqlInv, EffectInv, NEW s \in Statements, Begin(s)
  PROVE  EffectInv'
<1>1. /\ stmt' = s /\ pc' = s.kind /\ at' = 1 /\ start' = tables' /\ buffer' = <<>>
      /\ s.kind \in Kinds
  BY StatementAssumption DEF Begin
<1>2. s.kind # "none" /\ s.kind # "idle" /\ s.kind # "output"
  BY <1>1 DEF Kinds
<1>3. \A n \in DOMAIN start' : TableInv(start'[n])
  BY <1>1, BeginKeeps DEF SqlInv, TablesInv
<1>4. StageInv'
  BY <1>1, <1>2, <1>3 DEF StageInv
<1>5. ASSUME s.table \in DOMAIN start'
      PROVE  TableEffect(s, s.kind, 1, status', <<>>, start'[s.table], tables'[s.table])
  BY <1>1, <1>2, <1>3, <1>5, NothingDone
<1>6. OthersInv'
  BY <1>1, <1>2, <1>5 DEF OthersInv
<1> QED BY <1>4, <1>6 DEF EffectInv

LEMMA CreateEffect ==
  ASSUME SqlInv, EffectInv, CreateTable
  PROVE  EffectInv'
<1>0. stmt.kind = "create" /\ stmt.kind \notin RowKinds /\ stmt.kind # "select"
  BY DEF EffectInv, StageInv, CreateTable, RowKinds
<1>1. UNCHANGED <<stmt, start>> /\ pc' = "idle"
  BY DEF CreateTable, Finish, Fail
<1>2. CASE Exists
  <2>1. UNCHANGED tables
    BY <1>2 DEF CreateTable
  <2>2. Completed(stmt, at', start)
    BY <1>0 DEF Completed
  <2> QED BY <1>0, <1>1, <1>2, <2>1, <2>2, QuietEffect
<1>3. CASE ~Exists
  <2>1. tables' = [n \in DOMAIN tables \cup {stmt.table} |->
                     IF n = stmt.table THEN [columns |-> stmt.columns, rows |-> <<>>]
                     ELSE tables[n]]
    BY <1>3 DEF CreateTable
  <2>2. /\ DOMAIN tables' = DOMAIN tables \cup {stmt.table}
        /\ \A n \in DOMAIN tables : n # stmt.table => tables'[n] = tables[n]
    BY <2>1
  <2>3. StageInv'
    BY <1>0, <1>1 DEF EffectInv, StageInv
  <2>4. \A n \in (DOMAIN start \cup DOMAIN tables) \ {stmt.table} :
          n \in DOMAIN start \cap DOMAIN tables /\ tables[n] = start[n]
    BY <1>0 DEF EffectInv, OthersInv
  <2>5. \A n \in (DOMAIN start \cup DOMAIN tables') \ {stmt.table} :
          n \in DOMAIN start \cap DOMAIN tables' /\ tables'[n] = start[n]
    BY <2>2, <2>4
  <2>6. OthersInv'
    BY <1>0, <1>1, <2>2, <2>5 DEF OthersInv, Completed
  <2> QED BY <2>3, <2>6 DEF EffectInv
<1> QED BY <1>2, <1>3

LEMMA DropEffect ==
  ASSUME SqlInv, EffectInv, DropTable
  PROVE  EffectInv'
<1>0. stmt.kind = "drop" /\ stmt.kind \notin RowKinds /\ stmt.kind # "select"
  BY DEF EffectInv, StageInv, DropTable, RowKinds
<1>1. UNCHANGED <<stmt, start>> /\ pc' = "idle"
  BY DEF DropTable, Finish, Fail
<1>2. CASE ~Exists
  <2>1. UNCHANGED tables
    BY <1>2 DEF DropTable
  <2>2. Completed(stmt, at', start)
    BY <1>0 DEF Completed
  <2> QED BY <1>0, <1>1, <1>2, <2>1, <2>2, QuietEffect
<1>3. CASE Exists
  <2>1. tables' = [n \in DOMAIN tables \ {stmt.table} |-> tables[n]]
    BY <1>3 DEF DropTable
  <2>2. /\ DOMAIN tables' = DOMAIN tables \ {stmt.table}
        /\ \A n \in DOMAIN tables : n # stmt.table => tables'[n] = tables[n]
    BY <2>1
  <2>3. StageInv'
    BY <1>0, <1>1 DEF EffectInv, StageInv
  <2>4. \A n \in (DOMAIN start \cup DOMAIN tables) \ {stmt.table} :
          n \in DOMAIN start \cap DOMAIN tables /\ tables[n] = start[n]
    BY <1>0 DEF EffectInv, OthersInv
  <2>5. \A n \in (DOMAIN start \cup DOMAIN tables') \ {stmt.table} :
          n \in DOMAIN start \cap DOMAIN tables' /\ tables'[n] = start[n]
    BY <2>2, <2>4
  <2>6. OthersInv'
    BY <1>0, <1>1, <2>2, <2>5 DEF OthersInv, Completed
  <2> QED BY <2>3, <2>6 DEF EffectInv
<1> QED BY <1>2, <1>3

\* A statement that fails has done nothing more.
LEMMA FailEffect ==
  ASSUME SqlInv, EffectInv, stmt.kind \in RowKinds, pc # "idle", Fail,
         UNCHANGED <<tables, stmt, at, start>>
  PROVE  EffectInv'
<1>0. /\ stmt.kind # "none" /\ stmt.kind # "create" /\ stmt.kind # "drop"
      /\ DOMAIN tables = DOMAIN start
  BY DEF RowKinds, EffectInv, OthersInv
<1>1. pc' = "idle" /\ (status' = "ok" => stmt.kind = "select" /\ stmt.table \in DOMAIN start)
  BY <1>0 DEF Fail, Exists
<1>2. status' = "ok" => Completed(stmt, at', start)
  BY <1>1 DEF Completed
<1>3. ASSUME stmt.table \in DOMAIN start
      PROVE  TableEffect(stmt, pc', at', status', buffer', start[stmt.table], tables[stmt.table])
  <2>1. TableEffect(stmt, pc, at, status, buffer, start[stmt.table], tables[stmt.table])
    BY <1>0, <1>3 DEF EffectInv, OthersInv
  <2> QED BY <1>1, <2>1 DEF TableEffect, Deleted, Queried
<1> QED BY <1>0, <1>1, <1>2, <1>3, QuietEffect

LEMMA EffectOfTable ==
  ASSUME SqlInv, EffectInv, stmt.kind \in RowKinds, Exists
  PROVE  /\ stmt.table \in DOMAIN start /\ stmt \in Statements
         /\ TableInv(start[stmt.table]) /\ TableInv(Table)
         /\ TableEffect(stmt, pc, at, status, buffer, start[stmt.table], Table)
         /\ Table.columns = start[stmt.table].columns
<1>0. stmt.kind # "none"
  BY DEF RowKinds
<1>1. stmt.table \in DOMAIN start
  BY <1>0 DEF EffectInv, OthersInv, Exists
<1>2. stmt \in Statements /\ TableInv(start[stmt.table])
  BY <1>0, <1>1 DEF EffectInv, StageInv
<1>3. TableEffect(stmt, pc, at, status, buffer, start[stmt.table], Table)
  BY <1>0, <1>1 DEF EffectInv, OthersInv, Table
<1> QED BY <1>1, <1>2, <1>3, TableKept DEF TableEffect

LEMMA InsertEffect ==
  ASSUME SqlInv, EffectInv, InsertRow
  PROVE  EffectInv'
<1>0. /\ at \in Nat /\ 1 <= at /\ pc = "insert" /\ UNCHANGED <<stmt, start>> /\ pc # "idle"
      /\ stmt.kind = "insert" /\ stmt.kind \in RowKinds /\ stmt.kind # "select"
  BY DEF SqlInv, ControlInv, EffectInv, StageInv, InsertRow, RowKinds
<1>1. Exists
  BY DEF InsertRow, Rejected
<1>2. PICK values : values = ValuesOf(stmt.values[at], <<>>)
  OBVIOUS
<1>3. PICK row : row = RowOf(values)
  OBVIOUS
<1>4. row = NewRow(stmt, Table.columns, at)
  BY <1>2, <1>3 DEF RowOf, ValuesOf, NewRow, Placed, TargetsOf, Targets
<1>5. CASE \/ Len(values) # Len(Targets) \/ Failed(values) \/ ~ValidateRow(Table, row, 0)
  <2>1. Fail /\ UNCHANGED <<tables, stmt, at, start>>
    BY <1>2, <1>3, <1>5 DEF InsertRow
  <2> QED BY <1>0, <2>1, FailEffect
<1>6. CASE ~(\/ Len(values) # Len(Targets) \/ Failed(values) \/ ~ValidateRow(Table, row, 0))
  <2>1. /\ tables' = [tables EXCEPT ![stmt.table].rows = Append(@, row)]
        /\ at' = at + 1
        /\ IF at = Len(stmt.values) THEN Finish ELSE UNCHANGED <<pc, status>>
    BY <1>2, <1>3, <1>6 DEF InsertRow
  <2>2. PICK rows : rows = Append(Table.rows, row)
    OBVIOUS
  <2>3. tables' = [tables EXCEPT ![stmt.table].rows = rows]
    BY <1>1, <2>1, <2>2 DEF Table, Exists
  <2>4. /\ stmt.table \in DOMAIN start
        /\ TableInv(start[stmt.table]) /\ TableInv(Table)
        /\ TableEffect(stmt, pc, at, status, buffer, start[stmt.table], Table)
        /\ Table.columns = start[stmt.table].columns
    BY <1>0, <1>1, EffectOfTable
  <2>5. PICK old, new : old = start[stmt.table] /\ new = Table
    OBVIOUS
  <2>6. Inserted(stmt, at, old.columns, old.rows, new.rows)
    BY <1>0, <2>4, <2>5 DEF TableEffect
  <2>7. Inserted(stmt, at + 1, old.columns, old.rows, rows)
    <3>1. IsSeq(old.rows) /\ IsSeq(new.rows)
      BY <2>4, <2>5 DEF TableInv
    <3>2. rows = Append(new.rows, NewRow(stmt, old.columns, at))
      BY <1>4, <2>2, <2>4, <2>5
    <3> QED BY <1>0, <2>6, <3>1, <3>2, InsertedMore
  <2>11. ErrorFree(stmt, at + 1, old.rows)
    <3>1. ErrorFree(stmt, at, old.rows)
      BY <2>4, <2>5 DEF TableEffect
    <3>2. ~Fails(stmt, stmt.values[at], <<>>)
      BY <1>2, <1>6 DEF Failed, ValuesOf, Fails
    <3>3. stmt.kind # "update"
      BY <1>0
    <3> QED BY <1>0, <3>1, <3>2, <3>3, ErrorFreeMore
  <2>8. TableEffect(stmt, pc', at', status', buffer', old, WithRows(new, rows))
    BY <1>0, <2>1, <2>4, <2>5, <2>7, <2>11 DEF TableEffect, WithRows
  <2>9. pc' = "idle" => Completed(stmt, at', start)
    BY <1>0, <2>1, <2>4 DEF Completed
  <2>10. pc' = pc \/ pc' = "idle"
    BY <2>1 DEF Finish
  <2> QED BY <1>0, <1>1, <2>3, <2>5, <2>8, <2>9, <2>10, RowsEffect
<1> QED BY <1>5, <1>6

LEMMA UpdateEffect ==
  ASSUME SqlInv, EffectInv, UpdateRow
  PROVE  EffectInv'
<1>0. /\ at \in Nat /\ 1 <= at /\ pc = "update" /\ UNCHANGED <<stmt, start>> /\ pc # "idle"
      /\ stmt.kind = "update" /\ stmt.kind \in RowKinds /\ stmt.kind # "select"
  BY DEF SqlInv, ControlInv, EffectInv, StageInv, UpdateRow, RowKinds
<1>1. Exists /\ at <= Len(Table.rows)
  BY DEF UpdateRow, Rejected
<1>2. /\ stmt.table \in DOMAIN start /\ stmt \in Statements
      /\ TableInv(start[stmt.table]) /\ TableInv(Table)
      /\ TableEffect(stmt, pc, at, status, buffer, start[stmt.table], Table)
      /\ Table.columns = start[stmt.table].columns
  BY <1>0, <1>1, EffectOfTable
<1>3. PICK old, new : old = start[stmt.table] /\ new = Table
  OBVIOUS
<1>4. Updated(stmt, at, old.rows, new.rows)
  BY <1>0, <1>2, <1>3 DEF TableEffect
<1>5. IsSeq(old.rows) /\ IsSeq(new.rows) /\ Len(new.rows) \in Nat /\ Len(old.rows) = Len(new.rows)
  BY <1>2, <1>3, <1>4, SeqFacts DEF TableInv, Updated
<1>6. at \in 1..Len(old.rows) /\ at \in 1..Len(new.rows)
  BY <1>0, <1>1, <1>3, <1>5
<1>7. PICK row : row = Table.rows[at]
  OBVIOUS
<1>8. /\ row = old.rows[at]
      /\ ~HitBy(stmt, row) => Updated(stmt, at + 1, old.rows, new.rows)
      /\ HitBy(stmt, row) =>
           Updated(stmt, at + 1, old.rows, [new.rows EXCEPT ![at] = ReplacedBy(stmt, row)])
  <2>1. PICK p, q, k : p = old.rows /\ q = new.rows /\ k = at
    OBVIOUS
  <2>2. /\ q[k] = p[k]
        /\ ~HitBy(stmt, p[k]) => Updated(stmt, k + 1, p, q)
        /\ HitBy(stmt, p[k]) => Updated(stmt, k + 1, p, [q EXCEPT ![k] = ReplacedBy(stmt, p[k])])
    <3>1. IsSeq(p) /\ IsSeq(q) /\ k \in 1..Len(p) /\ Updated(stmt, k, p, q)
      BY <1>4, <1>5, <1>6, <2>1
    <3> QED BY <3>1, UpdatedMore
  <2>3. row = q[k]
    BY <1>3, <1>7, <2>1
  <2> QED BY <2>1, <2>2, <2>3
<1>9. Assigned(row) = ReplacedBy(stmt, row)
  <2>1. IsSeq(row)
    BY <1>2, <1>3, <1>6, <1>7 DEF TableInv, RowInv
  <2>2. stmt.set.cols \in Seq(Nat)
    BY <1>0, <1>2, StatementAssumption
  <2>3. PICK m, hi : m = Len(row) /\ hi = Len(stmt.set.cols)
    OBVIOUS
  <2>4. PICK next : next = Assigned(row)
    OBVIOUS
  <2>5. /\ IsSeq(next) /\ Len(next) = m
        /\ \A j \in 1..m : next[j] = SetUpTo(stmt, row, hi, j)
    BY <2>1, <2>2, <2>3, <2>4, AssignedFacts
  <2>6. next = [j \in 1..m |-> SetUpTo(stmt, row, hi, j)]
    <3>1. next = [j \in 1..m |-> next[j]]
      BY <2>5, SeqFacts
    <3> QED BY <2>5, <3>1
  <2>7. DOMAIN row = 1..m /\ DOMAIN stmt.set.cols = 1..hi
    BY <2>1, <2>2, <2>3, SeqFacts
  <2>8. ReplacedBy(stmt, row) = [j \in 1..m |-> SetUpTo(stmt, row, hi, j)]
    BY <2>7 DEF ReplacedBy, SetUpTo
  <2> QED BY <2>4, <2>6, <2>8
<1>10. HitBy(stmt, row) <=> Truthy(Selected(row))
  BY DEF HitBy, Truthy, Selected
<1>11. \/ Fail /\ UNCHANGED <<tables, at>>
       \/ ~Truthy(Selected(row)) /\ at' = at + 1 /\ UNCHANGED <<tables, pc, status>>
       \/ /\ Truthy(Selected(row)) /\ at' = at + 1 /\ UNCHANGED <<pc, status>>
          /\ ~SetFails(row)
          /\ tables' = [tables EXCEPT ![stmt.table].rows[at] = Assigned(row)]
  BY <1>7 DEF UpdateRow
<1>15. ErrorFree(stmt, at, old.rows) /\ stmt.kind # "insert"
  BY <1>0, <1>2, <1>3 DEF TableEffect
<1>12. CASE Fail /\ UNCHANGED <<tables, at>>
  BY <1>0, <1>12, FailEffect
<1>13. CASE ~Truthy(Selected(row)) /\ at' = at + 1 /\ UNCHANGED <<tables, pc, status>>
  <2>1. Updated(stmt, at', old.rows, new.rows)
    BY <1>8, <1>10, <1>13
  <2>4. ErrorFree(stmt, at', old.rows)
    BY <1>0, <1>8, <1>10, <1>13, <1>15, ErrorFreeMore
  <2>2. TableEffect(stmt, pc', at', status', buffer', old, new)
    BY <1>0, <1>2, <1>3, <2>1, <2>4 DEF TableEffect
  <2>3. new = tables[stmt.table] /\ stmt.kind # "none" /\ pc' # "output"
    BY <1>0, <1>3, <1>13 DEF Table
  <2> QED BY <1>0, <1>3, <1>13, <2>2, <2>3, QuietEffect
<1>14. CASE /\ Truthy(Selected(row)) /\ at' = at + 1 /\ UNCHANGED <<pc, status>>
            /\ ~SetFails(row)
            /\ tables' = [tables EXCEPT ![stmt.table].rows[at] = Assigned(row)]
  <2>1. PICK rows : rows = [new.rows EXCEPT ![at] = Assigned(row)]
    OBVIOUS
  <2>2. tables' = [tables EXCEPT ![stmt.table].rows = rows]
    BY <1>1, <1>3, <1>14, <2>1 DEF Table, Exists
  <2>3. Updated(stmt, at', old.rows, rows)
    BY <1>8, <1>9, <1>10, <1>14, <2>1
  <2>5. ErrorFree(stmt, at', old.rows)
    <3>1. ~Fails(stmt, stmt.set.exprs, row)
      BY <1>14 DEF SetFails, Failed, ValuesOf, Fails
    <3> QED BY <1>0, <1>8, <1>14, <1>15, <3>1, ErrorFreeMore
  <2>4. TableEffect(stmt, pc', at', status', buffer', old, WithRows(new, rows))
    BY <1>0, <1>2, <1>3, <2>3, <2>5 DEF TableEffect, WithRows
  <2> QED BY <1>0, <1>1, <1>3, <1>14, <2>2, <2>4, RowsEffect
<1> QED BY <1>11, <1>12, <1>13, <1>14

LEMMA UpdateEndEffect ==
  ASSUME SqlInv, EffectInv, UpdateEnd
  PROVE  EffectInv'
<1>0. /\ at \in Nat /\ pc = "update" /\ UNCHANGED <<tables, stmt, at, start>>
      /\ stmt.kind = "update" /\ stmt.kind \in RowKinds /\ pc' = "idle" /\ Exists
      /\ at > Len(Table.rows)
  BY DEF SqlInv, ControlInv, EffectInv, StageInv, UpdateEnd, RowKinds, Finish, Rejected
<1>1. /\ stmt.table \in DOMAIN start
      /\ TableInv(start[stmt.table]) /\ TableInv(Table)
      /\ TableEffect(stmt, pc, at, status, buffer, start[stmt.table], Table)
  BY <1>0, EffectOfTable
<1>2. PICK old, new : old = start[stmt.table] /\ new = Table
  OBVIOUS
<1>3. Updated(stmt, at, old.rows, new.rows) /\ Len(new.rows) \in Nat
  BY <1>0, <1>1, <1>2, SeqFacts DEF TableEffect, TableInv
<1>4. at = Len(old.rows) + 1
  BY <1>0, <1>2, <1>3 DEF Updated
<1>5. Completed(stmt, at', start)
  BY <1>0, <1>1, <1>2, <1>4 DEF Completed
<1>6. TableEffect(stmt, pc', at', status', buffer', old, new)
  BY <1>0, <1>1, <1>2 DEF TableEffect
<1>7. new = tables[stmt.table] /\ stmt.kind # "none"
  BY <1>0, <1>2 DEF Table
<1> QED BY <1>0, <1>2, <1>5, <1>6, <1>7, QuietEffect

\* DELETE and SELECT take one row more, or leave it out.
LEMMA FilterMore ==
  ASSUME NEW s, NEW rows, NEW hit, Len(rows) \in Nat, NEW a \in 1..Len(rows), NEW b,
         b = Filter(s, rows, hit)[a - 1]
  PROVE  Filter(s, rows, hit)[(a + 1) - 1] =
           IF HitBy(s, rows[a]) <=> hit THEN Append(b, rows[a]) ELSE b
<1>1. (a + 1) - 1 = a
  OBVIOUS
<1>2. Filter(s, rows, hit)[a] =
        IF HitBy(s, rows[a]) <=> hit THEN Append(Filter(s, rows, hit)[a - 1], rows[a])
        ELSE Filter(s, rows, hit)[a - 1]
  BY FilterUnfolds
<1> QED BY <1>1, <1>2

LEMMA FilterEffect ==
  ASSUME SqlInv, EffectInv, FilterRow
  PROVE  EffectInv'
<1>0. /\ at \in Nat /\ 1 <= at /\ UNCHANGED <<tables, stmt, start>> /\ pc # "idle" /\ pc # "output"
      /\ stmt.kind = pc /\ pc \in {"delete", "select"} /\ stmt.kind \in RowKinds
      /\ stmt.kind # "none"
  BY DEF SqlInv, ControlInv, EffectInv, StageInv, FilterRow, RowKinds
<1>1. Exists /\ at <= Len(Table.rows)
  BY DEF FilterRow, Rejected
<1>2. /\ stmt.table \in DOMAIN start
      /\ TableInv(start[stmt.table]) /\ TableInv(Table)
      /\ TableEffect(stmt, pc, at, status, buffer, start[stmt.table], Table)
  BY <1>0, <1>1, EffectOfTable
<1>3. PICK old, new : old = start[stmt.table] /\ new = Table
  OBVIOUS
<1>4. /\ stmt.kind = "delete" => Deleted(stmt, pc, at, status, buffer, old.rows, new.rows)
      /\ stmt.kind = "select" => Queried(stmt, pc, at, buffer, old.rows, new.rows)
      /\ new.columns = old.columns
  BY <1>2, <1>3 DEF TableEffect
<1>5. new.rows = old.rows /\ Len(old.rows) \in Nat
  BY <1>0, <1>2, <1>3, <1>4, SeqFacts DEF Deleted, Queried, TableInv
<1>6. at \in 1..Len(old.rows) /\ at + 1 <= Len(old.rows) + 1
  BY <1>0, <1>1, <1>3, <1>5
<1>7. PICK row, b : row = old.rows[at] /\ b = buffer
  OBVIOUS
<1>8. HitBy(stmt, row) <=> Truthy(Selected(row))
  BY DEF HitBy, Truthy, Selected
<1>12. \A hit : b = Filter(stmt, old.rows, hit)[at - 1] =>
         Filter(stmt, old.rows, hit)[(at + 1) - 1] =
           IF HitBy(stmt, row) <=> hit THEN Append(b, row) ELSE b
  <2>1. PICK p, k : p = old.rows /\ k = at
    OBVIOUS
  <2>2. Len(p) \in Nat /\ k \in 1..Len(p) /\ row = p[k]
    BY <1>5, <1>6, <1>7, <2>1
  <2>3. ASSUME NEW hit, b = Filter(stmt, p, hit)[k - 1]
        PROVE  Filter(stmt, p, hit)[(k + 1) - 1] =
                 IF HitBy(stmt, p[k]) <=> hit THEN Append(b, p[k]) ELSE b
    BY <2>2, <2>3, FilterMore
  <2> QED BY <2>1, <2>2, <2>3
<1>9. \/ Fail /\ UNCHANGED <<tables, stmt, at, start>>
      \/ /\ at' = at + 1 /\ UNCHANGED <<pc, status>>
         /\ buffer' = IF Truthy(Selected(row)) = (pc = "select") THEN Append(b, row) ELSE b
  BY <1>3, <1>5, <1>7 DEF FilterRow
<1>10. CASE Fail /\ UNCHANGED <<tables, stmt, at, start>>
  BY <1>0, <1>10, FailEffect
<1>11. CASE /\ at' = at + 1 /\ UNCHANGED <<pc, status>>
            /\ buffer' = IF Truthy(Selected(row)) = (pc = "select") THEN Append(b, row) ELSE b
  <2>1. TableEffect(stmt, pc', at', status', buffer', old, new)
    <3>3. ErrorFree(stmt, at', old.rows)
      <4>1. stmt.kind # "insert" /\ stmt.kind # "update"
        BY <1>0
      <4> QED BY <4>1, NoErrors
    <3>1. CASE pc = "delete"
      <4>1. b = Filter(stmt, old.rows, FALSE)[at - 1]
        BY <1>0, <1>4, <1>7, <3>1 DEF Deleted
      <4>2. Filter(stmt, old.rows, FALSE)[(at + 1) - 1] =
              IF HitBy(stmt, row) <=> FALSE THEN Append(b, row) ELSE b
        BY <1>12, <4>1
      <4>3. buffer' = IF ~Truthy(Selected(row)) THEN Append(b, row) ELSE b
        <5>1. Truthy(Selected(row)) \in BOOLEAN
          BY DEF Truthy
        <5>2. (pc = "select") = FALSE
          BY <3>1
        <5> QED BY <1>11, <5>1, <5>2
      <4>4. buffer' = Filter(stmt, old.rows, FALSE)[at' - 1]
        BY <1>8, <1>11, <4>2, <4>3
      <4>5. Deleted(stmt, pc', at', status', buffer', old.rows, new.rows)
        BY <1>0, <1>5, <1>6, <1>11, <4>4 DEF Deleted
      <4> QED BY <1>0, <1>4, <3>1, <3>3, <4>5 DEF TableEffect
    <3>2. CASE pc = "select"
      <4>1. b = Filter(stmt, old.rows, TRUE)[at - 1]
        BY <1>0, <1>4, <1>7, <3>2 DEF Queried
      <4>2. Filter(stmt, old.rows, TRUE)[(at + 1) - 1] =
              IF HitBy(stmt, row) <=> TRUE THEN Append(b, row) ELSE b
        BY <1>12, <4>1
      <4>3. buffer' = IF Truthy(Selected(row)) THEN Append(b, row) ELSE b
        <5>1. Truthy(Selected(row)) \in BOOLEAN
          BY DEF Truthy
        <5> QED BY <1>11, <3>2, <5>1
      <4>4. buffer' = Filter(stmt, old.rows, TRUE)[at' - 1]
        BY <1>8, <1>11, <4>2, <4>3
      <4>5. Queried(stmt, pc', at', buffer', old.rows, new.rows)
        BY <1>5, <1>6, <1>11, <4>4 DEF Queried
      <4> QED BY <1>0, <1>4, <3>2, <3>3, <4>5 DEF TableEffect
    <3> QED BY <1>0, <3>1, <3>2
  <2>2. new = tables[stmt.table]
    BY <1>3 DEF Table
  <2> QED BY <1>0, <1>3, <1>11, <2>1, <2>2, QuietEffect
<1> QED BY <1>9, <1>10, <1>11

LEMMA DeleteEndEffect ==
  ASSUME SqlInv, EffectInv, DeleteEnd
  PROVE  EffectInv'
<1>0. /\ at \in Nat /\ pc = "delete" /\ UNCHANGED <<stmt, at, start>>
      /\ stmt.kind = "delete" /\ stmt.kind \in RowKinds /\ pc' = "idle" /\ Exists
      /\ at > Len(Table.rows)
      /\ tables' = [tables EXCEPT ![stmt.table].rows = buffer]
  BY DEF SqlInv, ControlInv, EffectInv, StageInv, DeleteEnd, RowKinds, Finish, Rejected
<1>1. /\ stmt.table \in DOMAIN start
      /\ TableInv(start[stmt.table]) /\ TableInv(Table)
      /\ TableEffect(stmt, pc, at, status, buffer, start[stmt.table], Table)
  BY <1>0, EffectOfTable
<1>2. PICK old, new, b : old = start[stmt.table] /\ new = Table /\ b = buffer
  OBVIOUS
<1>3. Deleted(stmt, pc, at, status, b, old.rows, new.rows) /\ new.columns = old.columns
  BY <1>0, <1>1, <1>2 DEF TableEffect
<1>4. new.rows = old.rows /\ Len(old.rows) \in Nat
  BY <1>0, <1>1, <1>2, <1>3, SeqFacts DEF Deleted, TableInv
<1>5. at <= Len(old.rows) + 1 /\ b = Filter(stmt, old.rows, FALSE)[at - 1]
  BY <1>0, <1>3 DEF Deleted
<1>6. at - 1 = Len(old.rows)
  BY <1>0, <1>2, <1>4, <1>5
<1>7. b = Filter(stmt, old.rows, FALSE)[Len(old.rows)]
  BY <1>5, <1>6
<1>8. status' = "ok"
  BY DEF DeleteEnd, Finish
<1>9. Deleted(stmt, pc', at', status', buffer', old.rows, b)
  BY <1>0, <1>7, <1>8 DEF Deleted
<1>10. TableEffect(stmt, pc', at', status', buffer', old, WithRows(new, b))
  <2>1. ErrorFree(stmt, at', old.rows)
    <3>1. stmt.kind # "insert" /\ stmt.kind # "update"
      BY <1>0
    <3> QED BY <3>1, NoErrors
  <2> QED BY <1>0, <1>3, <1>9, <2>1 DEF TableEffect, WithRows
<1>11. Completed(stmt, at', start) /\ tables' = [tables EXCEPT ![stmt.table].rows = b]
  BY <1>0, <1>1, <1>2 DEF Completed
<1> QED BY <1>0, <1>2, <1>10, <1>11, RowsEffect

\* The rest of a SELECT, and a statement that is refused.
LEMMA QueryEffect ==
  ASSUME SqlInv, EffectInv, SortRows \/ OutputRow \/ OutputEnd
  PROVE  EffectInv'
<1>0. /\ stmt.kind = "select" /\ stmt.kind \in RowKinds /\ stmt.kind # "none"
      /\ stmt.table \in DOMAIN start /\ UNCHANGED <<tables, stmt, start>>
  <2>1. stmt.kind = "select" /\ UNCHANGED <<tables, stmt, start>>
    <3>1. (pc = "select" \/ pc = "output") /\ UNCHANGED <<tables, stmt, start>>
      BY DEF SortRows, OutputRow, OutputEnd
    <3>2. stmt.kind \in Kinds
      BY <3>1, StatementAssumption DEF EffectInv, StageInv
    <3> QED BY <3>1, <3>2 DEF EffectInv, StageInv, Kinds
  <2>2. CASE SortRows
    <3>1. Exists
      BY <2>2 DEF SortRows, Rejected
    <3> QED BY <2>1, <3>1, EffectOfTable DEF RowKinds
  <2>3. CASE OutputRow \/ OutputEnd
    BY <2>1, <2>3 DEF EffectInv, OthersInv, OutputRow, OutputEnd, RowKinds
  <2> QED BY <2>1, <2>2, <2>3 DEF RowKinds
<1>1. \/ pc' = "output" /\ pc' # "idle"
      \/ pc' = "idle" /\ status' = "ok"
      \/ Fail /\ pc # "idle" /\ UNCHANGED at
  BY DEF SortRows, OutputRow, OutputEnd, Finish
<1>2. Completed(stmt, at', start)
  BY <1>0 DEF Completed
<1>3. CASE Fail /\ pc # "idle" /\ UNCHANGED at
  BY <1>0, <1>3, FailEffect
<1>4. CASE pc' = "output" \/ pc' = "idle"
  <2>1. TableEffect(stmt, pc, at, status, buffer, start[stmt.table], tables[stmt.table])
    BY <1>0 DEF EffectInv, OthersInv
  <2>2. pc' # "select"
    BY <1>4
  <2>3. TableEffect(stmt, pc', at', status', buffer', start[stmt.table], tables[stmt.table])
    <3>1. ErrorFree(stmt, at', start[stmt.table].rows)
      <4>1. stmt.kind # "insert" /\ stmt.kind # "update"
        BY <1>0
      <4> QED BY <4>1, NoErrors
    <3> QED BY <1>0, <2>1, <2>2, <3>1 DEF TableEffect, Queried
  <2> QED BY <1>0, <1>2, <1>4, <2>3, QuietEffect
<1> QED BY <1>1, <1>3, <1>4

LEMMA RejectEffect ==
  ASSUME SqlInv, EffectInv, Reject
  PROVE  EffectInv'
<1>1. stmt.kind \in RowKinds /\ pc # "idle" /\ Fail /\ UNCHANGED <<tables, stmt, at, start>>
  BY DEF EffectInv, StageInv, Reject, RowKinds
<1> QED BY <1>1, FailEffect

LEMMA EffectInductive == Spec => []EffectInv
<1>1. Init => EffectInv
  <2> SUFFICES ASSUME Init PROVE EffectInv
    OBVIOUS
  <2>1. SqlInv
    BY InitInv
  <2>2. start = tables /\ stmt.kind = "none" /\ pc = "idle"
    BY DEF Init
  <2>3. StageInv
    BY <2>1, <2>2 DEF StageInv, SqlInv, TablesInv
  <2> QED BY <2>2, <2>3 DEF EffectInv
<1>2. SqlInv /\ EffectInv /\ [Next]_vars => EffectInv'
  <2> SUFFICES ASSUME SqlInv, EffectInv, [Next]_vars PROVE EffectInv'
    OBVIOUS
  <2>1. CASE Next
    BY <2>1, BeginEffect, CreateEffect, DropEffect, RejectEffect, InsertEffect, UpdateEffect,
       UpdateEndEffect, FilterEffect, DeleteEndEffect, QueryEffect DEF Next
  <2>2. CASE UNCHANGED vars
    <3>1. UNCHANGED <<tables, stmt, pc, at, buffer, status, start>>
      BY <2>2 DEF vars
    <3>2. StageInv'
      BY <3>1 DEF EffectInv, StageInv
    <3>3. stmt.kind # "none" => OthersInv'
      BY <3>1 DEF EffectInv, OthersInv
    <3> QED BY <3>1, <3>2, <3>3 DEF EffectInv
  <2> QED BY <2>1, <2>2
<1> QED BY <1>1, <1>2, SqlInductive, PTL DEF Spec

LEMMA AtIsPosition ==
  ASSUME SqlInv
  PROVE  at \in Nat /\ 1 <= at
BY DEF SqlInv, ControlInv

\* Between two statements, the statement has changed its own table only, and
\* made of its rows what it says: as if to all of them at once if it
\* succeeded, and to those before the one it failed at, or to none, if not.
\* No value that it inserted or assigned was an error, also where a later
\* assignment to the same column was none.
THEOREM StatementsAreExact == Spec => []StatementEffect
<1>1. SqlInv /\ EffectInv => StatementEffect
  <2> SUFFICES ASSUME SqlInv, EffectInv, pc = "idle", stmt.kind # "none"
               PROVE  StatementEffect
    BY DEF StatementEffect
  <2>0. OthersInv /\ stmt \in Statements /\ stmt.kind \in Kinds
    BY StatementAssumption DEF EffectInv, StageInv
  <2>5. at \in Nat /\ 1 <= at
    BY AtIsPosition, Zenon
  <2>1. \A n \in (DOMAIN start \cup DOMAIN tables) \ {stmt.table} :
          n \in DOMAIN start \cap DOMAIN tables /\ tables[n] = start[n]
    BY <2>0 DEF OthersInv
  <2>2. /\ Done({"create"}) => stmt.table \in DOMAIN tables
        /\ Done({"drop"}) => stmt.table \notin DOMAIN tables
    BY <2>0 DEF OthersInv, Done
  <2>3. ASSUME ~Done({"create", "drop"}), stmt.table \in DOMAIN start
        PROVE  tables[stmt.table].rows = Expected(start[stmt.table].rows)
    <3>0. stmt.kind \in RowKinds
      BY <2>0, <2>3 DEF Done, Kinds, RowKinds
    <3>1. Exists
      BY <2>0, <2>3, <3>0 DEF OthersInv, Exists
    <3>2. /\ TableInv(start[stmt.table]) /\ TableInv(Table)
          /\ TableEffect(stmt, pc, at, status, buffer, start[stmt.table], Table)
          /\ Table.columns = start[stmt.table].columns
      BY <3>0, <3>1, EffectOfTable
    <3>3. PICK old, new : old = start[stmt.table].rows /\ new = Table.rows
      OBVIOUS
    <3>4. IsSeq(old) /\ IsSeq(new) /\ Len(old) \in Nat /\ DOMAIN old = 1..Len(old)
      <4>1. IsSeq(old) /\ IsSeq(new)
        BY <3>2, <3>3, ZenonT(60) DEF TableInv
      <4> QED BY <4>1, SeqFacts, Zenon
    <3>6. CASE stmt.kind = "insert"
      <4>1. Inserted(stmt, at, Table.columns, old, new)
        BY <3>2, <3>3, <3>6 DEF TableEffect
      <4>2. new = old \o [i \in 1..at - 1 |-> NewRow(stmt, Table.columns, i)]
        BY <3>4, <2>5, <4>1, InsertedRows
      <4>3. ASSUME NEW i PROVE NewRow(stmt, Table.columns, i) = RowOf(ValuesOf(stmt.values[i], <<>>))
        BY DEF RowOf, ValuesOf, NewRow, Placed, TargetsOf, Targets
      <4>4. [i \in 1..at - 1 |-> NewRow(stmt, Table.columns, i)] =
              [i \in 1..at - 1 |-> RowOf(ValuesOf(stmt.values[i], <<>>))]
        BY <4>3
      <4>5. Expected(old) = old \o [i \in 1..at - 1 |-> RowOf(ValuesOf(stmt.values[i], <<>>))]
        BY <3>6 DEF Expected
      <4> QED BY <3>3, <4>2, <4>4, <4>5 DEF Table
    <3>7. CASE stmt.kind = "update"
      <4>1. Updated(stmt, at, old, new)
        BY <3>2, <3>3, <3>7 DEF TableEffect
      <4>2. \A i \in 1..Len(old) :
              new[i] = IF i < at /\ Hit(old[i]) THEN Replaced(old[i]) ELSE old[i]
        <5>1. \A r : (Hit(r) <=> HitBy(stmt, r)) /\ Replaced(r) = ReplacedBy(stmt, r)
          BY DEF Hit, HitBy, Selected, Replaced, ReplacedBy
        <5> QED BY <4>1, <5>1 DEF Updated
      <4>3. Expected(old) = [i \in 1..Len(old) |->
                               IF i < at /\ Hit(old[i]) THEN Replaced(old[i]) ELSE old[i]]
        BY <3>4, <3>7 DEF Expected
      <4>4. new = [i \in 1..Len(old) |-> new[i]]
        BY <3>4, <4>1, SeqFacts DEF Updated
      <4> QED BY <3>3, <4>2, <4>3, <4>4 DEF Table
    <3>8. CASE stmt.kind = "delete"
      <4>1. Deleted(stmt, pc, at, status, buffer, old, new)
        BY <3>2, <3>3, <3>8 DEF TableEffect
      <4>2. Those(old, FALSE) = Filter(stmt, old, FALSE)[Len(old)]
        BY DEF Those, Filter, Hit, HitBy, Selected
      <4>3. Expected(old) = IF status = "ok" THEN Those(old, FALSE) ELSE old
        BY <3>8 DEF Expected
      <4> QED BY <3>3, <4>1, <4>2, <4>3 DEF Table, Deleted
    <3>9. CASE stmt.kind = "select"
      <4>1. Queried(stmt, pc, at, buffer, old, new)
        BY <3>2, <3>3, <3>9 DEF TableEffect
      <4>2. Expected(old) = old
        BY <3>9 DEF Expected
      <4> QED BY <3>3, <4>1, <4>2 DEF Table, Queried
    <3> QED BY <3>0, <3>6, <3>7, <3>8, <3>9 DEF RowKinds
  <2>6. ASSUME ~Done({"create", "drop"}), stmt.table \in DOMAIN start
        PROVE  NoErrorBefore(start[stmt.table].rows)
    <3>1. stmt.kind \in RowKinds
      BY <2>0, <2>6 DEF Done, Kinds, RowKinds
    <3>2. PICK old : old = start[stmt.table].rows
      OBVIOUS
    <3>3. ErrorFree(stmt, at, old)
      BY <2>0, <2>6, <3>1, <3>2 DEF OthersInv, TableEffect
    <3>4. \A exprs, row : Failed(ValuesOf(exprs, row)) <=> Fails(stmt, exprs, row)
      BY DEF Failed, ValuesOf, Fails
    <3>5. \A row : Hit(row) <=> HitBy(stmt, row)
      BY DEF Hit, HitBy, Selected
    <3>6. CASE stmt.kind = "insert"
      <4>1. \A i \in 1..at - 1 : ~Failed(ValuesOf(stmt.values[i], <<>>))
        BY <3>3, <3>4, <3>6 DEF ErrorFree
      <4> QED BY <3>6, <4>1 DEF NoErrorBefore
    <3>7. CASE stmt.kind = "update"
      <4>1. \A i \in 1..at - 1 : Hit(old[i]) => ~Failed(ValuesOf(stmt.set.exprs, old[i]))
        BY <3>3, <3>4, <3>5, <3>7 DEF ErrorFree
      <4> QED BY <3>2, <3>7, <4>1 DEF NoErrorBefore
    <3>8. CASE stmt.kind # "insert" /\ stmt.kind # "update"
      BY <3>8 DEF NoErrorBefore
    <3> QED BY <3>6, <3>7, <3>8
  <2>4. status = "ok" => /\ Done({"insert"}) => at = Len(stmt.values) + 1
                         /\ Done({"update"}) => at = Len(tables[stmt.table].rows) + 1
    <3>1. ASSUME status = "ok", stmt.kind = "update"
          PROVE  at = Len(tables[stmt.table].rows) + 1
      <4>1. Completed(stmt, at, start) /\ stmt.kind \in RowKinds
        BY <2>0, <3>1 DEF OthersInv, RowKinds
      <4>2. stmt.table \in DOMAIN start /\ at = Len(start[stmt.table].rows) + 1
        BY <3>1, <4>1 DEF Completed
      <4>3. TableEffect(stmt, pc, at, status, buffer, start[stmt.table], tables[stmt.table])
        BY <2>0, <4>1, <4>2 DEF OthersInv
      <4> QED BY <3>1, <4>2, <4>3 DEF TableEffect, Updated
    <3>2. ASSUME status = "ok", stmt.kind = "insert" PROVE at = Len(stmt.values) + 1
      BY <2>0, <3>2 DEF OthersInv, Completed
    <3> QED BY <3>1, <3>2 DEF Done
  <2> QED BY <2>1, <2>2, <2>3, <2>4, <2>6 DEF StatementEffect
<1> QED BY <1>1, SqlInductive, EffectInductive, PTL

-----------------------------------------------------------------------------
(***************************************************************************)
(* The number that a COUNT returns.                                       *)
(***************************************************************************)
HitsBy(s, rows) == Filter(s, rows, TRUE)[Len(rows)]

WhereFails(s, row) ==
  (IF s.where = <<>> THEN Boolean(TRUE) ELSE Evaluate(s.where[1], row, s.params)) = Failure

OrderFails(s, row) ==
  \E k \in DOMAIN s.order : Evaluate(s.order[k], row, s.params) = Failure

\* The errors for which the code answers with the number of all rows.
Excused(s, rows) ==
  \/ \E i \in 1..Len(rows) : WhereFails(s, rows[i])
  \/ Bad(s.order) \/ Bad(s.exprs) \/ (s.order # <<>> /\ Bad(s.where))
  \/ \E i \in 1..Len(HitsBy(s, rows)) : OrderFails(s, HitsBy(s, rows)[i])

\* What a COUNT(*) on the given rows has done.
Counted(s, p, a, st, b, res, rows) ==
  /\ p = "select" => res = <<>>
  /\ p = "output" =>
       /\ IsSeq(res) /\ Len(res) = a - 1
       /\ a <= Len(b) + 1 /\ Len(b) = Len(HitsBy(s, rows))
       /\ \A k \in 1..Len(b) : \E i \in 1..Len(rows) : b[k] = rows[i]
       /\ st = "error" => Excused(s, rows)
  /\ p = "idle" /\ st = "ok" =>
       Excused(s, rows) \/ res = <<<<Integer(Len(HitsBy(s, rows)))>>>>

CountInv ==
  /\ stmt.kind = "select" /\ stmt.count /\ stmt.limit = <<>> /\ ~stmt.distinct
  /\ stmt.table \in DOMAIN start
  => Counted(stmt, pc, at, status, buffer, result, start[stmt.table].rows)

\* The steps of other statements.
LEMMA OtherCount ==
  ASSUME CountInv, UNCHANGED <<stmt, start>>, stmt.kind # "select"
  PROVE  CountInv'
BY DEF CountInv

LEMMA SelectSteps ==
  ASSUME SqlInv, EffectInv, stmt.kind = "select", stmt.table \in DOMAIN start
  PROVE  /\ stmt \in Statements /\ Exists /\ TableInv(Table)
         /\ Table.rows = start[stmt.table].rows
         /\ Table.columns = start[stmt.table].columns
         /\ pc \in {"select", "output", "idle"}
         /\ Queried(stmt, pc, at, buffer, Table.rows, Table.rows)
<1>1. stmt.kind \in RowKinds /\ stmt.kind # "none"
  BY DEF RowKinds
<1>2. Exists
  BY <1>1 DEF EffectInv, OthersInv, Exists
<1>3. /\ stmt \in Statements /\ TableInv(Table)
      /\ TableEffect(stmt, pc, at, status, buffer, start[stmt.table], Table)
      /\ Table.columns = start[stmt.table].columns
  BY <1>1, <1>2, EffectOfTable
<1>4. Queried(stmt, pc, at, buffer, start[stmt.table].rows, Table.rows)
  BY <1>3 DEF TableEffect
<1>5. Table.rows = start[stmt.table].rows
  BY <1>4 DEF Queried
<1>6. pc \in {"select", "output", "idle"}
  BY DEF EffectInv, StageInv
<1> QED BY <1>2, <1>3, <1>4, <1>5, <1>6

LEMMA RejectCount ==
  ASSUME SqlInv, EffectInv, CountInv, Reject
  PROVE  CountInv'
<1>1. UNCHANGED <<stmt, at, start>> /\ pc' = "idle"
  BY DEF Reject, Fail
<1> SUFFICES ASSUME stmt.kind = "select", stmt.count, stmt.limit = <<>>, ~stmt.distinct,
                    stmt.table \in DOMAIN start
             PROVE  Counted(stmt, pc', at', status', buffer', result', start[stmt.table].rows)
  BY <1>1 DEF CountInv
<1>2. Exists
  BY SelectSteps
<1>3. ToSet(ValuesOf(stmt.limit, <<>>)) = {}
  BY DEF ToSet, ValuesOf
<1>4. Bad(stmt.order) \/ Bad(stmt.exprs) \/ (stmt.order # <<>> /\ Bad(stmt.where))
  BY <1>2, <1>3 DEF Reject, Rejected
<1> QED BY <1>1, <1>4 DEF Counted, Excused

LEMMA FilterCount ==
  ASSUME SqlInv, EffectInv, CountInv, FilterRow
  PROVE  CountInv'
<1>1. UNCHANGED <<stmt, start>>
  BY DEF FilterRow
<1> SUFFICES ASSUME stmt.kind = "select", stmt.count, stmt.limit = <<>>, ~stmt.distinct,
                    stmt.table \in DOMAIN start
             PROVE  Counted(stmt, pc', at', status', buffer', result', start[stmt.table].rows)
  BY <1>1 DEF CountInv
<1>2. PICK rows : rows = start[stmt.table].rows
  OBVIOUS
<1>3. Table.rows = rows /\ TableInv(Table) /\ at \in Nat /\ 1 <= at /\ at <= Len(Table.rows)
  BY <1>2, SelectSteps DEF FilterRow, SqlInv, ControlInv
<1>4. at \in 1..Len(rows)
  <2>1. Len(rows) \in Nat
    BY <1>3, SeqFacts DEF TableInv
  <2> QED BY <1>3, <2>1
<1>5. pc = "select"
  BY SelectSteps DEF FilterRow
<1>6. result = <<>>
  BY <1>2, <1>5 DEF CountInv, Counted
<1>7. \/ pc' = "idle" /\ Selected(rows[at]) = Failure
      \/ pc' = "select" /\ result' = result
  BY <1>3, <1>5 DEF FilterRow, Fail
<1>8. CASE pc' = "idle" /\ Selected(rows[at]) = Failure
  <2>1. WhereFails(stmt, rows[at])
    BY <1>8 DEF WhereFails, Selected
  <2>2. Excused(stmt, rows)
    BY <1>4, <2>1 DEF Excused
  <2> QED BY <1>2, <1>8, <2>2 DEF Counted
<1>9. CASE pc' = "select" /\ result' = result
  BY <1>6, <1>9 DEF Counted
<1> QED BY <1>7, <1>8, <1>9

LEMMA SortCount ==
  ASSUME SqlInv, EffectInv, CountInv, SortRows
  PROVE  CountInv'
<1>1. /\ UNCHANGED <<stmt, start, result>> /\ pc = "select" /\ pc' = "output" /\ at' = 1
      /\ buffer' \in Sortings(buffer) /\ at > Len(Table.rows)
      /\ status' = "error" => \E k \in DOMAIN buffer : Failed(ValuesOf(stmt.order, buffer[k]))
  BY DEF SortRows
<1> SUFFICES ASSUME stmt.kind = "select", stmt.count, stmt.limit = <<>>, ~stmt.distinct,
                    stmt.table \in DOMAIN start
             PROVE  Counted(stmt, pc', at', status', buffer', result', start[stmt.table].rows)
  BY <1>1 DEF CountInv
<1>2. PICK rows, b : rows = start[stmt.table].rows /\ b = buffer
  OBVIOUS
<1>3. /\ Table.rows = rows /\ TableInv(Table) /\ at \in Nat
      /\ at <= Len(rows) + 1 /\ b = Filter(stmt, rows, TRUE)[at - 1]
  BY <1>1, <1>2, SelectSteps DEF Queried, SqlInv, ControlInv
<1>4. PICK m \in Nat : m = Len(rows)
  BY <1>3, SeqFacts DEF TableInv
<1>5. at - 1 = m
  BY <1>1, <1>3, <1>4
<1>6. b = HitsBy(stmt, rows)
  BY <1>3, <1>4, <1>5 DEF HitsBy
<1>7. IsSeq(b) /\ \A k \in 1..Len(b) : \E i \in 1..Len(rows) : b[k] = rows[i]
  <2>1. m \in 0..Len(rows) /\ Len(rows) \in Nat
    BY <1>4
  <2>2. PICK yes : yes = TRUE
    OBVIOUS
  <2>3. b = Filter(stmt, rows, yes)[m]
    BY <1>3, <1>5, <2>2
  <2>4. RowsFrom(b, rows)
    BY <2>1, <2>3, FilterOfRows
  <2> QED BY <2>4 DEF RowsFrom
<1>8. PICK n \in Nat : n = Len(b) /\ DOMAIN b = 1..n
  BY <1>7, SeqFacts
<1>9. PICK f \in [1..n -> 1..n] : buffer' = [i \in 1..n |-> b[f[i]]]
  BY <1>1, <1>2, <1>8 DEF Sortings
<1>10. PICK c : c = buffer'
  OBVIOUS
<1>11. Len(c) = n /\ \A k \in 1..n : \E i \in 1..Len(rows) : c[k] = rows[i]
  <2>1. DOMAIN c = 1..n /\ c = [i \in 1..n |-> c[i]]
    BY <1>9, <1>10
  <2>2. Len(c) = n
    BY <2>1, FunctionIsSeq
  <2>3. ASSUME NEW k \in 1..n PROVE \E i \in 1..Len(rows) : c[k] = rows[i]
    <3>1. f[k] \in 1..Len(b) /\ c[k] = b[f[k]]
      BY <1>8, <1>9, <1>10
    <3> QED BY <1>7, <3>1
  <2> QED BY <2>2, <2>3
<1>12. status' = "error" => Excused(stmt, rows)
  <2> SUFFICES ASSUME NEW k \in 1..n, Failed(ValuesOf(stmt.order, b[k]))
               PROVE  Excused(stmt, rows)
    BY <1>1, <1>2, <1>8
  <2>1. OrderFails(stmt, b[k])
    BY DEF Failed, ValuesOf, OrderFails
  <2> QED BY <1>6, <1>8, <2>1 DEF Excused
<1>13. result' = <<>>
  BY <1>1, <1>2 DEF CountInv, Counted
<1>14. PICK r : r = << >>
  OBVIOUS
<1>15. IsSeq(r) /\ Len(r) = 1 - 1
  BY <1>14 DEF IsSeq
<1>16. 1 <= Len(c) + 1 /\ Len(c) = Len(HitsBy(stmt, rows))
  BY <1>6, <1>8, <1>11
<1> QED BY <1>1, <1>2, <1>10, <1>11, <1>12, <1>13, <1>14, <1>15, <1>16 DEF Counted

\* The first of the columns with a name.
FirstNamed(cs, name) == Min({j \in DOMAIN cs : cs[j].name = name})

LEMMA FirstNamedIsIn ==
  ASSUME NEW cs \in Seq(Columns), NEW j \in 1..Len(cs)
  PROVE  FirstNamed(cs, cs[j].name) \in 1..Len(cs)
<1>1. PICK S : S = {i \in DOMAIN cs : cs[i].name = cs[j].name}
  OBVIOUS
<1>2. S \in SUBSET Nat /\ S \subseteq 1..Len(cs) /\ j \in S
  BY <1>1
<1>3. \E i \in S : \A k \in S : i <= k
  BY <1>2, LeastNatural
<1>4. Min(S) \in S
  BY <1>3 DEF Min
<1> QED BY <1>1, <1>2, <1>4 DEF FirstNamed

\* No value of a table is an error.
LEMMA RowHasNoFailure ==
  ASSUME NEW row, NEW columns \in Seq(Columns), RowInv(row, columns)
  PROVE  ~Failed(row)
<1> SUFFICES ASSUME NEW k \in DOMAIN row, row[k] = Failure PROVE FALSE
  BY DEF Failed
<1>1. k \in 1..Len(columns)
  BY SeqFacts DEF RowInv
<1>2. columns[k] \in Columns /\ Fits(row[k], columns[k])
  BY <1>1 DEF RowInv
<1>3. columns[k].type \in 1..5
  BY <1>2 DEF Columns
<1>4. row[k].type \in 0..5
  BY <1>2, <1>3 DEF Fits, IsNull
<1> QED BY <1>4, StatementAssumption

LEMMA OutputCount ==
  ASSUME SqlInv, EffectInv, CountInv, OutputRow \/ OutputEnd
  PROVE  CountInv'
<1>1. UNCHANGED <<stmt, buffer, start>> /\ pc = "output"
  BY DEF OutputRow, OutputEnd
<1> SUFFICES ASSUME stmt.kind = "select", stmt.count, stmt.limit = <<>>, ~stmt.distinct,
                    stmt.table \in DOMAIN start
             PROVE  Counted(stmt, pc', at', status', buffer', result', start[stmt.table].rows)
  BY <1>1 DEF CountInv
<1>2. PICK rows, b, res, a : rows = start[stmt.table].rows /\ b = buffer /\ res = result /\ a = at
  OBVIOUS
<1>3. Table.rows = rows /\ TableInv(Table) /\ stmt \in Statements /\ stmt.exprs = <<>>
  BY <1>2, SelectSteps, StatementAssumption
<1>4. /\ IsSeq(res) /\ Len(res) = a - 1 /\ a \in Nat /\ 1 <= a
      /\ a <= Len(b) + 1 /\ Len(b) = Len(HitsBy(stmt, rows)) /\ Len(HitsBy(stmt, rows)) \in Nat
      /\ \A k \in 1..Len(b) : \E i \in 1..Len(rows) : b[k] = rows[i]
      /\ status = "error" => Excused(stmt, rows)
  <2>1. Counted(stmt, pc, at, status, buffer, result, rows)
    BY <1>2 DEF CountInv
  <2>2. Len(HitsBy(stmt, rows)) \in Nat
    <3>1. Len(rows) \in Nat /\ Len(rows) \in 0..Len(rows)
      BY <1>3, SeqFacts DEF TableInv
    <3>2. \A hit : RowsFrom(Filter(stmt, rows, hit)[Len(rows)], rows)
      BY <3>1, FilterOfRows
    <3>3. IsSeq(HitsBy(stmt, rows))
      BY <3>2 DEF HitsBy, RowsFrom
    <3> QED BY <3>3, SeqFacts
  <2> QED BY <1>1, <1>2, <2>1, <2>2 DEF Counted, SqlInv, ControlInv
<1>5. Offset = 0 /\ Limit = -1
  BY DEF Offset, Limit
<1>6. Ended <=> a > Len(b)
  BY <1>2, <1>5 DEF Ended
<1>7. CASE OutputEnd
  <2>1. pc' = "idle" /\ result' = <<<<Integer(Len(res))>>>> /\ a > Len(b)
    BY <1>2, <1>6, <1>7 DEF OutputEnd, Finish
  <2>2. Len(res) = Len(HitsBy(stmt, rows))
    BY <1>4, <2>1
  <2> QED BY <1>2, <2>1, <2>2 DEF Counted
<1>8. CASE OutputRow
  <2>0. a \in 1..Len(b)
    BY <1>4, <1>6, <1>8 DEF OutputRow
  <2>1. PICK row : row = b[a]
    OBVIOUS
  <2>2. ~Failed(Projected(row))
    <3>1. PICK i \in 1..Len(rows) : row = rows[i]
      BY <1>4, <2>0, <2>1
    <3>2. PICK cs : cs = Table.columns
      OBVIOUS
    <3>3. RowInv(row, cs) /\ cs \in Seq(Columns)
      BY <1>3, <3>1, <3>2 DEF TableInv
    <3>4. ~Failed(row) /\ DOMAIN row = 1..Len(cs)
      BY <3>3, SeqFacts, RowHasNoFailure DEF RowInv
    <3>5. Projected(row) = [j \in 1..Len(cs) |-> row[FirstNamed(cs, cs[j].name)]]
      BY <1>3, <3>2, <3>3 DEF Projected, Find, FirstNamed
    <3>6. \A j \in 1..Len(cs) : row[FirstNamed(cs, cs[j].name)] # Failure
      BY <3>3, <3>4, FirstNamedIsIn DEF Failed
    <3> QED BY <3>5, <3>6 DEF Failed
  <2>6. PICK values : values = Projected(row)
    OBVIOUS
  <2>3. \/ Fail /\ status = "error"
        \/ pc' = "output" /\ at' = a + 1 /\ status' = status /\ result' = Append(res, values)
    BY <1>1, <1>2, <1>4, <1>5, <1>8, <2>1, <2>2, <2>6 DEF OutputRow
  <2>4. CASE Fail /\ status = "error"
    <3>1. Excused(stmt, rows) /\ pc' = "idle"
      BY <1>4, <2>4 DEF Fail
    <3> QED BY <1>2, <3>1 DEF Counted
  <2>5. CASE pc' = "output" /\ at' = a + 1 /\ status' = status /\ result' = Append(res, values)
    <3>1. PICK c : c = Append(res, values)
      OBVIOUS
    <3>2. IsSeq(c) /\ Len(c) = Len(res) + 1
      BY <1>4, <3>1, AppendIsSeq
    <3>3. Len(c) = (a + 1) - 1 /\ a + 1 <= Len(b) + 1
      BY <1>4, <2>0, <3>2
    <3> QED BY <1>1, <1>2, <1>4, <2>5, <3>1, <3>2, <3>3 DEF Counted
  <2> QED BY <2>3, <2>4, <2>5
<1> QED BY <1>7, <1>8

LEMMA CountInductive == Spec => []CountInv
<1>1. Init => CountInv
  BY DEF Init, CountInv
<1>2. SqlInv /\ EffectInv /\ CountInv /\ [Next]_vars => CountInv'
  <2> SUFFICES ASSUME SqlInv, EffectInv, CountInv, [Next]_vars PROVE CountInv'
    OBVIOUS
  <2>1. ASSUME NEW s \in Statements, Begin(s) PROVE CountInv'
    <3>1. stmt' = s /\ pc' = s.kind /\ result' = <<>>
      BY <2>1 DEF Begin
    <3> QED BY <3>1 DEF CountInv, Counted
  <2>2. CASE CreateTable \/ DropTable \/ InsertRow \/ UpdateRow \/ UpdateEnd \/ DeleteEnd
    <3>1. UNCHANGED <<stmt, start>> /\ pc \in Kinds \ {"select"}
      BY <2>2 DEF CreateTable, DropTable, InsertRow, UpdateRow, UpdateEnd, DeleteEnd, Kinds
    <3>2. stmt.kind # "select"
      BY <3>1 DEF EffectInv, StageInv, Kinds
    <3> QED BY <3>1, <3>2, OtherCount
  <2>3. CASE UNCHANGED vars
    BY <2>3 DEF CountInv, vars
  <2> QED BY <2>1, <2>2, <2>3, RejectCount, FilterCount, SortCount, OutputCount DEF Next
<1> QED BY <1>1, <1>2, SqlInductive, EffectInductive, PTL DEF Spec

\* COUNT(*) without DISTINCT and LIMIT returns the number of rows for which
\* WHERE is TRUE, unless an expression is an error or no SQL.
THEOREM CountsAreExact == Spec => []CountExact
<1>1. SqlInv /\ EffectInv /\ CountInv => CountExact
  <2> SUFFICES ASSUME SqlInv, EffectInv, CountInv, Done({"select"}), status = "ok", stmt.count,
                      stmt.limit = <<>>, ~stmt.distinct
               PROVE  \/ \E r \in ToSet(start[stmt.table].rows) : Failed(<<Selected(r)>>)
                      \/ Bad(stmt.order) \/ Bad(stmt.exprs)
                      \/ stmt.order # <<>> /\ Bad(stmt.where)
                      \/ \E r \in ToSet(Hits) : Failed(ValuesOf(stmt.order, r))
                      \/ result = <<<<Integer(Len(Hits))>>>>
    BY DEF CountExact
  <2>1. stmt.kind = "select" /\ pc = "idle" /\ stmt.kind # "none" /\ stmt.kind \in RowKinds
    BY DEF Done, RowKinds
  <2>2. stmt.table \in DOMAIN start
    BY <2>1 DEF EffectInv, OthersInv, Completed
  <2>3. PICK rows : rows = start[stmt.table].rows
    OBVIOUS
  <2>4. Hits = HitsBy(stmt, rows)
    BY <2>3 DEF Hits, Those, HitsBy, Filter, Hit, HitBy, Selected
  <2>5. Counted(stmt, pc, at, status, buffer, result, rows)
    BY <2>1, <2>2, <2>3 DEF CountInv
  <2>6. Excused(stmt, rows) \/ result = <<<<Integer(Len(HitsBy(stmt, rows)))>>>>
    BY <2>1, <2>5 DEF Counted
  <2>7. IsSeq(rows) /\ DOMAIN rows = 1..Len(rows)
    <3>1. TableInv(Table) /\ Table.rows = rows
      BY <2>1, <2>2, <2>3, SelectSteps
    <3> QED BY <3>1, SeqFacts DEF TableInv
  <2>8. DOMAIN HitsBy(stmt, rows) = 1..Len(HitsBy(stmt, rows))
    <3>1. Len(rows) \in Nat /\ Len(rows) \in 0..Len(rows)
      BY <2>7, SeqFacts
    <3>2. \A hit : RowsFrom(Filter(stmt, rows, hit)[Len(rows)], rows)
      BY <3>1, FilterOfRows
    <3>3. IsSeq(HitsBy(stmt, rows))
      BY <3>2 DEF HitsBy, RowsFrom
    <3> QED BY <3>3, SeqFacts
  <2>9. ASSUME NEW i \in 1..Len(rows), WhereFails(stmt, rows[i])
        PROVE  \E r \in ToSet(rows) : Failed(<<Selected(r)>>)
    <3>1. rows[i] \in ToSet(rows)
      BY <2>7 DEF ToSet
    <3>2. Selected(rows[i]) = Failure
      BY <2>9 DEF WhereFails, Selected
    <3>3. Failed(<<Selected(rows[i])>>)
      BY <3>2 DEF Failed
    <3> QED BY <3>1, <3>3
  <2>10. ASSUME NEW i \in 1..Len(HitsBy(stmt, rows)), OrderFails(stmt, HitsBy(stmt, rows)[i])
         PROVE  \E r \in ToSet(Hits) : Failed(ValuesOf(stmt.order, r))
    <3>1. PICK r : r = HitsBy(stmt, rows)[i]
      OBVIOUS
    <3>2. r \in ToSet(Hits)
      BY <2>4, <2>8, <3>1 DEF ToSet
    <3>3. Failed(ValuesOf(stmt.order, r))
      BY <2>10, <3>1 DEF OrderFails, Failed, ValuesOf
    <3> QED BY <3>2, <3>3
  <2> QED BY <2>3, <2>4, <2>6, <2>9, <2>10 DEF Excused
<1> QED BY <1>1, SqlInductive, EffectInductive, CountInductive, PTL

-----------------------------------------------------------------------------
(***************************************************************************)
(* The keys of DISTINCT: values that are shown without zero bytes can be   *)
(* read off the key.                                                       *)
(***************************************************************************)
\* Behind p, t goes on with x, which has no zeros, and then with a zero.
GoesOn(t, p, x) ==
  /\ \A i \in 1..Len(x) : x[i] # 0 /\ t[p + i] = x[i]
  /\ t[p + (Len(x) + 1)] = 0

\* There is one such x only.
LEMMA ZeroEnds ==
  ASSUME NEW x \in Seq(Int), NEW y \in Seq(Int), NEW t, NEW p \in Nat,
         GoesOn(t, p, x), GoesOn(t, p, y)
  PROVE  x = y
<1> USE DEF GoesOn
<1>1. Len(x) \in Nat /\ Len(y) \in Nat
  OBVIOUS
<1>2. ~(Len(x) < Len(y))
  <2> SUFFICES ASSUME Len(x) < Len(y) PROVE FALSE
    OBVIOUS
  <2>1. Len(x) + 1 \in 1..Len(y)
    BY <1>1
  <2> QED BY <2>1
<1>3. ~(Len(y) < Len(x))
  <2> SUFFICES ASSUME Len(y) < Len(x) PROVE FALSE
    OBVIOUS
  <2>1. Len(y) + 1 \in 1..Len(x)
    BY <1>1
  <2> QED BY <2>1
<1>4. Len(x) = Len(y)
  BY <1>1, <1>2, <1>3
<1>5. \A i \in 1..Len(x) : x[i] = y[i]
  BY <1>4
<1> QED BY <1>4, <1>5, SMTT(30)

LEMMA PartsAreRead ==
  ASSUME NEW m \in Nat, NEW x \in [1..m -> Seq(Int)], NEW y \in [1..m -> Seq(Int)],
         \A k \in 1..m : 0 \notin ToSet(x[k]) /\ 0 \notin ToSet(y[k]),
         FlattenSeq([k \in 1..m |-> Append(x[k], 0)]) = FlattenSeq([k \in 1..m |-> Append(y[k], 0)])
  PROVE  \A k \in 1..m : x[k] = y[k]
<1>1. PICK q, r : q = [k \in 1..m |-> Append(x[k], 0)] /\ r = [k \in 1..m |-> Append(y[k], 0)]
  OBVIOUS
<1>2. q \in Seq(Seq(Int)) /\ r \in Seq(Seq(Int)) /\ Len(q) = m /\ Len(r) = m
  <2>1. q \in [1..m -> Seq(Int)] /\ r \in [1..m -> Seq(Int)]
    BY <1>1
  <2> QED BY <2>1
<1>3. PICK F : PrefixesOf(F, q)
  BY <1>2, PrefixesExist
<1>4. PICK G : PrefixesOf(G, r)
  BY <1>2, PrefixesExist
<1>5. PICK t : t = FlattenSeq(q) /\ t = FlattenSeq(r)
  BY <1>1
<1> DEFINE S == {n \in Nat : n <= m => F[n] = G[n] /\ \A k \in 1..n : x[k] = y[k]}
<1>6. 0 \in S
  BY <1>3, <1>4 DEF PrefixesOf
<1>7. ASSUME NEW n \in S PROVE n + 1 \in S
  <2>1. n \in Nat
    OBVIOUS
  <2> SUFFICES ASSUME n + 1 <= m
               PROVE  F[n + 1] = G[n + 1] /\ \A k \in 1..n + 1 : x[k] = y[k]
    BY <2>1
  <2>2. F[n] = G[n] /\ \A k \in 1..n : x[k] = y[k]
    BY <2>1, SMTT(30)
  <2> HIDE DEF S
  <2>3. n \in 0..m - 1 /\ n + 1 \in 1..m /\ n + 1 \in 0..m /\ n \in 0..m
    BY <2>1
  <2>4. PICK u \in Seq(Int), a \in Seq(Int), b \in Seq(Int) :
          u = F[n] /\ a = x[n + 1] /\ b = y[n + 1]
    BY <1>2, <1>3, <2>3 DEF PrefixesOf
  <2>5. F[n + 1] = u \o Append(a, 0) /\ G[n + 1] = u \o Append(b, 0)
    BY <1>1, <1>2, <1>3, <1>4, <2>2, <2>3, <2>4 DEF PrefixesOf
  <2>6. /\ \A p \in 1..Len(F[n + 1]) : t[p] = F[n + 1][p]
        /\ \A p \in 1..Len(G[n + 1]) : t[p] = G[n + 1][p]
    <3>1. PICK k : k = n + 1
      OBVIOUS
    <3>2. k \in 0..Len(q) /\ k \in 0..Len(r)
      BY <1>2, <2>3, <3>1
    <3>3. \A p \in 1..Len(F[k]) : FlattenSeq(q)[p] = F[k][p]
      <4>1. Begins(F[k], FlattenSeq(q))
        BY <1>2, <1>3, <3>2, PrefixOfWhole
      <4> QED BY <4>1 DEF Begins
    <3>4. \A p \in 1..Len(G[k]) : FlattenSeq(r)[p] = G[k][p]
      <4>1. Begins(G[k], FlattenSeq(r))
        BY <1>2, <1>4, <3>2, PrefixOfWhole
      <4> QED BY <4>1 DEF Begins
    <3> QED BY <1>5, <3>1, <3>3, <3>4
  <2>7. ASSUME NEW z \in Seq(Int), \A p \in 1..Len(u \o Append(z, 0)) : t[p] = (u \o Append(z, 0))[p]
        PROVE  (\A i \in 1..Len(z) : t[Len(u) + i] = z[i]) /\ t[Len(u) + (Len(z) + 1)] = 0
    <3>1. PICK c : c = Append(z, 0)
      OBVIOUS
    <3>2. /\ c \in Seq(Int) /\ Len(c) = Len(z) + 1 /\ c[Len(z) + 1] = 0
          /\ \A i \in 1..Len(z) : c[i] = z[i]
      BY <3>1
    <3>3. /\ Len(u \o c) = Len(u) + Len(c)
          /\ \A j \in 1..Len(c) : (u \o c)[Len(u) + j] = c[j]
      <4>1. /\ Len(u \o c) = Len(u) + Len(c) /\ Len(u) \in Nat /\ Len(c) \in Nat
            /\ \A i \in 1..Len(u) + Len(c) :
                 (u \o c)[i] = IF i <= Len(u) THEN u[i] ELSE c[i - Len(u)]
        <5>1. u \in Seq(Int) /\ c \in Seq(Int)
          BY <3>2
        <5>2. /\ Len(u \o c) = Len(u) + Len(c)
              /\ \A i \in 1..Len(u) + Len(c) :
                   (u \o c)[i] = IF i <= Len(u) THEN u[i] ELSE c[i - Len(u)]
          BY <5>1, ConcatProperties
        <5>3. Len(u) \in Nat /\ Len(c) \in Nat
          BY <5>1
        <5> QED BY <5>2, <5>3
      <4>2. ASSUME NEW j \in 1..Len(c) PROVE (u \o c)[Len(u) + j] = c[j]
        <5>1. /\ Len(u) + j \in 1..Len(u) + Len(c) /\ ~(Len(u) + j <= Len(u))
              /\ (Len(u) + j) - Len(u) = j
          BY <4>1
        <5> QED BY <4>1, <5>1
      <4> QED BY <4>1, <4>2
    <3>4. PICK w : w = u \o c
      OBVIOUS
    <3>5. \A p \in 1..Len(w) : t[p] = w[p]
      BY <2>7, <3>1, <3>4
    <3>6. ASSUME NEW j \in 1..Len(c) PROVE t[Len(u) + j] = c[j]
      <4>1. Len(u) + j \in 1..Len(w)
        BY <3>2, <3>3, <3>4, SMTT(30)
      <4> QED BY <3>3, <3>4, <3>5, <4>1
    <3>7. Len(z) + 1 \in 1..Len(c) /\ \A i \in 1..Len(z) : i \in 1..Len(c)
      BY <3>2
    <3> QED BY <3>2, <3>6, <3>7
  <2>8. /\ \A i \in 1..Len(a) : a[i] # 0
        /\ \A i \in 1..Len(b) : b[i] # 0
    BY <2>3, <2>4, SMTT(30) DEF ToSet
  <2>9. Len(u) \in Nat
    OBVIOUS
  <2>10. /\ (\A i \in 1..Len(a) : t[Len(u) + i] = a[i]) /\ t[Len(u) + (Len(a) + 1)] = 0
         /\ (\A i \in 1..Len(b) : t[Len(u) + i] = b[i]) /\ t[Len(u) + (Len(b) + 1)] = 0
    BY <2>5, <2>6, <2>7, ZenonT(60)
  <2>11. a = b
    <3>1. PICK p \in Nat : p = Len(u)
      BY <2>9
    <3>2. GoesOn(t, p, a) /\ GoesOn(t, p, b)
      BY <2>8, <2>10, <3>1 DEF GoesOn
    <3> QED BY <3>2, ZeroEnds
  <2>12. \A k \in 1..n + 1 : k \in 1..n \/ k = n + 1
    BY <2>1
  <2> QED BY <2>2, <2>4, <2>5, <2>11, <2>12
<1>8. S = Nat
  <2>1. S \in SUBSET Nat
    OBVIOUS
  <2> HIDE DEF S
  <2> QED BY <1>6, <1>7, <2>1, Inductive, Zenon
<1>9. m \in S
  <2> HIDE DEF S
  <2> QED BY <1>8
<1> QED BY <1>9

SqlValue == {v \in [type : 0..5, data : Seq(Int)] : IsValue(v)}

\* Rows of one width whose keys are the same look the same.
LEMMA KeysTellApart ==
  ASSUME NEW r \in Seq(SqlValue), NEW q \in Seq(SqlValue), Len(r) = Len(q), KeyOf(r) = KeyOf(q),
         \A j \in 1..Len(r) : 0 \notin ToSet(Shown(r[j])) /\ 0 \notin ToSet(Shown(q[j]))
  PROVE  \A j \in 1..Len(r) : Shown(r[j]) = Shown(q[j])
<1>1. PICK m \in Nat : m = Len(r)
  OBVIOUS
<1>2. DOMAIN r = 1..m /\ DOMAIN q = 1..m
  BY <1>1
<1>3. PICK x, y : x = [j \in 1..m |-> Shown(r[j])] /\ y = [j \in 1..m |-> Shown(q[j])]
  OBVIOUS
<1>4. x \in [1..m -> Seq(Int)] /\ y \in [1..m -> Seq(Int)]
  <2>1. \A j \in 1..m : IsValue(r[j]) /\ IsValue(q[j])
    BY <1>1 DEF SqlValue
  <2> QED BY <1>3, <2>1, ShownIsText
<1>5. /\ KeyOf(r) = FlattenSeq([j \in 1..m |-> Append(x[j], 0)])
      /\ KeyOf(q) = FlattenSeq([j \in 1..m |-> Append(y[j], 0)])
  <2>1. /\ [j \in 1..m |-> Append(x[j], 0)] = [j \in 1..m |-> Append(Shown(r[j]), 0)]
        /\ [j \in 1..m |-> Append(y[j], 0)] = [j \in 1..m |-> Append(Shown(q[j]), 0)]
    BY <1>3
  <2> QED BY <1>2, <2>1 DEF KeyOf
<1>6. \A j \in 1..m : 0 \notin ToSet(x[j]) /\ 0 \notin ToSet(y[j])
  BY <1>1, <1>3
<1>7. \A j \in 1..m : x[j] = y[j]
  <2>1. FlattenSeq([j \in 1..m |-> Append(x[j], 0)]) = FlattenSeq([j \in 1..m |-> Append(y[j], 0)])
    BY <1>5
  <2>2. m \in Nat
    BY <1>1
  <2> QED BY <1>4, <1>6, <2>1, <2>2, PartsAreRead
<1> QED BY <1>1, <1>3, <1>7

-----------------------------------------------------------------------------
(***************************************************************************)
(* If expressions are evaluated to values, the tables hold values.         *)
(***************************************************************************)
\* The expressions whose values are stored, compared or shown.
ExprsOf(s) ==
  CASE s.kind = "insert" -> UNION {ToSet(s.values[i]) : i \in DOMAIN s.values}
    [] s.kind = "update" -> ToSet(s.set.exprs)
    [] s.kind = "select" -> ToSet(s.exprs) \cup ToSet(s.order) \cup ToSet(s.limit)
    [] OTHER -> {}

\* Eval gives a value or sets the status, for the row of any table; a column
\* that the row does not have is an error.
EvaluatesToValues ==
  \A s \in Statements : \A e \in ExprsOf(s), row \in Seq(SqlValue) :
    Evaluate(e, row, s.params) \in SqlValue \cup {Failure}

Valued(rows) == \A i \in 1..Len(rows) : rows[i] \in Seq(SqlValue)

LEMMA RecordIsValue ==
  ASSUME NEW type \in 0..5, NEW data \in Seq(Int), type \in {1, 2, 3} => Len(data) = 1
  PROVE  [type |-> type, data |-> data] \in SqlValue
<1>1. PICK v : v = [type |-> type, data |-> data]
  OBVIOUS
<1>2. v.type = type /\ v.data = data /\ v \in [type : 0..5, data : Seq(Int)]
  BY <1>1
<1>3. IsValue(v)
  BY <1>2 DEF IsValue
<1> QED BY <1>1, <1>2, <1>3 DEF SqlValue

LEMMA ValuesMade ==
  /\ Null \in SqlValue
  /\ \A b : Boolean(b) \in SqlValue
  /\ \A n \in Int : Integer(n) \in SqlValue /\ Text(<<n>>) \in SqlValue
<1>1. Null \in SqlValue
  <2>1. <<>> \in Seq(Int) /\ 0 \in 0..5 /\ 0 \notin {1, 2, 3}
    OBVIOUS
  <2> QED BY <2>1, RecordIsValue DEF Null
<1>2. ASSUME NEW b PROVE Boolean(b) \in SqlValue
  <2>1. PICK d : d = <<IF b THEN 1 ELSE 0>>
    OBVIOUS
  <2>2. d \in Seq(Int) /\ Len(d) = 1 /\ 1 \in 0..5
    BY <2>1
  <2> QED BY <2>1, <2>2, RecordIsValue DEF Boolean
<1>3. ASSUME NEW n \in Int PROVE Integer(n) \in SqlValue /\ Text(<<n>>) \in SqlValue
  <2>1. PICK d : d = <<n>>
    OBVIOUS
  <2>2. d \in Seq(Int) /\ Len(d) = 1 /\ 2 \in 0..5 /\ 4 \in 0..5
    BY <2>1
  <2> QED BY <2>1, <2>2, RecordIsValue DEF Integer, Text
<1> QED BY <1>1, <1>2, <1>3

LEMMA CatalogHoldsValues ==
  ASSUME NEW t, NEW n \in Nat, NEW names \in [1..n -> Int], NEW catalog \in Reserved,
         \A i \in 1..n : /\ t[names[i]].columns \in Seq(Columns)
                         /\ Len(t[names[i]].rows) \in Int
  PROVE  Valued(CatalogRows(t, names, catalog))
<1>1. CASE catalog = TablesName
  <2>1. CatalogRows(t, names, catalog) =
          [i \in 1..n |-> <<Integer(i), Text(<<names[i]>>), Integer(0),
                            Integer(Len(t[names[i]].rows))>>]
    BY <1>1 DEF CatalogRows
  <2>2. PICK rows : rows = CatalogRows(t, names, catalog)
    OBVIOUS
  <2>3. Len(rows) = n
    BY <2>1, <2>2
  <2>4. ASSUME NEW i \in 1..n PROVE rows[i] \in Seq(SqlValue)
    <3>1. PICK a, b, c, d \in SqlValue :
            /\ a = Integer(i) /\ b = Text(<<names[i]>>) /\ c = Integer(0)
            /\ d = Integer(Len(t[names[i]].rows))
      <4>1. i \in Int /\ names[i] \in Int /\ 0 \in Int /\ Len(t[names[i]].rows) \in Int
        OBVIOUS
      <4> QED BY <4>1, ValuesMade
    <3>2. rows[i] = <<a, b, c, d>>
      BY <2>1, <2>2, <3>1
    <3> QED BY <3>2
  <2> QED BY <2>2, <2>3, <2>4 DEF Valued
<1>2. CASE catalog # TablesName
  <2> DEFINE part(i) == [j \in DOMAIN t[names[i]].columns |-> ColumnRow(i, j, t[names[i]].columns[j])]
             q == [i \in 1..n |-> part(i)]
  <2>1. CatalogRows(t, names, catalog) = FlattenSeq(q)
    BY <1>2, Zenon DEF CatalogRows, ColumnRow
  <2>2. ASSUME NEW i \in 1..n PROVE part(i) \in Seq(Seq(SqlValue))
    <3>1. PICK cs \in Seq(Columns) : cs = t[names[i]].columns
      OBVIOUS
    <3>2. ASSUME NEW j \in 1..Len(cs) PROVE ColumnRow(i, j, cs[j]) \in Seq(SqlValue)
      <4>1. PICK ty \in Int : ty = cs[j].type
        <5>1. cs[j] \in Columns
          OBVIOUS
        <5>2. cs[j].type \in 1..5
          BY <5>1 DEF Columns
        <5> QED BY <5>2
      <4>2. PICK name \in Int : name = cs[j].name
        <5>1. cs[j] \in Columns
          OBVIOUS
        <5>2. cs[j].name \in Nat
          BY <5>1 DEF Columns
        <5> QED BY <5>2
      <4>3. PICK a, b, c, d, e, f \in SqlValue :
              /\ a = Integer(i) /\ b = Integer(j - 1) /\ c = Text(<<name>>) /\ d = Integer(ty)
              /\ e = Boolean(cs[j].nullable) /\ f = Boolean(cs[j].primary)
        <5>1. i \in Int /\ j - 1 \in Int
          OBVIOUS
        <5> QED BY <4>1, <4>2, <5>1, ValuesMade, Zenon
      <4>4. ColumnRow(i, j, cs[j]) = <<a, b, c, d, e, f>>
        BY <4>1, <4>2, <4>3 DEF ColumnRow
      <4> QED BY <4>4
    <3>3. part(i) = [j \in 1..Len(cs) |-> ColumnRow(i, j, cs[j])]
      BY <3>1
    <3> HIDE DEF part
    <3>4. part(i) \in [1..Len(cs) -> Seq(SqlValue)] /\ Len(cs) \in Nat
      BY <3>2, <3>3
    <3> QED BY <3>4
  <2>3. q \in Seq(Seq(Seq(SqlValue)))
    <3> HIDE DEF part
    <3>1. q \in [1..n -> Seq(Seq(SqlValue))]
      BY <2>2
    <3> HIDE DEF q
    <3> QED BY <3>1
  <2> HIDE DEF q
  <2>4. PICK E : E = Seq(SqlValue)
    OBVIOUS
  <2>5. FlattenSeq(q) \in Seq(E)
    <3>1. q \in Seq(Seq(E))
      BY <2>3, <2>4
    <3> QED BY <3>1, FlattenFacts
  <2> QED BY <2>1, <2>4, <2>5 DEF Valued
<1> QED BY <1>1, <1>2

LEMMA RefreshHoldsValues ==
  ASSUME NEW t, NamesInv(DOMAIN t), \A n \in DOMAIN t : TableInv(t[n]) /\ Valued(t[n].rows)
  PROVE  \A n \in DOMAIN RefreshCatalog(t) : Valued(RefreshCatalog(t)[n].rows)
<1>1. PICK T : T = DOMAIN t \ Reserved
  OBVIOUS
<1>2. UserNames \in SUBSET Int /\ IsFiniteSet(UserNames)
  BY StatementAssumption DEF UserNames
<1>3. T \subseteq UserNames /\ T \subseteq DOMAIN t
  BY <1>1 DEF NamesInv
<1>4. IsFiniteSet(T) /\ T \in SUBSET Int
  BY <1>2, <1>3, FS_Subset
<1>5. PICK n \in Nat : n = Cardinality(T)
  BY <1>4, FS_CardinalityType
<1>6. PICK names : names = InOrder(T)
  OBVIOUS
<1>7. names \in [1..n -> T]
  <2>1. Increasing(names, T)
    BY <1>4, <1>6, InOrderFacts
  <2> QED BY <1>5, <2>1 DEF Increasing
<1>8. names \in [1..n -> Int]
  BY <1>4, <1>7
<1>9. \A i \in 1..n : t[names[i]].columns \in Seq(Columns) /\ Len(t[names[i]].rows) \in Int
  <2> TAKE i \in 1..n
  <2>1. TableInv(t[names[i]])
    BY <1>3, <1>7
  <2> QED BY <2>1, SeqFacts DEF TableInv
<1>10. \A m \in Reserved : Valued(CatalogRows(t, names, m))
  BY <1>8, <1>9, CatalogHoldsValues
<1> TAKE m \in DOMAIN RefreshCatalog(t)
<1>11. CASE m \in Reserved
  <2>1. RefreshCatalog(t)[m] = [columns |-> CatalogSchema(m), rows |-> CatalogRows(t, names, m)]
    BY <1>1, <1>6, <1>11 DEF RefreshCatalog
  <2> QED BY <1>10, <1>11, <2>1
<1>12. CASE m \notin Reserved
  <2>1. RefreshCatalog(t)[m] = t[m] /\ m \in DOMAIN t
    BY <1>12 DEF RefreshCatalog
  <2> QED BY <2>1
<1> QED BY <1>11, <1>12

\* A value that may be in a column is no error.
LEMMA RowOfValues ==
  ASSUME NEW columns \in Seq(Columns), NEW row, RowInv(row, columns),
         \A j \in 1..Len(columns) : row[j] \in SqlValue \cup {Failure}
  PROVE  row \in Seq(SqlValue)
<1>1. PICK m \in Nat : m = Len(columns) /\ m = Len(row)
  BY DEF RowInv
<1>2. row = [j \in 1..m |-> row[j]]
  BY <1>1, SeqFacts DEF RowInv
<1>3. ASSUME NEW j \in 1..m PROVE row[j] \in SqlValue
  <2>1. columns[j] \in Columns /\ Fits(row[j], columns[j])
    BY <1>1 DEF RowInv
  <2>2. columns[j].type \in 1..5
    BY <2>1 DEF Columns
  <2>3. row[j].type \in 0..5
    BY <2>1, <2>2 DEF Fits, IsNull
  <2>4. row[j] # Failure
    BY <2>3, StatementAssumption
  <2> QED BY <1>1, <2>4
<1>4. row \in [1..m -> SqlValue]
  BY <1>2, <1>3
<1> QED BY <1>4

\* The rows of VALUES before a have a value for each column that is named.
Fitting(s, a, columns) ==
  \A i \in 1..a - 1 : i \in 1..Len(s.values) /\ Len(s.values[i]) = Len(TargetsOf(s, columns))

LEMMA GreatestIsIn ==
  ASSUME NEW m \in Nat, NEW S \in SUBSET (1..m), S # {}
  PROVE  Max(S) \in S
<1>1. IsFiniteSet(1..m) /\ S \in SUBSET Int
  BY FS_Interval
<1>2. IsFiniteSet(S)
  BY <1>1, FS_Subset
<1>3. \E x \in S : \A y \in S : y <= x
  BY <1>1, <1>2, GreatestExists
<1>4. \E x \in S : \A y \in S : x >= y
  BY <1>1, <1>3
<1> QED BY <1>4 DEF Max

LEMMA NewRowValues ==
  ASSUME EvaluatesToValues, NEW s \in Statements, s.kind = "insert", NEW columns \in Seq(Columns),
         NEW i \in 1..Len(s.values), Len(s.values[i]) = Len(TargetsOf(s, columns)),
         NEW j \in 1..Len(columns)
  PROVE  NewRow(s, columns, i)[j] \in SqlValue \cup {Failure}
<1>1. PICK targets, exprs : targets = TargetsOf(s, columns) /\ exprs = s.values[i]
  OBVIOUS
<1>2. targets \in Seq(Nat)
  <2>1. s.targets \in Seq(Nat)
    BY StatementAssumption
  <2>2. PICK m \in Nat : m = Len(columns) /\ DOMAIN columns = 1..m
    OBVIOUS
  <2>3. [k \in 1..m |-> k] \in Seq(Nat)
    OBVIOUS
  <2> QED BY <1>1, <2>1, <2>2, <2>3 DEF TargetsOf
<1>3. PICK m \in Nat : m = Len(targets) /\ DOMAIN targets = 1..m /\ m = Len(exprs)
  BY <1>1, <1>2
<1>4. IsSeq(s.values) /\ IsSeq(exprs) /\ DOMAIN exprs = 1..m /\ i \in DOMAIN s.values
  <2>1. IsSeq(s.values) /\ \A k \in DOMAIN s.values : IsSeq(s.values[k])
    BY StatementAssumption
  <2>2. i \in DOMAIN s.values
    BY <2>1, SeqFacts
  <2> QED BY <1>1, <1>3, <2>1, <2>2, SeqFacts
<1>5. ASSUME NEW k \in 1..m PROVE Evaluate(exprs[k], <<>>, s.params) \in SqlValue \cup {Failure}
  <2>1. exprs[k] \in ToSet(s.values[i])
    BY <1>1, <1>4 DEF ToSet
  <2>2. exprs[k] \in ExprsOf(s)
    <3>1. ExprsOf(s) = UNION {ToSet(s.values[h]) : h \in DOMAIN s.values}
      BY DEF ExprsOf
    <3> QED BY <1>4, <2>1, <3>1
  <2>3. <<>> \in Seq(SqlValue)
    OBVIOUS
  <2> QED BY <2>2, <2>3 DEF EvaluatesToValues
<1>6. PICK named : named = {k \in 1..m : targets[k] = j}
  OBVIOUS
<1>7. named # {} => Max(named) \in 1..m
  BY <1>6, GreatestIsIn
<1>8. PICK values : values = [k \in 1..m |-> Evaluate(exprs[k], <<>>, s.params)]
  OBVIOUS
<1>9. NewRow(s, columns, i)[j] = IF named = {} THEN Null ELSE values[Max(named)]
  <2>1. j \in DOMAIN columns
    OBVIOUS
  <2>2. values = [k \in DOMAIN s.values[i] |-> Evaluate(s.values[i][k], <<>>, s.params)]
    BY <1>1, <1>4, <1>8
  <2>3. NewRow(s, columns, i) = Placed(targets, values, columns)
    BY <1>1, <2>2 DEF NewRow
  <2>4. named = {k \in DOMAIN targets : targets[k] = j}
    BY <1>3, <1>6
  <2> QED BY <2>1, <2>3, <2>4 DEF Placed
<1> QED BY <1>5, <1>7, <1>8, <1>9, ValuesMade

LEMMA ReplacedValues ==
  ASSUME EvaluatesToValues, NEW s \in Statements, s.kind = "update",
         NEW row \in Seq(SqlValue), NEW j \in 1..Len(row)
  PROVE  ReplacedBy(s, row)[j] \in SqlValue \cup {Failure}
<1>1. s.set.cols \in Seq(Nat) /\ DOMAIN s.set.exprs = DOMAIN s.set.cols
  BY StatementAssumption
<1>2. PICK m \in Nat : m = Len(s.set.cols) /\ DOMAIN s.set.cols = 1..m /\ DOMAIN s.set.exprs = 1..m
  BY <1>1
<1>3. PICK sets : sets = {k \in 1..m : s.set.cols[k] = j}
  OBVIOUS
<1>4. sets # {} => Max(sets) \in 1..m
  BY <1>3, GreatestIsIn
<1>5. ReplacedBy(s, row)[j] =
        IF sets = {} THEN row[j] ELSE Evaluate(s.set.exprs[Max(sets)], row, s.params)
  <2>1. j \in DOMAIN row
    OBVIOUS
  <2> QED BY <1>2, <1>3, <2>1 DEF ReplacedBy
<1>6. ASSUME NEW k \in 1..m PROVE Evaluate(s.set.exprs[k], row, s.params) \in SqlValue \cup {Failure}
  <2>1. s.set.exprs[k] \in ToSet(s.set.exprs)
    BY <1>2 DEF ToSet
  <2>2. s.set.exprs[k] \in ExprsOf(s)
    BY <2>1 DEF ExprsOf
  <2> QED BY <2>2 DEF EvaluatesToValues
<1> QED BY <1>4, <1>5, <1>6

\* Whatever a statement makes of a table of values, they are values.
LEMMA EffectHoldsValues ==
  ASSUME EvaluatesToValues, NEW s \in Statements, s.kind \in RowKinds,
         NEW old, TableInv(old), Valued(old.rows), NEW new, TableInv(new),
         NEW p, NEW a \in Nat, 1 <= a, NEW st, NEW b, TableEffect(s, p, a, st, b, old, new),
         s.kind = "insert" => Fitting(s, a, old.columns)
  PROVE  Valued(new.rows)
<1>1. PICK m \in Nat, n \in Nat : m = Len(old.rows) /\ n = Len(new.rows)
  BY SeqFacts DEF TableInv
<1>2. PICK columns \in Seq(Columns) : columns = old.columns /\ columns = new.columns
  BY DEF TableEffect, TableInv
<1>3. \A i \in 1..n : RowInv(new.rows[i], columns)
  BY <1>1, <1>2 DEF TableInv
<1>4. \A i \in 1..m : old.rows[i] \in Seq(SqlValue) /\ Len(old.rows[i]) = Len(columns)
  BY <1>1, <1>2 DEF TableInv, RowInv, Valued
<1>5. CASE s.kind = "insert"
  <2>1. Inserted(s, a, columns, old.rows, new.rows)
    BY <1>2, <1>5 DEF TableEffect
  <2>2. n = m + (a - 1)
    BY <1>1, <2>1 DEF Inserted
  <2>3. ASSUME NEW i \in 1..a - 1 PROVE new.rows[m + i] \in Seq(SqlValue)
    <3>1. new.rows[m + i] = NewRow(s, columns, i)
      BY <1>1, <2>1, <2>3 DEF Inserted
    <3>2. i \in 1..Len(s.values) /\ Len(s.values[i]) = Len(TargetsOf(s, columns))
      BY <1>2, <1>5, <2>3 DEF Fitting
    <3>3. \A j \in 1..Len(columns) : NewRow(s, columns, i)[j] \in SqlValue \cup {Failure}
      BY <1>5, <3>2, NewRowValues
    <3>4. m + i \in 1..n
      BY <1>1, <2>2
    <3>5. RowInv(new.rows[m + i], columns)
      BY <1>3, <3>4
    <3> QED BY <3>1, <3>3, <3>5, RowOfValues
  <2>4. \A i \in 1..m : new.rows[i] = old.rows[i]
    BY <1>1, <2>1 DEF Inserted
  <2>5. ASSUME NEW i \in 1..n PROVE new.rows[i] \in Seq(SqlValue)
    <3>1. CASE i <= m
      BY <1>4, <2>4, <3>1
    <3>2. CASE ~(i <= m)
      <4>1. i - m \in 1..a - 1 /\ m + (i - m) = i
        BY <1>1, <2>2, <3>2
      <4> QED BY <2>3, <4>1
    <3> QED BY <3>1, <3>2
  <2> QED BY <1>1, <2>5 DEF Valued
<1>6. CASE s.kind = "update"
  <2>1. Updated(s, a, old.rows, new.rows)
    BY <1>6 DEF TableEffect
  <2>2. ASSUME NEW i \in 1..n PROVE new.rows[i] \in Seq(SqlValue)
    <3>1. /\ i \in 1..m
          /\ new.rows[i] = old.rows[i] \/ new.rows[i] = ReplacedBy(s, old.rows[i])
      BY <1>1, <2>1 DEF Updated
    <3>2. PICK row \in Seq(SqlValue) : row = old.rows[i] /\ Len(row) = Len(columns)
      BY <1>4, <3>1
    <3>3. CASE new.rows[i] = ReplacedBy(s, row)
      <4>1. \A j \in 1..Len(columns) : ReplacedBy(s, row)[j] \in SqlValue \cup {Failure}
        BY <1>6, <3>2, ReplacedValues
      <4> QED BY <1>3, <3>3, <4>1, RowOfValues
    <3> QED BY <3>1, <3>2, <3>3
  <2> QED BY <1>1, <2>2 DEF Valued
<1>7. CASE s.kind = "delete" \/ s.kind = "select"
  <2>1. new.rows = old.rows \/ new.rows = Filter(s, old.rows, FALSE)[m]
    BY <1>1, <1>7 DEF TableEffect, Deleted, Queried
  <2>2. CASE new.rows = Filter(s, old.rows, FALSE)[m]
    <3>1. PICK no : no = FALSE
      OBVIOUS
    <3>2. RowsFrom(Filter(s, old.rows, no)[m], old.rows)
      <4>1. Len(old.rows) \in Nat /\ m \in 0..Len(old.rows)
        BY <1>1
      <4> QED BY <4>1, FilterOfRows
    <3>3. \A i \in 1..n : \E k \in 1..m : new.rows[i] = old.rows[k]
      <4>1. PICK c : c = Filter(s, old.rows, no)[m]
        OBVIOUS
      <4>2. new.rows = c
        BY <2>2, <3>1, <4>1
      <4>3. \A i \in 1..Len(c) : \E k \in 1..Len(old.rows) : c[i] = old.rows[k]
        BY <3>2, <4>1 DEF RowsFrom
      <4> QED BY <1>1, <4>2, <4>3
    <3> QED BY <1>1, <1>4, <3>3 DEF Valued
  <2> QED BY <2>1, <2>2
<1> QED BY <1>5, <1>6, <1>7 DEF RowKinds

-----------------------------------------------------------------------------
FittingInv ==
  stmt.kind = "insert" /\ stmt.table \in DOMAIN start =>
    /\ pc = "insert" => at <= Len(stmt.values)
    /\ Fitting(stmt, at, start[stmt.table].columns)

LEMMA InsertFitting ==
  ASSUME SqlInv, EffectInv, FittingInv, InsertRow
  PROVE  FittingInv'
<1>1. /\ at \in Nat /\ 1 <= at /\ UNCHANGED <<stmt, start>> /\ pc = "insert" /\ Exists
      /\ stmt.kind = "insert" /\ stmt.kind \in RowKinds
  BY DEF SqlInv, ControlInv, EffectInv, StageInv, InsertRow, RowKinds, Rejected
<1>2. /\ stmt \in Statements /\ stmt.table \in DOMAIN start
      /\ Table.columns = start[stmt.table].columns
  BY <1>1, EffectOfTable
<1>3. PICK columns : columns = start[stmt.table].columns
  OBVIOUS
<1>4. at <= Len(stmt.values) /\ Fitting(stmt, at, columns)
  BY <1>1, <1>2, <1>3 DEF FittingInv
<1>5. IsSeq(stmt.values) /\ \A i \in DOMAIN stmt.values : IsSeq(stmt.values[i])
  BY <1>1, <1>2, StatementAssumption
<1>6. /\ Len(stmt.values) \in Nat /\ at \in 1..Len(stmt.values) /\ IsSeq(stmt.values[at])
  <2>1. Len(stmt.values) \in Nat /\ DOMAIN stmt.values = 1..Len(stmt.values)
    BY <1>5, SeqFacts
  <2>2. at \in 1..Len(stmt.values)
    BY <1>1, <1>4, <2>1
  <2> QED BY <1>5, <2>1, <2>2
<1>7. PICK m \in Nat : m = Len(stmt.values[at]) /\ DOMAIN stmt.values[at] = 1..m
  BY <1>6, SeqFacts
<1>8. PICK values : values = ValuesOf(stmt.values[at], <<>>)
  OBVIOUS
<1>9. Len(values) = m
  <2>1. DOMAIN values = 1..m /\ values = [k \in 1..m |-> values[k]]
    BY <1>7, <1>8 DEF ValuesOf
  <2> QED BY <2>1, FunctionIsSeq
<1>10. Targets = TargetsOf(stmt, columns)
  BY <1>2, <1>3 DEF Targets, TargetsOf
<1>11. \/ pc' = "idle" /\ UNCHANGED at
       \/ /\ Len(values) = Len(Targets) /\ at' = at + 1
          /\ at = Len(stmt.values) => pc' = "idle"
  BY <1>8 DEF InsertRow, Fail, Finish
<1>12. CASE pc' = "idle" /\ UNCHANGED at
  BY <1>1, <1>3, <1>4, <1>12 DEF FittingInv
<1>13. CASE /\ Len(values) = Len(Targets) /\ at' = at + 1
            /\ at = Len(stmt.values) => pc' = "idle"
  <2>1. pc' = "insert" => at' <= Len(stmt.values)
    BY <1>1, <1>6, <1>13
  <2>2. Fitting(stmt, at + 1, columns)
    <3> SUFFICES ASSUME NEW i \in 1..(at + 1) - 1
                 PROVE  i \in 1..Len(stmt.values) /\ Len(stmt.values[i]) = Len(TargetsOf(stmt, columns))
      BY DEF Fitting
    <3>1. i \in 1..at - 1 \/ i = at
      BY <1>1
    <3>2. Len(stmt.values[at]) = Len(TargetsOf(stmt, columns))
      BY <1>7, <1>9, <1>10, <1>13
    <3> QED BY <1>4, <1>6, <3>1, <3>2 DEF Fitting
  <2> QED BY <1>1, <1>3, <1>13, <2>1, <2>2 DEF FittingInv
<1> QED BY <1>11, <1>12, <1>13

LEMMA FittingInductive == Spec => []FittingInv
<1>1. Init => FittingInv
  BY DEF Init, FittingInv
<1>2. SqlInv /\ EffectInv /\ FittingInv /\ [Next]_vars => FittingInv'
  <2> SUFFICES ASSUME SqlInv, EffectInv, FittingInv, [Next]_vars PROVE FittingInv'
    OBVIOUS
  <2>1. ASSUME NEW s \in Statements, Begin(s) PROVE FittingInv'
    <3>1. stmt' = s /\ at' = 1
      BY <2>1 DEF Begin
    <3>2. 1..1 - 1 = {}
      OBVIOUS
    <3>3. \A columns : Fitting(s, 1, columns)
      BY <3>2 DEF Fitting
    <3>4. s.kind = "insert" => 1 <= Len(s.values)
      <4> SUFFICES ASSUME s.kind = "insert" PROVE 1 <= Len(s.values)
        OBVIOUS
      <4>1. s.values # <<>> /\ s.values \in Seq(ToSet(s.values))
        BY StatementAssumption DEF IsSeq
      <4> QED BY <4>1
    <3> QED BY <3>1, <3>3, <3>4 DEF FittingInv
  <2>2. CASE CreateTable \/ DropTable \/ UpdateRow \/ UpdateEnd \/ FilterRow \/ DeleteEnd
             \/ SortRows \/ OutputRow \/ OutputEnd
    <3>1. UNCHANGED <<stmt, start>> /\ pc \in {"create", "drop", "update", "delete", "select", "output"}
      BY <2>2 DEF CreateTable, DropTable, UpdateRow, UpdateEnd, FilterRow, DeleteEnd,
                  SortRows, OutputRow, OutputEnd
    <3>2. stmt.kind # "insert"
      BY <3>1 DEF EffectInv, StageInv
    <3> QED BY <3>1, <3>2 DEF FittingInv
  <2>3. CASE Reject
    <3>1. UNCHANGED <<stmt, at, start>> /\ pc' = "idle"
      BY <2>3 DEF Reject, Fail
    <3> QED BY <3>1 DEF FittingInv
  <2>4. CASE UNCHANGED vars
    BY <2>4 DEF FittingInv, vars
  <2> QED BY <2>1, <2>2, <2>3, <2>4, InsertFitting DEF Next
<1> QED BY <1>1, <1>2, SqlInductive, EffectInductive, PTL DEF Spec

\* The tables hold values, now and when the statement began.
StartValued == \A n \in DOMAIN start : Valued(start[n].rows)

ValuesInv == StartValued /\ \A n \in DOMAIN tables : Valued(tables[n].rows)

OnRows == stmt.kind \in RowKinds

LEMMA RowKindsHoldValues ==
  ASSUME EvaluatesToValues, SqlInv, EffectInv, FittingInv, OnRows, StartValued
  PROVE  ValuesInv
<1>1. stmt.kind \in RowKinds /\ stmt.kind # "none" /\ stmt \in Statements
  BY DEF OnRows, RowKinds, EffectInv, StageInv
<1>2. OthersInv
  BY <1>1 DEF EffectInv
<1>3. ASSUME NEW n \in DOMAIN tables, n # stmt.table PROVE Valued(tables[n].rows)
  BY <1>2, <1>3 DEF OthersInv, StartValued
<1>4. ASSUME stmt.table \in DOMAIN tables PROVE Valued(tables[stmt.table].rows)
  <2>1. PICK old, new : old = start[stmt.table] /\ new = tables[stmt.table]
    OBVIOUS
  <2>2. stmt.table \in DOMAIN start
    BY <1>1, <1>2, <1>4 DEF OthersInv
  <2>3. TableInv(old) /\ TableInv(new) /\ Valued(old.rows)
    BY <1>4, <2>1, <2>2 DEF EffectInv, StageInv, SqlInv, TablesInv, StartValued
  <2>4. TableEffect(stmt, pc, at, status, buffer, old, new)
    BY <1>1, <1>2, <2>1, <2>2 DEF OthersInv
  <2>5. at \in Nat /\ 1 <= at
    BY AtIsPosition, Zenon
  <2>6. stmt.kind = "insert" => Fitting(stmt, at, old.columns)
    BY <2>1, <2>2 DEF FittingInv
  <2>7. PICK s, p, a, st, b : s = stmt /\ p = pc /\ a = at /\ st = status /\ b = buffer
    OBVIOUS
  <2>8. /\ s \in Statements /\ s.kind \in RowKinds /\ a \in Nat /\ 1 <= a
        /\ TableEffect(s, p, a, st, b, old, new)
        /\ s.kind = "insert" => Fitting(s, a, old.columns)
    BY <1>1, <2>4, <2>5, <2>6, <2>7
  <2>9. Valued(new.rows)
    BY <2>3, <2>8, EffectHoldsValues
  <2> QED BY <2>1, <2>9
<1> QED BY <1>3, <1>4 DEF ValuesInv, StartValued

LEMMA ValuesInductive ==
  ASSUME EvaluatesToValues
  PROVE  Spec => []ValuesInv
<1>1. Init => ValuesInv
  <2> SUFFICES ASSUME Init PROVE ValuesInv
    OBVIOUS
  <2>1. PICK t : t = << >>
    OBVIOUS
  <2>2. DOMAIN t = {}
    BY <2>1
  <2>3. NamesInv(DOMAIN t) /\ \A n \in DOMAIN t : TableInv(t[n]) /\ Valued(t[n].rows)
    BY <2>2 DEF NamesInv
  <2>4. tables = RefreshCatalog(t) /\ start = tables
    BY <2>1 DEF Init
  <2> QED BY <2>3, <2>4, RefreshHoldsValues DEF ValuesInv, StartValued
<1>2. /\ SqlInv /\ EffectInv /\ ValuesInv /\ [Next]_vars
      /\ SqlInv' /\ EffectInv' /\ FittingInv'
      /\ (SqlInv' /\ EffectInv' /\ FittingInv' /\ OnRows' /\ StartValued' => ValuesInv')
      => ValuesInv'
  <2> SUFFICES ASSUME SqlInv, EffectInv, ValuesInv, [Next]_vars, SqlInv', EffectInv', FittingInv',
                      OnRows' /\ StartValued' => ValuesInv'
               PROVE  ValuesInv'
    OBVIOUS
  <2>1. ASSUME NEW s \in Statements, Begin(s) PROVE ValuesInv'
    <3>1. PICK t, u : t = tables /\ u = RefreshCatalog(t)
      OBVIOUS
    <3>2. NamesInv(DOMAIN t) /\ \A n \in DOMAIN t : TableInv(t[n]) /\ Valued(t[n].rows)
      BY <3>1 DEF SqlInv, TablesInv, ValuesInv
    <3>3. tables' = u /\ start' = u
      BY <2>1, <3>1 DEF Begin
    <3>4. \A n \in DOMAIN u : Valued(u[n].rows)
      BY <3>1, <3>2, RefreshHoldsValues
    <3> QED BY <3>3, <3>4 DEF ValuesInv, StartValued
  <2>2. CASE CreateTable
    <3>1. /\ start' = start
          /\ \/ tables' = tables
             \/ tables' = [n \in DOMAIN tables \cup {stmt.table} |->
                             IF n = stmt.table THEN [columns |-> stmt.columns, rows |-> <<>>]
                             ELSE tables[n]]
      BY <2>2 DEF CreateTable
    <3>2. PICK none : none = << >>
      OBVIOUS
    <3>3. Len(none) = 0 /\ Valued(none)
      BY <3>2 DEF Valued
    <3>4. ASSUME tables' = [n \in DOMAIN tables \cup {stmt.table} |->
                              IF n = stmt.table THEN [columns |-> stmt.columns, rows |-> none]
                              ELSE tables[n]]
          PROVE  \A n \in DOMAIN tables' : Valued(tables'[n].rows)
      BY <3>3, <3>4 DEF ValuesInv, StartValued
    <3> QED BY <3>1, <3>2, <3>4 DEF ValuesInv, StartValued
  <2>3. CASE DropTable
    <3>1. /\ start' = start
          /\ \/ tables' = tables
             \/ tables' = [n \in DOMAIN tables \ {stmt.table} |-> tables[n]]
      BY <2>3 DEF DropTable
    <3> QED BY <3>1 DEF ValuesInv, StartValued
  <2>4. CASE InsertRow \/ UpdateRow \/ UpdateEnd \/ FilterRow \/ DeleteEnd
             \/ SortRows \/ OutputRow \/ OutputEnd \/ Reject
    <3>1. /\ UNCHANGED <<stmt, start>>
          /\ pc \in {"insert", "update", "delete", "select", "output"}
      BY <2>4 DEF InsertRow, UpdateRow, UpdateEnd, FilterRow, DeleteEnd, SortRows, OutputRow,
                  OutputEnd, Reject
    <3>2. stmt.kind \in RowKinds
      <4>1. pc = "idle" \/ pc = stmt.kind \/ (pc = "output" /\ stmt.kind = "select")
        BY DEF EffectInv, StageInv
      <4>2. stmt.kind \in Kinds
        BY <3>1, StatementAssumption DEF EffectInv, StageInv
      <4> QED BY <3>1, <4>1, <4>2 DEF RowKinds, Kinds
    <3>3. OnRows' /\ StartValued'
      BY <3>1, <3>2 DEF OnRows, ValuesInv, StartValued
    <3> QED BY <3>3
  <2>5. CASE UNCHANGED vars
    BY <2>5 DEF ValuesInv, StartValued, vars
  <2> QED BY <2>1, <2>2, <2>3, <2>4, <2>5 DEF Next
<1>3. SqlInv /\ EffectInv /\ FittingInv /\ OnRows /\ StartValued => ValuesInv
  BY RowKindsHoldValues
<1> QED BY <1>1, <1>2, <1>3, SqlInductive, EffectInductive, FittingInductive, PTL DEF Spec

-----------------------------------------------------------------------------
(***************************************************************************)
(* What a SELECT returns: s is the statement, cs are the columns of its    *)
(* table, hits the rows that WHERE selects, b is what sorting makes of     *)
(* them, res are the rows returned before the row a of b.                  *)
(***************************************************************************)
ProjectedBy(s, cs, row) ==
  IF s.exprs = <<>> THEN [j \in DOMAIN cs |-> row[FirstNamed(cs, cs[j].name)]]
  ELSE [k \in DOMAIN s.exprs |-> Evaluate(s.exprs[k], row, s.params)]

KeyBy(s, row) == Evaluate(s.order[1], row, s.params)

BeforeBy(s, l, r) ==
  s.order # <<>> /\ Compare(KeyBy(s, l), KeyBy(s, r)) = (IF s.desc THEN "gt" ELSE "lt")

TiedBy(s, l, r) == ~BeforeBy(s, l, r) /\ ~BeforeBy(s, r, l)

WeakOn(s, rows) ==
  \A i, j, k \in 1..Len(rows) :
    TiedBy(s, rows[i], rows[j]) /\ TiedBy(s, rows[j], rows[k]) => TiedBy(s, rows[i], rows[k])

SortedBy(s, hits, b, f) ==
  /\ f \in [1..Len(hits) -> 1..Len(hits)]
  /\ \A i, k \in 1..Len(hits) : f[i] = f[k] => i = k
  /\ b = [i \in 1..Len(hits) |-> hits[f[i]]]
  /\ WeakOn(s, hits) => \A i, k \in 1..Len(hits) :
                          i < k => BeforeBy(s, b[i], b[k]) \/ TiedBy(s, b[i], b[k])

\* The rows returned are those at g.
PickedBy(s, cs, a, b, res, g) ==
  /\ g \in [1..Len(res) -> 1..a - 1]
  /\ \A i, k \in 1..Len(res) : i < k => g[i] < g[k]
  /\ \A k \in 1..Len(res) : res[k] = ProjectedBy(s, cs, b[g[k]])
  /\ ~s.distinct => Len(res) = a - 1 /\ \A k \in 1..Len(res) : g[k] = k

\* With DISTINCT there is one row for each key.
OneForEach(s, cs, a, b, res, sn) ==
  /\ \A i, k \in 1..Len(res) : i # k => KeyOf(res[i]) # KeyOf(res[k])
  /\ sn = {KeyOf(ProjectedBy(s, cs, b[k])) : k \in 1..a - 1}
  /\ \A k \in 1..a - 1 : \E i \in 1..Len(res) : KeyOf(res[i]) = KeyOf(ProjectedBy(s, cs, b[k]))

NoKeyFails(s, rows) == Len(rows) > 1 => \A k \in 1..Len(rows) : ~OrderFails(s, rows[k])

Put(s, cs, a, b, res, sn, limit, hits) ==
  /\ a \in 1..Len(hits) + 1 /\ IsSeq(res) /\ limit \in Int
  /\ \E f : SortedBy(s, hits, b, f)
  /\ \E g : PickedBy(s, cs, a, b, res, g)
  /\ s.distinct => OneForEach(s, cs, a, b, res, sn)
  /\ \A k \in 1..a - 1 : ~Failed(ProjectedBy(s, cs, b[k]))
  /\ 0 <= limit => Len(res) <= limit
  /\ Len(res) # 0 => NoKeyFails(s, hits)

LEMMA NothingPut ==
  ASSUME NEW s, NEW cs, NEW hits, Len(hits) \in Nat, NEW b, NEW f, SortedBy(s, hits, b, f), NEW limit \in Int
  PROVE  Put(s, cs, 1, b, <<>>, {}, limit, hits)
<1>1. PICK res : res = << >>
  OBVIOUS
<1>2. Len(res) = 0 /\ IsSeq(res) /\ 1..Len(res) = {} /\ 1..1 - 1 = {} /\ 1 - 1 = 0
  BY <1>1 DEF IsSeq
<1>3. \E g : PickedBy(s, cs, 1, b, res, g)
  <2>1. PICK g : g = [k \in 1..Len(res) |-> 1]
    OBVIOUS
  <2>2. g \in [1..Len(res) -> 1..1 - 1]
    BY <1>2, <2>1
  <2>3. PickedBy(s, cs, 1, b, res, g)
    BY <1>2, <2>2 DEF PickedBy
  <2> QED BY <2>3
<1>4. OneForEach(s, cs, 1, b, res, {})
  BY <1>2 DEF OneForEach
<1> QED BY <1>1, <1>2, <1>3, <1>4 DEF Put

\* A candidate that is left out: another with its key has been returned.
LEMMA PickedLater ==
  ASSUME NEW s, NEW cs, s.distinct, NEW a \in Nat, 1 <= a, NEW b, NEW res, NEW g, PickedBy(s, cs, a, b, res, g)
  PROVE  PickedBy(s, cs, a + 1, b, res, g)
<1>1. \A i \in 1..a - 1 : i \in 1..(a + 1) - 1
  OBVIOUS
<1>2. g \in [1..Len(res) -> 1..(a + 1) - 1]
  BY <1>1 DEF PickedBy
<1> QED BY <1>2 DEF PickedBy

\* A candidate that is returned.
LEMMA PickedMore ==
  ASSUME NEW s, NEW cs, NEW a \in Nat, 1 <= a, NEW b, NEW res, IsSeq(res), NEW g, PickedBy(s, cs, a, b, res, g),
         NEW new, new = Append(res, ProjectedBy(s, cs, b[a]))
  PROVE  \E h : PickedBy(s, cs, a + 1, b, new, h)
<1>1. PICK m \in Nat : m = Len(res)
  BY SeqFacts
<1>2. /\ IsSeq(new) /\ Len(new) = m + 1 /\ new[m + 1] = ProjectedBy(s, cs, b[a])
      /\ \A k \in 1..m : new[k] = res[k]
  BY <1>1, AppendIsSeq
<1>3. /\ g \in [1..m -> 1..a - 1]
      /\ \A i, k \in 1..m : i < k => g[i] < g[k]
      /\ \A k \in 1..m : res[k] = ProjectedBy(s, cs, b[g[k]])
      /\ ~s.distinct => m = a - 1 /\ \A k \in 1..m : g[k] = k
  BY <1>1 DEF PickedBy
<1>4. PICK h : h = [k \in 1..m + 1 |-> IF k = m + 1 THEN a ELSE g[k]]
  OBVIOUS
<1>5. h[m + 1] = a /\ \A k \in 1..m : h[k] = g[k] /\ h[k] \in 1..a - 1
  BY <1>3, <1>4
<1>6. \A k \in 1..m + 1 : k \in 1..m \/ k = m + 1
  OBVIOUS
<1>7. h \in [1..m + 1 -> 1..(a + 1) - 1]
  <2>1. \A k \in 1..m + 1 : h[k] \in 1..(a + 1) - 1
    BY <1>5, <1>6
  <2> QED BY <1>4, <2>1
<1>8. \A i, k \in 1..m + 1 : i < k => h[i] < h[k]
  <2> SUFFICES ASSUME NEW i \in 1..m + 1, NEW k \in 1..m + 1, i < k PROVE h[i] < h[k]
    OBVIOUS
  <2>1. i \in 1..m
    BY <1>6
  <2>2. CASE k = m + 1
    BY <1>5, <2>1, <2>2
  <2>3. CASE k \in 1..m
    BY <1>3, <1>5, <2>1, <2>3
  <2> QED BY <1>6, <2>2, <2>3
<1>9. \A k \in 1..m + 1 : new[k] = ProjectedBy(s, cs, b[h[k]])
  BY <1>2, <1>3, <1>5, <1>6
<1>10. ~s.distinct => m + 1 = (a + 1) - 1 /\ \A k \in 1..m + 1 : h[k] = k
  BY <1>3, <1>5, <1>6, SMTT(30)
<1> QED BY <1>2, <1>7, <1>8, <1>9, <1>10 DEF PickedBy

\* The keys that have been seen.
LEMMA KeysLater ==
  ASSUME NEW s, NEW cs, NEW a \in Nat, 1 <= a, NEW b, NEW res, IsSeq(res), NEW sn,
         OneForEach(s, cs, a, b, res, sn), NEW g, PickedBy(s, cs, a, b, res, g),
         NEW values, values = ProjectedBy(s, cs, b[a]), NEW new,
         new = IF KeyOf(values) \notin sn THEN Append(res, values) ELSE res
  PROVE  OneForEach(s, cs, a + 1, b, new, sn \cup {KeyOf(values)})
<1>1. PICK m \in Nat : m = Len(res)
  BY SeqFacts
<1>2. \A k \in 1..(a + 1) - 1 : k \in 1..a - 1 \/ k = a
  OBVIOUS
<1>3. a \in 1..(a + 1) - 1 /\ \A k \in 1..a - 1 : k \in 1..(a + 1) - 1
  OBVIOUS
<1>4. sn = {KeyOf(ProjectedBy(s, cs, b[k])) : k \in 1..a - 1}
  BY DEF OneForEach
<1>5. sn \cup {KeyOf(values)} = {KeyOf(ProjectedBy(s, cs, b[k])) : k \in 1..(a + 1) - 1}
  BY <1>2, <1>3, <1>4
<1>6. \A k \in 1..a - 1 : \E i \in 1..m : KeyOf(res[i]) = KeyOf(ProjectedBy(s, cs, b[k]))
  BY <1>1 DEF OneForEach
<1>7. \A i, k \in 1..m : i # k => KeyOf(res[i]) # KeyOf(res[k])
  BY <1>1 DEF OneForEach
<1>8. CASE KeyOf(values) \in sn
  <2>1. PICK k \in 1..a - 1 : KeyOf(values) = KeyOf(ProjectedBy(s, cs, b[k]))
    BY <1>4, <1>8
  <2>2. \E i \in 1..m : KeyOf(res[i]) = KeyOf(ProjectedBy(s, cs, b[a]))
    BY <1>6, <2>1
  <2>3. \A h \in 1..(a + 1) - 1 : \E i \in 1..m : KeyOf(res[i]) = KeyOf(ProjectedBy(s, cs, b[h]))
    BY <1>2, <1>6, <2>2
  <2>4. new = res
    BY <1>8
  <2> QED BY <1>1, <1>5, <1>7, <2>3, <2>4 DEF OneForEach
<1>9. CASE KeyOf(values) \notin sn
  <2>1. new = Append(res, values)
    BY <1>9
  <2>2. /\ Len(new) = m + 1 /\ new[m + 1] = values
        /\ \A k \in 1..m : new[k] = res[k]
    BY <1>1, <2>1, AppendIsSeq
  <2>3. \A k \in 1..m + 1 : k \in 1..m \/ k = m + 1
    OBVIOUS
  <2>4. \A k \in 1..m : KeyOf(res[k]) # KeyOf(values)
    <3> SUFFICES ASSUME NEW k \in 1..m PROVE KeyOf(res[k]) \in sn
      BY <1>9
    <3>1. g[k] \in 1..a - 1 /\ res[k] = ProjectedBy(s, cs, b[g[k]])
      BY <1>1 DEF PickedBy
    <3> QED BY <1>4, <3>1
  <2>5. \A i, k \in 1..m + 1 : i # k => KeyOf(new[i]) # KeyOf(new[k])
    BY <1>7, <2>2, <2>3, <2>4
  <2>6. \A k \in 1..(a + 1) - 1 : \E i \in 1..m + 1 : KeyOf(new[i]) = KeyOf(ProjectedBy(s, cs, b[k]))
    <3> SUFFICES ASSUME NEW k \in 1..(a + 1) - 1
                 PROVE  \E i \in 1..m + 1 : KeyOf(new[i]) = KeyOf(ProjectedBy(s, cs, b[k]))
      OBVIOUS
    <3>1. CASE k = a
      <4>1. m + 1 \in 1..m + 1
        OBVIOUS
      <4> QED BY <2>2, <3>1, <4>1
    <3>2. CASE k \in 1..a - 1
      <4>1. PICK i \in 1..m : KeyOf(res[i]) = KeyOf(ProjectedBy(s, cs, b[k]))
        BY <1>6, <3>2
      <4>2. i \in 1..m + 1
        OBVIOUS
      <4> QED BY <2>2, <4>1, <4>2
    <3> QED BY <1>2, <3>1, <3>2
  <2> QED BY <1>5, <2>2, <2>5, <2>6, SMTT(30) DEF OneForEach
<1> QED BY <1>8, <1>9

LEMMA PutMore ==
  ASSUME NEW s, NEW cs, NEW a, NEW b, NEW res, NEW sn, NEW limit, NEW hits, Len(hits) \in Nat,
         Put(s, cs, a, b, res, sn, limit, hits), a <= Len(hits), ~(0 <= limit /\ limit <= Len(res)),
         NEW values, values = ProjectedBy(s, cs, b[a]), ~Failed(values), NoKeyFails(s, hits),
         NEW new, new = IF ~s.distinct \/ KeyOf(values) \notin sn THEN Append(res, values) ELSE res
  PROVE  Put(s, cs, a + 1, b, new, sn \cup {KeyOf(values)}, limit, hits)
<1>1. a \in Nat /\ 1 <= a /\ IsSeq(res) /\ limit \in Int
  BY DEF Put
<1>2. PICK m \in Nat : m = Len(res)
  BY <1>1, SeqFacts
<1>3. PICK g : PickedBy(s, cs, a, b, res, g)
  BY DEF Put
<1>4. a + 1 \in 1..Len(hits) + 1
  BY <1>1
<1>5. \E h : PickedBy(s, cs, a + 1, b, new, h)
  <2>1. CASE new = Append(res, values)
    BY <1>1, <1>3, <2>1, PickedMore
  <2>2. CASE s.distinct /\ new = res
    BY <1>1, <1>3, <2>2, PickedLater
  <2> QED BY <2>1, <2>2
<1>6. s.distinct => OneForEach(s, cs, a + 1, b, new, sn \cup {KeyOf(values)})
  <2> SUFFICES ASSUME s.distinct PROVE OneForEach(s, cs, a + 1, b, new, sn \cup {KeyOf(values)})
    OBVIOUS
  <2>1. OneForEach(s, cs, a, b, res, sn)
    BY DEF Put
  <2>2. new = IF KeyOf(values) \notin sn THEN Append(res, values) ELSE res
    OBVIOUS
  <2> QED BY <1>1, <1>3, <2>1, <2>2, KeysLater
<1>7. \A k \in 1..(a + 1) - 1 : ~Failed(ProjectedBy(s, cs, b[k]))
  <2>1. \A k \in 1..(a + 1) - 1 : k \in 1..a - 1 \/ k = a
    BY <1>1
  <2> QED BY <2>1 DEF Put
<1>8. IsSeq(new) /\ (Len(new) = m \/ Len(new) = m + 1)
  BY <1>1, <1>2, AppendIsSeq
<1>9. 0 <= limit => Len(new) <= limit
  BY <1>1, <1>2, <1>8
<1> QED BY <1>1, <1>4, <1>5, <1>6, <1>7, <1>8, <1>9 DEF Put

-----------------------------------------------------------------------------
\* What a SELECT without OFFSET on the given rows has done.
Answered(s, cs, p, a, st, b, res, sn, limit, hits) ==
  /\ p = "select" => res = <<>> /\ sn = {}
  /\ p = "output" =>
       /\ Put(s, cs, a, b, res, sn, limit, hits)
       /\ IF st = "error" THEN res = <<>> ELSE NoKeyFails(s, hits)
  /\ p = "idle" /\ st = "ok" =>
       /\ Put(s, cs, a, b, res, sn, limit, hits)
       /\ a > Len(hits) \/ (0 <= limit /\ limit <= Len(res))

SelectInv ==
  stmt.kind = "select" /\ ~stmt.count /\ Offset = 0 /\ stmt.table \in DOMAIN start =>
    Answered(stmt, start[stmt.table].columns, pc, at, status, buffer, result, seen, Limit,
             HitsBy(stmt, start[stmt.table].rows))

LEMMA SameBounds ==
  ASSUME UNCHANGED stmt
  PROVE  Offset' = Offset /\ Limit' = Limit
BY DEF Offset, Limit, ValuesOf

LEMMA HitsFacts ==
  ASSUME SqlInv, EffectInv, stmt.kind = "select", stmt.table \in DOMAIN start
  PROVE  /\ IsSeq(start[stmt.table].rows)
         /\ RowsFrom(HitsBy(stmt, start[stmt.table].rows), start[stmt.table].rows)
         /\ Len(HitsBy(stmt, start[stmt.table].rows)) \in Nat
         /\ DOMAIN HitsBy(stmt, start[stmt.table].rows)
              = 1..Len(HitsBy(stmt, start[stmt.table].rows))
<1>1. PICK rows : rows = start[stmt.table].rows
  OBVIOUS
<1>2. IsSeq(rows) /\ Len(rows) \in Nat /\ Len(rows) \in 0..Len(rows)
  <2>1. IsSeq(rows)
    BY <1>1, SelectSteps DEF TableInv
  <2> QED BY <2>1, SeqFacts
<1>3. \A hit : RowsFrom(Filter(stmt, rows, hit)[Len(rows)], rows)
  BY <1>2, FilterOfRows
<1>4. RowsFrom(HitsBy(stmt, rows), rows)
  BY <1>3 DEF HitsBy
<1>5. PICK b : b = HitsBy(stmt, rows)
  OBVIOUS
<1>6. IsSeq(b)
  BY <1>4, <1>5 DEF RowsFrom
<1>7. Len(b) \in Nat /\ DOMAIN b = 1..Len(b)
  BY <1>6, SeqFacts
<1> QED BY <1>1, <1>2, <1>4, <1>5, <1>7

LEMMA SortingsFacts ==
  ASSUME NEW rows, Len(rows) \in Nat, NEW b \in Sortings(rows)
  PROVE  \E f : SortedBy(stmt, rows, b, f)
<1>1. PICK n \in Nat : n = Len(rows)
  OBVIOUS
<1>2. \A l, r : (Before(l, r) <=> BeforeBy(stmt, l, r)) /\ (Tied(l, r) <=> TiedBy(stmt, l, r))
  BY DEF Before, BeforeBy, OrderKey, KeyBy, Tied, TiedBy
<1> DEFINE weak == \A i, j, k \in 1..n :
                     Tied(rows[i], rows[j]) /\ Tied(rows[j], rows[k]) => Tied(rows[i], rows[k])
           inOrder(f) == \A i, j \in 1..n :
                           i < j => Before(rows[f[i]], rows[f[j]])
                                    \/ (Tied(rows[f[i]], rows[f[j]]) /\ f[i] < f[j])
<1>3. PICK f \in [1..n -> 1..n] :
        IsInjective(f) /\ (weak => inOrder(f)) /\ b = [i \in 1..n |-> rows[f[i]]]
  BY <1>1, SMTT(30) DEF Sortings
<1>4. \A i, k \in 1..n : f[i] = f[k] => i = k
  BY <1>3 DEF IsInjective
<1>5. WeakOn(stmt, rows) => weak
  BY <1>1, <1>2 DEF WeakOn
<1>6. ASSUME weak, NEW i \in 1..n, NEW k \in 1..n, i < k
      PROVE  BeforeBy(stmt, b[i], b[k]) \/ TiedBy(stmt, b[i], b[k])
  <2>1. inOrder(f)
    BY <1>3, <1>6
  <2>2. b[i] = rows[f[i]] /\ b[k] = rows[f[k]]
    BY <1>3
  <2> HIDE DEF weak
  <2> QED BY <1>2, <1>6, <2>1, <2>2
<1> HIDE DEF weak, inOrder
<1>7. SortedBy(stmt, rows, b, f)
  BY <1>1, <1>3, <1>4, <1>5, <1>6 DEF SortedBy
<1> QED BY <1>7

\* A LIMIT is an integer.
LEMMA LimitIsInteger ==
  ASSUME EvaluatesToValues, stmt \in Statements, stmt.kind = "select", Exists, ~Rejected
  PROVE  Limit \in Int
<1>1. CASE stmt.limit = <<>>
  BY <1>1 DEF Limit
<1>2. CASE stmt.limit # <<>>
  <2>1. IsSeq(stmt.limit)
    BY StatementAssumption
  <2>2. 1 \in DOMAIN stmt.limit
    BY <1>2, <2>1 DEF IsSeq
  <2>3. PICK v : v = Evaluate(stmt.limit[1], <<>>, stmt.params)
    OBVIOUS
  <2>4. ValuesOf(stmt.limit, <<>>)[1] = v /\ v \in ToSet(ValuesOf(stmt.limit, <<>>))
    BY <2>2, <2>3 DEF ValuesOf, ToSet
  <2>5. v.type = 2
    BY <2>4 DEF Rejected
  <2>6. v \in SqlValue \cup {Failure}
    <3>1. stmt.limit[1] \in ExprsOf(stmt)
      BY <2>2 DEF ExprsOf, ToSet
    <3>2. <<>> \in Seq(SqlValue)
      OBVIOUS
    <3> QED BY <2>3, <3>1, <3>2 DEF EvaluatesToValues
  <2>7. v \in SqlValue
    BY <2>5, <2>6, StatementAssumption
  <2>8. v.data \in Seq(Int) /\ Len(v.data) = 1
    BY <2>5, <2>7 DEF SqlValue, IsValue
  <2> QED BY <1>2, <2>4, <2>8 DEF Limit, AsInteger
<1> QED BY <1>1, <1>2

LEMMA SortSelect ==
  ASSUME EvaluatesToValues, SqlInv, EffectInv, SelectInv, SortRows
  PROVE  SelectInv'
<1>1. /\ UNCHANGED <<stmt, start, result, seen>> /\ pc = "select" /\ pc' = "output" /\ at' = 1
      /\ buffer' \in Sortings(buffer) /\ at > Len(Table.rows) /\ ~Rejected
      /\ status' = IF /\ Len(buffer) > 1
                      /\ \E k \in DOMAIN buffer : Failed(ValuesOf(stmt.order, buffer[k]))
                   THEN "error" ELSE "ok"
  BY DEF SortRows
<1> SUFFICES ASSUME stmt.kind = "select", ~stmt.count, Offset = 0, stmt.table \in DOMAIN start
             PROVE  Answered(stmt, start[stmt.table].columns, pc', at', status', buffer', result', seen', Limit,
                             HitsBy(stmt, start[stmt.table].rows))
  BY <1>1, SameBounds DEF SelectInv
<1>2. PICK rows, b, cs : rows = start[stmt.table].rows /\ b = buffer /\ cs = start[stmt.table].columns
  OBVIOUS
<1>3. /\ stmt \in Statements /\ Exists /\ Table.rows = rows /\ at \in Nat
      /\ at <= Len(rows) + 1 /\ b = Filter(stmt, rows, TRUE)[at - 1]
  BY <1>1, <1>2, SelectSteps DEF Queried, SqlInv, ControlInv
<1>4. PICK m \in Nat : m = Len(rows)
  BY <1>2, HitsFacts, SeqFacts
<1>5. at - 1 = m
  BY <1>1, <1>3, <1>4
<1>6. b = HitsBy(stmt, rows)
  BY <1>3, <1>4, <1>5 DEF HitsBy
<1>7. PICK n \in Nat : n = Len(b) /\ DOMAIN b = 1..n
  BY <1>2, <1>6, HitsFacts
<1>8. PICK f : SortedBy(stmt, b, buffer', f)
  BY <1>1, <1>2, <1>7, SortingsFacts
<1>9. Limit \in Int
  BY <1>1, <1>3, LimitIsInteger
<1>10. result' = <<>> /\ seen' = {}
  BY <1>1 DEF SelectInv, Answered
<1>11. Put(stmt, cs, at', buffer', result', seen', Limit, b)
  <2>1. PICK c, limit : c = buffer' /\ limit = Limit
    OBVIOUS
  <2>2. Put(stmt, cs, 1, c, <<>>, {}, limit, b)
    BY <1>7, <1>8, <1>9, <2>1, NothingPut
  <2> QED BY <1>1, <1>10, <2>1, <2>2
<1>12. status' = "error" \/ NoKeyFails(stmt, b)
  <2> SUFFICES ASSUME status' # "error", n > 1, NEW k \in 1..n, OrderFails(stmt, b[k])
               PROVE  FALSE
    BY <1>7 DEF NoKeyFails
  <2>1. Failed(ValuesOf(stmt.order, b[k]))
    BY DEF Failed, ValuesOf, OrderFails
  <2> QED BY <1>1, <1>2, <1>7, <2>1
<1> QED BY <1>1, <1>2, <1>6, <1>10, <1>11, <1>12 DEF Answered

LEMMA OutputSelect ==
  ASSUME SqlInv, EffectInv, SelectInv, OutputRow \/ OutputEnd
  PROVE  SelectInv'
<1>1. UNCHANGED <<stmt, buffer, start>> /\ pc = "output"
  BY DEF OutputRow, OutputEnd
<1> SUFFICES ASSUME stmt.kind = "select", ~stmt.count, Offset = 0, stmt.table \in DOMAIN start
             PROVE  Answered(stmt, start[stmt.table].columns, pc', at', status', buffer', result', seen', Limit,
                             HitsBy(stmt, start[stmt.table].rows))
  BY <1>1, SameBounds DEF SelectInv
<1>2. PICK hits, cs, s, a, b, res, sn, limit :
        /\ hits = HitsBy(stmt, start[stmt.table].rows)
        /\ cs = start[stmt.table].columns /\ s = stmt /\ a = at /\ b = buffer
        /\ res = result /\ sn = seen /\ limit = Limit
  OBVIOUS
<1>3. PICK n \in Nat : n = Len(hits)
  BY <1>2, HitsFacts
<1>4. /\ Put(s, cs, a, b, res, sn, limit, hits)
      /\ IF status = "error" THEN res = <<>> ELSE NoKeyFails(s, hits)
  BY <1>1, <1>2 DEF SelectInv, Answered
<1>5. a \in Nat /\ 1 <= a /\ a <= n + 1 /\ limit \in Int
  BY <1>3, <1>4 DEF Put
<1>6. Len(b) = n
  <2>1. PICK f : SortedBy(s, hits, b, f)
    BY <1>4 DEF Put
  <2>2. DOMAIN b = 1..n /\ b = [i \in 1..n |-> b[i]]
    BY <1>3, <2>1 DEF SortedBy
  <2> QED BY <2>2, FunctionIsSeq
<1>7. Ended <=> a > n \/ (0 <= limit /\ limit <= Len(res))
  BY <1>2, <1>5, <1>6 DEF Ended
<1>8. CASE OutputEnd
  <2>1. pc' = "idle" /\ UNCHANGED <<at, buffer, seen, result>> /\ Ended
    BY <1>8 DEF OutputEnd, Finish
  <2> QED BY <1>2, <1>3, <1>4, <1>7, <2>1 DEF Answered
<1>9. CASE OutputRow
  <2>0. a <= n /\ ~(0 <= limit /\ limit <= Len(res))
    BY <1>3, <1>5, <1>7, <1>9 DEF OutputRow
  <2>1. PICK values : values = ProjectedBy(s, cs, b[a])
    OBVIOUS
  <2>2. Projected(buffer[at]) = values
    <3>1. Table.columns = cs
      BY <1>2, SelectSteps
    <3> QED BY <1>2, <2>1, <3>1 DEF Projected, ProjectedBy, ValuesOf, Find, FirstNamed
  <2>3. PICK new : new = IF ~s.distinct \/ KeyOf(values) \notin sn THEN Append(res, values) ELSE res
    OBVIOUS
  <2>4. \/ Fail
        \/ /\ status # "error" /\ ~Failed(values) /\ pc' = "output" /\ at' = a + 1
           /\ seen' = sn \cup {KeyOf(values)} /\ status' = status /\ result' = new
    <3>1. ~(at <= Offset)
      BY <1>2, <1>5
    <3> QED BY <1>1, <1>2, <1>9, <2>2, <2>3, <3>1 DEF OutputRow
  <2>5. CASE Fail
    <3>1. pc' = "idle" /\ status' = "error"
      BY <2>5 DEF Fail
    <3> QED BY <3>1 DEF Answered
  <2>6. CASE /\ status # "error" /\ ~Failed(values) /\ pc' = "output" /\ at' = a + 1
             /\ seen' = sn \cup {KeyOf(values)} /\ status' = status /\ result' = new
    <3>1. NoKeyFails(s, hits)
      BY <1>4, <2>6
    <3>2. Put(s, cs, a + 1, b, new, sn \cup {KeyOf(values)}, limit, hits)
      BY <1>3, <1>4, <2>0, <2>1, <2>3, <2>6, <3>1, PutMore
    <3> QED BY <1>1, <1>2, <2>6, <3>1, <3>2 DEF Answered
  <2> QED BY <2>4, <2>5, <2>6
<1> QED BY <1>8, <1>9

LEMMA SelectInductive ==
  ASSUME EvaluatesToValues
  PROVE  Spec => []SelectInv
<1>1. Init => SelectInv
  BY DEF Init, SelectInv
<1>2. SqlInv /\ EffectInv /\ SelectInv /\ [Next]_vars => SelectInv'
  <2> SUFFICES ASSUME SqlInv, EffectInv, SelectInv, [Next]_vars PROVE SelectInv'
    OBVIOUS
  <2>1. ASSUME NEW s \in Statements, Begin(s) PROVE SelectInv'
    <3>1. stmt' = s /\ pc' = s.kind /\ result' = <<>> /\ seen' = {}
      BY <2>1 DEF Begin
    <3> QED BY <3>1 DEF SelectInv, Answered
  <2>2. CASE CreateTable \/ DropTable \/ InsertRow \/ UpdateRow \/ UpdateEnd \/ DeleteEnd
    <3>1. UNCHANGED <<stmt, start>> /\ pc \in Kinds \ {"select"}
      BY <2>2 DEF CreateTable, DropTable, InsertRow, UpdateRow, UpdateEnd, DeleteEnd, Kinds
    <3>2. stmt.kind # "select"
      BY <3>1 DEF EffectInv, StageInv, Kinds
    <3> QED BY <3>1, <3>2 DEF SelectInv
  <2>3. CASE Reject \/ FilterRow
    <3>1. /\ UNCHANGED <<stmt, start, seen>>
          /\ \/ pc' = "idle" /\ (status' = "error" \/ stmt.count)
             \/ UNCHANGED <<pc, result>>
      BY <2>3 DEF Reject, FilterRow, Fail
    <3>2. pc \in {"insert", "update", "delete", "select"}
      BY <2>3 DEF Reject, FilterRow
    <3> SUFFICES ASSUME stmt.kind = "select", ~stmt.count, Offset = 0, stmt.table \in DOMAIN start
                 PROVE  Answered(stmt, start[stmt.table].columns, pc', at', status', buffer', result', seen', Limit,
                                 HitsBy(stmt, start[stmt.table].rows))
      BY <3>1, SameBounds DEF SelectInv
    <3>3. CASE pc' = "idle" /\ status' = "error"
      BY <3>3 DEF Answered
    <3>4. CASE UNCHANGED <<pc, result>>
      <4>1. pc = "select" => result = <<>> /\ seen = {}
        BY DEF SelectInv, Answered
      <4> QED BY <3>1, <3>2, <3>4, <4>1 DEF Answered
    <3> QED BY <3>1, <3>3, <3>4
  <2>4. CASE UNCHANGED vars
    <3>1. UNCHANGED <<stmt, pc, at, buffer, seen, status, result, start>>
      BY <2>4 DEF vars
    <3> QED BY <3>1, SameBounds DEF SelectInv
  <2> QED BY <2>1, <2>2, <2>3, <2>4, SortSelect, OutputSelect DEF Next
<1> QED BY <1>1, <1>2, SqlInductive, EffectInductive, PTL DEF Spec

-----------------------------------------------------------------------------
(***************************************************************************)
(* What that means for the result: how often a row is in it, how long it   *)
(* is, and how it is ordered.                                              *)
(***************************************************************************)
Permutes(f, n) == f \in [1..n -> 1..n] /\ \A i, k \in 1..n : f[i] = f[k] => i = k

LEMMA PermutationOnto ==
  ASSUME NEW n \in Nat, NEW f, Permutes(f, n)
  PROVE  \A k \in 1..n : \E i \in 1..n : f[i] = k
<1>1. IsFiniteSet(1..n)
  BY FS_Interval
<1>2. f \in Injection(1..n, 1..n)
  BY DEF Permutes, Injection, IsInjective
<1>3. f \in Surjection(1..n, 1..n)
  BY <1>1, <1>2, FS_Injection
<1> QED BY <1>3 DEF Surjection

\* Rows of one width, all of them values.
TableRows(hits, n, w) ==
  /\ n \in Nat /\ Len(hits) = n /\ DOMAIN hits = 1..n
  /\ \A k \in 1..n : hits[k] \in Seq(SqlValue) /\ Len(hits[k]) = w

LEMMA ProjectedValues ==
  ASSUME EvaluatesToValues, NEW s \in Statements, s.kind = "select", NEW cs \in Seq(Columns),
         NEW row \in Seq(SqlValue), Len(row) = Len(cs),
         ~Failed(ProjectedBy(s, cs, row))
  PROVE  /\ ProjectedBy(s, cs, row) \in Seq(SqlValue)
         /\ Len(ProjectedBy(s, cs, row)) = IF s.exprs = <<>> THEN Len(cs) ELSE Len(s.exprs)
<1>1. CASE s.exprs = <<>>
  <2>1. PICK values : values = ProjectedBy(s, cs, row)
    OBVIOUS
  <2>2. values = [j \in 1..Len(cs) |-> row[FirstNamed(cs, cs[j].name)]]
    BY <1>1, <2>1 DEF ProjectedBy
  <2>3. \A j \in 1..Len(cs) : row[FirstNamed(cs, cs[j].name)] \in SqlValue
    BY FirstNamedIsIn
  <2>4. values \in [1..Len(cs) -> SqlValue]
    BY <2>2, <2>3
  <2>5. values \in Seq(SqlValue) /\ Len(values) = Len(cs)
    BY <2>2, <2>4
  <2> QED BY <1>1, <2>1, <2>5
<1>2. CASE s.exprs # <<>>
  <2>1. IsSeq(s.exprs)
    BY StatementAssumption
  <2>2. PICK m \in Nat : m = Len(s.exprs) /\ DOMAIN s.exprs = 1..m
    BY <2>1, SeqFacts
  <2>3. PICK values : values = ProjectedBy(s, cs, row)
    OBVIOUS
  <2>4. values = [k \in 1..m |-> Evaluate(s.exprs[k], row, s.params)]
    BY <1>2, <2>2, <2>3 DEF ProjectedBy
  <2>5. ASSUME NEW k \in 1..m PROVE values[k] \in SqlValue
    <3>1. values[k] = Evaluate(s.exprs[k], row, s.params) /\ k \in DOMAIN values
      BY <2>4
    <3>2. values[k] # Failure
      BY <2>3, <3>1 DEF Failed
    <3>3. s.exprs[k] \in ExprsOf(s)
      BY <2>2 DEF ExprsOf, ToSet
    <3> QED BY <3>1, <3>2, <3>3 DEF EvaluatesToValues
  <2>6. values \in [1..m -> SqlValue]
    <3>1. values = [k \in 1..m |-> values[k]]
      BY <2>4
    <3> QED BY <2>5, <3>1
  <2>7. values \in Seq(SqlValue) /\ Len(values) = m
    BY <2>6
  <2> QED BY <1>2, <2>2, <2>3, <2>7
<1> QED BY <1>1, <1>2

\* Rows that cannot be mistaken for each other have different keys.
LEMMA KeysDecide ==
  ASSUME NEW all, NEW r \in ToSet(all), NEW q \in ToSet(all), ~Mistakable(all),
         r \in Seq(SqlValue), q \in Seq(SqlValue), Len(r) = Len(q), KeyOf(r) = KeyOf(q)
  PROVE  r = q
<1>1. DOMAIN r = 1..Len(r) /\ DOMAIN q = 1..Len(r)
  OBVIOUS
<1>2. \A j \in 1..Len(r) : 0 \notin ToSet(Shown(r[j])) /\ 0 \notin ToSet(Shown(q[j]))
  BY <1>1 DEF Mistakable
<1>3. \A j \in 1..Len(r) : Shown(r[j]) = Shown(q[j])
  BY <1>2, KeysTellApart
<1> QED BY <1>1, <1>3 DEF Mistakable

\* A row that is returned is the projection of one of the table.
LEMMA RowReturned ==
  ASSUME EvaluatesToValues, NEW s \in Statements, s.kind = "select",
         NEW cs \in Seq(Columns), NEW hits, NEW n, NEW w, w = Len(cs),
         TableRows(hits, n, w), NEW a, NEW b, NEW res, NEW sn, NEW limit,
         Put(s, cs, a, b, res, sn, limit, hits), NEW all,
         all = [k \in 1..n |-> ProjectedBy(s, cs, hits[k])], NEW k \in 1..a - 1
  PROVE  /\ b[k] \in ToSet(hits) /\ ProjectedBy(s, cs, b[k]) \in ToSet(all)
         /\ ProjectedBy(s, cs, b[k]) \in Seq(SqlValue)
         /\ Len(ProjectedBy(s, cs, b[k])) = IF s.exprs = <<>> THEN w ELSE Len(s.exprs)
<1>1. PICK f : SortedBy(s, hits, b, f)
  BY DEF Put
<1>2. k \in 1..n
  BY DEF Put, TableRows
<1>3. f[k] \in 1..n /\ b[k] = hits[f[k]]
  BY <1>1, <1>2 DEF SortedBy, TableRows
<1>4. b[k] \in ToSet(hits) /\ b[k] \in Seq(SqlValue) /\ Len(b[k]) = w
  BY <1>3 DEF ToSet, TableRows
<1>5. ProjectedBy(s, cs, b[k]) \in ToSet(all)
  BY <1>3 DEF ToSet
<1>6. ~Failed(ProjectedBy(s, cs, b[k]))
  BY DEF Put
<1> QED BY <1>4, <1>5, <1>6, ProjectedValues

LEMMA TimesExact ==
  ASSUME NEW s, NEW cs, NEW hits, NEW n, NEW w, TableRows(hits, n, w), NEW a, NEW b, NEW res, NEW sn,
         NEW limit, Put(s, cs, a, b, res, sn, limit, hits), NEW all,
         all = [k \in 1..n |-> ProjectedBy(s, cs, hits[k])], NEW r
  PROVE  Times(r, res) <= IF s.distinct THEN 1 ELSE Times(r, all)
<1>1. PICK m \in Nat : m = Len(res) /\ DOMAIN res = 1..m
  BY SeqFacts DEF Put
<1>2. PICK S : S = {k \in 1..m : res[k] = r}
  OBVIOUS
<1>3. Times(r, res) = Cardinality(S)
  BY <1>1, <1>2 DEF Times
<1>4. CASE s.distinct
  <2>1. \A i, k \in 1..m : i # k => KeyOf(res[i]) # KeyOf(res[k])
    BY <1>1, <1>4 DEF Put, OneForEach
  <2>2. \A i, k \in S : i = k
    BY <1>2, <2>1
  <2>3. S = {} \/ \E x : S = {x}
    <3> SUFFICES ASSUME NEW x \in S PROVE S = {x}
      OBVIOUS
    <3> QED BY <2>2
  <2>4. Cardinality(S) = 0 \/ Cardinality(S) = 1
    BY <2>3, FS_EmptySet, FS_Singleton
  <2> QED BY <1>3, <1>4, <2>4
<1>5. CASE ~s.distinct
  <2>1. PICK T : T = {k \in 1..n : all[k] = r}
    OBVIOUS
  <2>2. Times(r, all) = Cardinality(T) /\ n \in Nat
    BY <2>1 DEF Times, TableRows
  <2>3. PICK f : SortedBy(s, hits, b, f)
    BY DEF Put
  <2>4. /\ f \in [1..n -> 1..n] /\ \A i, k \in 1..n : f[i] = f[k] => i = k
        /\ b = [i \in 1..n |-> hits[f[i]]]
    BY <2>3 DEF SortedBy, TableRows
  <2>5. PICK g : PickedBy(s, cs, a, b, res, g)
    BY DEF Put
  <2>6. /\ m = a - 1 /\ \A k \in 1..m : g[k] = k /\ res[k] = ProjectedBy(s, cs, b[g[k]])
    BY <1>1, <1>5, <2>5 DEF PickedBy
  <2>7. m <= n
    BY <2>6 DEF Put, TableRows
  <2>8. \A k \in S : k \in 1..n /\ f[k] \in T
    <3> TAKE k \in S
    <3>1. k \in 1..m /\ k \in 1..n /\ res[k] = r
      BY <1>2, <2>2, <2>7
    <3>2. res[k] = ProjectedBy(s, cs, hits[f[k]]) /\ f[k] \in 1..n
      BY <2>4, <2>6, <3>1
    <3> QED BY <2>1, <3>1, <3>2
  <2>9. PICK h : h = [k \in S |-> f[k]]
    OBVIOUS
  <2>10. h \in Injection(S, T)
    <3>1. h \in [S -> T]
      BY <2>8, <2>9
    <3>2. \A i, k \in S : h[i] = h[k] => i = k
      BY <2>4, <2>8, <2>9
    <3> QED BY <3>1, <3>2 DEF Injection, IsInjective
  <2>11. IsFiniteSet(T)
    <3>1. IsFiniteSet(1..n) /\ T \subseteq 1..n
      BY <2>1, <2>2, FS_Interval
    <3> QED BY <3>1, FS_Subset
  <2>12. Cardinality(S) <= Cardinality(T)
    BY <2>10, <2>11, FS_Injection
  <2> QED BY <1>3, <1>5, <2>2, <2>12
<1> QED BY <1>4, <1>5

\* With DISTINCT, a row of the first a - 1 is in the result.
LEMMA RowIsThere ==
  ASSUME EvaluatesToValues, NEW s \in Statements, s.kind = "select", s.distinct,
         NEW cs \in Seq(Columns), NEW hits, NEW n, NEW w, w = Len(cs),
         TableRows(hits, n, w), NEW a, NEW b, NEW res, NEW sn, NEW limit,
         Put(s, cs, a, b, res, sn, limit, hits), NEW all,
         all = [k \in 1..n |-> ProjectedBy(s, cs, hits[k])], ~Mistakable(all), NEW k \in 1..a - 1
  PROVE  \E i \in 1..Len(res) : res[i] = ProjectedBy(s, cs, b[k])
<1>1. PICK i \in 1..Len(res) : KeyOf(res[i]) = KeyOf(ProjectedBy(s, cs, b[k]))
  BY DEF Put, OneForEach
<1>2. PICK g : PickedBy(s, cs, a, b, res, g)
  BY DEF Put
<1>3. g[i] \in 1..a - 1 /\ res[i] = ProjectedBy(s, cs, b[g[i]])
  BY <1>2 DEF PickedBy
<1>4. PICK x, y : x = ProjectedBy(s, cs, b[g[i]]) /\ y = ProjectedBy(s, cs, b[k])
  OBVIOUS
<1>5. x \in ToSet(all) /\ x \in Seq(SqlValue) /\ Len(x) = IF s.exprs = <<>> THEN w ELSE Len(s.exprs)
  BY <1>3, <1>4, RowReturned
<1>6. y \in ToSet(all) /\ y \in Seq(SqlValue) /\ Len(y) = IF s.exprs = <<>> THEN w ELSE Len(s.exprs)
  BY <1>4, RowReturned
<1>7. Len(x) = Len(y) /\ KeyOf(x) = KeyOf(y)
  BY <1>1, <1>3, <1>4, <1>5, <1>6
<1>8. x = y
  BY <1>5, <1>6, <1>7, KeysDecide
<1> QED BY <1>3, <1>4, <1>8

LEMMA LengthExact ==
  ASSUME EvaluatesToValues, NEW s \in Statements, s.kind = "select",
         NEW cs \in Seq(Columns), NEW hits, NEW n, NEW w, w = Len(cs),
         TableRows(hits, n, w), NEW a, NEW b, NEW res, NEW sn, NEW limit,
         Put(s, cs, a, b, res, sn, limit, hits), a > n \/ (0 <= limit /\ limit <= Len(res)), NEW all,
         all = [k \in 1..n |-> ProjectedBy(s, cs, hits[k])], ~(s.distinct /\ Mistakable(all)),
         NEW wanted, wanted = IF s.distinct THEN Cardinality(ToSet(all)) ELSE Len(all)
  PROVE  Len(res) = IF 0 <= limit /\ limit < wanted THEN limit ELSE wanted
<1>1. PICK m \in Nat : m = Len(res) /\ DOMAIN res = 1..m
  BY SeqFacts DEF Put
<1>2. n \in Nat /\ a \in 1..n + 1 /\ limit \in Int /\ (0 <= limit => m <= limit)
  BY <1>1 DEF Put, TableRows
<1>3. PICK g : PickedBy(s, cs, a, b, res, g)
  BY DEF Put
<1>4. wanted \in Nat /\ m <= wanted /\ (a > n => m = wanted)
  <2>1. CASE ~s.distinct
    <3>1. wanted = n
      BY <1>2, <2>1
    <3>2. m = a - 1
      BY <1>1, <1>3, <2>1 DEF PickedBy
    <3> QED BY <1>2, <3>1, <3>2
  <2>2. CASE s.distinct
    <3>1. PICK T : T = ToSet(all)
      OBVIOUS
    <3>2. IsFiniteSet(T)
      <4>1. DOMAIN all = 1..n /\ IsFiniteSet(1..n)
        BY <1>2, FS_Interval
      <4>2. all \in Surjection(1..n, T)
        <5>1. T = {all[k] : k \in 1..n}
          BY <3>1, <4>1 DEF ToSet
        <5>2. all \in [1..n -> T]
          BY <5>1
        <5> QED BY <5>1, <5>2 DEF Surjection
      <4> QED BY <4>1, <4>2, FS_Surjection
    <3>3. res = [k \in 1..m |-> res[k]]
      BY <1>1, SeqFacts DEF Put
    <3>4. \A k \in 1..m : res[k] \in T
      <4> TAKE k \in 1..m
      <4>1. g[k] \in 1..a - 1 /\ res[k] = ProjectedBy(s, cs, b[g[k]])
        BY <1>1, <1>3 DEF PickedBy
      <4> QED BY <3>1, <4>1, RowReturned
    <3>5. res \in Injection(1..m, T)
      <4>1. res \in [1..m -> T]
        BY <3>3, <3>4
      <4>2. \A i, k \in 1..m : res[i] = res[k] => i = k
        BY <1>1, <2>2 DEF Put, OneForEach
      <4> QED BY <4>1, <4>2 DEF Injection, IsInjective
    <3>6. /\ Cardinality(1..m) <= Cardinality(T)
          /\ Cardinality(1..m) = Cardinality(T) <=> res \in Surjection(1..m, T)
      BY <3>2, <3>5, FS_Injection
    <3>7. Cardinality(1..m) = m /\ Cardinality(T) \in Nat
      <4>1. Cardinality(1..m) = IF 1 > m THEN 0 ELSE m - 1 + 1
        BY FS_Interval
      <4> QED BY <3>2, <4>1, FS_CardinalityType
    <3>8. ASSUME a > n PROVE res \in Surjection(1..m, T)
      <4>1. ASSUME NEW r \in T PROVE \E i \in 1..m : res[i] = r
        <5>1. PICK j \in 1..n : r = ProjectedBy(s, cs, hits[j])
          BY <3>1 DEF ToSet
        <5>2. PICK f : SortedBy(s, hits, b, f)
          BY DEF Put
        <5>3. /\ f \in [1..n -> 1..n] /\ \A i, k \in 1..n : f[i] = f[k] => i = k
              /\ b = [i \in 1..n |-> hits[f[i]]]
          BY <5>2 DEF SortedBy, TableRows
        <5>4. PICK k \in 1..n : f[k] = j
          <6>1. Permutes(f, n)
            BY <5>3 DEF Permutes
          <6> QED BY <1>2, <6>1, PermutationOnto, SMTT(30)
        <5>5. k \in 1..a - 1 /\ ProjectedBy(s, cs, b[k]) = r
          BY <1>2, <3>8, <5>1, <5>3, <5>4
        <5>6. \E i \in 1..Len(res) : res[i] = ProjectedBy(s, cs, b[k])
          BY <2>2, <5>5, RowIsThere
        <5> QED BY <1>1, <5>5, <5>6
      <4> QED BY <3>5, <4>1 DEF Surjection, Injection
    <3> QED BY <2>2, <3>1, <3>6, <3>7, <3>8
  <2> QED BY <2>1, <2>2
<1> QED BY <1>1, <1>2, <1>4

\* Values that can all be compared are ordered by Compare.
LEMMA Comparable ==
  ASSUME NEW a, NEW b, NEW c, IsValue(a), IsValue(b), IsValue(c),
         \A x, y \in {a, b, c} : Compare(x, y) # "unknown"
  PROVE  /\ Compare(a, b) \in {"lt", "gt", "eq"}
         /\ Compare(a, b) = "lt" <=> Compare(b, a) = "gt"
         /\ Compare(a, b) = "eq" /\ Compare(b, c) = "eq" => Compare(a, c) = "eq"
<1>1. \A v \in {a, b, c} : ~IsNull(v) /\ ~IsNaN(v)
  <2> TAKE v \in {a, b, c}
  <2>1. Compare(v, v) # "unknown"
    OBVIOUS
  <2>2. ~IsNull(v)
    BY <2>1 DEF Compare
  <2>3. IsNaN(v) => IsNumber(v)
    BY DEF IsNaN, IsNumber
  <2>4. ~(IsNumber(v) /\ IsNaN(v))
    BY <2>1, <2>2 DEF Compare
  <2> QED BY <2>2, <2>3, <2>4
<1>2. \A x, y \in {a, b, c} : ~IsNumber(x) \/ ~IsNumber(y) => x.type = y.type
  <2> TAKE x, y \in {a, b, c}
  <2>1. Compare(x, y) # "unknown" /\ ~IsNull(x) /\ ~IsNull(y)
    BY <1>1
  <2> QED BY <2>1 DEF Compare
<1>3. (\A v \in {a, b, c} : IsNumber(v)) \/ (\A v \in {a, b, c} : v.type = a.type)
  <2>1. CASE \A v \in {a, b, c} : IsNumber(v)
    BY <2>1
  <2>2. CASE ~IsNumber(a)
    BY <1>2, <2>2
  <2>3. CASE ~IsNumber(b)
    <3>1. b.type = a.type /\ b.type = c.type
      BY <1>2, <2>3
    <3> QED BY <3>1
  <2>4. CASE ~IsNumber(c)
    <3>1. c.type = a.type /\ c.type = b.type
      BY <1>2, <2>4
    <3> QED BY <3>1
  <2> QED BY <2>1, <2>2, <2>3, <2>4
<1>4. Ordered(a, b, c)
  BY CompareOrdersValues
<1>5. Compare(a, b) \in {"unknown", "lt", "gt", "eq"}
  BY DEF Compare
<1> QED BY <1>1, <1>3, <1>4, <1>5 DEF Ordered

\* The keys of the rows can all be compared.
Keyed(s, hits, n) ==
  s.order # <<>> => \A i, k \in 1..n : Compare(KeyBy(s, hits[i]), KeyBy(s, hits[k])) # "unknown"

LEMMA KeysAreValues ==
  ASSUME EvaluatesToValues, NEW s \in Statements, s.kind = "select", s.order # <<>>,
         NEW hits, NEW n, NEW w, TableRows(hits, n, w), NEW k \in 1..n, ~OrderFails(s, hits[k])
  PROVE  IsValue(KeyBy(s, hits[k]))
<1>1. 1 \in DOMAIN s.order
  <2>1. IsSeq(s.order)
    BY StatementAssumption
  <2> QED BY <2>1 DEF IsSeq
<1>2. s.order[1] \in ExprsOf(s)
  BY <1>1 DEF ExprsOf, ToSet
<1>3. hits[k] \in Seq(SqlValue)
  BY DEF TableRows
<1>4. KeyBy(s, hits[k]) \in SqlValue \cup {Failure}
  BY <1>2, <1>3 DEF EvaluatesToValues, KeyBy
<1>5. KeyBy(s, hits[k]) # Failure
  BY <1>1 DEF OrderFails, KeyBy
<1> QED BY <1>4, <1>5 DEF SqlValue

\* Then the comparator of ORDER BY is a strict weak order on them.
LEMMA KeysOrdered ==
  ASSUME EvaluatesToValues, NEW s \in Statements, s.kind = "select",
         NEW hits, NEW n, NEW w, TableRows(hits, n, w), Keyed(s, hits, n),
         \A k \in 1..n : ~OrderFails(s, hits[k])
  PROVE  /\ WeakOn(s, hits)
         /\ \A i, k \in 1..n : BeforeBy(s, hits[i], hits[k]) => ~BeforeBy(s, hits[k], hits[i])
<1>1. CASE s.order = <<>>
  <2>1. \A l, r : ~BeforeBy(s, l, r)
    BY <1>1 DEF BeforeBy
  <2> QED BY <2>1 DEF WeakOn, TiedBy
<1>2. CASE s.order # <<>>
  <2>1. \A k \in 1..n : IsValue(KeyBy(s, hits[k]))
    BY <1>2, KeysAreValues
  <2>2. ASSUME NEW i \in 1..n, NEW j \in 1..n, NEW k \in 1..n
        PROVE  LET a == KeyBy(s, hits[i])  b == KeyBy(s, hits[j])  c == KeyBy(s, hits[k])
               IN  /\ Compare(a, b) \in {"lt", "gt", "eq"}
                   /\ Compare(a, b) = "lt" <=> Compare(b, a) = "gt"
                   /\ Compare(a, b) = "eq" /\ Compare(b, c) = "eq" => Compare(a, c) = "eq"
    <3>1. PICK a, b, c : a = KeyBy(s, hits[i]) /\ b = KeyBy(s, hits[j]) /\ c = KeyBy(s, hits[k])
      OBVIOUS
    <3>2. IsValue(a) /\ IsValue(b) /\ IsValue(c)
      BY <2>1, <3>1
    <3>3. \A x, y \in {a, b, c} : Compare(x, y) # "unknown"
      BY <1>2, <3>1 DEF Keyed
    <3> QED BY <3>1, <3>2, <3>3, Comparable
  <2>3. ASSUME NEW i \in 1..n, NEW j \in 1..n
        PROVE  /\ BeforeBy(s, hits[i], hits[j]) => ~BeforeBy(s, hits[j], hits[i])
               /\ TiedBy(s, hits[i], hits[j])
                    <=> Compare(KeyBy(s, hits[i]), KeyBy(s, hits[j])) = "eq"
    <3>1. PICK a, b : a = KeyBy(s, hits[i]) /\ b = KeyBy(s, hits[j])
      OBVIOUS
    <3>2. /\ Compare(a, b) \in {"lt", "gt", "eq"} /\ Compare(b, a) \in {"lt", "gt", "eq"}
          /\ Compare(a, b) = "lt" <=> Compare(b, a) = "gt"
          /\ Compare(b, a) = "lt" <=> Compare(a, b) = "gt"
      BY <2>2, <3>1
    <3>3. /\ BeforeBy(s, hits[i], hits[j]) <=> Compare(a, b) = (IF s.desc THEN "gt" ELSE "lt")
          /\ BeforeBy(s, hits[j], hits[i]) <=> Compare(b, a) = (IF s.desc THEN "gt" ELSE "lt")
      BY <1>2, <3>1 DEF BeforeBy
    <3> QED BY <3>1, <3>2, <3>3 DEF TiedBy
  <2>4. WeakOn(s, hits)
    <3> SUFFICES ASSUME NEW i \in 1..n, NEW j \in 1..n, NEW k \in 1..n,
                        TiedBy(s, hits[i], hits[j]), TiedBy(s, hits[j], hits[k])
                 PROVE  TiedBy(s, hits[i], hits[k])
      BY DEF WeakOn, TableRows
    <3> QED BY <2>2, <2>3
  <2> QED BY <2>3, <2>4
<1> QED BY <1>1, <1>2

\* One row of the sorted ones after another is not before it.
LEMMA SortedRows ==
  ASSUME EvaluatesToValues, NEW s \in Statements, s.kind = "select",
         NEW hits, NEW n, NEW w, TableRows(hits, n, w), Keyed(s, hits, n), NoKeyFails(s, hits),
         NEW b, NEW f, SortedBy(s, hits, b, f), NEW i \in 1..n, NEW k \in 1..n, i < k
  PROVE  ~BeforeBy(s, b[k], b[i])
<1>1. n > 1 /\ Len(hits) = n
  BY DEF TableRows
<1>2. \A j \in 1..n : ~OrderFails(s, hits[j])
  BY <1>1 DEF NoKeyFails
<1>3. /\ WeakOn(s, hits)
      /\ \A j, l \in 1..n : BeforeBy(s, hits[j], hits[l]) => ~BeforeBy(s, hits[l], hits[j])
  BY <1>2, KeysOrdered
<1>4. /\ BeforeBy(s, b[i], b[k]) \/ TiedBy(s, b[i], b[k])
      /\ f[i] \in 1..n /\ f[k] \in 1..n /\ b[i] = hits[f[i]] /\ b[k] = hits[f[k]]
  BY <1>1, <1>3 DEF SortedBy
<1> QED BY <1>3, <1>4 DEF TiedBy

LEMMA OrderExact ==
  ASSUME EvaluatesToValues, NEW s \in Statements, s.kind = "select",
         NEW cs \in Seq(Columns), NEW hits, NEW n, NEW w, w = Len(cs),
         TableRows(hits, n, w), Keyed(s, hits, n),
         \A k \in 1..n : ProjectedBy(s, cs, hits[k]) = hits[k],
         NEW a, NEW b, NEW res, NEW sn, NEW limit, Put(s, cs, a, b, res, sn, limit, hits)
  PROVE  /\ \A i, k \in 1..Len(res) : i < k => ~BeforeBy(s, res[k], res[i])
         /\ ~(s.distinct /\ Mistakable([k \in 1..n |-> ProjectedBy(s, cs, hits[k])])) =>
              \A r \in ToSet(hits) \ ToSet(res) : \A q \in ToSet(res) : ~BeforeBy(s, r, q)
<1>1. PICK m \in Nat : m = Len(res) /\ DOMAIN res = 1..m
  BY SeqFacts DEF Put
<1>2. n \in Nat /\ Len(hits) = n /\ DOMAIN hits = 1..n /\ a \in 1..n + 1
  BY DEF Put, TableRows
<1>3. PICK f : SortedBy(s, hits, b, f)
  BY DEF Put
<1>4. PICK g : PickedBy(s, cs, a, b, res, g)
  BY DEF Put
<1>5. \A k \in 1..n : ProjectedBy(s, cs, b[k]) = b[k]
  <2>1. \A k \in 1..n : f[k] \in 1..n /\ b[k] = hits[f[k]]
    BY <1>2, <1>3 DEF SortedBy
  <2> QED BY <2>1
<1>6. /\ \A k \in 1..m : g[k] \in 1..a - 1 /\ g[k] \in 1..n /\ res[k] = b[g[k]]
      /\ \A i, k \in 1..m : i < k => g[i] < g[k]
      /\ ~s.distinct => m = a - 1 /\ \A k \in 1..m : g[k] = k
  BY <1>1, <1>2, <1>4, <1>5 DEF PickedBy
<1>7. ASSUME NEW i \in 1..m, NEW k \in 1..n, g[i] < k
      PROVE  ~BeforeBy(s, b[k], res[i])
  <2>1. NoKeyFails(s, hits)
    BY <1>1 DEF Put
  <2>2. ~BeforeBy(s, b[k], b[g[i]])
    BY <1>3, <1>6, <1>7, <2>1, SortedRows
  <2> QED BY <1>6, <2>2
<1>8. ASSUME ~(s.distinct /\ Mistakable([k \in 1..n |-> ProjectedBy(s, cs, hits[k])])),
             NEW r \in ToSet(hits) \ ToSet(res), NEW q \in ToSet(res)
      PROVE  ~BeforeBy(s, r, q)
  <2>1. PICK j \in 1..n : r = hits[j]
    BY <1>2 DEF ToSet
  <2>2. PICK i \in 1..m : q = res[i]
    BY <1>1 DEF ToSet
  <2>3. PICK k \in 1..n : f[k] = j
    <3>1. Permutes(f, n)
      BY <1>2, <1>3 DEF SortedBy, Permutes
    <3>2. \A l \in 1..n : \E k \in 1..n : f[k] = l
      <4>1. PICK p, h : p = n /\ h = f
        OBVIOUS
      <4>2. p \in Nat /\ Permutes(h, p)
        BY <1>2, <3>1, <4>1
      <4>3. \A l \in 1..p : \E k \in 1..p : h[k] = l
        BY <4>2, PermutationOnto, SMTT(30)
      <4> QED BY <4>1, <4>3
    <3> QED BY <3>2
  <2>4. r = b[k]
    BY <1>2, <1>3, <2>1, <2>3 DEF SortedBy
  <2>5. k \notin 1..a - 1
    <3> SUFFICES ASSUME k \in 1..a - 1 PROVE r \in ToSet(res)
      OBVIOUS
    <3>1. CASE s.distinct
      <4>1. PICK all : all = [l \in 1..n |-> ProjectedBy(s, cs, hits[l])]
        OBVIOUS
      <4>2. ~Mistakable(all)
        BY <1>8, <3>1, <4>1
      <4>3. PICK l \in 1..Len(res) : res[l] = ProjectedBy(s, cs, b[k])
        BY <3>1, <4>1, <4>2, RowIsThere
      <4> QED BY <1>1, <1>5, <2>4, <4>3 DEF ToSet
    <3>2. CASE ~s.distinct
      <4>1. k \in 1..m /\ res[k] = b[k]
        BY <1>6, <3>2
      <4> QED BY <1>1, <2>4, <4>1 DEF ToSet
    <3> QED BY <3>1, <3>2
  <2>6. g[i] < k
    BY <1>2, <1>6, <2>5
  <2> QED BY <1>7, <2>2, <2>4, <2>6
<1> QED BY <1>1, <1>6, <1>7, <1>8

\* src/src/api/db.cpp, ExecSelect: a SELECT without OFFSET returns the rows for
\* which WHERE is TRUE, each as often as it is there or once with DISTINCT, as
\* many as LIMIT says, and the first ones by ORDER BY if its keys can be compared.
THEOREM SelectsAreExact ==
  ASSUME EvaluatesToValues
  PROVE  Spec => []SelectExact
<1>1. SqlInv /\ EffectInv /\ StartValued /\ SelectInv => SelectExact
  <2> SUFFICES ASSUME SqlInv, EffectInv, StartValued, SelectInv, Done({"select"}), status = "ok",
                      ~stmt.count, Offset = 0
               PROVE  SelectExact
    BY DEF SelectExact
  <2>1. stmt.kind = "select" /\ pc = "idle" /\ stmt.kind # "none" /\ stmt.kind \in RowKinds
    BY DEF Done, RowKinds
  <2>2. stmt.table \in DOMAIN start
    BY <2>1 DEF EffectInv, OthersInv, Completed
  <2>3. PICK rows : rows = start[stmt.table].rows
    OBVIOUS
  <2>4. PICK hits : hits = HitsBy(stmt, rows)
    OBVIOUS
  <2>5. Hits = hits
    BY <2>3, <2>4 DEF Hits, Those, HitsBy, Filter, Hit, HitBy, Selected
  <2>6. stmt \in Statements /\ TableInv(Table) /\ Table.rows = rows /\ Valued(rows)
    BY <2>1, <2>2, <2>3, SelectSteps DEF StartValued
  <2>7. PICK n \in Nat : n = Len(hits) /\ DOMAIN hits = 1..n
    BY <2>1, <2>2, <2>3, <2>4, HitsFacts
  <2>23. PICK cs : cs = Table.columns
    OBVIOUS
  <2>24. cs \in Seq(Columns) /\ cs = start[stmt.table].columns
    BY <2>1, <2>2, <2>6, <2>23, SelectSteps DEF TableInv
  <2>8. PICK w : w = Len(cs)
    OBVIOUS
  <2>9. TableRows(hits, n, w)
    <3>1. \A k \in 1..n : \E i \in 1..Len(rows) : hits[k] = rows[i]
      BY <2>1, <2>2, <2>3, <2>4, <2>7, HitsFacts DEF RowsFrom
    <3>2. \A i \in 1..Len(rows) : rows[i] \in Seq(SqlValue) /\ Len(rows[i]) = w
      BY <2>6, <2>8, <2>23 DEF TableInv, RowInv, Valued
    <3> QED BY <2>7, <3>1, <3>2 DEF TableRows
  <2>10. PICK s, a, b, res, sn, limit :
           /\ s = stmt /\ a = at /\ b = buffer /\ res = result /\ sn = seen /\ limit = Limit
    OBVIOUS
  <2>11. /\ Put(s, cs, a, b, res, sn, limit, hits) /\ s \in Statements /\ s.kind = "select"
         /\ a > n \/ (0 <= limit /\ limit <= Len(res))
    BY <2>1, <2>2, <2>3, <2>4, <2>6, <2>7, <2>10, <2>24 DEF SelectInv, Answered
  <2>12. DOMAIN res = 1..Len(res)
    BY <2>11, SeqFacts DEF Put
  <2>13. PICK all : all = [k \in 1..n |-> ProjectedBy(s, cs, hits[k])]
    OBVIOUS
  <2>14. PICK wanted : wanted = IF s.distinct THEN Cardinality(ToSet(all)) ELSE Len(all)
    OBVIOUS
  <2>15. \A r : Times(r, res) <= IF s.distinct THEN 1 ELSE Times(r, all)
    BY <2>9, <2>11, <2>13, TimesExact
  <2>16. ~(s.distinct /\ Mistakable(all)) =>
           Len(res) = IF 0 <= limit /\ limit < wanted THEN limit ELSE wanted
    BY <2>8, <2>9, <2>11, <2>13, <2>14, <2>24, LengthExact
  <2>17. ASSUME Keyed(s, hits, n), all = hits
         PROVE  /\ \A i, k \in 1..Len(res) : i < k => ~BeforeBy(s, res[k], res[i])
                /\ ~(s.distinct /\ Mistakable(all)) =>
                     \A r \in ToSet(hits) \ ToSet(res) : \A q \in ToSet(res) : ~BeforeBy(s, r, q)
    <3>1. \A k \in 1..n : ProjectedBy(s, cs, hits[k]) = hits[k]
      BY <2>13, <2>17
    <3> QED BY <2>8, <2>9, <2>11, <2>13, <2>17, <2>24, <3>1, OrderExact
  <2>18. /\ all = [k \in DOMAIN Hits |-> Projected(Hits[k])]
         /\ \A l, r : Before(l, r) <=> BeforeBy(s, l, r)
         /\ \A row : OrderKey(row) = KeyBy(s, row)
    <3>1. \A row : Projected(row) = ProjectedBy(s, cs, row)
      BY <2>10, <2>23 DEF Projected, ProjectedBy, ValuesOf, Find, FirstNamed
    <3>2. \A row : OrderKey(row) = KeyBy(s, row)
      BY <2>10 DEF OrderKey, KeyBy
    <3>3. \A l, r : Before(l, r) <=> BeforeBy(s, l, r)
      BY <2>10, <3>2 DEF Before, BeforeBy
    <3>4. all = [k \in DOMAIN Hits |-> Projected(Hits[k])]
      BY <2>5, <2>7, <2>13, <3>1
    <3> QED BY <3>2, <3>3, <3>4
  <2>19. ASSUME \/ stmt.order = <<>>
                \/ \A r, q \in ToSet(Hits) : Compare(OrderKey(r), OrderKey(q)) # "unknown"
         PROVE  Keyed(s, hits, n)
    <3> SUFFICES ASSUME s.order # <<>>, NEW i \in 1..n, NEW k \in 1..n
                 PROVE  Compare(KeyBy(s, hits[i]), KeyBy(s, hits[k])) # "unknown"
      BY DEF Keyed
    <3>1. hits[i] \in ToSet(Hits) /\ hits[k] \in ToSet(Hits)
      BY <2>5, <2>7 DEF ToSet
    <3>2. Compare(OrderKey(hits[i]), OrderKey(hits[k])) # "unknown"
      BY <2>10, <2>19, <3>1
    <3> QED BY <2>18, <3>2
  <2>20. /\ \A r \in ToSet(result) :
              Times(r, result) <= IF stmt.distinct THEN 1 ELSE Times(r, all)
         /\ ~(stmt.distinct /\ Mistakable(all)) =>
              Len(result) = IF 0 <= Limit /\ Limit < wanted THEN Limit ELSE wanted
    BY <2>10, <2>15, <2>16
  <2>21. ASSUME \/ stmt.order = <<>>
                \/ \A r, q \in ToSet(Hits) : Compare(OrderKey(r), OrderKey(q)) # "unknown",
                all = Hits
         PROVE  /\ \A i, j \in DOMAIN result : i < j => ~Before(result[j], result[i])
                /\ ~(stmt.distinct /\ Mistakable(all)) =>
                     \A r \in ToSet(Hits) \ ToSet(result) :
                       \A q \in ToSet(result) : ~Before(r, q)
    <3>1. Keyed(s, hits, n) /\ all = hits
      BY <2>5, <2>19, <2>21
    <3> QED BY <2>5, <2>10, <2>12, <2>17, <2>18, <3>1
  <2>22. wanted = IF stmt.distinct THEN Cardinality(ToSet(all)) ELSE Len(all)
    BY <2>10, <2>14
  <2> QED BY <2>18, <2>20, <2>21, <2>22 DEF SelectExact
<1> QED BY <1>1, SqlInductive, EffectInductive, ValuesInductive, SelectInductive, PTL DEF ValuesInv
=============================================================================
