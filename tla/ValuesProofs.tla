---------------------------- MODULE ValuesProofs ----------------------------
(***************************************************************************)
(* Lemmas that the proofs about tables and about the pure functions share: *)
(* Value::Compare is an order, the keys of an index follow it, a key is    *)
(* read back as it was written, and what FlattenSeq puts together.         *)
(***************************************************************************)
EXTENDS Values, SequencesExt, WellFoundedInduction, SequenceTheorems, TLAPS

\* A set of naturals that is not empty has a least element.
LEMMA LeastNatural ==
  ASSUME NEW T \in SUBSET Nat, T # {}
  PROVE  \E x \in T : \A y \in T : x <= y
<1>1. PICK x \in T : \A y \in T : ~ (<<y, x>> \in OpToRel(<, Nat))
  BY NatLessThanWellFounded, WFMin
<1>2. \A y \in T : ~(y < x)
  BY <1>1 DEF OpToRel
<1> QED BY <1>2

\* A set of naturals with 0 and with every successor is all of them.
LEMMA Inductive ==
  ASSUME NEW S \in SUBSET Nat, 0 \in S, \A n \in S : n + 1 \in S
  PROVE  S = Nat
<1> SUFFICES ASSUME Nat \ S # {} PROVE FALSE
  OBVIOUS
<1>1. Nat \ S \in SUBSET Nat
  OBVIOUS
<1>2. PICK x \in Nat \ S : \A y \in Nat \ S : x <= y
  BY <1>1, LeastNatural
<1>3. x # 0 /\ x - 1 \in Nat /\ x - 1 \in S
  BY <1>2
<1> QED BY <1>2, <1>3

-----------------------------------------------------------------------------
(***************************************************************************)
(* Value::Compare as an order.                                             *)
(***************************************************************************)
\* s and t agree up to k, where s ends or is the smaller one.
LessAt(s, t, k) ==
  /\ k < Len(t) /\ \A i \in 1..k : s[i] = t[i]
  /\ k = Len(s) \/ s[k + 1] < t[k + 1]

LEMMA LessPointwise ==
  ASSUME NEW s \in Seq(Int), NEW t \in Seq(Int)
  PROVE  Less(s, t) <=> \E k \in 0..Len(s) : LessAt(s, t, k)
<1>1. ASSUME NEW k \in 0..Len(s), k < Len(t)
      PROVE  SubSeq(s, 1, k) = SubSeq(t, 1, k) <=> \A i \in 1..k : s[i] = t[i]
  <2>1. /\ SubSeq(s, 1, k) = [i \in 1..k |-> s[i]]
        /\ SubSeq(t, 1, k) = [i \in 1..k |-> t[i]]
    BY <1>1
  <2> QED BY <2>1
<1> QED BY <1>1 DEF Less, LessAt

\* s and t both have k elements, and do not go on in the same way.
Parts(s, t, k) ==
  /\ k <= Len(s) /\ k <= Len(t) /\ (k < Len(s) \/ k < Len(t))
  /\ k = Len(s) \/ k = Len(t) \/ s[k + 1] # t[k + 1]

\* The first difference of two sequences that are not equal.
LEMMA LessTotal ==
  ASSUME NEW s \in Seq(Int), NEW t \in Seq(Int), s # t
  PROVE  Less(s, t) \/ Less(t, s)
<1> DEFINE D == {k \in Nat : Parts(s, t, k)}
<1>0. Len(s) \in Nat /\ Len(t) \in Nat
  OBVIOUS
<1>1. D # {}
  <2>1. CASE Len(s) = Len(t)
    <3>1. PICK i \in 1..Len(s) : s[i] # t[i]
      BY <2>1
    <3>2. PICK m \in Nat : m = i - 1
      BY <1>0
    <3>4. m < Len(s) /\ m < Len(t) /\ s[m + 1] # t[m + 1]
      BY <1>0, <2>1, <3>1, <3>2
    <3>3. Parts(s, t, m)
      BY <1>0, <3>2, <3>4 DEF Parts
    <3> QED BY <3>3
  <2>2. CASE Len(s) < Len(t)
    <3>1. Parts(s, t, Len(s))
      BY <1>0, <2>2 DEF Parts
    <3> QED BY <1>0, <3>1
  <2>3. CASE Len(t) < Len(s)
    <3>1. Parts(s, t, Len(t))
      BY <1>0, <2>3 DEF Parts
    <3> QED BY <1>0, <3>1
  <2> QED BY <1>0, <2>1, <2>2, <2>3
<1>2. PICK k \in D : \A j \in D : k <= j
  <2>1. D \in SUBSET Nat
    OBVIOUS
  <2> HIDE DEF D
  <2> QED BY <1>1, <2>1, LeastNatural
<1>7. k \in Nat /\ Parts(s, t, k)
  OBVIOUS
<1>3. \A i \in 1..k : s[i] = t[i]
  <2> SUFFICES ASSUME NEW i \in 1..k, s[i] # t[i] PROVE FALSE
    OBVIOUS
  <2>0. k \in Nat /\ k <= Len(s) /\ k <= Len(t)
    BY <1>7 DEF Parts
  <2>1. PICK m \in Nat : m = i - 1
    BY <2>0
  <2>5. m < k /\ m + 1 = i /\ m < Len(s) /\ m < Len(t)
    <3> HIDE DEF D
    <3> QED BY <1>0, <2>0, <2>1, SMTT(30)
  <2>6. Parts(s, t, m)
    <3> HIDE DEF D
    <3> QED BY <1>0, <2>5, SMTT(30) DEF Parts
  <2>2. m \in D
    BY <2>6
  <2> HIDE DEF D
  <2>3. k <= m
    BY <1>2, <2>2
  <2> QED BY <2>0, <2>3, <2>5
<1> HIDE DEF D
<1>4. CASE k = Len(s)
  <2>1. k < Len(t) /\ k \in 0..Len(s)
    BY <1>0, <1>7, <1>4 DEF Parts
  <2>2. LessAt(s, t, k)
    BY <1>3, <1>4, <2>1 DEF LessAt
  <2> QED BY <2>1, <2>2, LessPointwise
<1>5. CASE k = Len(t)
  <2>1. k < Len(s) /\ k \in 0..Len(t)
    BY <1>0, <1>7, <1>5 DEF Parts
  <2>2. LessAt(t, s, k)
    BY <1>3, <1>5, <2>1 DEF LessAt
  <2> QED BY <2>1, <2>2, LessPointwise
<1>6. CASE k # Len(s) /\ k # Len(t)
  <2>1. k < Len(s) /\ k < Len(t) /\ s[k + 1] # t[k + 1] /\ k \in Nat
    BY <1>0, <1>7, <1>6 DEF Parts
  <2>2. s[k + 1] \in Int /\ t[k + 1] \in Int
    BY <2>1
  <2>3. LessAt(s, t, k) \/ LessAt(t, s, k)
    BY <1>3, <2>1, <2>2 DEF LessAt
  <2>4. k \in 0..Len(s) /\ k \in 0..Len(t)
    BY <1>0, <2>1
  <2> QED BY <2>3, <2>4, LessPointwise
<1> QED BY <1>4, <1>5, <1>6

LEMMA LessTransitive ==
  ASSUME NEW s \in Seq(Int), NEW t \in Seq(Int), NEW u \in Seq(Int), Less(s, t), Less(t, u)
  PROVE  Less(s, u)
<1>0. Len(s) \in Nat /\ Len(t) \in Nat /\ Len(u) \in Nat
  OBVIOUS
<1>1. PICK j \in 0..Len(s) : LessAt(s, t, j)
  BY LessPointwise
<1>2. PICK k \in 0..Len(t) : LessAt(t, u, k)
  BY LessPointwise
<1>3. /\ j < Len(t) /\ (\A i \in 1..j : s[i] = t[i]) /\ (j = Len(s) \/ s[j + 1] < t[j + 1])
      /\ k < Len(u) /\ (\A i \in 1..k : t[i] = u[i]) /\ (k = Len(t) \/ t[k + 1] < u[k + 1])
  BY <1>1, <1>2 DEF LessAt
<1>4. CASE j < k
  <2>0. j + 1 \in 1..k /\ j < Len(u) /\ \A i \in 1..j : i \in 1..k
    BY <1>0, <1>3, <1>4
  <2>1. j + 1 \in 1..k /\ j < Len(u) /\ \A i \in 1..j : s[i] = u[i]
    BY <1>3, <2>0
  <2>2. j = Len(s) \/ s[j + 1] < u[j + 1]
    BY <1>3, <2>1
  <2>3. LessAt(s, u, j)
    BY <2>1, <2>2 DEF LessAt
  <2> QED BY <2>3, LessPointwise
<1>5. CASE j = k
  <2>1. \A i \in 1..j : s[i] = u[i]
    BY <1>3, <1>5
  <2>4. k = j /\ j < Len(t) /\ j < Len(u) /\ (j = Len(s) \/ s[j + 1] < t[j + 1])
        /\ (j = Len(t) \/ t[j + 1] < u[j + 1])
    BY <1>3, <1>5
  <2>2. j = Len(s) \/ s[j + 1] < u[j + 1]
    <3>1. CASE j # Len(s)
      <4>1. j + 1 \in 1..Len(s) /\ j + 1 \in 1..Len(t) /\ j + 1 \in 1..Len(u)
        BY <1>0, <2>4, <3>1, SMTT(30)
      <4>2. s[j + 1] \in Int /\ t[j + 1] \in Int /\ u[j + 1] \in Int
        BY <4>1
      <4>3. s[j + 1] < t[j + 1] /\ t[j + 1] < u[j + 1]
        BY <1>0, <2>4, <3>1
      <4> QED BY <4>2, <4>3, SMTT(30)
    <3> QED BY <3>1
  <2>3. LessAt(s, u, j)
    BY <1>3, <1>5, <2>1, <2>2 DEF LessAt
  <2> QED BY <2>3, LessPointwise
<1>6. CASE k < j
  <2>1. k < Len(s) /\ k + 1 \in 1..j /\ k # Len(t)
    BY <1>0, <1>3, <1>6
  <2>4. \A i \in 1..k : i \in 1..j
    BY <1>0, <1>6
  <2>5. \A i \in 1..k : s[i] = u[i]
    BY <1>3, <2>4
  <2>2. s[k + 1] < u[k + 1]
    BY <1>3, <2>1
  <2>6. k \in 0..Len(s)
    BY <1>0, <2>1
  <2>3. LessAt(s, u, k)
    BY <1>3, <2>2, <2>5 DEF LessAt
  <2> QED BY <2>3, <2>6, LessPointwise
<1> QED BY <1>4, <1>5, <1>6

LEMMA LessIrreflexive ==
  ASSUME NEW s \in Seq(Int)
  PROVE  ~Less(s, s)
<1> SUFFICES ASSUME NEW k \in 0..Len(s), LessAt(s, s, k) PROVE FALSE
  BY LessPointwise
<1>1. k < Len(s) /\ (k = Len(s) \/ s[k + 1] < s[k + 1]) /\ Len(s) \in Nat
  BY DEF LessAt
<1>2. s[k + 1] \in Int /\ k # Len(s)
  BY <1>1
<1> QED BY <1>1, <1>2

\* Every REAL but NaN, and every INTEGER, is compared as a number.
LEMMA DoubleIsInteger ==
  ASSUME NEW v, IsValue(v), IsNumber(v)
  PROVE  AsDouble(v) \in Int
<1>1. /\ v.data[1] \in Int /\ v.type \in {2, 3}
  BY DEF IsValue, IsNumber
<1>2. Half \in Nat /\ Half > 0 /\ Mantissa \in Nat
  <2>1. Base * Base \in Nat
    BY WidthAssumption
  <2>2. PICK b \in Nat : b = Base * Base
    BY <2>1
  <2>3. b \div 2 \in Nat /\ Mantissa \in Nat /\ Mantissa < b \div 2
    BY <2>2, WidthAssumption
  <2> QED BY <2>2, <2>3 DEF Half
<1>3. PICK n \in Int, h \in Nat, m \in Nat : n = v.data[1] /\ h = Half /\ h > 0 /\ m = Mantissa
  BY <1>1, <1>2
<1>4. Rounded(n) \in Int
  BY <1>3 DEF Rounded
<1>5. AsReal(n) \in Int
  <2>1. n % h \in Int
    BY <1>3
  <2> QED BY <1>3, <2>1 DEF AsReal
<1> QED BY <1>1, <1>3, <1>4, <1>5 DEF AsDouble, AsInteger

\* Compare is an order on the values of a column.
LEMMA CompareOrdersValues ==
  ASSUME NEW a, NEW b, NEW c, IsValue(a), IsValue(b), IsValue(c)
  PROVE  Ordered(a, b, c)
<1> SUFFICES ASSUME \A v \in {a, b, c} : ~IsNull(v) /\ ~IsNaN(v),
                    (\A v \in {a, b, c} : IsNumber(v)) \/ (\A v \in {a, b, c} : v.type = a.type)
             PROVE  /\ Compare(a, b) = "lt" /\ Compare(b, c) # "gt" => Compare(a, c) = "lt"
                    /\ Compare(a, b) = "eq" /\ Compare(b, c) = "eq" => Compare(a, c) = "eq"
                    /\ Compare(a, b) = "lt" <=> Compare(b, a) = "gt"
  BY DEF Ordered
<1>1. CASE \A v \in {a, b, c} : IsNumber(v)
  <2>1. PICK x \in Int, y \in Int, z \in Int :
          x = AsDouble(a) /\ y = AsDouble(b) /\ z = AsDouble(c)
    BY <1>1, DoubleIsInteger
  <2>2. /\ Compare(a, b) = IF x < y THEN "lt" ELSE IF x > y THEN "gt" ELSE "eq"
        /\ Compare(b, a) = IF y < x THEN "lt" ELSE IF y > x THEN "gt" ELSE "eq"
        /\ Compare(b, c) = IF y < z THEN "lt" ELSE IF y > z THEN "gt" ELSE "eq"
        /\ Compare(a, c) = IF x < z THEN "lt" ELSE IF x > z THEN "gt" ELSE "eq"
    BY <1>1, <2>1 DEF Compare
  <2> QED BY <2>2
<1>2. CASE ~(\A v \in {a, b, c} : IsNumber(v))
  <2>1. /\ a.type = b.type /\ a.type = c.type
        /\ ~IsNumber(a) /\ ~IsNumber(b) /\ ~IsNumber(c)
    BY <1>2 DEF IsNumber
  <2>2. PICK x \in Seq(Int), y \in Seq(Int), z \in Seq(Int) :
          x = a.data /\ y = b.data /\ z = c.data
    BY DEF IsValue
  <2>3. /\ Compare(a, b) = IF Less(x, y) THEN "lt" ELSE IF Less(y, x) THEN "gt" ELSE "eq"
        /\ Compare(b, a) = IF Less(y, x) THEN "lt" ELSE IF Less(x, y) THEN "gt" ELSE "eq"
        /\ Compare(b, c) = IF Less(y, z) THEN "lt" ELSE IF Less(z, y) THEN "gt" ELSE "eq"
        /\ Compare(a, c) = IF Less(x, z) THEN "lt" ELSE IF Less(z, x) THEN "gt" ELSE "eq"
    BY <2>1, <2>2 DEF Compare
  <2>4. \A s, t, u \in Seq(Int) : Less(s, t) /\ Less(t, u) => Less(s, u)
    BY LessTransitive
  <2>5. \A s, t \in Seq(Int) : s # t => Less(s, t) \/ Less(t, s)
    BY LessTotal
  <2>6. \A s \in Seq(Int) : ~Less(s, s)
    BY LessIrreflexive
  <2>7. Compare(a, b) = "lt" <=> Less(x, y)
    BY <2>3
  <2>8. Compare(b, a) = "gt" <=> Less(x, y)
    BY <2>3, <2>4, <2>6
  <2>9. Compare(a, b) = "eq" <=> x = y
    BY <2>3, <2>5, <2>6
  <2>10. Compare(b, c) = "eq" <=> y = z
    BY <2>3, <2>5, <2>6
  <2>11. Compare(a, c) = "eq" <=> x = z
    BY <2>3, <2>5, <2>6
  <2>12. Compare(b, c) # "gt" <=> Less(y, z) \/ y = z
    BY <2>3, <2>4, <2>5, <2>6
  <2>13. Compare(a, c) = "lt" <=> Less(x, z)
    BY <2>3
  <2> QED BY <2>4, <2>7, <2>8, <2>9, <2>10, <2>11, <2>12, <2>13
<1> QED BY <1>1, <1>2

-----------------------------------------------------------------------------
(***************************************************************************)
(* Value::ToString: what it shows are sequences of characters.             *)
(***************************************************************************)
DigitsAt(f, n) == IF n < 10 THEN <<48 + n>> ELSE Append(f[n \div 10], 48 + (n % 10))

DigitsTo(f, m) == f = [n \in 0..m |-> DigitsAt(f, n)]

\* There are such functions, for every number.
LEMMA DigitsExist ==
  ASSUME NEW hi \in Nat
  PROVE  \E f : DigitsTo(f, hi)
<1> DEFINE S == {m \in Nat : \E f : DigitsTo(f, m)}
<1>1. 0 \in S
  <2> DEFINE f == [n \in 0..0 |-> <<48 + n>>]
  <2>1. \A n \in 0..0 : DigitsAt(f, n) = <<48 + n>>
    BY DEF DigitsAt
  <2>2. DigitsTo(f, 0)
    BY <2>1 DEF DigitsTo
  <2> HIDE DEF f
  <2> QED BY <2>2
<1>2. ASSUME NEW m \in S PROVE m + 1 \in S
  <2>1. m \in Nat
    OBVIOUS
  <2>2. PICK f : DigitsTo(f, m)
    OBVIOUS
  <2> HIDE DEF S
  <2> DEFINE g == [n \in 0..m + 1 |-> IF n = m + 1 THEN DigitsAt(f, m + 1) ELSE f[n]]
  <2>3. ASSUME NEW n \in 0..m + 1
        PROVE  g[n] = DigitsAt(g, n)
    <3>1. ~(n < 10) => n \div 10 \in 0..m + 1 /\ n \div 10 # m + 1
      BY <2>1
    <3>2. ~(n < 10) => g[n \div 10] = f[n \div 10]
      BY <3>1
    <3> HIDE DEF g
    <3>3. DigitsAt(g, n) = DigitsAt(f, n)
      BY <3>2 DEF DigitsAt
    <3>4. CASE n = m + 1
      BY <3>3, <3>4 DEF g
    <3>5. CASE n # m + 1
      <4>1. n \in 0..m
        BY <2>1, <3>5
      <4>2. g[n] = f[n]
        BY <3>5 DEF g
      <4>3. f[n] = DigitsAt(f, n)
        BY <2>2, <4>1 DEF DigitsTo
      <4> QED BY <3>3, <4>2, <4>3
    <3> QED BY <3>4, <3>5
  <2>4. g = [n \in 0..m + 1 |-> g[n]]
    OBVIOUS
  <2> HIDE DEF g
  <2>5. DigitsTo(g, m + 1)
    BY <2>3, <2>4 DEF DigitsTo
  <2> QED BY <2>1, <2>5 DEF S
<1>3. S = Nat
  <2>1. S \in SUBSET Nat
    OBVIOUS
  <2> HIDE DEF S
  <2> QED BY <1>1, <1>2, <2>1, Inductive
<1> QED BY <1>3

\* Two of them agree on what both say.
LEMMA DigitsAgree ==
  ASSUME NEW f, NEW g, NEW m \in Nat, NEW k \in Nat, DigitsTo(f, m), DigitsTo(g, k), m <= k
  PROVE  \A n \in 0..m : f[n] = g[n]
<1> DEFINE D == {n \in 0..m : f[n] # g[n]}
<1> SUFFICES ASSUME D # {} PROVE FALSE
  OBVIOUS
<1>1. D \in SUBSET Nat
  OBVIOUS
<1>2. PICK n \in D : \A i \in D : n <= i
  <2> HIDE DEF D
  <2> QED BY <1>1, LeastNatural
<1>3. n \in 0..m /\ n \in 0..k /\ f[n] # g[n]
  OBVIOUS
<1>4. f[n] = DigitsAt(f, n) /\ g[n] = DigitsAt(g, n)
  BY <1>3 DEF DigitsTo
<1>5. ~(n < 10) => n \div 10 \in 0..m /\ n \div 10 < n
  BY <1>3
<1>6. ~(n < 10) => n \div 10 \notin D
  <2> HIDE DEF D
  <2> QED BY <1>2, <1>3, <1>5
<1>7. ~(n < 10) => f[n \div 10] = g[n \div 10]
  BY <1>5, <1>6
<1>8. f[n] = g[n]
  BY <1>4, <1>7 DEF DigitsAt
<1> QED BY <1>3, <1>8

LEMMA DecimalUnfolds ==
  ASSUME NEW n \in Nat
  PROVE  Decimal[n] = DigitsAt(Decimal, n)
<1> DEFINE upTo(m) == CHOOSE f : DigitsTo(f, m)
           F == [m \in Nat |-> upTo(m)[m]]
<1>1. \A m \in Nat : DigitsTo(upTo(m), m)
  BY DigitsExist
<1> HIDE DEF upTo
<1>2. ASSUME NEW m \in Nat PROVE F[m] = DigitsAt(F, m)
  <2>1. upTo(m)[m] = DigitsAt(upTo(m), m)
    <3>1. m \in 0..m
      OBVIOUS
    <3> QED BY <1>1, <3>1 DEF DigitsTo
  <2>2. ASSUME ~(m < 10) PROVE upTo(m)[m \div 10] = F[m \div 10]
    <3>1. m \div 10 \in Nat /\ m \div 10 <= m /\ m \div 10 \in 0..m \div 10
      BY <2>2
    <3>2. DigitsTo(upTo(m), m) /\ DigitsTo(upTo(m \div 10), m \div 10)
      BY <1>1, <3>1
    <3>3. upTo(m \div 10)[m \div 10] = upTo(m)[m \div 10]
      BY <3>1, <3>2, DigitsAgree
    <3> QED BY <3>1, <3>3
  <2>3. DigitsAt(upTo(m), m) = DigitsAt(F, m)
    <3> HIDE DEF F
    <3> QED BY <2>2 DEF DigitsAt
  <2>4. F[m] = upTo(m)[m]
    OBVIOUS
  <2> QED BY <2>1, <2>3, <2>4
<1>3. F = [m \in Nat |-> F[m]]
  OBVIOUS
<1> HIDE DEF F
<1>4. F = [m \in Nat |-> DigitsAt(F, m)]
  BY <1>2, <1>3
<1>5. Decimal = CHOOSE f : f = [m \in Nat |-> DigitsAt(f, m)]
  BY DEF Decimal, DigitsAt
<1>6. Decimal = [m \in Nat |-> DigitsAt(Decimal, m)]
  BY <1>4, <1>5
<1> QED BY <1>6

LEMMA DecimalIsText ==
  ASSUME NEW n \in Nat
  PROVE  Decimal[n] \in Seq(Int)
<1> DEFINE D == {m \in Nat : Decimal[m] \notin Seq(Int)}
<1> SUFFICES ASSUME D # {} PROVE FALSE
  OBVIOUS
<1>1. D \in SUBSET Nat
  OBVIOUS
<1>2. PICK m \in D : \A i \in D : m <= i
  <2> HIDE DEF D
  <2> QED BY <1>1, LeastNatural
<1>3. m \in Nat /\ Decimal[m] \notin Seq(Int)
  OBVIOUS
<1>4. CASE m < 10
  <2>1. Decimal[m] = <<48 + m>>
    BY <1>3, <1>4, DecimalUnfolds DEF DigitsAt
  <2> QED BY <1>3, <2>1
<1>5. CASE ~(m < 10)
  <2>1. PICK d \in Nat : d = m \div 10 /\ d < m
    BY <1>3, <1>5
  <2>2. d \notin D
    <3> HIDE DEF D
    <3> QED BY <1>2, <1>3, <2>1
  <2>3. Decimal[d] \in Seq(Int)
    BY <2>2
  <2>4. Decimal[m] = Append(Decimal[d], 48 + (m % 10))
    BY <1>3, <1>5, <2>1, DecimalUnfolds DEF DigitsAt
  <2>5. 48 + (m % 10) \in Int
    BY <1>3
  <2>6. Decimal[m] \in Seq(Int)
    BY <2>3, <2>4, <2>5
  <2> QED BY <1>3, <2>6
<1> QED BY <1>4, <1>5

LEMMA HalfFacts == Half \in Nat /\ Half > 0 /\ Mantissa \in Nat
<1>1. Base * Base \in Nat
  BY WidthAssumption
<1>2. PICK b \in Nat : b = Base * Base
  BY <1>1
<1>3. b \div 2 \in Nat /\ Mantissa \in Nat /\ Mantissa < b \div 2
  BY <1>2, WidthAssumption
<1> QED BY <1>2, <1>3 DEF Half

LEMMA ShownIsText ==
  ASSUME NEW v, IsValue(v)
  PROVE  Shown(v) \in Seq(Int)
<1>1. /\ v.type \in 0..5 /\ v.data \in Seq(Int)
      /\ v.type \in {1, 2, 3} => Len(v.data) = 1 /\ v.data[1] \in Int
  BY DEF IsValue
<1>2. ASSUME NEW n \in Int PROVE WithSign(n) \in Seq(Int)
  <2>1. CASE n < 0
    <3>1. Decimal[-n] \in Seq(Int)
      <4>1. -n \in Nat
        BY <2>1
      <4> QED BY <4>1, DecimalIsText
    <3>2. WithSign(n) = <<45>> \o Decimal[-n] /\ <<45>> \in Seq(Int)
      BY <2>1 DEF WithSign
    <3> QED BY <3>1, <3>2, ConcatProperties
  <2>2. CASE ~(n < 0)
    BY <2>2, DecimalIsText DEF WithSign
  <2> QED BY <2>1, <2>2
<1>3. CASE v.type = 0 \/ v.type = 1
  BY <1>3 DEF Shown
<1>4. CASE v.type = 2
  <2>1. Shown(v) = WithSign(v.data[1])
    BY <1>4 DEF Shown, AsInteger
  <2> QED BY <1>1, <1>2, <1>4, <2>1
<1>5. CASE v.type = 3
  <2>1. AsReal(v.data[1]) \in Int
    <3>1. PICK n \in Int, h \in Nat, m \in Nat : n = v.data[1] /\ h = Half /\ h > 0 /\ m = Mantissa
      BY <1>1, <1>5, HalfFacts
    <3>2. n % h \in Int
      BY <3>1
    <3> QED BY <3>1, <3>2 DEF AsReal
  <2>2. Shown(v) \in {<<45>> \o <<110, 97, 110>>, <<>> \o <<110, 97, 110>>, <<45, 48>>,
                       WithSign(AsReal(v.data[1]))}
    <3>1. Shown(v) = IF IsNaN(v) THEN (IF v.data[1] >= Half THEN <<45>> ELSE <<>>) \o <<110, 97, 110>>
                     ELSE IF v.data[1] = Half THEN <<45, 48>> ELSE WithSign(AsReal(v.data[1]))
      BY <1>5 DEF Shown
    <3> QED BY <3>1, ZenonT(60)
  <2>3. WithSign(AsReal(v.data[1])) \in Seq(Int)
    BY <1>2, <2>1
  <2>4. /\ <<45>> \in Seq(Int) /\ <<>> \in Seq(Int)
        /\ <<110, 97, 110>> \in Seq(Int) /\ <<45, 48>> \in Seq(Int)
    OBVIOUS
  <2>5. <<45>> \o <<110, 97, 110>> \in Seq(Int) /\ <<>> \o <<110, 97, 110>> \in Seq(Int)
    BY <2>4, ConcatProperties
  <2> QED BY <2>2, <2>3, <2>4, <2>5
<1>6. CASE v.type = 4
  BY <1>1, <1>6 DEF Shown
<1>7. CASE v.type = 5
  <2>1. Shown(v) = (<<88, 39>> \o v.data) \o <<39>>
    BY <1>7 DEF Shown
  <2>2. <<88, 39>> \in Seq(Int) /\ <<39>> \in Seq(Int)
    OBVIOUS
  <2>3. <<88, 39>> \o v.data \in Seq(Int)
    BY <1>1, <2>2, ConcatProperties
  <2> QED BY <2>1, <2>2, <2>3, ConcatProperties
<1> QED BY <1>1, <1>3, <1>4, <1>5, <1>6, <1>7

-----------------------------------------------------------------------------
(***************************************************************************)
(* Quotients and remainders.                                               *)
(***************************************************************************)
Product(a, b) == a * b

LEMMA ProductStep ==
  ASSUME NEW a \in Nat, NEW d \in Nat
  PROVE  /\ Product(a, d) \in Nat /\ Product(a + 1, d) = Product(a, d) + d
         /\ Product(0, d) = 0
BY DEF Product

LEMMA ProductGrows ==
  ASSUME NEW a \in Nat, NEW b \in Nat, NEW d \in Nat, a < b
  PROVE  Product(a, d) \in Nat /\ Product(b, d) \in Nat /\ Product(a, d) + d <= Product(b, d)
BY DEF Product

LEMMA Divided ==
  ASSUME NEW n \in Nat, NEW d \in Nat, 0 < d
  PROVE  \E q \in Nat, r \in 0..d - 1 : q = n \div d /\ r = n % d /\ n = Product(q, d) + r
<1>1. n \div d \in Nat /\ n % d \in 0..d - 1 /\ n = Product(n \div d, d) + (n % d)
  BY DEF Product
<1> QED BY <1>1

LEMMA QuotientUnique ==
  ASSUME NEW d \in Nat, NEW q \in Nat, NEW r \in 0..d - 1, NEW n, n = Product(q, d) + r
  PROVE  n \in Nat /\ n \div d = q /\ n % d = r
<1>1. (q * d + r) \div d = q /\ (q * d + r) % d = r /\ q * d + r \in Nat
  OBVIOUS
<1> QED BY <1>1 DEF Product

LEMMA QuotientOrder ==
  ASSUME NEW d \in Nat, NEW u \in Nat, NEW w \in Nat, 0 < d, u < w
  PROVE  u \div d < w \div d \/ (u \div d = w \div d /\ u % d < w % d)
<1>1. PICK q \in Nat, r \in 0..d - 1 : q = u \div d /\ r = u % d /\ u = Product(q, d) + r
  BY Divided
<1>2. PICK p \in Nat, k \in 0..d - 1 : p = w \div d /\ k = w % d /\ w = Product(p, d) + k
  BY Divided
<1>3. ~(p < q)
  <2> SUFFICES ASSUME p < q PROVE FALSE
    OBVIOUS
  <2>1. Product(p, d) \in Nat /\ Product(q, d) \in Nat /\ Product(p, d) + d <= Product(q, d)
    BY ProductGrows
  <2> QED BY <1>1, <1>2, <2>1
<1>4. p = q => r < k
  <2>1. Product(q, d) \in Nat
    BY ProductStep
  <2> QED BY <1>1, <1>2, <2>1
<1> QED BY <1>1, <1>2, <1>3, <1>4

-----------------------------------------------------------------------------
(***************************************************************************)
(* Value::EncodeKey: the order of keys.                                    *)
(***************************************************************************)
\* A place where s is smaller, and nowhere greater before it: s is less, and
\* its complement is greater.
Below(s, t) ==
  \E p \in Nat :
    /\ p + 1 <= Len(s) /\ p + 1 <= Len(t) /\ s[p + 1] < t[p + 1]
    /\ \A i \in 1..p : s[i] <= t[i]

LEMMA BelowIsLess ==
  ASSUME NEW s \in Seq(Int), NEW t \in Seq(Int), Below(s, t)
  PROVE  Less(s, t)
<1>1. PICK p \in Nat : /\ p + 1 <= Len(s) /\ p + 1 <= Len(t) /\ s[p + 1] < t[p + 1]
                       /\ \A i \in 1..p : s[i] <= t[i]
  BY DEF Below
<1> DEFINE D == {k \in Nat : k <= p /\ s[k + 1] # t[k + 1]}
<1>2. \A i \in 1..p + 1 : s[i] \in Int /\ t[i] \in Int
  BY <1>1, SMTT(30)
<1>3. p \in D
  <2>1. s[p + 1] # t[p + 1]
    BY <1>1, <1>2
  <2> QED BY <2>1
<1>4. PICK k \in D : \A j \in D : k <= j
  <2>1. D \in SUBSET Nat /\ D # {}
    BY <1>3
  <2> HIDE DEF D
  <2> QED BY <2>1, LeastNatural
<1>5. k \in Nat /\ k <= p /\ s[k + 1] # t[k + 1]
  OBVIOUS
<1>6. \A i \in 1..k : s[i] = t[i]
  <2> SUFFICES ASSUME NEW i \in 1..k, s[i] # t[i] PROVE FALSE
    OBVIOUS
  <2>1. PICK j \in Nat : j + 1 = i
    BY <1>5
  <2>2. j <= p /\ j < k
    BY <1>5, <2>1, SMTT(30)
  <2>3. j \in D
    BY <2>1, <2>2
  <2> HIDE DEF D
  <2> QED BY <1>4, <1>5, <2>2, <2>3
<1>7. s[k + 1] < t[k + 1]
  <2>1. CASE k = p
    BY <1>1, <2>1
  <2>2. CASE k < p
    <3>1. k + 1 \in 1..p /\ k + 1 \in 1..p + 1
      BY <1>5, <2>2
    <3> QED BY <1>1, <1>2, <1>5, <3>1, SMTT(30)
  <2> QED BY <1>5, <2>1, <2>2
<1>8. k \in 0..Len(s) /\ LessAt(s, t, k)
  <2> HIDE DEF D
  <2> QED BY <1>1, <1>5, <1>6, <1>7, SMTT(30) DEF LessAt
<1> QED BY <1>8, LessPointwise

Complement(s) == [i \in 1..Len(s) |-> Base - 1 - s[i]]

LEMMA ComplementReverses ==
  ASSUME NEW s \in Seq(Int), NEW t \in Seq(Int), Below(s, t)
  PROVE  Below(Complement(t), Complement(s))
<1>1. PICK p \in Nat : /\ p + 1 <= Len(s) /\ p + 1 <= Len(t) /\ s[p + 1] < t[p + 1]
                       /\ \A i \in 1..p : s[i] <= t[i]
  BY DEF Below
<1>2. Base \in Int
  BY WidthAssumption
<1>3. \A i \in 1..p + 1 :
        /\ s[i] \in Int /\ t[i] \in Int
        /\ Complement(s)[i] = Base - 1 - s[i] /\ Complement(t)[i] = Base - 1 - t[i]
  BY <1>1, SMTT(30) DEF Complement
<1>4. Len(Complement(s)) = Len(s) /\ Len(Complement(t)) = Len(t)
  BY DEF Complement
<1>5. Complement(t)[p + 1] < Complement(s)[p + 1]
  BY <1>1, <1>2, <1>3
<1>6. ASSUME NEW i \in 1..p PROVE Complement(t)[i] <= Complement(s)[i]
  <2>1. i \in 1..p + 1 /\ s[i] <= t[i]
    BY <1>1
  <2> QED BY <1>2, <1>3, <2>1
<1> QED BY <1>1, <1>4, <1>5, <1>6 DEF Below

LEMMA ComplementIsSeq ==
  ASSUME NEW s \in Seq(Int)
  PROVE  Complement(s) \in Seq(Int)
<1>1. Base \in Int /\ Len(s) \in Nat
  BY WidthAssumption
<1>2. \A i \in 1..Len(s) : Base - 1 - s[i] \in Int
  BY <1>1
<1> QED BY <1>1, <1>2 DEF Complement

LEMMA BelowBehind ==
  ASSUME NEW h \in Seq(Int), NEW s \in Seq(Int), NEW t \in Seq(Int), Below(s, t)
  PROVE  Below(h \o s, h \o t)
<1>1. PICK p \in Nat : /\ p + 1 <= Len(s) /\ p + 1 <= Len(t) /\ s[p + 1] < t[p + 1]
                       /\ \A i \in 1..p : s[i] <= t[i]
  BY DEF Below
<1>2. PICK n \in Nat : n = Len(h)
  OBVIOUS
<1>3. /\ Len(h \o s) = n + Len(s) /\ Len(h \o t) = n + Len(t)
      /\ \A i \in 1..n : (h \o s)[i] = h[i] /\ (h \o t)[i] = h[i] /\ h[i] \in Int
      /\ \A i \in 1..Len(s) : (h \o s)[n + i] = s[i]
      /\ \A i \in 1..Len(t) : (h \o t)[n + i] = t[i]
  BY <1>2
<1>4. PICK m \in Nat : m = n + p
  OBVIOUS
<1>5. m + 1 <= Len(h \o s) /\ m + 1 <= Len(h \o t)
  BY <1>1, <1>3, <1>4, SMTT(30)
<1>6. (h \o s)[m + 1] < (h \o t)[m + 1]
  <2>1. m + 1 = n + (p + 1) /\ p + 1 \in 1..Len(s) /\ p + 1 \in 1..Len(t)
    BY <1>1, <1>4
  <2>2. (h \o s)[n + (p + 1)] = s[p + 1] /\ (h \o t)[n + (p + 1)] = t[p + 1]
    BY <1>3, <2>1
  <2> QED BY <1>1, <2>1, <2>2
<1>7. ASSUME NEW i \in 1..m PROVE (h \o s)[i] <= (h \o t)[i]
  <2>1. CASE i \in 1..n
    BY <1>3, <2>1
  <2>2. CASE i \notin 1..n
    <3>1. PICK j \in 1..p : i = n + j
      <4>1. i - n \in 1..p /\ i = n + (i - n)
        BY <1>4, <2>2
      <4> QED BY <4>1
    <3>2. j \in 1..Len(s) /\ j \in 1..Len(t)
      BY <1>1
    <3> QED BY <1>1, <1>3, <3>1, <3>2
  <2> QED BY <2>1, <2>2
<1> QED BY <1>5, <1>6, <1>7 DEF Below

LEMMA GroupFacts == Group \in Nat /\ 0 < Group /\ Base \in Nat /\ Group + 1 < Base
BY WidthAssumption

\* Where group g begins in a key, and in a text.
Place(g) == Product(g, Group + 1)

First(g) == Product(g, Group)

\* What AppendEscaped writes at place r of group g of a text that is not empty.
Cell(s, g, r) ==
  LET rest  == Len(s) - First(g)
      count == IF rest < Group THEN rest ELSE Group
  IN  IF r < count THEN s[First(g) + r + 1]
      ELSE IF r < Group THEN 0
      ELSE IF First(g + 1) < Len(s) THEN Base - 1 ELSE count

GroupsOf(s) == (Len(s) + Group - 1) \div Group

LEMMA GroupCount ==
  ASSUME NEW s, Len(s) \in Nat, Len(s) # 0
  PROVE  /\ GroupsOf(s) \in Nat /\ 0 < GroupsOf(s)
         /\ \A g \in Nat : First(g) \in Nat /\ (g < GroupsOf(s) <=> First(g) < Len(s))
<1>1. PICK d \in Nat, n \in Nat, m \in Nat : d = Group /\ 0 < d /\ n = Len(s) /\ 0 < n /\ m = n + d - 1
  BY GroupFacts
<1>2. PICK q \in Nat, r \in 0..d - 1 : q = m \div d /\ r = m % d /\ m = Product(q, d) + r
  BY <1>1, Divided, ZenonT(60)
<1>3. PICK k \in Nat : k = Product(q, d) /\ n <= k /\ k < n + d
  <2>1. Product(q, d) \in Nat
    BY ProductStep
  <2> QED BY <1>1, <1>2, <2>1, SMTT(30)
<1>4. 0 < q
  <2>1. Product(0, d) = 0
    BY ProductStep
  <2> QED BY <1>1, <1>3, <2>1
<1>5. ASSUME NEW g \in Nat
      PROVE  Product(g, d) \in Nat /\ (g < q <=> Product(g, d) < n)
  <2>1. Product(g, d) \in Nat
    BY ProductStep
  <2>2. CASE g < q
    <3>1. Product(g, d) + d <= k
      BY <1>3, <2>2, ProductGrows
    <3> QED BY <1>3, <2>1, <2>2, <3>1
  <2>3. CASE q < g
    <3>1. k + d <= Product(g, d)
      BY <1>3, <2>3, ProductGrows
    <3> QED BY <1>1, <1>3, <2>1, <2>3, <3>1
  <2>4. CASE q = g
    BY <1>3, <2>1, <2>4
  <2> QED BY <2>2, <2>3, <2>4
<1>6. q = GroupsOf(s)
  BY <1>1, <1>2 DEF GroupsOf
<1> QED BY <1>1, <1>4, <1>5, <1>6 DEF First

\* Every byte that is written is one cell.
LEMMA EscapedCells ==
  ASSUME NEW s \in Seq(Int), s # <<>>
  PROVE  /\ Len(Escaped(s)) = Place(GroupsOf(s)) /\ DOMAIN Escaped(s) = 1..Place(GroupsOf(s))
         /\ \A g \in Nat, r \in 0..Group : First(g) < Len(s) =>
              /\ Place(g) + r + 1 \in 1..Place(GroupsOf(s))
              /\ Escaped(s)[Place(g) + r + 1] = Cell(s, g, r)
<1>1. PICK w \in Nat, n \in Nat : w = Group + 1 /\ 0 < w /\ n = GroupsOf(s)
  <2>1. Len(s) \in Nat /\ Len(s) # 0
    OBVIOUS
  <2>2. PICK n \in Nat : n = GroupsOf(s)
    BY <2>1, GroupCount
  <2>3. PICK w \in Nat : w = Group + 1 /\ 0 < w
    BY GroupFacts
  <2> QED BY <2>2, <2>3
<1>2. PICK m \in Nat : m = Product(n, w) /\ m = Place(GroupsOf(s))
  BY <1>1, ProductStep DEF Place
<1> DEFINE at(i) ==
             LET g     == (i - 1) \div (Group + 1)
                 r     == (i - 1) % (Group + 1)
                 count == IF Len(s) - g * Group < Group THEN Len(s) - g * Group ELSE Group
             IN  IF r < count THEN s[g * Group + r + 1]
                 ELSE IF r < Group THEN 0
                 ELSE IF (g + 1) * Group < Len(s) THEN Base - 1 ELSE count
<1>3. Escaped(s) = [i \in 1..m |-> at(i)]
  <2>1. m = ((Len(s) + Group - 1) \div Group) * (Group + 1)
    BY <1>2 DEF Place, GroupsOf, Product
  <2>2. Escaped(s) = [i \in 1..((Len(s) + Group - 1) \div Group) * (Group + 1) |-> at(i)]
    BY DEF Escaped
  <2> HIDE DEF at
  <2> QED BY <2>1, <2>2
<1>4. \A g, r, i : (i - 1) \div w = g /\ (i - 1) % w = r => at(i) = Cell(s, g, r)
  BY <1>1 DEF Cell, First, Product
<1> HIDE DEF at
<1>5. Len(Escaped(s)) = m /\ DOMAIN Escaped(s) = 1..m
  BY <1>3
<1>6. ASSUME NEW g \in Nat, NEW r \in 0..Group, First(g) < Len(s)
      PROVE  /\ Place(g) + r + 1 \in 1..m
             /\ Escaped(s)[Place(g) + r + 1] = Cell(s, g, r)
  <2>1. g < n
    <3>1. Len(s) \in Nat /\ Len(s) # 0
      OBVIOUS
    <3> QED BY <1>1, <1>6, <3>1, GroupCount
  <2>2. r \in 0..w - 1 /\ r \in Nat
    BY <1>1, GroupFacts
  <2>3. PICK k \in Nat : k = Product(g, w) /\ k = Place(g) /\ k + w <= m
    <3>1. Product(g, w) \in Nat /\ Product(g, w) + w <= Product(n, w)
      BY <1>1, <2>1, ProductGrows
    <3> QED BY <1>1, <1>2, <3>1 DEF Place
  <2>4. PICK i \in Nat, j \in Nat : j = k + r /\ i = k + r + 1 /\ i - 1 = j
    BY <2>2
  <2>5. i \in 1..m
    <3>1. r < w /\ r \in Nat
      BY <1>1, <2>2
    <3>2. k + w <= m
      BY <2>3
    <3>3. i = k + r + 1
      BY <2>4
    <3>4. 1 <= i /\ i <= m
      BY <3>1, <3>2, <3>3
    <3> QED BY <3>4
  <2>6. j \div w = g /\ j % w = r
    <3>1. j = Product(g, w) + r
      BY <2>3, <2>4
    <3> QED BY <2>2, <3>1, QuotientUnique
  <2>7. Escaped(s)[i] = at(i)
    BY <1>3, <2>5
  <2>8. at(i) = Cell(s, g, r)
    BY <1>4, <2>4, <2>6
  <2> QED BY <2>3, <2>4, <2>5, <2>7, <2>8
<1> QED BY <1>2, <1>5, <1>6

\* Every place of the key is in some group.
LEMMA PlaceInGroup ==
  ASSUME NEW s \in Seq(Int), s # <<>>, NEW i \in 1..Place(GroupsOf(s))
  PROVE  \E g \in Nat, r \in 0..Group : i = Place(g) + r + 1 /\ First(g) < Len(s)
<1>1. PICK w \in Nat, n \in Nat : w = Group + 1 /\ 0 < w /\ n = GroupsOf(s)
  <2>1. Len(s) \in Nat /\ Len(s) # 0
    OBVIOUS
  <2>2. PICK n \in Nat : n = GroupsOf(s)
    BY <2>1, GroupCount
  <2>3. PICK w \in Nat : w = Group + 1 /\ 0 < w
    BY GroupFacts
  <2> QED BY <2>2, <2>3
<1>2. PICK m \in Nat : m = Product(n, w) /\ m = Place(GroupsOf(s))
  BY <1>1, ProductStep DEF Place
<1>3. PICK j \in Nat : j = i - 1 /\ j < m
  BY <1>2
<1>4. PICK g \in Nat, r \in 0..w - 1 : g = j \div w /\ r = j % w /\ j = Product(g, w) + r
  BY <1>1, Divided
<1>5. PICK k \in Nat : k = Product(g, w)
  BY ProductStep
<1>6. g < n
  <2>1. j = k + r /\ j < m
    BY <1>3, <1>4, <1>5
  <2>2. CASE n = g
    <3>1. m = k
      BY <1>2, <1>5, <2>2
    <3> QED BY <2>1, <3>1
  <2>3. CASE n < g
    <3>1. m + w <= k
      BY <1>1, <1>2, <1>5, <2>3, ProductGrows
    <3> QED BY <2>1, <3>1
  <2> QED BY <2>2, <2>3
<1>7. First(g) < Len(s)
  <2>1. Len(s) \in Nat /\ Len(s) # 0
    OBVIOUS
  <2> QED BY <1>1, <1>6, <2>1, GroupCount
<1>8. r \in 0..Group /\ k = Place(g) /\ i = k + r + 1
  <2>1. r \in 0..Group
    BY <1>1, GroupFacts
  <2>2. k = Place(g)
    BY <1>1, <1>5 DEF Place
  <2>3. i = k + r + 1
    BY <1>3, <1>4, <1>5
  <2> QED BY <2>1, <2>2, <2>3
<1> QED BY <1>7, <1>8

\* What the cells hold: the bytes of the text, zeroes behind its end, and in the
\* marker whether more groups follow, or how long the last one is.
LEMMA Cells ==
  ASSUME NEW s, Len(s) \in Nat, NEW g \in Nat, First(g) < Len(s)
  PROVE  /\ \A r \in 0..Group - 1 :
              Cell(s, g, r) = IF First(g) + r < Len(s) THEN s[First(g) + r + 1] ELSE 0
         /\ Cell(s, g, Group) = IF First(g + 1) < Len(s) THEN Base - 1 ELSE Len(s) - First(g)
<1>1. PICK n \in Nat, d \in Nat, f \in Nat : n = Len(s) /\ d = Group /\ 0 < d /\ f = First(g)
  <2>1. First(g) \in Nat
    BY ProductStep, GroupFacts DEF First
  <2> QED BY <2>1, GroupFacts
<1>2. First(g + 1) = f + d
  BY <1>1, ProductStep DEF First
<1>3. f < n
  BY <1>1
<1>4. ASSUME NEW r \in 0..d - 1
      PROVE  Cell(s, g, r) = IF f + r < n THEN s[f + r + 1] ELSE 0
  <2>1. CASE n - f < d
    <3>1. Cell(s, g, r) = IF r < n - f THEN s[f + r + 1] ELSE 0
      BY <1>1, <2>1 DEF Cell
    <3>2. r < n - f <=> f + r < n
      OBVIOUS
    <3> QED BY <3>1, <3>2
  <2>2. CASE ~(n - f < d)
    <3>1. Cell(s, g, r) = s[f + r + 1]
      BY <1>1, <2>2 DEF Cell
    <3>2. f + r < n
      BY <2>2
    <3> QED BY <3>1, <3>2
  <2> QED BY <2>1, <2>2
<1>5. Cell(s, g, d) = IF f + d < n THEN Base - 1 ELSE n - f
  <2>1. CASE n - f < d
    <3>1. Cell(s, g, d) = IF First(g + 1) < n THEN Base - 1 ELSE n - f
      BY <1>1, <2>1 DEF Cell
    <3> QED BY <1>2, <3>1
  <2>2. CASE ~(n - f < d)
    <3>1. Cell(s, g, d) = IF First(g + 1) < n THEN Base - 1 ELSE d
      BY <1>1, <2>2 DEF Cell
    <3>2. ~(f + d < n) => d = n - f
      BY <2>2
    <3> QED BY <1>2, <3>1, <3>2
  <2> QED BY <2>1, <2>2
<1> QED BY <1>1, <1>2, <1>4, <1>5

LEMMA BelowAtCell ==
  ASSUME NEW s \in Seq(Int), NEW t \in Seq(Int), s # <<>>, t # <<>>, NEW g \in Nat,
         NEW r \in 0..Group, First(g) < Len(s), First(g) < Len(t), Cell(s, g, r) < Cell(t, g, r),
         \A h \in Nat, c \in 0..Group :
           First(h) < Len(s) /\ (h < g \/ (h = g /\ c < r)) => Cell(s, h, c) <= Cell(t, h, c)
  PROVE  Below(Escaped(s), Escaped(t))
<1>1. PICK w \in Nat : w = Group + 1 /\ r < w /\ r \in Nat
  BY GroupFacts
<1>0. ASSUME NEW h \in Nat PROVE Place(h) \in Nat
  <2>1. Product(h, w) \in Nat
    BY ProductStep
  <2> QED BY <1>1, <2>1 DEF Place
<1>2. PICK k \in Nat : k = Place(g)
  BY <1>0
<1>2p. PICK p \in Nat : p = k + r
  BY <1>1, <1>2
<1>3. /\ p + 1 \in 1..Len(Escaped(s)) /\ Escaped(s)[p + 1] = Cell(s, g, r)
      /\ p + 1 \in 1..Len(Escaped(t)) /\ Escaped(t)[p + 1] = Cell(t, g, r)
  <2>1. Place(g) + r + 1 = p + 1
    BY <1>2, <1>2p
  <2> QED BY <2>1, EscapedCells
<1>4. ASSUME NEW i \in 1..p PROVE Escaped(s)[i] <= Escaped(t)[i]
  <2>1. i \in 1..Place(GroupsOf(s))
    <3>1. PICK m \in Nat : m = Len(Escaped(s))
      BY <1>3
    <3>2. p + 1 <= m
      BY <1>3, <3>1
    <3>3. i \in 1..m
      BY <3>2
    <3>4. m = Place(GroupsOf(s))
      BY <3>1, EscapedCells
    <3> QED BY <3>3, <3>4
  <2>2. PICK h \in Nat, c \in 0..Group : i = Place(h) + c + 1 /\ First(h) < Len(s)
    BY <2>1, PlaceInGroup
  <2>3. PICK l \in Nat : l = Place(h)
    BY <1>0
  <2>3i. i = l + c + 1 /\ c \in Nat
    BY <2>2, <2>3, GroupFacts
  <2>4. l + c + 1 <= k + r
    BY <1>1, <1>2p, <2>3i
  <2>5. h < g \/ (h = g /\ c < r)
    <3>1. CASE h = g
      <4>1. l = k
        BY <1>2, <2>3, <3>1
      <4> QED BY <1>1, <2>3i, <2>4, <3>1, <4>1
    <3>2. CASE g < h
      <4>1. Product(g, w) + w <= Product(h, w)
        BY <3>2, ProductGrows
      <4>2. k + w <= l
        BY <1>1, <1>2, <2>3, <4>1 DEF Place
      <4> QED BY <1>1, <2>3i, <2>4, <4>2
    <3> QED BY <3>1, <3>2
  <2>6. First(h) < Len(t)
    <3>1. CASE h = g
      BY <3>1
    <3>2. CASE h < g
      <4>1. First(h) \in Nat /\ First(g) \in Nat /\ First(h) + Group <= First(g)
        BY <3>2, ProductGrows, GroupFacts DEF First
      <4>2. Len(t) \in Nat
        OBVIOUS
      <4> QED BY <4>1, <4>2, GroupFacts
    <3> QED BY <2>5, <3>1, <3>2
  <2>7. Escaped(s)[i] = Cell(s, h, c) /\ Escaped(t)[i] = Cell(t, h, c)
    BY <2>2, <2>6, EscapedCells
  <2> QED BY <2>2, <2>5, <2>7
<1>5. Escaped(s)[p + 1] < Escaped(t)[p + 1]
  BY <1>3
<1>6. p + 1 <= Len(Escaped(s)) /\ p + 1 <= Len(Escaped(t))
  BY <1>3
<1> QED BY <1>4, <1>5, <1>6 DEF Below

\* The bytes of a key or a text.
Bytes == 0..Base - 1

LEMMA BytesAreNumbers ==
  ASSUME NEW s \in Seq(Bytes)
  PROVE  /\ s \in Seq(Int) /\ Len(s) \in Nat
         /\ \A i \in 1..Len(s) : s[i] \in Int /\ 0 <= s[i] /\ s[i] <= Base - 1
<1>1. \A i \in 1..Len(s) : s[i] \in Bytes
  OBVIOUS
<1>2. Bytes \subseteq Int /\ \A b \in Bytes : 0 <= b /\ b <= Base - 1
  BY WidthAssumption DEF Bytes
<1>3. s \in [1..Len(s) -> Bytes] /\ Len(s) \in Nat
  OBVIOUS
<1>4. s \in Seq(Int)
  <2>1. s \in [1..Len(s) -> Int]
    BY <1>2, <1>3
  <2> QED BY <1>3, <2>1
<1> QED BY <1>1, <1>2, <1>4

\* Of two texts the key of the lesser one, if it is not empty, is below.
LEMMA EscapedBelow ==
  ASSUME NEW s \in Seq(Bytes), NEW t \in Seq(Bytes), s # <<>>, NEW k \in 0..Len(s), LessAt(s, t, k)
  PROVE  Below(Escaped(s), Escaped(t))
<1>1. PICK n \in Nat, m \in Nat, d \in Nat : n = Len(s) /\ m = Len(t) /\ d = Group /\ 0 < d /\ 0 < n
  BY GroupFacts
<1>2. s \in Seq(Int) /\ t \in Seq(Int)
  BY BytesAreNumbers
<1>2a. k \in Nat /\ k <= n /\ k < m
  BY <1>1 DEF LessAt
<1>2b. \A i \in 1..k : s[i] = t[i]
  BY DEF LessAt
<1>2c. k < n => s[k + 1] < t[k + 1]
  BY <1>1 DEF LessAt
<1>3. t # <<>>
  BY <1>1, <1>2a
<1>4. \A i \in 1..n : s[i] \in Int
  BY <1>1, <1>2
<1>5. \A i \in 1..m : t[i] \in Int /\ 0 <= t[i]
  BY <1>1, BytesAreNumbers
<1>6. ASSUME NEW g \in Nat PROVE First(g) \in Nat /\ First(g + 1) = First(g) + d
  BY <1>1, ProductStep DEF First
<1>c. ASSUME NEW g \in Nat, NEW f \in Nat, f = First(g), NEW x \in {s, t}, f < Len(x)
      PROVE  /\ \A r \in 0..d - 1 : Cell(x, g, r) = IF f + r < Len(x) THEN x[f + r + 1] ELSE 0
             /\ Cell(x, g, d) = IF f + d < Len(x) THEN Base - 1 ELSE Len(x) - f
  <2>1. Len(x) \in Nat /\ First(g) < Len(x)
    BY <1>1, <1>c
  <2>2. First(g + 1) = f + d
    BY <1>6, <1>c
  <2>3. /\ \A r \in 0..Group - 1 :
             Cell(x, g, r) = IF First(g) + r < Len(x) THEN x[First(g) + r + 1] ELSE 0
        /\ Cell(x, g, Group) = IF First(g + 1) < Len(x) THEN Base - 1 ELSE Len(x) - First(g)
    BY <2>1, Cells
  <2> QED BY <1>1, <1>c, <2>2, <2>3
\* Before a group that begins at most at k, there is no difference.
<1>7. ASSUME NEW g \in Nat, NEW e \in Nat, e = First(g), e <= k, e < n,
             NEW h \in Nat, h < g, NEW c \in 0..d
      PROVE  Cell(s, h, c) <= Cell(t, h, c)
  <2>1. PICK f \in Nat : f = First(h)
    BY <1>6
  <2>2. f + d <= e
    <3>1. Product(h, d) + d <= Product(g, d)
      BY <1>7, ProductGrows
    <3> QED BY <1>1, <1>7, <2>1, <3>1 DEF First
  <2>2a. f + d <= k /\ f + d < n /\ f + d < m /\ f < n /\ f < m
    BY <1>1, <1>2a, <1>7, <2>2
  <2>3. CASE c = d
    <3>1. Cell(s, h, d) = Base - 1 /\ Cell(t, h, d) = Base - 1
      BY <1>1, <1>c, <2>1, <2>2a
    <3> QED BY <2>3, <3>1, GroupFacts
  <2>4. CASE c \in 0..d - 1
    <3>1. f + c < n /\ f + c < m /\ f + c + 1 \in 1..k
      BY <2>2a, <2>4
    <3>2. Cell(s, h, c) = s[f + c + 1] /\ Cell(t, h, c) = t[f + c + 1]
      BY <1>1, <1>c, <2>1, <2>2a, <2>4, <3>1
    <3>3. s[f + c + 1] = t[f + c + 1] /\ t[f + c + 1] \in Int
      BY <1>2b, <1>5, <1>2a, <3>1
    <3> QED BY <3>2, <3>3
  <2> QED BY <2>3, <2>4
<1>d. ASSUME NEW j \in Nat
      PROVE  \E g \in Nat, f \in Nat, r \in 0..d - 1 : f = First(g) /\ j = f + r
  <2>1. PICK g \in Nat, r \in 0..d - 1 : g = j \div d /\ r = j % d /\ j = Product(g, d) + r
    BY <1>1, Divided
  <2>2. PICK f \in Nat : f = First(g)
    BY <1>6
  <2>3. j = f + r
    BY <1>1, <2>1, <2>2 DEF First
  <2> QED BY <2>2, <2>3
<1>8. CASE k < n
  <2>1. PICK g \in Nat, f \in Nat, r \in 0..d - 1 : f = First(g) /\ k = f + r
    BY <1>2a, <1>d
  <2>2. f <= k /\ f < n /\ f < m
    BY <1>1, <1>2a, <1>8, <2>1
  <2>4. ASSUME NEW c \in 0..r
        PROVE  /\ f + c < n /\ f + c < m /\ c \in 0..d - 1
               /\ Cell(s, g, c) = s[f + c + 1] /\ Cell(t, g, c) = t[f + c + 1]
    <3>1. f + c < n /\ f + c < m /\ c \in 0..d - 1
      BY <1>1, <1>2a, <1>8, <2>1
    <3> QED BY <1>1, <1>c, <2>1, <2>2, <3>1
  <2>5. Cell(s, g, r) < Cell(t, g, r)
    <3>1. Cell(s, g, r) = s[k + 1] /\ Cell(t, g, r) = t[k + 1]
      BY <2>1, <2>4, SMTT(30)
    <3> QED BY <1>2c, <1>8, <3>1
  <2>6. ASSUME NEW h \in Nat, NEW c \in 0..Group, h < g \/ (h = g /\ c < r)
        PROVE  Cell(s, h, c) <= Cell(t, h, c)
    <3>1. CASE h < g
      <4>1. Cell(s, h, c) <= Cell(t, h, c)
        BY <1>1, <1>7, <2>1, <2>2, <3>1
      <4> QED BY <4>1
    <3>2. CASE h = g /\ c < r
      <4>1. c \in 0..r
        BY <1>1, <3>2
      <4>2. f + c + 1 \in 1..k /\ f + c + 1 \in 1..m
        BY <1>2a, <1>1, <2>1, <3>2, <4>1, SMTT(30)
      <4>3. Cell(s, g, c) = t[f + c + 1] /\ Cell(t, g, c) = t[f + c + 1]
        BY <1>2b, <2>4, <4>1, <4>2
      <4>4. t[f + c + 1] \in Int
        BY <1>5, <4>2
      <4> QED BY <3>2, <4>3, <4>4
    <3> QED BY <2>6, <3>1, <3>2
  <2>7. First(g) < Len(s) /\ First(g) < Len(t) /\ r \in 0..Group
    BY <1>1, <2>1, <2>2
  <2> QED BY <1>2, <1>3, <2>5, <2>6, <2>7, BelowAtCell
<1>9. CASE k = n
  <2>0. PICK j \in Nat : j = n - 1 /\ n = j + 1
    BY <1>1
  <2>1. PICK g \in Nat, f \in Nat, r \in 0..d - 1 : f = First(g) /\ j = f + r
    BY <1>d
  <2>2. f <= k /\ f < n /\ f < m /\ ~(f + d < n)
    BY <1>1, <1>2a, <1>9, <2>0, <2>1
  <2>3. Cell(s, g, d) = n - f
    BY <1>1, <1>c, <2>1, <2>2
  <2>3a. n - f <= d
    BY <1>1, <2>0, <2>1, SMTT(30)
  <2>4. Cell(s, g, d) < Cell(t, g, d)
    <3>1. Cell(t, g, d) = IF f + d < m THEN Base - 1 ELSE m - f
      BY <1>1, <1>c, <2>1, <2>2
    <3>2. d < Base - 1 /\ Base - 1 \in Int
      BY <1>1, GroupFacts
    <3> QED BY <1>1, <1>2a, <1>9, <2>2, <2>3, <2>3a, <3>1, <3>2
  <2>5. ASSUME NEW h \in Nat, NEW c \in 0..Group, h < g \/ (h = g /\ c < d)
        PROVE  Cell(s, h, c) <= Cell(t, h, c)
    <3>1. CASE h < g
      <4>1. Cell(s, h, c) <= Cell(t, h, c)
        BY <1>1, <1>7, <2>1, <2>2, <3>1
      <4> QED BY <4>1
    <3>2. CASE h = g /\ c < d
      <4>1. c \in 0..d - 1
        BY <1>1, <3>2
      <4>2. Cell(s, g, c) = IF f + c < n THEN s[f + c + 1] ELSE 0
        <5>1. f < Len(s)
          BY <1>1, <2>2
        <5>2. Cell(s, g, c) = IF f + c < Len(s) THEN s[f + c + 1] ELSE 0
          BY <1>c, <2>1, <4>1, <5>1, SMTT(30)
        <5> QED BY <1>1, <5>2
      <4>2t. Cell(t, g, c) = IF f + c < m THEN t[f + c + 1] ELSE 0
        <5>1. f < Len(t)
          BY <1>1, <2>2
        <5>2. Cell(t, g, c) = IF f + c < Len(t) THEN t[f + c + 1] ELSE 0
          BY <1>c, <2>1, <4>1, <5>1, SMTT(30)
        <5> QED BY <1>1, <5>2
      <4>3. CASE f + c < n
        <5>1. f + c + 1 \in 1..k /\ f + c + 1 \in 1..m /\ f + c < m
          BY <1>1, <1>2a, <1>9, <2>1, <4>1, <4>3, SMTT(30)
        <5>2. Cell(s, g, c) = t[f + c + 1] /\ Cell(t, g, c) = t[f + c + 1] /\ t[f + c + 1] \in Int
          BY <1>2b, <1>5, <4>2, <4>2t, <4>3, <5>1
        <5> QED BY <3>2, <5>2
      <4>4. CASE ~(f + c < n)
        <5>1. Cell(s, g, c) = 0
          BY <4>2, <4>4
        <5>2. f + c < m => f + c + 1 \in 1..m
          BY <1>1, <4>1
        <5>3. Cell(t, g, c) \in Int /\ 0 <= Cell(t, g, c)
          BY <1>5, <4>2t, <5>2
        <5> QED BY <3>2, <5>1, <5>3
      <4> QED BY <4>3, <4>4
    <3> QED BY <2>5, <3>1, <3>2
  <2>6. First(g) < Len(s) /\ First(g) < Len(t) /\ d \in 0..Group
    BY <1>1, <2>1, <2>2
  <2> QED BY <1>1, <1>2, <1>3, <2>4, <2>5, <2>6, BelowAtCell
<1> QED BY <1>1, <1>2a, <1>8, <1>9

LEMMA EscapedIsSeq ==
  ASSUME NEW s \in Seq(Int)
  PROVE  Escaped(s) \in Seq(Int)
<1>1. CASE s = <<>>
  BY <1>1 DEF Escaped
<1>2. CASE s # <<>>
  <2>1. PICK m \in Nat : m = Len(Escaped(s)) /\ m = Place(GroupsOf(s)) /\ DOMAIN Escaped(s) = 1..m
    <3>1. Len(s) \in Nat /\ Len(s) # 0
      BY <1>2
    <3>2. GroupsOf(s) \in Nat /\ Group + 1 \in Nat
      BY <3>1, GroupCount, GroupFacts
    <3>3. Place(GroupsOf(s)) \in Nat
      BY <3>2, ProductStep DEF Place
    <3> QED BY <1>2, <3>3, EscapedCells
  <2>2. ASSUME NEW i \in 1..m PROVE Escaped(s)[i] \in Int
    <3>1. PICK g \in Nat, r \in 0..Group : i = Place(g) + r + 1 /\ First(g) < Len(s)
      BY <1>2, <2>1, PlaceInGroup
    <3>2. Escaped(s)[i] = Cell(s, g, r)
      BY <1>2, <3>1, EscapedCells
    <3>3f. First(g) \in Nat
      BY ProductStep, GroupFacts DEF First
    <3>3. PICK f \in Nat, n \in Nat : f = First(g) /\ n = Len(s)
      BY <3>3f
    <3>4. CASE r = Group
      <4>1. Cell(s, g, Group) \in {Base - 1, n - f}
        BY <3>1, <3>3, Cells
      <4> QED BY <3>2, <3>3, <3>4, <4>1, GroupFacts
    <3>5. CASE r # Group
      <4>1. r \in 0..Group - 1
        BY <3>5, GroupFacts
      <4>2. Cell(s, g, r) = IF f + r < n THEN s[f + r + 1] ELSE 0
        BY <3>1, <3>3, <4>1, Cells
      <4>3. f + r < n => f + r + 1 \in 1..Len(s)
        BY <3>3, <4>1, GroupFacts
      <4> QED BY <3>2, <4>2, <4>3
    <3> QED BY <3>4, <3>5
  <2>3. \E F : Escaped(s) = [i \in 1..m |-> F[i]]
    <3>1. Escaped(s) = [i \in 1..m |-> Escaped(s)[i]]
      <4>1. Escaped(s) = [i \in DOMAIN Escaped(s) |-> Escaped(s)[i]]
        BY <1>2 DEF Escaped
      <4> QED BY <2>1, <4>1
    <3> QED BY <3>1
  <2>4. Escaped(s) \in [1..m -> Int]
    BY <2>1, <2>2, <2>3
  <2> QED BY <2>4
<1> QED BY <1>1, <1>2

\* Above the last exact INTEGER, rounding may take two of them for the same
\* REAL, but it never changes their order.
LEMMA RoundingKeepsOrder ==
  ASSUME NEW n \in Int, NEW k \in Int, Rounded(n) < Rounded(k)
  PROVE  n < k
<1>1. PICK m \in Nat : m = Mantissa
  BY HalfFacts
<1>2. SUFFICES ASSUME k <= n PROVE Rounded(k) <= Rounded(n)
  BY DEF Rounded
<1>3. PICK q \in Int : q = n \div 2 /\ (n = 2 * q \/ n = 2 * q + 1) /\ (n % 2 = 0 <=> n = 2 * q)
  OBVIOUS
<1>4. PICK p \in Int : p = k \div 2 /\ (k = 2 * p \/ k = 2 * p + 1) /\ (k % 2 = 0 <=> k = 2 * p)
  OBVIOUS
<1>5. Rounded(n) = IF n \in -m..m \/ n = 2 * q THEN n ELSE IF q % 2 = 0 THEN 2 * q ELSE 2 * q + 2
  BY <1>1, <1>3 DEF Rounded
<1>6. Rounded(k) = IF k \in -m..m \/ k = 2 * p THEN k ELSE IF p % 2 = 0 THEN 2 * p ELSE 2 * p + 2
  BY <1>1, <1>4 DEF Rounded
<1>7. (q % 2 = 0 \/ q % 2 = 1) /\ (p % 2 = 0 \/ p % 2 = 1)
  OBVIOUS
<1>8. CASE k = n
  BY <1>5, <1>6, <1>3, <1>4, <1>8
<1>9. CASE k < n
  BY <1>2, <1>3, <1>4, <1>5, <1>6, <1>7, <1>9
<1> QED BY <1>2, <1>8, <1>9

LEMMA RealBits ==
  ASSUME NEW x \in 0..2 * Half - 1
  PROVE  /\ x < Half => x % Half = x
         /\ Half <= x => x % Half = x - Half
<1>1. PICK h \in Nat : h = Half /\ h > 0
  BY HalfFacts
<1>2. ASSUME x < h PROVE x % h = x
  <2>1. x \in 0..h - 1 /\ 0 \in Nat
    BY <1>1, <1>2
  <2>2. \A n : n = Product(0, h) + x => n % h = x
    BY <2>1, QuotientUnique
  <2>3. Product(0, h) + x = x
    BY <2>1 DEF Product
  <2> QED BY <2>2, <2>3
<1>3. ASSUME h <= x PROVE x % h = x - h
  <2>1. PICK y \in 0..h - 1 : x = h + y
    <3>1. x - h \in 0..h - 1 /\ x = h + (x - h)
      BY <1>1, <1>3
    <3> QED BY <3>1
  <2>2. x = Product(1, h) + y /\ 1 \in Nat
    BY <2>1 DEF Product
  <2>3. x % h = y
    BY <2>2, QuotientUnique
  <2> QED BY <2>1, <2>3
<1> QED BY <1>1, <1>2, <1>3

RealKey(x) == IF x >= Half THEN 2 * Half - 1 - x ELSE x + Half

\* The bits of a REAL, with all of them flipped if it is negative and the sign
\* alone otherwise, are in its order.
LEMMA RealKeyOrder ==
  ASSUME NEW x \in 0..2 * Half - 1, NEW y \in 0..2 * Half - 1, AsReal(x) < AsReal(y)
  PROVE  RealKey(x) \in Nat /\ RealKey(y) \in Nat /\ RealKey(x) < RealKey(y)
<1>1. PICK h \in Nat, m \in Nat : h = Half /\ h > 0 /\ m = Mantissa
  BY HalfFacts
<1> DEFINE number(a) == IF a <= m THEN a ELSE m + 2 * (a - m)
<1>2. ASSUME NEW z \in 0..2 * h - 1
      PROVE  /\ z < h => AsReal(z) = number(z)
             /\ z >= h => AsReal(z) = -number(z - h)
             /\ RealKey(z) = IF z >= h THEN 2 * h - 1 - z ELSE z + h
  <2>1. CASE z < h
    BY <1>1, <2>1, RealBits DEF AsReal, RealKey
  <2>2. CASE z >= h
    BY <1>1, <2>2, RealBits DEF AsReal, RealKey
  <2> QED BY <2>1, <2>2
<1> QED BY <1>1, <1>2

\* The numbers in the keys are RealOrder, moved to where it is not negative.
LEMMA RealKeyShifted ==
  ASSUME NEW x \in 0..2 * Half - 1, NEW y \in 0..2 * Half - 1
  PROVE  /\ RealKey(x) \in Nat /\ RealKey(y) \in Nat
         /\ RealOrder(x) < RealOrder(y) <=> RealKey(x) < RealKey(y)
         /\ RealOrder(x) = RealOrder(y) <=> x = y
<1>1. PICK h \in Nat : h = Half /\ h > 0
  BY HalfFacts
<1>2. ASSUME NEW z \in 0..2 * h - 1
      PROVE  /\ RealKey(z) = IF z >= h THEN 2 * h - 1 - z ELSE z + h
             /\ RealOrder(z) = IF z >= h THEN h - 1 - z ELSE z
  BY <1>1 DEF RealKey, RealOrder
<1> QED BY <1>1, <1>2

LEMMA FirstByte ==
  ASSUME NEW s \in Seq(Int), s # <<>>
  PROVE  1 < Len(Escaped(s)) /\ Escaped(s)[1] = s[1]
<1>1. PICK d \in Nat, w \in Nat : d = Group /\ 0 < d /\ w = Group + 1 /\ w = d + 1
  <2>1. PICK d \in Nat : d = Group /\ 0 < d
    BY GroupFacts
  <2>2. d + 1 \in Nat
    OBVIOUS
  <2> QED BY <2>1, <2>2
<1>2. Product(0, d) = 0 /\ Product(0, w) = 0
  BY ProductStep
<1>3. First(0) = 0 /\ Place(0) = 0
  BY <1>1, <1>2 DEF First, Place
<1>4. PICK n \in Nat : n = Len(s) /\ 0 < n
  <2>1. Len(s) \in Nat /\ 0 < Len(s)
    OBVIOUS
  <2> QED BY <2>1
<1>5. 0 \in 0..Group /\ 0 \in 0..Group - 1 /\ 0 \in Nat /\ Group \in 0..Group
  BY <1>1
<1>6. First(0) < Len(s)
  BY <1>3, <1>4
<1>7. Cell(s, 0, 0) = s[1]
  <2>1. Cell(s, 0, 0) = IF First(0) + 0 < Len(s) THEN s[First(0) + 0 + 1] ELSE 0
    BY <1>4, <1>5, <1>6, Cells
  <2>2. First(0) + 0 < Len(s) /\ First(0) + 0 + 1 = 1
    BY <1>3, <1>4
  <2> QED BY <2>1, <2>2
<1>8. Escaped(s)[Place(0) + 0 + 1] = Cell(s, 0, 0)
  BY <1>5, <1>6, EscapedCells
<1>9. Place(0) + Group + 1 \in 1..Len(Escaped(s))
  BY <1>5, <1>6, EscapedCells
<1>10. Place(0) + 0 + 1 = 1 /\ Place(0) + Group + 1 = d + 1
  BY <1>1, <1>3
<1>11. 1 < Len(Escaped(s))
  <2>1. PICK m \in Nat : m = Len(Escaped(s))
    <3>1. Escaped(s) \in Seq(Int)
      BY EscapedIsSeq
    <3> QED BY <3>1
  <2> QED BY <1>1, <1>9, <1>10, <2>1
<1> QED BY <1>7, <1>8, <1>10, <1>11

LEMMA Joined ==
  ASSUME NEW h \in Seq(Int), NEW p \in Seq(Int)
  PROVE  /\ h \o p \in Seq(Int) /\ Len(h \o p) = Len(h) + Len(p)
         /\ \A i \in 1..Len(h) : (h \o p)[i] = h[i]
         /\ \A i \in 1..Len(p) : (h \o p)[Len(h) + i] = p[i]
<1>1. PICK n \in Nat : n = Len(h)
  OBVIOUS
<1>2. /\ Len(h \o p) = n + Len(p)
      /\ \A i \in 1..n : (h \o p)[i] = h[i]
      /\ \A i \in 1..Len(p) : (h \o p)[n + i] = p[i]
  BY <1>1
<1>3. h \o p \in Seq(Int)
  BY ConcatProperties
<1> QED BY <1>1, <1>2, <1>3

\* A key that is not NULL: its marker, its type, its payload.
LEMMA BehindHeader ==
  ASSUME NEW y \in Int, NEW p \in Seq(Int)
  PROVE  /\ <<1, y>> \o p \in Seq(Int) /\ Len(<<1, y>> \o p) = 2 + Len(p)
         /\ (<<1, y>> \o p)[1] = 1 /\ (<<1, y>> \o p)[2] = y
         /\ \A i \in 1..Len(p) : (<<1, y>> \o p)[2 + i] = p[i]
<1>1. <<1, y>> \in Seq(Int)
  OBVIOUS
<1>2. Len(<<1, y>>) = 2 /\ <<1, y>>[1] = 1 /\ <<1, y>>[2] = y
  OBVIOUS
<1>3. PICK h \in Seq(Int) : h = <<1, y>>
  BY <1>1
<1>4. Len(h) = 2 /\ h[1] = 1 /\ h[2] = y
  BY <1>2, <1>3
<1>5. /\ h \o p \in Seq(Int) /\ Len(h \o p) = Len(h) + Len(p)
      /\ \A i \in 1..Len(h) : (h \o p)[i] = h[i]
      /\ \A i \in 1..Len(p) : (h \o p)[Len(h) + i] = p[i]
  BY Joined
<1>6. h \o p \in Seq(Int) /\ Len(h \o p) = 2 + Len(p)
  BY <1>4, <1>5
<1>7. (h \o p)[1] = 1 /\ (h \o p)[2] = y
  <2>1. 1 \in 1..Len(h) /\ 2 \in 1..Len(h)
    BY <1>4
  <2> QED BY <1>4, <1>5, <2>1
<1>8. \A i \in 1..Len(p) : (h \o p)[2 + i] = p[i]
  BY <1>4, <1>5
<1> QED BY <1>3, <1>6, <1>7, <1>8

LEMMA BigEndianBelow ==
  ASSUME NEW u \in Nat, NEW w \in Nat, u < w
  PROVE  /\ BigEndian(u) \in Seq(Int) /\ BigEndian(w) \in Seq(Int)
         /\ Below(BigEndian(u), BigEndian(w))
<1>1. PICK d \in Nat : d = Base /\ 0 < d
  BY GroupFacts
<1>2. PICK q \in Int, r \in Int : q = u \div d /\ r = u % d
  BY <1>1
<1>3. PICK p \in Int, k \in Int : p = w \div d /\ k = w % d
  BY <1>1
<1>4. q < p \/ (q = p /\ r < k)
  BY <1>1, <1>2, <1>3, QuotientOrder
<1>5. BigEndian(u) = <<q, r>> /\ BigEndian(w) = <<p, k>>
  BY <1>1, <1>2, <1>3 DEF BigEndian
<1>6. Below(<<q, r>>, <<p, k>>)
  <2>1. CASE q < p
    <3>1. 0 \in Nat /\ 0 + 1 <= 2 /\ <<q, r>>[0 + 1] < <<p, k>>[0 + 1]
      BY <2>1
    <3>2. Len(<<q, r>>) = 2 /\ Len(<<p, k>>) = 2 /\ \A i \in 1..0 : <<q, r>>[i] <= <<p, k>>[i]
      OBVIOUS
    <3> QED BY <3>1, <3>2 DEF Below
  <2>2. CASE q = p /\ r < k
    <3>1. 1 \in Nat /\ 1 + 1 <= 2 /\ <<q, r>>[1 + 1] < <<p, k>>[1 + 1]
      BY <2>2
    <3>2. Len(<<q, r>>) = 2 /\ Len(<<p, k>>) = 2 /\ \A i \in 1..1 : <<q, r>>[i] <= <<p, k>>[i]
      BY <2>2
    <3> QED BY <3>1, <3>2 DEF Below
  <2> QED BY <1>4, <2>1, <2>2
<1> QED BY <1>5, <1>6

\* Below in the first byte, as NULL is below every value.
LEMMA BelowAtFirst ==
  ASSUME NEW s \in Seq(Int), NEW t \in Seq(Int), s # <<>>, t # <<>>, s[1] < t[1]
  PROVE  Below(s, t)
<1>1. 0 \in Nat /\ 0 + 1 <= Len(s) /\ 0 + 1 <= Len(t) /\ s[0 + 1] < t[0 + 1]
  OBVIOUS
<1>2. \A i \in 1..0 : s[i] <= t[i]
  OBVIOUS
<1> QED BY <1>1, <1>2 DEF Below

LEMMA PayloadIsSeq ==
  ASSUME NEW v, IsValue(v), InRange(v)
  PROVE  Payload(v) \in Seq(Int)
<1>1. v.type \in 0..5 /\ v.data \in Seq(Int) /\ (v.type \in {1, 2, 3} => v.data[1] \in Int)
  BY DEF IsValue
<1>2. PICK h \in Nat, d \in Nat : h = Half /\ d = Base /\ 0 < d
  BY HalfFacts, GroupFacts
<1>3. ASSUME NEW u \in Int PROVE BigEndian(u) \in Seq(Int)
  <2>1. u \div d \in Int /\ u % d \in Int
    BY <1>2
  <2> QED BY <1>2, <2>1 DEF BigEndian
<1>4. CASE v.type = 0 \/ v.type = 1
  BY <1>1, <1>4 DEF Payload, IsNull
<1>5. CASE v.type = 2
  <2>1. v.data[1] + Half \in Int
    BY <1>1, <1>2, <1>5
  <2> QED BY <1>3, <1>5, <2>1 DEF Payload, IsNull, AsInteger
<1>6. CASE v.type = 3
  <2>1. RealKey(v.data[1]) \in Int
    BY <1>1, <1>2, <1>6 DEF RealKey
  <2> QED BY <1>3, <1>6, <2>1 DEF Payload, IsNull, RealKey
<1>7. CASE v.type \in {4, 5}
  BY <1>1, <1>7, EscapedIsSeq DEF Payload, IsNull
<1> QED BY <1>1, <1>4, <1>5, <1>6, <1>7

\* What KeyOrdering is for two values of a type.
LEMMA OrderingByType ==
  ASSUME NEW a, NEW b, IsValue(a), a.type = b.type, KeyOrdering(a, b) = "lt"
  PROVE  /\ a.type # 0
         /\ a.type \notin {2, 3} => Compare(a, b) = "lt"
         /\ a.type = 2 => Compare(a, b) = "lt" \/ a.data[1] < b.data[1]
         /\ a.type = 3 => Compare(a, b) = "lt" \/ RealOrder(a.data[1]) < RealOrder(b.data[1])
<1>1. a.type \in 0..5
  BY DEF IsValue
<1>2. ~(a.type < b.type) /\ ~(b.type < a.type)
  BY <1>1
<1>3. a.type # 0
  BY <1>2 DEF KeyOrdering, IsNull, Sign
<1>4. ~IsNull(a) /\ ~IsNull(b)
  BY <1>3 DEF IsNull
<1> QED BY <1>3, <1>4 DEF KeyOrdering, Sign, AsInteger

\* Of two values of a type the payload of the lesser one is below, except for
\* an empty text and one that begins with a zero byte.
LEMMA PayloadBelow ==
  ASSUME NEW a, NEW b, IsValue(a), IsValue(b), InRange(a), InRange(b),
         a.type = b.type, KeyOrdering(a, b) = "lt", ~Prefixed(a, b)
  PROVE  Below(Payload(a), Payload(b))
<1>1. /\ a.type \in 0..5 /\ a.data \in Seq(Int) /\ (a.type \in {1, 2, 3} => Len(a.data) = 1 /\ a.data[1] \in Int)
      /\ b.type \in 0..5 /\ b.data \in Seq(Int) /\ (b.type \in {1, 2, 3} => Len(b.data) = 1 /\ b.data[1] \in Int)
  BY DEF IsValue
<1>2. a.type # 0
  BY OrderingByType
<1>3. PICK h \in Nat : h = Half
  BY HalfFacts
<1>4. CASE a.type = 1
  <2>0. Compare(a, b) = "lt"
    <3>1. a.type \notin {2, 3}
      BY <1>4
    <3> QED BY <3>1, OrderingByType
  <2>1. Less(a.data, b.data)
    BY <1>4, <2>0 DEF Compare, IsNull, IsNumber
  <2>2. PICK k \in 0..Len(a.data) : LessAt(a.data, b.data, k)
    BY <1>1, <2>1, LessPointwise
  <2>3. k = 0 /\ a.data[1] < b.data[1]
    BY <1>1, <1>4, <2>2 DEF LessAt
  <2>4. Payload(a) = a.data /\ Payload(b) = b.data
    BY <1>4 DEF Payload, IsNull
  <2>5. a.data # <<>> /\ b.data # <<>>
    BY <1>1, <1>4
  <2> QED BY <1>1, <2>3, <2>4, <2>5, BelowAtFirst
<1>5. CASE a.type = 2
  <2>1. Compare(a, b) = "lt" => Rounded(a.data[1]) < Rounded(b.data[1])
    BY <1>5 DEF Compare, IsNull, IsNumber, IsNaN, AsDouble, AsInteger
  <2>1a. Compare(a, b) = "lt" => a.data[1] < b.data[1]
    BY <1>1, <1>5, <2>1, RoundingKeepsOrder
  <2>2. a.data[1] < b.data[1]
    BY <1>5, <2>1a, OrderingByType
  <2>3. a.data[1] + h \in Nat /\ b.data[1] + h \in Nat /\ a.data[1] + h < b.data[1] + h
    BY <1>1, <1>3, <1>5, <2>2 DEF InRange
  <2>4. Payload(a) = BigEndian(a.data[1] + h) /\ Payload(b) = BigEndian(b.data[1] + h)
    BY <1>3, <1>5 DEF Payload, IsNull, AsInteger
  <2> QED BY <2>3, <2>4, BigEndianBelow
<1>6. CASE a.type = 3
  <2>1. Compare(a, b) = "lt" => AsReal(a.data[1]) < AsReal(b.data[1])
    BY <1>6 DEF Compare, IsNull, IsNumber, AsDouble
  <2>2. a.data[1] \in 0..2 * Half - 1 /\ b.data[1] \in 0..2 * Half - 1
    BY <1>6 DEF InRange
  <2>3. Payload(a) = BigEndian(RealKey(a.data[1])) /\ Payload(b) = BigEndian(RealKey(b.data[1]))
    BY <1>6 DEF Payload, IsNull, RealKey
  <2>4. /\ RealKey(a.data[1]) \in Nat /\ RealKey(b.data[1]) \in Nat
        /\ RealKey(a.data[1]) < RealKey(b.data[1])
    <3>1. CASE Compare(a, b) = "lt"
      BY <2>1, <2>2, <3>1, RealKeyOrder
    <3>2. CASE RealOrder(a.data[1]) < RealOrder(b.data[1])
      BY <2>2, <3>2, RealKeyShifted
    <3> QED BY <1>6, <3>1, <3>2, OrderingByType
  <2> QED BY <2>3, <2>4, BigEndianBelow
<1>7. CASE a.type \in {4, 5}
  <2>0. Compare(a, b) = "lt"
    BY <1>7, OrderingByType
  <2>1. Less(a.data, b.data)
    BY <1>7, <2>0 DEF Compare, IsNull, IsNumber
  <2>2. a.data \in Seq(Bytes) /\ b.data \in Seq(Bytes)
    BY <1>7 DEF InRange, Bytes
  <2>3. PICK k \in 0..Len(a.data) : LessAt(a.data, b.data, k)
    BY <1>1, <2>1, LessPointwise
  <2>4. Payload(a) = Escaped(a.data) /\ Payload(b) = Escaped(b.data)
    BY <1>7 DEF Payload, IsNull
  <2>5. CASE a.data # <<>>
    BY <2>2, <2>3, <2>4, <2>5, EscapedBelow
  <2>6. CASE a.data = <<>>
    <3>1. b.data # <<>>
      BY <2>3, <2>6 DEF LessAt
    <3>2. Len(b.data) \in Nat /\ 1 \in 1..Len(b.data)
      BY <1>1, <3>1, SMTT(30)
    <3>3. b.data[1] \in Int /\ 0 < b.data[1]
      <4>1. b.data[1] \in Int /\ 0 <= b.data[1]
        BY <2>2, <3>2, BytesAreNumbers
      <4>2. b.data[1] # 0
        BY <1>7, <2>6, <3>1 DEF Prefixed
      <4> QED BY <4>1, <4>2
    <3>4. Escaped(a.data) = <<0>>
      BY <2>6 DEF Escaped
    <3>5. Escaped(b.data) \in Seq(Int) /\ Escaped(b.data) # <<>> /\ Escaped(b.data)[1] = b.data[1]
      <4>1. Escaped(b.data)[1] = b.data[1] /\ 1 < Len(Escaped(b.data))
        BY <1>1, <3>1, FirstByte
      <4>2. Escaped(b.data) \in Seq(Int)
        BY <1>1, EscapedIsSeq
      <4> QED BY <4>1, <4>2
    <3>6. <<0>> \in Seq(Int) /\ <<0>> # <<>> /\ <<0>>[1] = 0
      OBVIOUS
    <3> QED BY <2>4, <3>3, <3>4, <3>5, <3>6, BelowAtFirst
  <2> QED BY <2>5, <2>6
<1> QED BY <1>1, <1>2, <1>4, <1>5, <1>6, <1>7

\* Keys whose payloads are below each other are less, and descending greater.
LEMMA BelowMakesKeys ==
  ASSUME NEW k \in Seq(Int), NEW l \in Seq(Int), Below(k, l)
  PROVE  Less(k, l) /\ Less(Complement(l), Complement(k))
BY BelowIsLess, ComplementReverses, ComplementIsSeq

LEMMA KeyShape ==
  ASSUME NEW v, IsValue(v), InRange(v)
  PROVE  /\ EncodeKey(v, FALSE) = IF IsNull(v) THEN <<0>> ELSE <<1, v.type>> \o Payload(v)
         /\ EncodeKey(v, TRUE) = Complement(EncodeKey(v, FALSE))
         /\ EncodeKey(v, FALSE) \in Seq(Int)
<1>1. v.type \in Int
  BY DEF IsValue
<1>2. <<1, v.type>> \in Seq(Int) /\ <<0>> \in Seq(Int)
  BY <1>1
<1>3. <<1, v.type>> \o Payload(v) \in Seq(Int)
  BY <1>2, PayloadIsSeq, ConcatProperties
<1> QED BY <1>2, <1>3 DEF EncodeKey, Complement

\* The key of a is less than that of b, and the descending one is greater.
KeyBefore(a, b) ==
  /\ Less(EncodeKey(a, FALSE), EncodeKey(b, FALSE))
  /\ Prefixed(a, b) \/ Less(EncodeKey(b, TRUE), EncodeKey(a, TRUE))

\* Value::EncodeKey: the keys are in the order of the values.
LEMMA LesserKey ==
  ASSUME NEW a, NEW b, IsValue(a), IsValue(b), InRange(a), InRange(b),
         a.type = b.type \/ IsNull(a) \/ IsNull(b), KeyOrdering(a, b) = "lt"
  PROVE  KeyBefore(a, b)
<1> DEFINE ka == EncodeKey(a, FALSE)
           kb == EncodeKey(b, FALSE)
<1>1. /\ ka = IF IsNull(a) THEN <<0>> ELSE <<1, a.type>> \o Payload(a)
      /\ kb = IF IsNull(b) THEN <<0>> ELSE <<1, b.type>> \o Payload(b)
      /\ EncodeKey(a, TRUE) = Complement(ka) /\ EncodeKey(b, TRUE) = Complement(kb)
      /\ ka \in Seq(Int) /\ kb \in Seq(Int)
  BY KeyShape
<1>2. a.type \in Int /\ b.type \in Int /\ a.data \in Seq(Int) /\ b.data \in Seq(Int)
  BY DEF IsValue
<1>3. Payload(a) \in Seq(Int) /\ Payload(b) \in Seq(Int)
  BY PayloadIsSeq
<1> HIDE DEF ka, kb
<1>s. ka \in Seq(Int) /\ kb \in Seq(Int)
  BY <1>1
<1>4. Below(ka, kb) => KeyBefore(a, b)
  <2> SUFFICES ASSUME Below(ka, kb) PROVE KeyBefore(a, b)
    OBVIOUS
  <2>1. Less(ka, kb) /\ Less(Complement(kb), Complement(ka))
    BY <1>1, BelowMakesKeys
  <2>2. Less(EncodeKey(a, FALSE), EncodeKey(b, FALSE))
    BY <2>1 DEF ka, kb
  <2>3. Less(EncodeKey(b, TRUE), EncodeKey(a, TRUE))
    BY <1>1, <2>1
  <2> QED BY <2>2, <2>3 DEF KeyBefore
<1>5. CASE IsNull(a) /\ ~IsNull(b)
  <2>1. ka = <<0>> /\ kb = <<1, b.type>> \o Payload(b)
    BY <1>1, <1>5
  <2>2. ka # <<>> /\ ka[1] = 0
    BY <2>1
  <2>3. kb # <<>> /\ kb[1] = 1
    BY <1>2, <1>3, <2>1
  <2>4. Below(ka, kb)
    <3>1. ka[1] < kb[1]
      BY <2>2, <2>3
    <3> QED BY <1>s, <2>2, <2>3, <3>1, BelowAtFirst
  <2> QED BY <1>4, <2>4
<1>6. CASE a.type = b.type
  <2>1. ~IsNull(a) /\ ~IsNull(b)
    BY <1>6, OrderingByType DEF IsNull
  <2>2. ka = <<1, b.type>> \o Payload(a) /\ kb = <<1, b.type>> \o Payload(b)
    BY <1>1, <1>6, <2>1
  <2>3. <<1, b.type>> \in Seq(Int)
    BY <1>2
  <2>4. CASE ~Prefixed(a, b)
    <3>1. Below(Payload(a), Payload(b))
      BY <1>6, <2>4, PayloadBelow
    <3>2. Below(ka, kb)
      BY <1>3, <2>2, <2>3, <3>1, BelowBehind
    <3> QED BY <1>4, <3>2
  \* The key of the empty text is then a proper prefix of the other one.
  <2>5. CASE Prefixed(a, b)
    <3>0. a.data = <<>> /\ b.type >= 4 /\ b.data # <<>> /\ b.data[1] = 0
      BY <1>6, <2>5 DEF Prefixed
    <3>2. Payload(a) = <<0>>
      BY <1>6, <2>1, <3>0 DEF Payload, Escaped, IsNull
    <3>3. Payload(b) = Escaped(b.data)
      BY <2>1, <3>0 DEF Payload, IsNull
    <3>4. 1 < Len(Escaped(b.data)) /\ Escaped(b.data)[1] = 0
      <4>1. b.data \in Seq(Int) /\ b.data # <<>>
        BY <1>2, <3>0
      <4> QED BY <3>0, <4>1, FirstByte
    <3>5. PICK y \in Int, p \in Seq(Int) : y = b.type /\ p = Payload(a) /\ Len(p) = 1 /\ p[1] = 0
      <4>1. Payload(a) \in Seq(Int) /\ Len(Payload(a)) = 1 /\ Payload(a)[1] = 0
        BY <1>3, <3>2
      <4> QED BY <1>2, <4>1
    <3>6. PICK q \in Seq(Int) : q = Payload(b) /\ 1 < Len(q) /\ q[1] = 0
      BY <1>3, <3>3, <3>4
    <3>6a. Len(ka) = 3 /\ ka[1] = 1 /\ ka[2] = y /\ ka[3] = 0
      <4>1. ka = <<1, y>> \o p
        BY <2>2, <3>5
      <4>2. Len(ka) = 2 + Len(p) /\ ka[1] = 1 /\ ka[2] = y /\ ka[2 + 1] = p[1]
        <5>1. 1 \in 1..Len(p)
          BY <3>5
        <5> QED BY <3>5, <4>1, <5>1, BehindHeader
      <4> QED BY <3>5, <4>2
    <3>6b. 3 < Len(kb) /\ kb[1] = 1 /\ kb[2] = y /\ kb[3] = 0
      <4>1. kb = <<1, y>> \o q
        BY <2>2, <3>5, <3>6
      <4>2. Len(kb) = 2 + Len(q) /\ kb[1] = 1 /\ kb[2] = y /\ kb[2 + 1] = q[1]
        <5>1. 1 \in 1..Len(q)
          BY <3>6
        <5> QED BY <3>6, <4>1, <5>1, BehindHeader
      <4> QED BY <3>6, <4>2
    <3>7. LessAt(ka, kb, 3) /\ 3 \in 0..Len(ka)
      BY <3>6a, <3>6b DEF LessAt
    <3>8. Less(ka, kb)
      BY <1>1, <3>7, LessPointwise
    <3> QED BY <2>5, <3>8 DEF KeyBefore, ka, kb
  <2> QED BY <2>4, <2>5
\* Nothing is before NULL.
<1>7. CASE IsNull(b)
  <2>1. ~(a.type < b.type)
    <3>1. a.type \in 0..5 /\ b.type = 0
      BY <1>7 DEF IsValue, IsNull
    <3> QED BY <3>1
  <2> QED BY <1>7, <2>1 DEF KeyOrdering, Sign
<1> QED BY <1>5, <1>6, <1>7

\* KeyOrdering is one way round only, and finds nothing equal but a value and
\* itself.
LEMMA OrderingTotal ==
  ASSUME NEW a, NEW b, IsValue(a), IsValue(b), InRange(a), InRange(b),
         a.type = b.type \/ IsNull(a) \/ IsNull(b)
  PROVE  \/ KeyOrdering(a, b) = "lt"
         \/ KeyOrdering(a, b) = "gt" /\ KeyOrdering(b, a) = "lt"
         \/ KeyOrdering(a, b) = "eq" /\ a = b
<1>1. /\ a.type \in 0..5 /\ a.data \in Seq(Int) /\ (a.type \in {1, 2, 3} => Len(a.data) = 1 /\ a.data[1] \in Int)
      /\ b.type \in 0..5 /\ b.data \in Seq(Int) /\ (b.type \in {1, 2, 3} => Len(b.data) = 1 /\ b.data[1] \in Int)
  BY DEF IsValue
<1>2. a = [type |-> a.type, data |-> a.data] /\ b = [type |-> b.type, data |-> b.data]
  BY DEF InRange
<1>3. a.type = b.type /\ a.data = b.data => a = b
  BY <1>2
<1>4. ~IsNull(a) /\ ~IsNull(b) /\ a.type \in {2, 3} /\ a.data[1] = b.data[1] => a.data = b.data
  <2> SUFFICES ASSUME a.type = b.type, a.type \in {2, 3}, a.data[1] = b.data[1]
               PROVE  a.data = b.data
    OBVIOUS
  <2>1. \A s, t \in Seq(Int) : Len(s) = 1 /\ Len(t) = 1 /\ s[1] = t[1] => s = t
    OBVIOUS
  <2>2. a.data \in Seq(Int) /\ b.data \in Seq(Int) /\ Len(a.data) = 1 /\ Len(b.data) = 1
    BY <1>1
  <2> QED BY <2>1, <2>2
<1>5. CASE IsNull(a) \/ IsNull(b)
  <2>1. KeyOrdering(a, b) = Sign(a.type, b.type) /\ KeyOrdering(b, a) = Sign(b.type, a.type)
    BY <1>5 DEF KeyOrdering
  <2>2. a.type = b.type => a.data = b.data
    BY <1>5 DEF InRange, IsNull
  <2> QED BY <1>1, <1>3, <2>1, <2>2 DEF Sign
<1>6. CASE ~(IsNull(a) \/ IsNull(b)) /\ a.type \in {1, 4, 5}
  <2>1. PICK x \in Seq(Int), y \in Seq(Int) : x = a.data /\ y = b.data
    BY <1>1
  <2>2. /\ Compare(a, b) = IF Less(x, y) THEN "lt" ELSE IF Less(y, x) THEN "gt" ELSE "eq"
        /\ Compare(b, a) = IF Less(y, x) THEN "lt" ELSE IF Less(x, y) THEN "gt" ELSE "eq"
    BY <1>6, <2>1 DEF Compare, IsNumber
  <2>3. x # y => Less(x, y) \/ Less(y, x)
    BY LessTotal
  <2> QED BY <1>3, <1>6, <2>1, <2>2, <2>3 DEF KeyOrdering
<1>7. CASE ~(IsNull(a) \/ IsNull(b)) /\ a.type = 2
  <2>1. PICK x \in Int, y \in Int, m \in Int, n \in Int :
          x = a.data[1] /\ y = b.data[1] /\ m = AsDouble(a) /\ n = AsDouble(b)
    BY <1>1, <1>7, DoubleIsInteger DEF IsNumber
  <2>2. /\ Compare(a, b) = IF m < n THEN "lt" ELSE IF m > n THEN "gt" ELSE "eq"
        /\ Compare(b, a) = IF n < m THEN "lt" ELSE IF n > m THEN "gt" ELSE "eq"
    BY <1>7, <2>1 DEF Compare, IsNumber, IsNaN
  <2>3. /\ KeyOrdering(a, b) = IF Compare(a, b) \in {"lt", "gt"} THEN Compare(a, b) ELSE Sign(x, y)
        /\ KeyOrdering(b, a) = IF Compare(b, a) \in {"lt", "gt"} THEN Compare(b, a) ELSE Sign(y, x)
    BY <1>7, <2>1 DEF KeyOrdering, AsInteger
  <2>4. x = y => a.data = b.data
    BY <1>7, <1>4, <2>1
  <2> QED BY <1>3, <1>7, <2>2, <2>3, <2>4 DEF Sign
<1>8. CASE ~(IsNull(a) \/ IsNull(b)) /\ a.type = 3
  <2>1. /\ a.data[1] \in 0..2 * Half - 1 /\ b.data[1] \in 0..2 * Half - 1
    BY <1>8 DEF InRange
  <2>2. PICK x \in Int, y \in Int : x = RealOrder(a.data[1]) /\ y = RealOrder(b.data[1])
    <3>1. Half \in Nat /\ a.data[1] \in Int /\ b.data[1] \in Int
      BY <1>1, <1>8, HalfFacts
    <3> QED BY <3>1 DEF RealOrder
  <2>3. x = y => a.data = b.data
    <3>1. x = y => a.data[1] = b.data[1]
      BY <2>1, <2>2, RealKeyShifted
    <3> QED BY <1>8, <1>4, <3>1
  <2>4. /\ KeyOrdering(a, b) = IF Compare(a, b) \in {"lt", "gt"} THEN Compare(a, b) ELSE Sign(x, y)
        /\ KeyOrdering(b, a) = IF Compare(b, a) \in {"lt", "gt"} THEN Compare(b, a) ELSE Sign(y, x)
    BY <1>8, <2>2 DEF KeyOrdering
  <2>5. CASE IsNaN(a) \/ IsNaN(b)
    <3>1. Compare(a, b) = "unknown" /\ Compare(b, a) = "unknown"
      BY <1>8, <2>5 DEF Compare, IsNumber
    <3> QED BY <1>3, <1>8, <2>3, <2>4, <3>1 DEF Sign
  <2>6. CASE ~(IsNaN(a) \/ IsNaN(b))
    <3>1. PICK m \in Int, n \in Int : m = AsDouble(a) /\ n = AsDouble(b)
      BY <1>8, DoubleIsInteger DEF IsNumber
    <3>2. /\ Compare(a, b) = IF m < n THEN "lt" ELSE IF m > n THEN "gt" ELSE "eq"
          /\ Compare(b, a) = IF n < m THEN "lt" ELSE IF n > m THEN "gt" ELSE "eq"
      BY <1>8, <2>6, <3>1 DEF Compare, IsNumber
    <3> QED BY <1>3, <1>8, <2>3, <2>4, <3>2 DEF Sign
  <2> QED BY <2>5, <2>6
<1> QED BY <1>1, <1>5, <1>6, <1>7, <1>8 DEF IsNull

\* Value::EncodeKey: memcmp on the keys gives KeyOrdering, the reverse for
\* descending keys.
LEMMA KeysFollowValues ==
  ASSUME NEW a, NEW b, IsValue(a), IsValue(b), InRange(a), InRange(b)
  PROVE  KeysFollow(a, b)
<1> SUFFICES ASSUME a.type = b.type \/ IsNull(a) \/ IsNull(b)
             PROVE  /\ MemCmp(EncodeKey(a, FALSE), EncodeKey(b, FALSE)) = KeyOrdering(a, b)
                    /\ Prefixed(a, b) \/ Prefixed(b, a)
                       \/ MemCmp(EncodeKey(b, TRUE), EncodeKey(a, TRUE)) = KeyOrdering(a, b)
  BY DEF KeysFollow
<1>1. PICK k \in Seq(Int), l \in Seq(Int), kd \in Seq(Int), ld \in Seq(Int) :
        /\ k = EncodeKey(a, FALSE) /\ l = EncodeKey(b, FALSE)
        /\ kd = EncodeKey(a, TRUE) /\ ld = EncodeKey(b, TRUE)
  BY KeyShape, ComplementIsSeq
<1>2. \A s, t \in Seq(Int) : Less(s, t) => MemCmp(s, t) = "lt"
  BY DEF MemCmp
<1>3. \A s, t \in Seq(Int) : Less(t, s) => MemCmp(s, t) = "gt"
  BY LessTransitive, LessIrreflexive DEF MemCmp
<1>4. \A s \in Seq(Int) : MemCmp(s, s) = "eq"
  BY LessIrreflexive DEF MemCmp
<1>5. CASE KeyOrdering(a, b) = "lt"
  BY <1>1, <1>2, <1>5, LesserKey DEF KeyBefore
<1>6. CASE KeyOrdering(a, b) = "gt" /\ KeyOrdering(b, a) = "lt"
  BY <1>1, <1>3, <1>6, LesserKey DEF KeyBefore
<1>7. CASE KeyOrdering(a, b) = "eq" /\ a = b
  BY <1>1, <1>4, <1>7
<1> QED BY <1>5, <1>6, <1>7, OrderingTotal

-----------------------------------------------------------------------------
(***************************************************************************)
(* Value::DecodeKey.                                                       *)
(***************************************************************************)
LEMMA BigEndianRead ==
  ASSUME NEW u \in Nat
  PROVE  ReadBigEndian(BigEndian(u)) = u
<1>1. PICK d \in Nat : d = Base /\ 0 < d
  BY GroupFacts
<1>2. PICK q \in Nat, r \in 0..d - 1 : q = u \div d /\ r = u % d /\ u = Product(q, d) + r
  BY <1>1, Divided
<1>3. BigEndian(u) = <<q, r>>
  BY <1>1, <1>2 DEF BigEndian
<1>4. ReadBigEndian(<<q, r>>) = Product(q, d) + r
  BY <1>1 DEF ReadBigEndian, Product
<1> QED BY <1>2, <1>3, <1>4

\* The front part of a sequence.
LEMMA FrontPart ==
  ASSUME NEW s \in Seq(Int), NEW k \in 0..Len(s)
  PROVE  /\ SubSeq(s, 1, k) \in Seq(Int) /\ Len(SubSeq(s, 1, k)) = k
         /\ \A i \in 1..k : SubSeq(s, 1, k)[i] = s[i]
<1>1. SubSeq(s, 1, k) = [i \in 1..k |-> s[i]] /\ k \in Nat
  OBVIOUS
<1>2. \A i \in 1..k : s[i] \in Int
  OBVIOUS
<1> QED BY <1>1, <1>2

\* A key that is cut behind its type, and what DecodeKey takes for its payload.
LEMMA CutPayload ==
  ASSUME NEW y \in Int, NEW p \in Seq(Int), NEW k \in 3..2 + Len(p)
  PROVE  LET key == SubSeq(<<1, y>> \o p, 1, k) IN
         /\ key \in Seq(Int) /\ Len(key) = k /\ key[1] = 1 /\ key[2] = y
         /\ SubSeq(key, 3, Len(key)) = SubSeq(p, 1, k - 2)
<1>1. PICK w \in Seq(Int), n \in Nat : w = <<1, y>> \o p /\ n = Len(p)
  <2>1. <<1, y>> \o p \in Seq(Int)
    BY BehindHeader
  <2>2. Len(p) \in Nat
    OBVIOUS
  <2> QED BY <2>1, <2>2
<1>2. Len(w) = 2 + n /\ w[1] = 1 /\ w[2] = y /\ \A i \in 1..n : w[2 + i] = p[i]
  BY <1>1, BehindHeader
<1>3. PICK j \in 1..n : k = j + 2
  <2>1. k - 2 \in 1..n /\ k = (k - 2) + 2
    BY <1>1
  <2> QED BY <2>1
<1>4. k \in 0..Len(w) /\ k \in Nat
  BY <1>2, <1>3
<1>5. PICK key \in Seq(Int) : key = SubSeq(w, 1, k) /\ Len(key) = k /\ \A i \in 1..k : key[i] = w[i]
  <2>1. /\ SubSeq(w, 1, k) \in Seq(Int) /\ Len(SubSeq(w, 1, k)) = k
        /\ \A i \in 1..k : SubSeq(w, 1, k)[i] = w[i]
    BY <1>4, FrontPart
  <2> QED BY <2>1
<1>6. key[1] = 1 /\ key[2] = y
  <2>1. 1 \in 1..k /\ 2 \in 1..k
    BY <1>3
  <2> QED BY <1>2, <1>5, <2>1
<1>7. SubSeq(key, 3, k) = [i \in 1..j |-> key[3 + i - 1]]
  BY <1>3, <1>5
<1>8. SubSeq(p, 1, j) = [i \in 1..j |-> p[i]]
  BY <1>1
<1>9. ASSUME NEW i \in 1..j PROVE key[3 + i - 1] = p[i]
  <2>1. 3 + i - 1 = 2 + i /\ 2 + i \in 1..k /\ i \in 1..n
    BY <1>3
  <2> QED BY <1>2, <1>5, <2>1
<1>10. SubSeq(key, 3, k) = SubSeq(p, 1, j)
  BY <1>7, <1>8, <1>9
<1>11. k - 2 = j
  BY <1>3
<1> QED BY <1>1, <1>5, <1>6, <1>10, <1>11

LEMMA Single ==
  ASSUME NEW s \in Seq(Int), Len(s) = 1
  PROVE  s = <<s[1]>>
<1>1. s = [i \in 1..1 |-> s[i]]
  OBVIOUS
<1>2. <<s[1]>> = [i \in 1..1 |-> s[1]]
  OBVIOUS
<1>3. \A i \in 1..1 : s[i] = s[1]
  OBVIOUS
<1> QED BY <1>1, <1>2, <1>3

LEMMA NotEmpty ==
  ASSUME NEW s \in Seq(Int), Len(s) # 0
  PROVE  s # <<>>
BY EmptySeq

\* What DecodeKey does with the payload, by the type.
LEMMA DecodeByType ==
  ASSUME NEW q \in Seq(Int), NEW r, r = SubSeq(q, 3, Len(q)), q[1] = 1, ~(Len(q) < 3)
  PROVE  /\ q[2] = 1 => DecodeKey(q) = IF Len(r) = 1 /\ r[1] \in {0, 1}
                                       THEN [type |-> 1, data |-> r] ELSE Refused
         /\ q[2] = 2 => DecodeKey(q) = IF Len(r) # 2 THEN Refused
                                       ELSE Integer(ReadBigEndian(r) - Half)
         /\ q[2] = 3 => DecodeKey(q) = IF Len(r) # 2 THEN Refused
                                       ELSE Real(IF ReadBigEndian(r) >= Half
                                                 THEN ReadBigEndian(r) - Half
                                                 ELSE 2 * Half - 1 - ReadBigEndian(r))
         /\ q[2] \in {4, 5} => DecodeKey(q) = DecodeGroups(q[2], r)
<1>1. q # <<>>
  <2>1. Len(q) # 0
    OBVIOUS
  <2> QED BY <2>1, NotEmpty
<1>2. CASE q[2] = 1
  BY <1>1, <1>2 DEF DecodeKey
<1>3. CASE q[2] = 2
  BY <1>1, <1>3 DEF DecodeKey
<1>4. CASE q[2] = 3
  BY <1>1, <1>4 DEF DecodeKey
<1>5. CASE q[2] = 4
  BY <1>1, <1>5 DEF DecodeKey
<1>6. CASE q[2] = 5
  BY <1>1, <1>6 DEF DecodeKey
<1> QED BY <1>2, <1>3, <1>4, <1>5, <1>6

LEMMA PlaceIsFirst ==
  ASSUME NEW g \in Nat
  PROVE  /\ First(g) \in Nat /\ Place(g) \in Nat /\ Place(g) = First(g) + g
         /\ First(g + 1) = First(g) + Group /\ Place(g + 1) = Place(g) + Group + 1
         /\ (g + 1) * (Group + 1) = Place(g + 1) /\ g * Group = First(g)
<1>1. PICK d \in Nat, w \in Nat : d = Group /\ w = Group + 1 /\ w = d + 1
  <2>1. PICK d \in Nat : d = Group
    BY GroupFacts
  <2>2. d + 1 \in Nat
    OBVIOUS
  <2> QED BY <2>1, <2>2
<1>2. Product(g, d) \in Nat /\ Product(g + 1, d) = Product(g, d) + d
  BY ProductStep
<1>3. Product(g, w) \in Nat /\ Product(g + 1, w) = Product(g, w) + w
  BY <1>1, ProductStep
<1>4. Product(g, w) = Product(g, d) + g
  BY <1>1 DEF Product
<1>5. First(g) = Product(g, d) /\ Place(g) = Product(g, w) /\ First(g + 1) = Product(g + 1, d)
      /\ Place(g + 1) = Product(g + 1, w)
  BY <1>1 DEF First, Place
<1>6. (g + 1) * (Group + 1) = Place(g + 1) /\ g * Group = First(g)
  BY DEF First, Place, Product
<1>7. First(g) \in Nat /\ First(g + 1) = First(g) + Group
  BY <1>1, <1>2, <1>5
<1>8. Place(g) \in Nat /\ Place(g) = First(g) + g
  BY <1>3, <1>4, <1>5
<1>9. Place(g + 1) = Place(g) + Group + 1
  BY <1>1, <1>3, <1>5
<1> QED BY <1>6, <1>7, <1>8, <1>9

\* The marker of a group says that more follow, or how long the last one is.
LEMMA Markers ==
  ASSUME NEW s \in Seq(Int), s # <<>>, NEW g \in Nat, g < GroupsOf(s)
  PROVE  /\ Place(g + 1) \in 1..Place(GroupsOf(s))
         /\ g + 1 < GroupsOf(s) => Escaped(s)[Place(g + 1)] = Base - 1
         /\ g + 1 = GroupsOf(s) =>
              /\ Escaped(s)[Place(g + 1)] = Len(s) - First(g)
              /\ Escaped(s)[Place(g + 1)] \in 1..Group
<1>1. PICK n \in Nat, f \in Nat, d \in Nat : n = Len(s) /\ f = First(g) /\ d = Group /\ 0 < d
  <2>1. Len(s) \in Nat
    OBVIOUS
  <2>2. First(g) \in Nat
    BY PlaceIsFirst
  <2> QED BY <2>1, <2>2, GroupFacts
<1>2. Len(s) \in Nat /\ Len(s) # 0
  OBVIOUS
<1>3. f < n /\ (g + 1 < GroupsOf(s) <=> f + d < n)
  <2>1. First(g) < Len(s)
    BY <1>2, GroupCount
  <2>2. g + 1 \in Nat
    OBVIOUS
  <2>3. g + 1 < GroupsOf(s) <=> First(g + 1) < Len(s)
    BY <1>2, <2>2, GroupCount
  <2>4. First(g + 1) = f + d
    BY <1>1, PlaceIsFirst
  <2> QED BY <1>1, <2>1, <2>3, <2>4
<1>4. Cell(s, g, Group) = IF f + d < n THEN Base - 1 ELSE n - f
  <2>1. Cell(s, g, Group) = IF First(g + 1) < Len(s) THEN Base - 1 ELSE Len(s) - First(g)
    BY <1>1, <1>2, <1>3, Cells
  <2>2. First(g + 1) = f + d
    BY <1>1, PlaceIsFirst
  <2> QED BY <1>1, <2>1, <2>2
<1>5. PICK k \in Nat, m \in Nat : k = Place(g) /\ m = Place(g + 1) /\ m = k + d + 1
  <2>1. Place(g) \in Nat /\ Place(g + 1) = Place(g) + Group + 1
    BY PlaceIsFirst
  <2>2. PICK k \in Nat : k = Place(g)
    BY <2>1
  <2>3. k + d + 1 \in Nat
    BY <1>1
  <2> QED BY <1>1, <2>1, <2>2, <2>3
<1>6. m \in 1..Place(GroupsOf(s)) /\ Escaped(s)[m] = Cell(s, g, Group)
  <2>1. Group \in 0..Group
    BY <1>1
  <2>2. /\ Place(g) + Group + 1 \in 1..Place(GroupsOf(s))
        /\ Escaped(s)[Place(g) + Group + 1] = Cell(s, g, Group)
    BY <1>1, <1>2, <1>3, <2>1, EscapedCells
  <2>3. Place(g) + Group + 1 = m
    BY <1>1, <1>5
  <2> QED BY <2>2, <2>3
<1>7. GroupsOf(s) \in Nat
  BY <1>2, GroupCount
<1>8. CASE g + 1 < GroupsOf(s)
  <2>1. f + d < n /\ g + 1 # GroupsOf(s)
    BY <1>3, <1>7, <1>8
  <2> QED BY <1>4, <1>5, <1>6, <2>1
<1>9. CASE ~(g + 1 < GroupsOf(s))
  <2>1. ~(f + d < n)
    BY <1>3, <1>9
  <2>2. Escaped(s)[m] = n - f
    BY <1>4, <1>6, <2>1
  <2>3. n - f \in 1..d
    BY <1>3, <2>1
  <2> QED BY <1>1, <1>5, <1>6, <1>9, <2>2, <2>3
<1> QED BY <1>8, <1>9

\* Where the text is in its key.
LEMMA TextInKey ==
  ASSUME NEW s \in Seq(Int), s # <<>>, NEW i \in 1..Len(s)
  PROVE  /\ i + (i - 1) \div Group \in 1..Len(Escaped(s))
         /\ Escaped(s)[i + (i - 1) \div Group] = s[i]
<1>1. PICK d \in Nat, j \in Nat, n \in Nat : d = Group /\ 0 < d /\ i = j + 1 /\ n = Len(s) /\ j < n
  <2>1. PICK d \in Nat : d = Group /\ 0 < d
    BY GroupFacts
  <2>2. PICK n \in Nat : n = Len(s)
    OBVIOUS
  <2>3. i - 1 \in Nat /\ i = (i - 1) + 1 /\ i - 1 < n
    BY <2>2
  <2> QED BY <2>1, <2>2, <2>3
<1>2. PICK g \in Nat, r \in 0..d - 1 : g = j \div d /\ r = j % d /\ j = Product(g, d) + r
  BY <1>1, Divided
<1>3. PICK f \in Nat, k \in Nat : f = First(g) /\ k = Place(g) /\ k = f + g
  BY PlaceIsFirst
<1>4. j = f + r /\ f + r < n /\ f < n
  <2>1. f = Product(g, d)
    BY <1>1, <1>3 DEF First
  <2>2. j = f + r
    BY <1>2, <2>1
  <2>3. r \in Nat
    BY <1>1
  <2> QED BY <1>1, <2>2, <2>3
<1>5. i + (i - 1) \div Group = k + r + 1
  <2>1. i - 1 = j
    BY <1>1
  <2>2. (i - 1) \div Group = g
    BY <1>1, <1>2, <2>1
  <2>3. k = f + g /\ j = f + r /\ i = j + 1
    BY <1>1, <1>3, <1>4
  <2>4. i + g = k + r + 1
    BY <2>3
  <2> QED BY <2>2, <2>4
<1>6. r \in 0..Group /\ r \in 0..Group - 1
  BY <1>1
<1>7. Cell(s, g, r) = s[i]
  <2>1. First(g) < Len(s)
    BY <1>1, <1>3, <1>4
  <2>2. Cell(s, g, r) = IF First(g) + r < Len(s) THEN s[First(g) + r + 1] ELSE 0
    BY <1>1, <1>6, <2>1, Cells
  <2>3. First(g) + r < Len(s) /\ First(g) + r + 1 = i
    BY <1>1, <1>3, <1>4
  <2> QED BY <2>2, <2>3
<1>8. Place(g) + r + 1 \in 1..Len(Escaped(s)) /\ Escaped(s)[Place(g) + r + 1] = Cell(s, g, r)
  <2>1. First(g) < Len(s)
    BY <1>1, <1>3, <1>4
  <2> QED BY <1>6, <2>1, EscapedCells
<1>9. i + (i - 1) \div Group = Place(g) + r + 1
  BY <1>3, <1>5
<1> QED BY <1>7, <1>8, <1>9

EndsOf(p) == {g \in 1..Len(p) \div (Group + 1) : p[g * (Group + 1)] <= Group}

LEMMA GroupsRead ==
  ASSUME NEW s \in Seq(Int), s # <<>>, NEW type, NEW j \in 1..Len(Escaped(s))
  PROVE  DecodeGroups(type, SubSeq(Escaped(s), 1, j)) =
           IF j = Len(Escaped(s)) THEN [type |-> type, data |-> s] ELSE Refused
<1>1. PICK w \in Nat : w = Group + 1 /\ 1 < w
  BY GroupFacts
<1>2. Len(s) \in Nat /\ Len(s) # 0
  OBVIOUS
<1>3. PICK N \in Nat : N = GroupsOf(s) /\ 0 < N
  BY <1>2, GroupCount
<1>4. PICK M \in Nat : M = Product(N, w) /\ M = Place(N) /\ M = Len(Escaped(s))
  <2>1. Product(N, w) \in Nat /\ Product(N, w) = Place(N)
    BY <1>1, ProductStep DEF Place
  <2>2. Place(N) = Len(Escaped(s))
    BY <1>3, EscapedCells
  <2> QED BY <2>1, <2>2
<1>5. PICK p \in Seq(Int) : p = SubSeq(Escaped(s), 1, j) /\ Len(p) = j /\ \A i \in 1..j : p[i] = Escaped(s)[i]
  <2>1. Escaped(s) \in Seq(Int) /\ j \in 0..Len(Escaped(s))
    BY EscapedIsSeq
  <2> QED BY <2>1, FrontPart
<1>6. PICK c \in Nat, x \in 0..w - 1 : c = j \div w /\ x = j % w /\ j = Product(c, w) + x
  <2>1. PICK i \in Nat : i = j
    BY <1>4
  <2>2. 0 < w
    BY <1>1
  <2>3. \E c \in Nat, x \in 0..w - 1 : c = i \div w /\ x = i % w /\ i = Product(c, w) + x
    BY <2>2, Divided
  <2> QED BY <2>1, <2>3
<1>7. PICK k \in Nat : k = Product(c, w) /\ j = k + x
  <2>1. Product(c, w) \in Nat
    BY ProductStep
  <2> QED BY <1>6, <2>1
<1>8. j <= M /\ j \in Nat
  BY <1>4
<1>9. c <= N /\ (j = M <=> c = N)
  <2>1. CASE c = N
    <3>1. k = M
      BY <1>4, <1>7, <2>1
    <3> QED BY <1>7, <1>8, <2>1, <3>1
  <2>2. CASE c < N
    <3>0. Product(c, w) + w <= Product(N, w)
      BY <2>2, ProductGrows
    <3>1. k + w <= M
      BY <1>4, <1>7, <3>0
    <3> QED BY <1>1, <1>7, <1>8, <2>2, <3>1, SMTT(30)
  <2>3. CASE N < c
    <3>1. M + w <= k
      BY <1>4, <1>7, <2>3, ProductGrows
    <3> QED BY <1>1, <1>7, <1>8, <3>1, SMTT(30)
  <2> QED BY <2>1, <2>2, <2>3
<1>10. ASSUME NEW g \in 1..c
       PROVE  /\ p[g * (Group + 1)] = Escaped(s)[Place(g)]
              /\ g < N => p[g * (Group + 1)] = Base - 1
              /\ g = N => p[g * (Group + 1)] = Len(s) - First(g - 1) /\ p[g * (Group + 1)] \in 1..Group
  <2>1. PICK h \in Nat : g = h + 1 /\ h = g - 1
    <3>1. g - 1 \in Nat /\ g = (g - 1) + 1
      OBVIOUS
    <3> QED BY <3>1
  <2>2. h < N
    BY <1>9, <2>1
  <2>3. g * (Group + 1) = Place(g)
    BY <2>1, PlaceIsFirst
  <2>4. PICK y \in Nat : y = Place(g)
    <3>0. g \in Nat
      OBVIOUS
    <3>1. Place(g) \in Nat
      BY <3>0, PlaceIsFirst
    <3> QED BY <3>1
  <2>5. y \in 1..M
    BY <1>3, <1>4, <2>1, <2>2, <2>4, Markers
  <2>6. y <= k
    <3>1. y = Product(g, w)
      BY <1>1, <2>4 DEF Place
    <3>2. CASE g = c
      BY <1>7, <3>1, <3>2
    <3>3. CASE g < c
      <4>1. y + w <= k
        BY <1>7, <3>1, <3>3, ProductGrows, SMTT(30)
      <4> QED BY <4>1
    <3> QED BY <3>2, <3>3
  <2>7. y \in 1..j
    BY <1>7, <2>5, <2>6
  <2>8. p[y] = Escaped(s)[y]
    BY <1>5, <2>7
  <2>9. g < N => Escaped(s)[Place(g)] = Base - 1
    BY <1>3, <2>1, <2>2, Markers
  <2>10. g = N => Escaped(s)[Place(g)] = Len(s) - First(g - 1) /\ Escaped(s)[Place(g)] \in 1..Group
    BY <1>3, <2>1, <2>2, Markers
  <2> QED BY <2>3, <2>4, <2>8, <2>9, <2>10
<1>11. Len(p) \div (Group + 1) = c
  BY <1>1, <1>5, <1>6
<1>12. ~(Base - 1 <= Group)
  BY GroupFacts
<1>13. DecodeGroups(type, p) =
         IF \/ EndsOf(p) = {}
            \/ (CHOOSE g \in EndsOf(p) : \A h \in EndsOf(p) : g <= h) * (Group + 1) # Len(p)
            \/ \E g \in 1..(CHOOSE g \in EndsOf(p) : \A h \in EndsOf(p) : g <= h) - 1 :
                 p[g * (Group + 1)] # Base - 1
         THEN Refused
         ELSE [type |-> type,
               data |-> [i \in 1..((CHOOSE g \in EndsOf(p) : \A h \in EndsOf(p) : g <= h) - 1) * Group
                                  + p[(CHOOSE g \in EndsOf(p) : \A h \in EndsOf(p) : g <= h) * (Group + 1)] |->
                          p[i + (i - 1) \div Group]]]
  BY DEF DecodeGroups, EndsOf
<1>14. CASE j # M
  <2>1. c < N
    BY <1>9, <1>14
  <2>2. \A g \in 1..c : ~(p[g * (Group + 1)] <= Group)
    <3> TAKE g \in 1..c
    <3>1. g < N
      BY <2>1
    <3>2. p[g * (Group + 1)] = Base - 1
      BY <1>10, <3>1
    <3> QED BY <1>12, <3>2
  <2>3. EndsOf(p) = {}
    BY <1>11, <2>2 DEF EndsOf
  <2>4. DecodeGroups(type, p) = Refused
    BY <1>13, <2>3
  <2> QED BY <1>4, <1>5, <1>14, <2>4
<1>15. CASE j = M
  <2>1. c = N
    BY <1>9, <1>15
  <2>2. \A g \in 1..N : p[g * (Group + 1)] <= Group <=> g = N
    <3> TAKE g \in 1..N
    <3>1. CASE g < N
      <4>1. p[g * (Group + 1)] = Base - 1
        BY <1>10, <2>1, <3>1
      <4> QED BY <1>12, <3>1, <4>1
    <3>2. CASE g = N
      <4>1. p[g * (Group + 1)] \in 1..Group
        BY <1>10, <2>1, <3>2
      <4> QED BY <3>2, <4>1, GroupFacts
    <3> QED BY <3>1, <3>2
  <2>3. EndsOf(p) = {N}
    <3>1. N \in 1..N
      BY <1>3
    <3> QED BY <1>11, <2>1, <2>2, <3>1 DEF EndsOf
  <2>4. (CHOOSE g \in EndsOf(p) : \A h \in EndsOf(p) : g <= h) = N
    BY <1>3, <2>3
  <2>5. PICK f \in Nat, n \in Nat : f = First(N - 1) /\ n = Len(s)
    <3>1. N - 1 \in Nat
      BY <1>3
    <3>2. First(N - 1) \in Nat
      BY <3>1, PlaceIsFirst
    <3> QED BY <1>2, <3>2
  <2>6. p[N * (Group + 1)] = n - f
    <3>1. N \in 1..c
      BY <1>3, <2>1
    <3> QED BY <1>10, <2>5, <3>1
  <2>7. (N - 1) * Group = f
    <3>1. N - 1 \in Nat
      BY <1>3
    <3> QED BY <2>5, <3>1, PlaceIsFirst
  <2>8. N * (Group + 1) = M
    <3>1. N - 1 \in Nat /\ (N - 1) + 1 = N
      BY <1>3
    <3> QED BY <1>4, <3>1, PlaceIsFirst
  <2>9. \A g \in 1..N - 1 : p[g * (Group + 1)] = Base - 1
    <3> TAKE g \in 1..N - 1
    <3>1. g \in 1..c /\ g < N
      BY <1>3, <2>1
    <3> QED BY <1>10, <3>1
  <2>10. DecodeGroups(type, p) = [type |-> type, data |-> [i \in 1..f + (n - f) |-> p[i + (i - 1) \div Group]]]
    BY <1>5, <1>13, <1>15, <2>3, <2>4, <2>6, <2>7, <2>8, <2>9
  <2>11. f + (n - f) = n
    OBVIOUS
  <2>12. \A i \in 1..n : p[i + (i - 1) \div Group] = s[i]
    BY <1>4, <1>5, <1>15, <2>5, TextInKey
  <2>13. s = [i \in 1..n |-> s[i]]
    BY <2>5
  <2>14. [i \in 1..n |-> p[i + (i - 1) \div Group]] = s
    BY <2>12, <2>13
  <2> QED BY <1>4, <1>5, <1>15, <2>10, <2>11, <2>14
<1> QED BY <1>14, <1>15

\* Value::DecodeKey reads what EncodeKey wrote, and refuses it if it is cut
\* anywhere.
LEMMA KeysAreRead ==
  ASSUME NEW v, IsValue(v), InRange(v)
  PROVE  KeyReads(v)
<1>1. /\ v.type \in 0..5 /\ v.data \in Seq(Int) /\ (v.type \in {1, 2, 3} => Len(v.data) = 1)
      /\ v = [type |-> v.type, data |-> v.data]
  BY DEF IsValue, InRange
<1> DEFINE K == EncodeKey(v, FALSE)
<1>2. K = IF IsNull(v) THEN <<0>> ELSE <<1, v.type>> \o Payload(v)
  BY KeyShape
<1> HIDE DEF K
<1>3. SUFFICES ASSUME v.type < 4 \/ v.data # <<>>
               PROVE  \A k \in 0..Len(K) : DecodeKey(SubSeq(K, 1, k)) = IF k = Len(K) THEN v ELSE Refused
  BY DEF KeyReads, K
<1>4. CASE IsNull(v)
  <2>1. K = <<0>> /\ Len(K) = 1 /\ K[1] = 0 /\ K \in Seq(Int)
    BY <1>2, <1>4
  <2>2. v = Null
    <3>1. v.type = 0 /\ v.data = <<>>
      BY <1>4 DEF IsNull, InRange
    <3> QED BY <1>1, <3>1 DEF Null
  <2>3. DecodeKey(SubSeq(K, 1, 0)) = Refused
    <3>1. SubSeq(K, 1, 0) = <<>>
      BY <2>1
    <3> QED BY <3>1 DEF DecodeKey
  <2>4. DecodeKey(SubSeq(K, 1, 1)) = Null
    <3>1. 1 \in 0..Len(K) /\ 1 \in 1..1
      BY <2>1
    <3>2. PICK q \in Seq(Int) : q = SubSeq(K, 1, 1) /\ Len(q) = 1 /\ q[1] = 0
      BY <2>1, <3>1, FrontPart
    <3>3. q # <<>>
      <4>1. Len(q) # 0
        BY <3>2
      <4> QED BY <4>1, NotEmpty
    <3> QED BY <3>2, <3>3 DEF DecodeKey
  <2>5. \A k \in 0..Len(K) : k = 0 \/ k = 1
    BY <2>1
  <2> QED BY <2>1, <2>2, <2>3, <2>4, <2>5
<1>5. CASE ~IsNull(v)
  <2>1. PICK y \in Int, p \in Seq(Int), n \in Nat : y = v.type /\ p = Payload(v) /\ n = Len(p)
    <3>1. Payload(v) \in Seq(Int) /\ v.type \in Int
      BY <1>1, PayloadIsSeq
    <3>2. Len(Payload(v)) \in Nat
      BY <3>1
    <3> QED BY <3>1, <3>2
  <2>2. K = <<1, y>> \o p
    BY <1>2, <1>5, <2>1
  <2>3. K \in Seq(Int) /\ Len(K) = 2 + n /\ K[1] = 1 /\ y \in 1..5
    <3>1. y \in 1..5
      BY <1>1, <1>5, <2>1 DEF IsNull
    <3> QED BY <2>1, <2>2, <3>1, BehindHeader
  <2>4. ASSUME NEW k \in 0..2 PROVE DecodeKey(SubSeq(K, 1, k)) = Refused
    <3>1. k \in 0..Len(K)
      BY <2>3
    <3>2. PICK q \in Seq(Int) : q = SubSeq(K, 1, k) /\ Len(q) = k /\ \A i \in 1..k : q[i] = K[i]
      BY <2>3, <3>1, FrontPart
    <3>3. k # 0 => q # <<>> /\ q[1] = 1
      <4>1. k # 0 => 1 \in 1..k
        OBVIOUS
      <4> QED BY <2>3, <3>2, <4>1
    <3>4. k = 0 => q = <<>>
      BY <3>2
    <3>5. Len(q) < 3
      BY <3>2
    <3>6. DecodeKey(q) = Refused
      BY <3>3, <3>4, <3>5 DEF DecodeKey
    <3> QED BY <3>2, <3>6
  <2>5. ASSUME NEW k \in 3..2 + n
        PROVE  LET r == SubSeq(p, 1, k - 2) IN
               /\ y = 1 => DecodeKey(SubSeq(K, 1, k)) =
                    IF k - 2 = 1 /\ r[1] \in {0, 1} THEN [type |-> 1, data |-> r] ELSE Refused
               /\ y = 2 => DecodeKey(SubSeq(K, 1, k)) =
                    IF k - 2 # 2 THEN Refused ELSE Integer(ReadBigEndian(r) - Half)
               /\ y = 3 => DecodeKey(SubSeq(K, 1, k)) =
                    IF k - 2 # 2 THEN Refused
                    ELSE Real(IF ReadBigEndian(r) >= Half THEN ReadBigEndian(r) - Half
                              ELSE 2 * Half - 1 - ReadBigEndian(r))
               /\ y \in {4, 5} => DecodeKey(SubSeq(K, 1, k)) = DecodeGroups(y, r)
    <3>1. k \in 3..2 + Len(p)
      BY <2>1
    <3>2. PICK q \in Seq(Int) : /\ q = SubSeq(K, 1, k) /\ Len(q) = k /\ q[1] = 1 /\ q[2] = y
                               /\ SubSeq(q, 3, Len(q)) = SubSeq(p, 1, k - 2)
      BY <2>2, <3>1, CutPayload
    <3>3. PICK r \in Seq(Int) : r = SubSeq(p, 1, k - 2) /\ Len(r) = k - 2
      <4>1. k - 2 \in 0..Len(p)
        BY <2>1
      <4> QED BY <4>1, FrontPart
    <3>4. q[1] = 1 /\ ~(Len(q) < 3) /\ r = SubSeq(q, 3, Len(q))
      BY <3>2, <3>3
    <3>5. /\ q[2] = 1 => DecodeKey(q) = IF Len(r) = 1 /\ r[1] \in {0, 1}
                                        THEN [type |-> 1, data |-> r] ELSE Refused
          /\ q[2] = 2 => DecodeKey(q) = IF Len(r) # 2 THEN Refused
                                        ELSE Integer(ReadBigEndian(r) - Half)
          /\ q[2] = 3 => DecodeKey(q) = IF Len(r) # 2 THEN Refused
                                        ELSE Real(IF ReadBigEndian(r) >= Half
                                                  THEN ReadBigEndian(r) - Half
                                                  ELSE 2 * Half - 1 - ReadBigEndian(r))
          /\ q[2] \in {4, 5} => DecodeKey(q) = DecodeGroups(q[2], r)
      BY <3>4, DecodeByType
    <3> QED BY <3>2, <3>3, <3>5
  <2>6. SubSeq(p, 1, n) = p
    BY <2>1
  <2>7. ASSUME NEW k \in 3..2 + n
        PROVE  DecodeKey(SubSeq(K, 1, k)) = IF k = 2 + n THEN v ELSE Refused
    <3>0. (k - 2 = n <=> k = 2 + n) /\ k - 2 \in 1..n
      BY <2>1
    <3>1. CASE y = 1
      <4>1. p = v.data /\ n = 1 /\ p[1] \in {0, 1} /\ v = [type |-> 1, data |-> p]
        <5>1. p = v.data
          BY <2>1, <3>1 DEF Payload, IsNull
        <5>2. Len(v.data) = 1 /\ v.data[1] \in 0..1
          BY <1>1, <2>1, <3>1 DEF InRange
        <5> QED BY <1>1, <2>1, <3>1, <5>1, <5>2
      <4>2. k - 2 = 1
        BY <3>0, <4>1
      <4> QED BY <2>5, <2>6, <3>0, <3>1, <4>1, <4>2
    <3>2. CASE y = 2
      <4>0. PICK h \in Nat : h = Half
        BY HalfFacts
      <4>m. PICK m \in Int : m = v.data[1] /\ m >= -h
        <5>1. v.data[1] \in -h..h - 1
          BY <2>1, <3>2, <4>0 DEF InRange
        <5> QED BY <5>1
      <4>u. PICK u \in Nat : u = m + h /\ m = u - h
        <5>1. m + h \in Nat /\ m = (m + h) - h
          BY <4>m
        <5> QED BY <5>1
      <4>1. u = m + Half /\ m = u - Half
        BY <4>0, <4>u
      <4>2. p = BigEndian(u)
        BY <2>1, <3>2, <4>m, <4>1 DEF Payload, IsNull, AsInteger
      <4>3. n = 2 /\ ReadBigEndian(p) = u
        BY <2>1, <4>2, BigEndianRead DEF BigEndian
      <4>4. v = Integer(m)
        <5>1. v.data = <<m>>
          BY <1>1, <2>1, <3>2, <4>m, Single
        <5> QED BY <1>1, <2>1, <3>2, <5>1 DEF Integer
      <4>5. CASE k = 2 + n
        <5>1. k - 2 = n /\ ~(k - 2 # 2)
          BY <4>3, <4>5
        <5>2. DecodeKey(SubSeq(K, 1, k)) = Integer(ReadBigEndian(p) - Half)
          BY <2>5, <2>6, <3>2, <5>1
        <5> QED BY <4>1, <4>3, <4>4, <4>5, <5>2
      <4>6. CASE k # 2 + n
        <5>1. k - 2 # 2
          BY <3>0, <4>3, <4>6
        <5> QED BY <2>5, <3>2, <4>6, <5>1
      <4> QED BY <4>5, <4>6
    <3>3. CASE y = 3
      <4>1. PICK h \in Nat, x \in Nat : h = Half /\ x = v.data[1] /\ x <= 2 * h - 1
        <5>1. PICK h \in Nat : h = Half
          BY HalfFacts
        <5>2. v.data[1] \in 0..2 * h - 1
          BY <2>1, <3>3, <5>1 DEF InRange
        <5>3. v.data[1] \in Nat /\ v.data[1] <= 2 * h - 1
          BY <5>2
        <5> QED BY <5>1, <5>3
      <4>2. PICK u \in Nat : u = RealKey(x) /\ (IF u >= h THEN u - h ELSE 2 * h - 1 - u) = x
        <5>1. RealKey(x) = IF x >= h THEN 2 * h - 1 - x ELSE x + h
          BY <4>1 DEF RealKey
        <5>2. CASE x >= h
          <6>1. PICK u \in Nat : u = 2 * h - 1 - x
            BY <4>1
          <6>2. ~(u >= h) /\ 2 * h - 1 - u = x
            BY <4>1, <5>2, <6>1, SMTT(30)
          <6> QED BY <5>1, <5>2, <6>1, <6>2
        <5>3. CASE ~(x >= h)
          <6>1. PICK u \in Nat : u = x + h
            OBVIOUS
          <6>2. u >= h /\ u - h = x
            BY <6>1
          <6> QED BY <5>1, <5>3, <6>1, <6>2
        <5> QED BY <5>2, <5>3
      <4>3. p = BigEndian(u)
        BY <2>1, <3>3, <4>1, <4>2 DEF Payload, IsNull, RealKey
      <4>4. n = 2 /\ ReadBigEndian(p) = u
        BY <2>1, <4>3, BigEndianRead DEF BigEndian
      <4>5. v = Real(x)
        <5>1. v.data = <<x>>
          BY <1>1, <2>1, <3>3, <4>1, Single
        <5> QED BY <1>1, <2>1, <3>3, <5>1 DEF Real
      <4>6. CASE k = 2 + n
        <5>1. k - 2 = n /\ ~(k - 2 # 2)
          BY <4>4, <4>6
        <5>2. DecodeKey(SubSeq(K, 1, k)) = Real(IF u >= h THEN u - h ELSE 2 * h - 1 - u)
          BY <2>5, <2>6, <3>3, <4>1, <4>4, <5>1
        <5> QED BY <4>2, <4>5, <4>6, <5>2
      <4>7. CASE k # 2 + n
        <5>1. k - 2 # 2
          BY <3>0, <4>4, <4>7
        <5> QED BY <2>5, <3>3, <4>7, <5>1
      <4> QED BY <4>6, <4>7
    <3>4. CASE y \in {4, 5}
      <4>1. p = Escaped(v.data) /\ v.data # <<>>
        BY <1>3, <2>1, <3>4 DEF Payload, IsNull
      <4>2. DecodeKey(SubSeq(K, 1, k)) = DecodeGroups(y, SubSeq(p, 1, k - 2))
        BY <2>5, <3>4
      <4>3. k - 2 \in 1..Len(Escaped(v.data))
        BY <2>1, <3>0, <4>1
      <4>4. DecodeGroups(y, SubSeq(p, 1, k - 2)) = IF k - 2 = n THEN [type |-> y, data |-> v.data] ELSE Refused
        BY <1>1, <2>1, <4>1, <4>3, GroupsRead, SMTT(30)
      <4> QED BY <1>1, <2>1, <3>0, <4>2, <4>4
    <3> QED BY <2>3, <3>1, <3>2, <3>3, <3>4
  <2>8. 0 < n
    <3>1. CASE y \in {1, 2, 3}
      <4>1. CASE y = 1
        <5>1. p = v.data
          BY <2>1, <4>1 DEF Payload, IsNull
        <5>2. Len(p) = 1
          BY <1>1, <2>1, <4>1, <5>1
        <5> QED BY <2>1, <5>2
      <4>2. CASE y \in {2, 3}
        <5>1. \E u : p = BigEndian(u)
          BY <2>1, <4>2 DEF Payload, IsNull
        <5>2. Len(p) = 2
          BY <5>1 DEF BigEndian
        <5> QED BY <2>1, <5>2
      <4> QED BY <3>1, <4>1, <4>2
    <3>2. CASE y \in {4, 5}
      <4>1. p = Escaped(v.data) /\ v.data # <<>>
        BY <1>3, <2>1, <3>2 DEF Payload, IsNull
      <4>2. 1 < Len(p)
        BY <1>1, <4>1, FirstByte
      <4> QED BY <2>1, <4>2
    <3> QED BY <2>3, <3>1, <3>2
  <2>9. \A k \in 0..2 + n : k \in 0..2 \/ k \in 3..2 + n
    OBVIOUS
  <2>10. \A k \in 0..2 : k # 2 + n
    BY <2>8
  <2> QED BY <2>3, <2>4, <2>7, <2>9, <2>10
<1> QED BY <1>4, <1>5

-----------------------------------------------------------------------------
(***************************************************************************)
(* FlattenSeq, from the left.                                              *)
(***************************************************************************)
FlatAt(f, q, i) == IF i = 1 THEN q[i] ELSE f[i-1] \o q[i]

FlatTo(f, q, hi) == f = [i \in 1..hi |-> FlatAt(f, q, i)]

LEMMA FlatExists ==
  ASSUME NEW q, NEW hi \in Nat
  PROVE  \E f : FlatTo(f, q, hi)
<1> DEFINE S == {n \in Nat : \E f : FlatTo(f, q, n)}
<1>1. 0 \in S
  <2> DEFINE f == [n \in 1..0 |-> q]
  <2>1. 1..0 = {}
    OBVIOUS
  <2>2. f = [i \in 1..0 |-> FlatAt(f, q, i)]
    BY <2>1
  <2>3. FlatTo(f, q, 0)
    BY <2>2 DEF FlatTo
  <2> HIDE DEF f
  <2> QED BY <2>3
<1>2. ASSUME NEW n \in S PROVE n + 1 \in S
  <2>1. n \in Nat
    OBVIOUS
  <2>2. PICK f : FlatTo(f, q, n)
    OBVIOUS
  <2> HIDE DEF S
  <2> DEFINE g == [k \in 1..n + 1 |-> IF k = n + 1 THEN FlatAt(f, q, n + 1) ELSE f[k]]
  <2>3. ASSUME NEW k \in 1..n + 1
        PROVE  g[k] = FlatAt(g, q, k)
    <3>1. k # 1 => k - 1 \in 1..n /\ k - 1 # n + 1 /\ k - 1 \in 1..n + 1
      BY <2>1
    <3>2. k # 1 => g[k - 1] = f[k - 1]
      BY <3>1
    <3>3. FlatAt(g, q, k) = FlatAt(f, q, k)
      BY <3>2 DEF FlatAt
    <3>4. CASE k = n + 1
      BY <3>3, <3>4
    <3>5. CASE k # n + 1
      <4>1. k \in 1..n
        BY <2>1, <3>5
      <4>2. g[k] = f[k]
        BY <3>5
      <4>3. f[k] = FlatAt(f, q, k)
        BY <2>2, <4>1 DEF FlatTo
      <4> QED BY <3>3, <4>2, <4>3
    <3> QED BY <3>4, <3>5
  <2>4. g = [k \in 1..n + 1 |-> g[k]]
    OBVIOUS
  <2> HIDE DEF g
  <2>5. FlatTo(g, q, n + 1)
    BY <2>3, <2>4 DEF FlatTo
  <2> QED BY <2>1, <2>5 DEF S
<1>3. S = Nat
  <2>1. S \in SUBSET Nat
    OBVIOUS
  <2> HIDE DEF S
  <2> QED BY <1>1, <1>2, <2>1, Inductive
<1> QED BY <1>3

\* F[i] is what the first i parts of q give.
PrefixesOf(F, q) ==
  /\ F \in [0..Len(q) -> Seq(Int)] /\ F[0] = <<>>
  /\ \A i \in 0..Len(q) - 1 : F[i + 1] = F[i] \o q[i + 1]
  /\ F[Len(q)] = FlattenSeq(q)

LEMMA PrefixesExist ==
  ASSUME NEW q \in Seq(Seq(Int))
  PROVE  \E F : PrefixesOf(F, q)
<1>0. PICK m \in Nat : m = Len(q)
  OBVIOUS
<1>1. CASE m = 0
  <2>1. FlattenSeq(q) = <<>>
    <3>1. FlattenSeq(q) = q
      BY <1>0, <1>1 DEF FlattenSeq
    <3>2. q = <<>>
      <4>1. Len(q) = 0
        BY <1>0, <1>1
      <4> QED BY <4>1
    <3> QED BY <3>1, <3>2
  <2> DEFINE F == [i \in 0..0 |-> <<>>]
  <2>2. F \in [0..0 -> Seq(Int)] /\ F[0] = <<>> /\ 0..0 - 1 = {}
    OBVIOUS
  <2> HIDE DEF F
  <2>3. PrefixesOf(F, q)
    BY <1>0, <1>1, <2>1, <2>2 DEF PrefixesOf
  <2> QED BY <2>3
<1>2. CASE m # 0
  <2>1. PICK G : G = CHOOSE f : FlatTo(f, q, m)
    OBVIOUS
  <2>2. FlattenSeq(q) = G[m]
    BY <1>0, <1>2, <2>1 DEF FlattenSeq, FlatTo, FlatAt
  <2>3. FlatTo(G, q, m)
    BY <2>1, FlatExists
  <2>4. \A i \in 1..m : G[i] = FlatAt(G, q, i)
    BY <2>3 DEF FlatTo
  <2> DEFINE F == [i \in 0..m |-> IF i = 0 THEN <<>> ELSE G[i]]
  <2>5. F[0] = <<>> /\ F[m] = FlattenSeq(q)
    BY <1>2, <2>2
  <2>6. ASSUME NEW i \in 0..m - 1
        PROVE  F[i + 1] = F[i] \o q[i + 1]
    <3>1. i + 1 \in 1..m /\ i + 1 # 0 /\ (i + 1) - 1 = i /\ i + 1 \in 0..m /\ i \in 0..m
      OBVIOUS
    <3>2. F[i + 1] = FlatAt(G, q, i + 1)
      BY <2>4, <3>1
    <3>3. CASE i = 0
      <4>1. q[i + 1] \in Seq(Int) /\ F[i] = <<>>
        BY <1>0, <3>1, <3>3
      <4>2. F[i + 1] = q[i + 1]
        BY <3>2, <3>3 DEF FlatAt
      <4> HIDE DEF F
      <4> QED BY <4>1, <4>2
    <3>4. CASE i # 0
      <4>1. i + 1 # 1 /\ F[i] = G[i]
        BY <3>1, <3>4
      <4> HIDE DEF F
      <4> QED BY <3>1, <3>2, <4>1 DEF FlatAt
    <3> QED BY <3>3, <3>4
  <2>7. DOMAIN F = 0..m /\ F = [i \in 0..m |-> F[i]]
    OBVIOUS
  <2> HIDE DEF F
  <2> DEFINE S == {n \in Nat : n <= m => F[n] \in Seq(Int)}
  <2>8. 0 \in S
    <3>1. <<>> \in Seq(Int)
      OBVIOUS
    <3> QED BY <2>5, <3>1
  <2>9. ASSUME NEW n \in S PROVE n + 1 \in S
    <3>1. n \in Nat
      OBVIOUS
    <3> SUFFICES ASSUME n + 1 <= m PROVE F[n + 1] \in Seq(Int)
      BY <3>1
    <3>2. n \in 0..m - 1 /\ n <= m /\ n + 1 \in 1..Len(q)
      BY <1>0, <3>1
    <3>3. F[n] \in Seq(Int) /\ q[n + 1] \in Seq(Int)
      BY <3>2
    <3> QED BY <2>6, <3>2, <3>3, ConcatProperties
  <2>10. S = Nat
    <3>1. S \in SUBSET Nat
      OBVIOUS
    <3> HIDE DEF S
    <3> QED BY <2>8, <2>9, <3>1, Inductive, Zenon
  <2>11. ASSUME NEW n \in 0..m PROVE F[n] \in Seq(Int)
    <3>1. n \in S /\ n <= m
      BY <2>10
    <3> QED BY <3>1
  <2>12. F \in [0..m -> Seq(Int)]
    BY <2>7, <2>11
  <2> QED BY <1>0, <2>5, <2>6, <2>12 DEF PrefixesOf
<1> QED BY <1>1, <1>2

\* Each of them is the beginning of the whole.
Begins(c, w) == Len(c) <= Len(w) /\ \A p \in 1..Len(c) : w[p] = c[p]

LEMMA PrefixOfWhole ==
  ASSUME NEW q \in Seq(Seq(Int)), NEW F, PrefixesOf(F, q), NEW k \in 0..Len(q)
  PROVE  Begins(F[k], FlattenSeq(q))
<1>0. PICK m \in Nat : m = Len(q)
  OBVIOUS
<1> DEFINE S == {d \in Nat : d <= m => Begins(F[m - d], F[m])}
<1>1. \A n \in 0..m : F[n] \in Seq(Int)
  BY <1>0 DEF PrefixesOf
<1>2. 0 \in S
  <2>1. Len(F[m]) \in Nat
    BY <1>1
  <2>2. Begins(F[m - 0], F[m])
    BY <2>1 DEF Begins
  <2> QED BY <2>2
<1>3. ASSUME NEW d \in S PROVE d + 1 \in S
  <2>1. d \in Nat
    OBVIOUS
  <2> SUFFICES ASSUME d + 1 <= m PROVE Begins(F[m - (d + 1)], F[m])
    BY <2>1
  <2>2. PICK n \in Nat : n = m - (d + 1)
    BY <2>1
  <2>3. n \in 0..m - 1 /\ n + 1 = m - d /\ n + 1 \in 0..m /\ n \in 0..m /\ n + 1 \in 1..Len(q)
    BY <1>0, <2>1, <2>2
  <2>4. Begins(F[n + 1], F[m])
    <3>1. d <= m
      BY <2>1
    <3>2. Begins(F[m - d], F[m])
      BY <3>1
    <3> HIDE DEF S
    <3> QED BY <2>3, <3>2
  <2>5. F[n + 1] = F[n] \o q[n + 1]
    BY <1>0, <2>3 DEF PrefixesOf
  <2>6. PICK a \in Seq(Int), b \in Seq(Int) : a = F[n] /\ b = q[n + 1]
    BY <1>1, <2>3, SMTT(30)
  <2>7. Len(a \o b) = Len(a) + Len(b) /\ \A p \in 1..Len(a) : (a \o b)[p] = a[p]
    BY ConcatProperties
  <2>8. Len(a) <= Len(a \o b) /\ Len(a) \in Nat /\ Len(a \o b) \in Nat
    BY <2>7
  <2>9. PICK c : c = a \o b
    OBVIOUS
  <2>10. PICK w \in Seq(Int) : w = F[m]
    BY <1>1
  <2>11. Len(c) <= Len(w) /\ \A p \in 1..Len(c) : w[p] = c[p]
    BY <2>4, <2>5, <2>6, <2>9, <2>10 DEF Begins
  <2>12. Len(a) <= Len(w) /\ \A p \in 1..Len(a) : w[p] = a[p]
    BY <2>7, <2>8, <2>9, <2>10, <2>11
  <2> QED BY <2>2, <2>6, <2>10, <2>12 DEF Begins
<1>4. S = Nat
  <2>1. S \in SUBSET Nat
    OBVIOUS
  <2> HIDE DEF S
  <2> QED BY <1>2, <1>3, <2>1, Inductive, Zenon
<1>5. m - k \in S /\ m - k <= m /\ m - (m - k) = k
  <2> HIDE DEF S
  <2> QED BY <1>0, <1>4
<1>6. Begins(F[k], F[m])
  BY <1>5
<1> QED BY <1>0, <1>6 DEF PrefixesOf
=============================================================================
