---------------------------- MODULE SqlOperators ----------------------------
(***************************************************************************)
(* The operators of SQL expressions, on values (Eval in                    *)
(* src/src/api/db.cpp).  A tree is one of [op |-> "lit", val],             *)
(* [op |-> "col", col], [op |-> "param", index] and [op, args].  An        *)
(* operator gives a value, or Error where the code sets the status; the    *)
(* callers give the statement up then, whatever Eval returned.  LIKE is    *)
(* the module LikeMatch; LENGTH, UPPER and LOWER are left out.             *)
(***************************************************************************)
EXTENDS Values

Error == [type |-> 7, data |-> <<>>]

Lit(v)            == [op |-> "lit", val |-> v]
Col(i)            == [op |-> "col", col |-> i]
Node(op, args)    == [op |-> op, args |-> args]

\* Signed overflow is undefined in C++; the build wraps.
Wrapped(n) == ((n + Half) % (2 * Half)) - Half

Abs(n) == IF n < 0 THEN -n ELSE n

\* The REAL nearest to n / d, ties to the even one (infinities and NaN as
\* operands are left out).
Nearest(n, d) ==
  LET dist(m) == Abs(Abs(n) - AsReal(m) * Abs(d))
      m == CHOOSE m \in 0..Half - 2 : \A k \in 0..Half - 2 :
             \/ dist(m) < dist(k)
             \/ dist(m) = dist(k) /\ (m = k \/ m % 2 = 0)
  IN  Real(IF n # 0 /\ (n < 0) # (d < 0) THEN m + Half ELSE m)

\* Both operands of % are truncated towards zero, as in C++.
Remainder(a, b) == LET r == Abs(a) % Abs(b) IN IF a < 0 THEN -r ELSE r

\* With a REAL operand every operator but + - * divides, % included.
OnReals(op, a, b) ==
  Nearest(CASE op = "+" -> a + b [] op = "-" -> a - b [] op = "*" -> a * b [] OTHER -> a,
          IF op \in {"/", "%"} THEN b ELSE 1)

OnIntegers(op, i, j) ==
  CASE op = "+" -> Wrapped(i + j) [] op = "-" -> Wrapped(i - j) [] op = "*" -> Wrapped(i * j)
    [] OTHER -> Remainder(i, j)

Arithmetic(op, l, r) ==
  IF \/ ~IsNumber(l) \/ ~IsNumber(r)
     \/ op \in {"/", "%"} /\ AsDouble(r) = 0 THEN Error
  ELSE IF l.type = 3 \/ r.type = 3 \/ op = "/" THEN OnReals(op, AsDouble(l), AsDouble(r))
  ELSE Integer(OnIntegers(op, AsInteger(l), AsInteger(r)))

\* Mutant: UNKNOWN AND FALSE is UNKNOWN.
LogicUnknownFirst(op, l, r) ==
  LET absorbing == Boolean(op = "or") IN
  IF {l.type, r.type} \ {0, 1} # {} THEN Error
  ELSE IF IsNull(l) \/ IsNull(r) THEN Null
  ELSE IF absorbing \in {l, r} THEN absorbing
  ELSE Boolean(op = "and")

\* AND and OR: both operands are always evaluated.
Logic(op, l, r) ==
  LET absorbing == Boolean(op = "or") IN
  IF {l.type, r.type} \ {0, 1} # {} THEN Error
  ELSE IF absorbing \in {l, r} THEN absorbing
  ELSE IF IsNull(l) \/ IsNull(r) THEN Null
  ELSE Boolean(op = "and")

\* = and <> give NULL for operands that cannot be compared (c is what Compare
\* gives for them) ...
Equality(op, c) ==
  IF c = "unknown" THEN Null ELSE Boolean((c = "eq") = (op = "="))

\* ... and < and > an error.
Comparison(op, c) ==
  IF c = "unknown" THEN Error
  ELSE Boolean(CASE op = "<"  -> c = "lt"
                 [] op = "<=" -> c # "gt"
                 [] op = ">"  -> c = "gt"
                 [] op = ">=" -> c # "lt")

Unary(op, v) ==
  CASE op = "is null"     -> Boolean(IsNull(v))
    [] op = "is not null" -> Boolean(~IsNull(v))
    [] op = "not" -> IF IsNull(v) THEN Null
                     ELSE IF v.type # 1 THEN Error ELSE Boolean(v.data[1] = 0)
    [] op \in {"pos", "neg"} -> IF ~IsNumber(v) THEN Error
                     ELSE IF op = "pos" THEN v
                     ELSE IF v.type = 2 THEN Integer(Wrapped(-AsInteger(v)))
                     ELSE Real((v.data[1] + Half) % (2 * Half))

EvalAbs(v) ==
  CASE IsNull(v)  -> Null
    [] v.type = 2 -> Integer(Wrapped(Abs(AsInteger(v))))
    [] v.type = 3 -> Real(v.data[1] % Half)
    [] OTHER      -> Error

\* The first position in S; the candidates of IN that are equal to the needle.
FirstIn(S)  == CHOOSE i \in S : \A j \in S : i <= j
Matches(v) == {i \in 2..Len(v) : Compare(v[1], v[i]) = "eq"}

\* What IN looks at: the needle, and the candidates up to the first that is
\* equal to it.
Seen(v) == IF Matches(v) = {} THEN 1..Len(v) ELSE 1..FirstIn(Matches(v))

\* Mutant: a needle that no candidate equals is UNKNOWN.
EvalInUnknown(v) ==
  IF v[1] = Error \/ IsNull(v[1]) THEN v[1]
  ELSE IF \E i \in Seen(v) : v[i] = Error THEN Error
  ELSE IF Matches(v) = {} THEN Null ELSE Boolean(TRUE)

\* IN stops at the first candidate that is equal; one that cannot be compared
\* with the needle, NULL included, is passed over.  v: the values of the
\* needle and the candidates.
EvalIn(v) ==
  IF v[1] = Error \/ IsNull(v[1]) THEN v[1]
  ELSE IF \E i \in Seen(v) : v[i] = Error THEN Error
  ELSE Boolean(Matches(v) # {})

\* COALESCE stops at the first value that is not NULL.
EvalCoalesce(v) ==
  LET found == {i \in 1..Len(v) : ~IsNull(v[i])} IN
  IF found = {} THEN Null ELSE v[FirstIn(found)]

\* The operator on the values of its operands.  Evaluation has no effects, so
\* an operand that the code does not reach may be evaluated here.
Apply(op, v) ==
  CASE op = "in"       -> EvalIn(v)
    [] op = "coalesce" -> EvalCoalesce(v)
    [] op \notin {"in", "coalesce"} ->
         IF \E i \in 1..Len(v) : v[i] = Error THEN Error
         ELSE CASE op \in {"is null", "is not null", "not", "pos", "neg"} -> Unary(op, v[1])
                [] op = "abs"                        -> EvalAbs(v[1])
                [] op \in {"and", "or"}              -> Logic(op, v[1], v[2])
                [] op \in {"+", "-", "*", "/", "%"}  -> Arithmetic(op, v[1], v[2])
                [] op \in {"=", "<>"}                -> Equality(op, Compare(v[1], v[2]))
                [] op \in {"<", "<=", ">", ">="}     -> Comparison(op, Compare(v[1], v[2]))
=============================================================================
