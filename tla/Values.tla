------------------------------- MODULE Values -------------------------------
(***************************************************************************)
(* SQL values (src/src/common/value.cpp): their comparison, and the keys   *)
(* by which an index orders them.                                          *)
(*                                                                         *)
(* The widths are parameters.  A byte has Base values, an INTEGER and a    *)
(* REAL have two bytes, and a text is encoded in groups of Group bytes     *)
(* (8 in the code).  A REAL is a miniature double: its bits are a sign and *)
(* a magnitude, consecutive magnitudes are consecutive numbers, exact up   *)
(* to Mantissa (2^53) and even ones above, the last one is NaN.            *)
(***************************************************************************)
EXTENDS Integers, Sequences

CONSTANTS Base,      \* 256 in the code
          Group,     \* 8 in the code
          Mantissa   \* the integers up to here are exact as REAL

ASSUME WidthAssumption ==
  /\ Base \in Nat /\ Base % 2 = 0 /\ Group \in Nat /\ 0 < Group
  /\ Group + 1 < Base /\ 5 < Base
  /\ Mantissa \in Nat /\ Mantissa < (Base * Base) \div 2

Half == (Base * Base) \div 2

\* A value is its TypeId and its data, a sequence of numbers.
Null       == [type |-> 0, data |-> <<>>]
Boolean(b) == [type |-> 1, data |-> <<IF b THEN 1 ELSE 0>>]
Integer(n) == [type |-> 2, data |-> <<n>>]
Real(bits) == [type |-> 3, data |-> <<bits>>]
Text(s)    == [type |-> 4, data |-> s]
Blob(s)    == [type |-> 5, data |-> s]

IsValue(v) ==
  /\ v.type \in 0..5 /\ v.data \in Seq(Int)
  /\ v.type \in {1, 2, 3} => Len(v.data) = 1

\* The data fit into the alternative of the variant that holds them.
InRange(v) ==
  /\ v = [type |-> v.type, data |-> v.data]
  /\ v.type = 0 => v.data = <<>>
  /\ v.type = 1 => v.data[1] \in 0..1
  /\ v.type = 2 => v.data[1] \in -Half..Half - 1
  /\ v.type = 3 => v.data[1] \in 0..2 * Half - 1
  /\ v.type >= 4 => v.data \in Seq(0..Base - 1)

IsNull(v)    == v.type = 0
IsNumber(v)  == v.type \in {2, 3}
AsInteger(v) == v.data[1]
IsNaN(v)     == v.type = 3 /\ v.data[1] % Half = Half - 1

\* The number that the bits of a REAL stand for.
AsReal(bits) ==
  LET mag == bits % Half
      n   == IF mag <= Mantissa THEN mag ELSE Mantissa + 2 * (mag - Mantissa)
  IN  IF bits >= Half THEN -n ELSE n

\* static_cast<double>: ties go to the even neighbour.
Rounded(n) ==
  LET q == n \div 2 IN
  IF n \in -Mantissa..Mantissa \/ n % 2 = 0 THEN n
  ELSE IF q % 2 = 0 THEN 2 * q ELSE 2 * q + 2

AsDouble(v) == IF v.type = 2 THEN Rounded(AsInteger(v)) ELSE AsReal(v.data[1])

\* The order of std::string, which is also the order of memcmp on keys.
Less(s, t) ==
  \E k \in 0..Len(s) :
    /\ k < Len(t)
    /\ SubSeq(s, 1, k) = SubSeq(t, 1, k)
    /\ k = Len(s) \/ s[k + 1] < t[k + 1]

-----------------------------------------------------------------------------
\* Mutant: numbers are compared only with numbers of their own type.
CompareStrict(a, b) ==
  IF IsNull(a) \/ IsNull(b) \/ a.type # b.type THEN "unknown"
  ELSE IF Less(a.data, b.data) THEN "lt"
  ELSE IF Less(b.data, a.data) THEN "gt" ELSE "eq"

\* Value::Compare; "unknown" is the empty optional.
Compare(a, b) ==
  IF IsNull(a) \/ IsNull(b) THEN "unknown"
  ELSE IF IsNumber(a) /\ IsNumber(b) THEN
         IF IsNaN(a) \/ IsNaN(b) THEN "unknown"
         ELSE IF AsDouble(a) < AsDouble(b) THEN "lt"
         ELSE IF AsDouble(a) > AsDouble(b) THEN "gt" ELSE "eq"
  ELSE IF a.type # b.type THEN "unknown"
  ELSE IF Less(a.data, b.data) THEN "lt"
  ELSE IF Less(b.data, a.data) THEN "gt" ELSE "eq"

\* operator==, which decides on duplicates in a UNIQUE column.
Same(a, b) == (IsNull(a) /\ IsNull(b)) \/ Compare(a, b) = "eq"

\* Mutant: UNKNOWN is taken for TRUE.
TruthyUnlessFalse(v) == v # Boolean(FALSE)

\* Truthy of src/src/api/db.cpp: WHERE selects a row for TRUE only.
Truthy(v) == v = Boolean(TRUE)

-----------------------------------------------------------------------------
Decimal[n \in Nat] ==
  IF n < 10 THEN <<48 + n>> ELSE Append(Decimal[n \div 10], 48 + (n % 10))

WithSign(n) == IF n < 0 THEN <<45>> \o Decimal[-n] ELSE Decimal[n]

\* Value::ToString, in character codes.  A blob is X'..' in hexadecimal; its
\* bytes stand for their digits here.
Shown(v) ==
  CASE v.type = 0 -> <<78, 85, 76, 76>>
    [] v.type = 1 -> IF v.data[1] = 1 THEN <<84, 82, 85, 69>> ELSE <<70, 65, 76, 83, 69>>
    [] v.type = 2 -> WithSign(AsInteger(v))
    [] v.type = 3 -> IF IsNaN(v) THEN (IF v.data[1] >= Half THEN <<45>> ELSE <<>>) \o <<110, 97, 110>>
                     ELSE IF v.data[1] = Half THEN <<45, 48>> ELSE WithSign(AsReal(v.data[1]))
    [] v.type = 4 -> v.data
    [] OTHER      -> <<88, 39>> \o v.data \o <<39>>

-----------------------------------------------------------------------------
BigEndian(u) == <<u \div Base, u % Base>>

\* AppendEscaped: the groups, each with its marker byte.
Escaped(s) ==
  IF s = <<>> THEN <<0>>
  ELSE [i \in 1..((Len(s) + Group - 1) \div Group) * (Group + 1) |->
          LET g     == (i - 1) \div (Group + 1)
              r     == (i - 1) % (Group + 1)
              count == IF Len(s) - g * Group < Group
                       THEN Len(s) - g * Group ELSE Group
          IN  IF r < count THEN s[g * Group + r + 1]
              ELSE IF r < Group THEN 0
              ELSE IF (g + 1) * Group < Len(s) THEN Base - 1 ELSE count]

\* Mutant: the sign bit of a negative REAL is flipped and nothing else.
PayloadHalfFlipped(v) ==
  CASE IsNull(v)      -> <<>>
    [] v.type = 1     -> v.data
    [] v.type = 2     -> BigEndian(AsInteger(v) + Half)
    [] v.type = 3     -> BigEndian((v.data[1] + Half) % (2 * Half))
    [] v.type >= 4    -> Escaped(v.data)

\* The bytes after the marker and the type.
Payload(v) ==
  CASE IsNull(v)      -> <<>>
    [] v.type = 1     -> v.data
    [] v.type = 2     -> BigEndian(AsInteger(v) + Half)
    [] v.type = 3     -> BigEndian(IF v.data[1] >= Half
                                   THEN 2 * Half - 1 - v.data[1]
                                   ELSE v.data[1] + Half)
    [] v.type >= 4    -> Escaped(v.data)

EncodeKey(v, descending) ==
  LET key == IF IsNull(v) THEN <<0>> ELSE <<1, v.type>> \o Payload(v) IN
  IF descending THEN [i \in 1..Len(key) |-> Base - 1 - key[i]] ELSE key

Refused == [type |-> 6, data |-> <<>>]

ReadBigEndian(p) == p[1] * Base + p[2]

\* Mutant: a text may end at a group that says that more follow.
DecodeGroupsUnended(type, p) ==
  LET marker(g) == p[g * (Group + 1)]
      groups    == Len(p) \div (Group + 1)
  IN  IF groups = 0 THEN Refused
      ELSE [type |-> type,
            data |-> [i \in 1..(groups - 1) * Group
                               + (IF marker(groups) = Base - 1 THEN Group
                                  ELSE marker(groups)) |->
                        p[i + (i - 1) \div Group]]]

\* The groups of a text or a blob: every group but the last is full and says
\* so, and nothing follows the last one.
DecodeGroups(type, p) ==
  LET marker(g) == p[g * (Group + 1)]
      ends      == {g \in 1..Len(p) \div (Group + 1) : marker(g) <= Group}
      last      == CHOOSE g \in ends : \A h \in ends : g <= h
  IN  IF \/ ends = {}
         \/ last * (Group + 1) # Len(p)
         \/ \E g \in 1..last - 1 : marker(g) # Base - 1
      THEN Refused
      ELSE [type |-> type,
            data |-> [i \in 1..(last - 1) * Group + marker(last) |->
                        p[i + (i - 1) \div Group]]]

DecodeKey(key) ==
  LET p == SubSeq(key, 3, Len(key)) IN
  IF key = <<>> THEN Refused
  ELSE IF key[1] = 0 THEN Null
  ELSE IF key[1] # 1 \/ Len(key) < 3 THEN Refused
  ELSE CASE key[2] = 1 -> IF Len(p) = 1 /\ p[1] \in {0, 1}
                          THEN [type |-> 1, data |-> p] ELSE Refused
         [] key[2] = 2 -> IF Len(p) # 2 THEN Refused
                          ELSE Integer(ReadBigEndian(p) - Half)
         [] key[2] = 3 -> IF Len(p) # 2 THEN Refused
                          ELSE Real(IF ReadBigEndian(p) >= Half
                                    THEN ReadBigEndian(p) - Half
                                    ELSE 2 * Half - 1 - ReadBigEndian(p))
         [] key[2] \in {4, 5} -> DecodeGroups(key[2], p)
         [] OTHER      -> Refused

-----------------------------------------------------------------------------
\* sign(memcmp) of two keys.
MemCmp(s, t) == IF Less(s, t) THEN "lt" ELSE IF Less(t, s) THEN "gt" ELSE "eq"

Sign(m, n) == IF m < n THEN "lt" ELSE IF n < m THEN "gt" ELSE "eq"

\* The place of a REAL among all REALs: NaN with a sign, the negative numbers,
\* -0.0, +0.0, the positive numbers, NaN without a sign.
RealOrder(bits) == IF bits >= Half THEN Half - 1 - bits ELSE bits

\* The order of two values of one type, or of a value and NULL: NULL first,
\* then what Compare says.  Where Compare finds INTEGERs equal (beyond the
\* exact doubles it may) they are in the order of their numbers; where it finds
\* REALs equal (the two zeros) or not comparable (NaN), in the order of RealOrder.
\* That is the "IEEE-754 total order" of ARCHITECTURE.md:351.  It is not what the
\* document goes on to say (352: NaN sorts last, the zeros encode identically)
\* and tests (359: the sign of memcmp is that of compare): -0.0 comes before +0.0
\* although Compare finds them equal, and NaN with a sign before every number.
KeyOrdering(a, b) ==
  IF IsNull(a) \/ IsNull(b) THEN Sign(a.type, b.type)
  ELSE IF Compare(a, b) \in {"lt", "gt"} THEN Compare(a, b)
  ELSE IF a.type = 2 THEN Sign(AsInteger(a), AsInteger(b))
  ELSE IF a.type = 3 THEN Sign(RealOrder(a.data[1]), RealOrder(b.data[1]))
  ELSE "eq"

\* The key of an empty text is a prefix of the keys of the texts that begin
\* with a zero byte: their descending keys are the wrong way round.
Prefixed(a, b) == a.type >= 4 /\ a.data = <<>> /\ b.data # <<>> /\ b.data[1] = 0

\* An index over column values must order the rows as SQL compares them:
\* sign(memcmp) is KeyOrdering, and its reverse for descending keys.
KeysFollow(a, b) ==
  a.type = b.type \/ IsNull(a) \/ IsNull(b) =>
    /\ MemCmp(EncodeKey(a, FALSE), EncodeKey(b, FALSE)) = KeyOrdering(a, b)
    /\ Prefixed(a, b) \/ Prefixed(b, a)
       \/ MemCmp(EncodeKey(b, TRUE), EncodeKey(a, TRUE)) = KeyOrdering(a, b)

\* A key can be read back, and no key that was cut short is taken for a value
\* (the key of an empty text cannot be read back at all).  This holds of each of
\* the two zeros: with the equal keys that ARCHITECTURE.md:352 has for them, one
\* could not be read back.
KeyReads(v) ==
  LET key == EncodeKey(v, FALSE) IN
  v.type < 4 \/ v.data # <<>> =>
    \A k \in 0..Len(key) :
      DecodeKey(SubSeq(key, 1, k)) = IF k = Len(key) THEN v ELSE Refused

\* What ORDER BY needs of Compare: "not comparable or equal" is transitive and
\* so is "less", over the values that one column may hold (an INTEGER column
\* takes REAL values as well), NULL and NaN apart.
Ordered(a, b, c) ==
  LET column == {a, b, c} IN
  /\ \A v \in column : ~IsNull(v) /\ ~IsNaN(v)
  /\ (\A v \in column : IsNumber(v)) \/ (\A v \in column : v.type = a.type)
  =>
    /\ Compare(a, b) = "lt" /\ Compare(b, c) # "gt" => Compare(a, c) = "lt"
    /\ Compare(a, b) = "eq" /\ Compare(b, c) = "eq" => Compare(a, c) = "eq"
    /\ Compare(a, b) = "lt" <=> Compare(b, a) = "gt"
=============================================================================
