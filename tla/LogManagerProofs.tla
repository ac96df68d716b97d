-------------------------- MODULE LogManagerProofs --------------------------
(***************************************************************************)
(* Facts about the log used by the proofs of the modules built on it.      *)
(***************************************************************************)
EXTENDS LogManager, WellFoundedInduction, SequenceTheorems, TLAPS

\* The strict order on the naturals, as a set of pairs.
LEMMA LessThanRelation ==
  OpToRel(<, Nat) = {ss \in Nat \X Nat : ss[1] < ss[2]}
  BY DEF OpToRel

\* A set of naturals that is not empty has a least element.
LEMMA LeastNatural ==
  ASSUME NEW S \in SUBSET Nat, S # {}
  PROVE  \E m \in S : \A n \in S : m <= n
<1> DEFINE R == {ss \in Nat \X Nat : ss[1] < ss[2]}
<1>0. IsWellFoundedOn(R, Nat)
  BY NatLessThanWellFounded, LessThanRelation
<1> HIDE DEF R
<1>1. PICK m \in S : \A n \in S : ~ (<<n, m>> \in R)
  BY <1>0, WFMin
<1>2. ASSUME NEW n \in S PROVE m <= n
  <2>1. n \in Nat /\ m \in Nat
    OBVIOUS
  <2>2. n < m => <<n, m>> \in R
    BY <2>1 DEF R
  <2> QED BY <1>1, <2>1, <2>2
<1> QED BY <1>2

\* A set of naturals with an upper bound has a greatest element.
LEMMA GreatestNatural ==
  ASSUME NEW S \in SUBSET Nat, S # {}, NEW b \in Nat, \A n \in S : n <= b
  PROVE  \E m \in S : \A n \in S : n <= m
<1> DEFINE T == {k \in Nat : \E n \in S : k + n = b}
<1>1. T # {}
  <2>1. PICK x \in S : TRUE
    OBVIOUS
  <2>2. b - x \in Nat /\ (b - x) + x = b
    OBVIOUS
  <2> QED BY <2>1, <2>2
<1>2. PICK k \in T : \A n \in T : k <= n
  BY <1>1, LeastNatural
<1>3. PICK m \in S : k + m = b
  OBVIOUS
<1>4. ASSUME NEW n \in S PROVE n <= m
  <2>1. b - n \in T
    OBVIOUS
  <2>2. k <= b - n
    BY <2>1, <1>2
  <2>3. n \in Nat /\ m \in Nat /\ k \in Nat
    OBVIOUS
  <2> HIDE DEF T
  <2> QED BY <2>2, <2>3, <1>3
<1> QED BY <1>4

-----------------------------------------------------------------------------
\* Prefixes of a log.

\* The pseudo-record of a torn write is a record of the model.
LEMMA TornIsRec == Torn \in Rec
BY DEF Rec

\* Prefixes of a sequence.
LEMMA FirstOfFacts ==
  ASSUME NEW s \in Seq(Rec), NEW n \in 0..Len(s)
  PROVE  /\ FirstOf(s, n) \in Seq(Rec)
         /\ Len(FirstOf(s, n)) = n
         /\ \A i \in 1..n : FirstOf(s, n)[i] = s[i]
BY DEF FirstOf

\* ReadRecords returns the records before the first torn one.
LEMMA ReadRecordsFacts ==
  ASSUME NEW s \in Seq(Rec)
  PROVE  \E n \in 0..Len(s) :
           /\ ReadRecords(s) = FirstOf(s, n)
           /\ Intact(FirstOf(s, n))
           /\ n < Len(s) => s[n + 1].type = "torn"
<1> DEFINE P(n) == /\ Intact(FirstOf(s, n))
                   /\ n < Len(s) => s[n + 1].type = "torn"
           T == {i \in 1..Len(s) : s[i].type = "torn"}
<1>1. \E n \in 0..Len(s) : P(n)
  <2>1. CASE T = {}
    <3>1. P(Len(s))
      BY <2>1, FirstOfFacts DEF Intact
    <3> QED BY <3>1
  <2>2. CASE T # {}
    <3>0. T \in SUBSET Nat
      OBVIOUS
    <3> HIDE DEF T
    <3>1. PICK m \in T : \A n \in T : m <= n
      BY <2>2, <3>0, LeastNatural
    <3> USE DEF T
    <3>2. m - 1 \in 0..Len(s) /\ P(m - 1)
      BY <3>1, FirstOfFacts DEF Intact
    <3> QED BY <3>2
  <2> QED BY <2>1, <2>2
<1>2. ReadRecords(s) = FirstOf(s, CHOOSE n \in 0..Len(s) : P(n))
  BY DEF ReadRecords
<1> QED BY <1>1, <1>2

\* A log without a torn record is read to its end.
LEMMA ReadIntact ==
  ASSUME NEW s \in Seq(Rec), Intact(s)
  PROVE  ReadRecords(s) = s
<1>1. PICK n \in 0..Len(s) :
        /\ ReadRecords(s) = FirstOf(s, n)
        /\ n < Len(s) => s[n + 1].type = "torn"
  BY ReadRecordsFacts
<1>2. n = Len(s)
  BY <1>1 DEF Intact
<1> QED BY <1>1, <1>2 DEF FirstOf

\* A torn record at the end of an intact log hides nothing else.
LEMMA ReadTornTail ==
  ASSUME NEW s \in Seq(Rec), Intact(s)
  PROVE  ReadRecords(Append(s, Torn)) = s
<1> DEFINE z == Append(s, Torn)
<1>1. z \in Seq(Rec) /\ Len(z) = Len(s) + 1 /\ z[Len(s) + 1] = Torn
  BY TornIsRec
<1>2. \A i \in 1..Len(s) : z[i] = s[i]
  OBVIOUS
<1> HIDE DEF z
<1>3. PICK n \in 0..Len(z) :
        /\ ReadRecords(z) = FirstOf(z, n)
        /\ Intact(FirstOf(z, n))
        /\ n < Len(z) => z[n + 1].type = "torn"
  BY <1>1, ReadRecordsFacts
<1>4. n = Len(s)
  <2>1. n # Len(z)
    <3>1. SUFFICES ASSUME n = Len(z) PROVE FALSE
      OBVIOUS
    <3>2. FirstOf(z, n)[Len(z)] = Torn /\ Len(FirstOf(z, n)) = Len(z)
      BY <3>1, <1>1, FirstOfFacts
    <3> QED BY <3>2, <1>3, <1>1, <3>1 DEF Intact, Torn
  <2>2. ~ (n < Len(s))
    BY <1>1, <1>2, <1>3 DEF Intact
  <2> QED BY <1>1, <2>1, <2>2
<1>5. FirstOf(z, Len(s)) = s
  <2>1. /\ FirstOf(z, Len(s)) \in Seq(Rec)
        /\ Len(FirstOf(z, Len(s))) = Len(s)
        /\ \A i \in 1..Len(s) : FirstOf(z, Len(s))[i] = s[i]
    BY <1>1, <1>2, <1>4, FirstOfFacts
  <2> QED BY <2>1, SeqEqual
<1> QED BY <1>3, <1>4, <1>5 DEF z

-----------------------------------------------------------------------------
\* Every operation keeps the log's variables in their types.

\* The types of a log that nothing has open.
LEMMA ClosedType ==
  ASSUME buf' = <<>>, is_open' = FALSE,
         file' \in Seq(Rec), stable' \in Seq(Rec), kept' \in 0..Len(file'),
         next_lsn' \in Nat \ {0}, durable_lsn' \in Nat
  PROVE  LogTypeOK'
<1>1. is_open' \in BOOLEAN
  BY Zenon
<1>2. buf' \in Seq(Rec)
  BY EmptySeq
<1> QED BY <1>1, <1>2 DEF LogTypeOK

\* What a write that is cut short leaves is a sequence of records.
LEMMA PiecesType ==
  ASSUME NEW s \in Seq(Rec), NEW min \in Nat, NEW p \in Pieces(s, min)
  PROVE  p \in Seq(Rec) /\ (min <= Len(s) => min <= Len(p))
<1>1. CASE \E n \in min..Len(s) : p = FirstOf(s, n)
  BY <1>1, FirstOfFacts
<1>2. CASE \E n \in min..(Len(s) - 1) : p = Append(FirstOf(s, n), Torn)
  BY <1>2, FirstOfFacts, TornIsRec
<1> QED BY <1>1, <1>2 DEF Pieces

\* The fields every record has.
LEMMA RecordFields ==
  /\ \A r \in Rec : /\ r.lsn \in Nat /\ r.txn_id \in Nat
                     /\ r.payload \in Payload \cup {NoPayload}
  /\ \A r \in LogRecord : r.type # "torn"
BY DEF Rec, LogRecord, Torn, LogRecordType

\* resize_file keeps records, and no more of them than there were.
LEMMA CutTailType ==
  ASSUME LogTypeOK, CutTail
  PROVE  file' \in Seq(Rec) /\ kept' \in 0..Len(file')
<1>1. file \in Seq(Rec)
  BY DEF LogTypeOK
<1>2. PICK n \in 0..Len(file) : file' = FirstOf(file, n)
  BY <1>1, ReadRecordsFacts DEF CutTail
<1>3. file' \in Seq(Rec) /\ Len(file') = n
  BY <1>1, <1>2, FirstOfFacts
<1> QED BY <1>3 DEF CutTail, LogTypeOK

\* LogManager::Open keeps the types, failing or not.
LEMMA OpenType ==
  ASSUME LogTypeOK, Open \/ OpenFails
  PROVE  LogTypeOK'
<1>1. CASE Open
  <2>1. file' \in Seq(Rec) /\ kept' \in 0..Len(file')
    BY <1>1, CutTailType DEF Open, LogTypeOK
  <2>2. next_lsn' \in Nat \ {0} /\ durable_lsn' \in Nat
    <3> DEFINE r == ReadRecords(file)
    <3>0. r \in Seq(Rec)
      BY ReadRecordsFacts, FirstOfFacts DEF LogTypeOK
    <3> HIDE DEF r
    <3>1. CASE r = <<>>
      BY <3>1, <1>1 DEF Open, LogTypeOK, r
    <3>2. CASE r # <<>>
      <4>1. r[Len(r)] \in Rec
        BY <3>2, <3>0
      <4>2. LastLsn(r) \in Nat
        BY <4>1, RecordFields DEF LastLsn
      <4> QED BY <4>2, <3>2, <1>1 DEF Open, r
    <3> QED BY <3>1, <3>2
  <2> QED BY <1>1, <2>1, <2>2 DEF Open, LogTypeOK
<1>2. CASE OpenFails
  <2>1. CASE CutTail
    BY <1>2, <2>1, CutTailType DEF OpenFails, LogTypeOK
  <2>2. CASE UNCHANGED <<file, kept>>
    BY <1>2, <2>2 DEF OpenFails, LogTypeOK
  <2> QED BY <1>2, <2>1, <2>2 DEF OpenFails
<1> QED BY <1>1, <1>2

\* LogManager::Append keeps the types, failing or not.
LEMMA AppendType ==
  ASSUME LogTypeOK, NEW t \in Nat, NEW p \in Nat, NEW k \in LogRecordType,
         NEW l \in Payload \cup {NoPayload},
         AppendRecord(t, p, k, l) \/ AppendFails(t, p, k, l)
  PROVE  LogTypeOK'
<1> DEFINE all == Append(buf, NewRecord(t, p, k, l))
<1>1. NewRecord(t, p, k, l) \in Rec
  BY DEF NewRecord, LogRecord, Rec, LogTypeOK
<1>2. buf \in Seq(Rec) /\ file \in Seq(Rec)
  BY DEF LogTypeOK
<1>3. all \in Seq(Rec)
  BY <1>1, <1>2
<1>4. next_lsn' \in Nat \ {0} /\ next_lsn' = next_lsn + 1
  BY DEF AppendRecord, AppendFails, LogTypeOK
<1>5. CASE AppendRecord(t, p, k, l)
  <2> HIDE DEF all
  <2>1. PICK n \in 0..Len(all) :
          file' = file \o FirstOf(all, n) /\ buf' = SubSeq(all, n + 1, Len(all))
    BY <1>5 DEF AppendRecord, all
  <2>2. FirstOf(all, n) \in Seq(Rec)
    BY <1>3, FirstOfFacts
  <2>3. file' \in Seq(Rec) /\ Len(file') >= Len(file)
    BY <2>1, <2>2, <1>2
  <2>4. buf' \in Seq(Rec)
    BY <2>1, <1>3
  <2> QED BY <1>4, <1>5, <2>3, <2>4 DEF AppendRecord, LogTypeOK
<1>6. CASE AppendFails(t, p, k, l)
  <2> HIDE DEF all
  <2>1. PICK q \in Pieces(all, 0) : file' = file \o q
    BY <1>6 DEF AppendFails, all
  <2>2. q \in Seq(Rec)
    BY <1>3, PiecesType
  <2>3. file' \in Seq(Rec) /\ Len(file') >= Len(file)
    BY <2>1, <2>2, <1>2
  <2>4. buf' \in Seq(Rec)
    <3>1. Append(buf, Torn) \in Seq(Rec)
      BY <1>2, TornIsRec, AppendProperties
    <3> QED BY <1>6, <1>2, <3>1 DEF AppendFails
  <2> QED BY <1>4, <1>6, <2>3, <2>4 DEF AppendFails, LogTypeOK
<1> QED BY <1>5, <1>6

\* The first part of LogManager::Flush keeps the types.
LEMMA FlushType ==
  ASSUME LogTypeOK, NEW through \in Nat,
         FlushStream(through) \/ FlushStreamFails
  PROVE  LogTypeOK'
<1>1. buf \in Seq(Rec) /\ file \in Seq(Rec)
  BY DEF LogTypeOK
<1>2. CASE FlushStream(through)
  <2>1. file' \in Seq(Rec) /\ Len(file') >= Len(file)
    BY <1>1, <1>2 DEF FlushStream
  <2>2. durable_lsn' \in Nat
    BY <1>2 DEF FlushStream, LogTypeOK
  <2> QED BY <1>2, <2>1, <2>2 DEF FlushStream, LogTypeOK
<1>3. CASE FlushStreamFails
  <2>1. PICK q \in Pieces(buf, 0) : file' = file \o q
    BY <1>3 DEF FlushStreamFails
  <2>2. q \in Seq(Rec)
    BY <1>1, <2>1, PiecesType
  <2>3. file' \in Seq(Rec) /\ Len(file') >= Len(file)
    BY <1>1, <2>1, <2>2
  <2> QED BY <1>3, <2>3 DEF FlushStreamFails, LogTypeOK
<1> QED BY <1>2, <1>3

\* SyncFile keeps the types.
LEMMA SyncType ==
  ASSUME LogTypeOK, SyncFile \/ SyncFileFails
  PROVE  LogTypeOK'
BY DEF LogTypeOK, SyncFile, SyncFileFails, logVars

\* Emptying the stream only adds records to the file.
LEMMA DrainedType ==
  ASSUME LogTypeOK, NEW f \in Drained
  PROVE  f \in Seq(Rec) /\ Len(f) >= Len(file)
<1>1. buf \in Seq(Rec) /\ file \in Seq(Rec)
  BY DEF LogTypeOK
<1>2. PICK p \in Pieces(buf, 0) \cup {buf} : f = file \o p
  BY DEF Drained
<1>3. p \in Seq(Rec)
  BY <1>1, <1>2, PiecesType
<1> QED BY <1>1, <1>2, <1>3

\* LogManager::Truncate keeps the types, failing or not.
LEMMA TruncateType ==
  ASSUME LogTypeOK, Truncate \/ TruncateFails
  PROVE  LogTypeOK'
<1>1. buf \in Seq(Rec) /\ file \in Seq(Rec)
  BY DEF LogTypeOK
<1>2. CASE Truncate
  BY <1>2 DEF Truncate, LogTypeOK
<1>3. CASE TruncateFails
  <2>2. CASE file' \in Drained /\ UNCHANGED kept
    <3>1. file' \in Seq(Rec) /\ kept' \in 0..Len(file')
      BY <2>2, DrainedType DEF LogTypeOK
    <3> QED BY <1>3, <3>1, ClosedType DEF TruncateFails, LogTypeOK
  <2>3. CASE file' = <<>> /\ kept' = 0
    <3>1. file' \in Seq(Rec) /\ kept' \in 0..Len(file')
      BY <2>3, EmptySeq
    <3> QED BY <1>3, <3>1, ClosedType DEF TruncateFails, LogTypeOK
  <2> QED BY <1>3, <2>2, <2>3 DEF TruncateFails
<1> QED BY <1>2, <1>3

\* LogManager::Close keeps the types.
LEMMA CloseType ==
  ASSUME LogTypeOK, Close
  PROVE  LogTypeOK'
<1>4. file' \in Seq(Rec) /\ Len(file') >= Len(file)
  BY DrainedType DEF Close
<1>5. /\ buf' = <<>> /\ is_open' = FALSE /\ stable' \in Seq(Rec)
      /\ kept' \in 0..Len(file')
      /\ next_lsn' \in Nat \ {0} /\ durable_lsn' \in Nat
  BY <1>4 DEF Close, LogTypeOK
<1> QED BY <1>4, <1>5, ClosedType

\* A crash keeps the types.
LEMMA CrashType ==
  ASSUME LogTypeOK, LogKill \/ LogPowerLoss
  PROVE  LogTypeOK'
<1>1. file \in Seq(Rec) /\ stable \in Seq(Rec)
  BY DEF LogTypeOK
<1>2. CASE LogKill
  <2>1. file' \in Seq(Rec) /\ Len(file') >= Len(file)
    BY <1>1, <1>2 DEF LogKill, Rec
  <2>2. /\ buf' = <<>> /\ is_open' = FALSE /\ stable' \in Seq(Rec)
        /\ kept' \in 0..Len(file')
        /\ next_lsn' \in Nat \ {0} /\ durable_lsn' \in Nat
    BY <1>2, <2>1 DEF LogKill, LogProcessDies, LogTypeOK
  <2> QED BY <2>1, <2>2, ClosedType
<1>3. CASE LogPowerLoss
  <2>1. file' \in Seq(Rec)
    BY <1>1, <1>3, PiecesType DEF LogPowerLoss, LogTypeOK
  <2>2. /\ buf' = <<>> /\ is_open' = FALSE /\ stable' \in Seq(Rec)
        /\ kept' \in 0..Len(file')
        /\ next_lsn' \in Nat \ {0} /\ durable_lsn' \in Nat
    BY <1>3, <2>1 DEF LogPowerLoss, LogProcessDies
  <2> QED BY <2>1, <2>2, ClosedType
<1> QED BY <1>2, <1>3

-----------------------------------------------------------------------------
\* The readable part of a sequence of records.

\* The records that ReadRecords returns: those before the first torn one.
Readable(s) ==
  {s[i] : i \in {i \in 1..Len(s) : \A j \in 1..i : s[j].type # "torn"}}

Prefix(s, t) == Len(s) <= Len(t) /\ \A i \in 1..Len(s) : t[i] = s[i]

LEMMA ReadableIsRead ==
  ASSUME NEW s \in Seq(Rec)
  PROVE  Range(ReadRecords(s)) = Readable(s)
<1>1. PICK n \in 0..Len(s) :
        /\ ReadRecords(s) = FirstOf(s, n)
        /\ Intact(FirstOf(s, n))
        /\ n < Len(s) => s[n + 1].type = "torn"
  BY ReadRecordsFacts
<1> DEFINE r == FirstOf(s, n)
<1>2. r \in Seq(Rec) /\ Len(r) = n /\ \A i \in 1..n : r[i] = s[i]
  BY FirstOfFacts
<1>3. \A i \in 1..n : s[i].type # "torn"
  BY <1>1, <1>2 DEF Intact
<1>4. Range(r) = {r[i] : i \in 1..n}
  BY <1>2 DEF Range
<1> HIDE DEF r
<1>5. {i \in 1..Len(s) : \A j \in 1..i : s[j].type # "torn"} = 1..n
  BY <1>1, <1>3
<1>6. Readable(s) = {s[i] : i \in 1..n}
  BY <1>5 DEF Readable
<1>7. Range(r) = Readable(s)
  BY <1>2, <1>4, <1>6
<1> QED BY <1>1, <1>7 DEF r

LEMMA ReadableGrows ==
  ASSUME NEW s \in Seq(Rec), NEW t \in Seq(Rec), Prefix(s, t)
  PROVE  Readable(s) \subseteq Readable(t)
<1>1. SUFFICES ASSUME NEW i \in 1..Len(s), \A j \in 1..i : s[j].type # "torn"
               PROVE  s[i] \in Readable(t)
  BY DEF Readable
<1>2. i \in 1..Len(t) /\ t[i] = s[i] /\ \A j \in 1..i : t[j].type # "torn"
  BY <1>1 DEF Prefix
<1> QED BY <1>2 DEF Readable

\* Cutting the torn tail off loses nothing readable.
LEMMA ReadableCut ==
  ASSUME NEW s \in Seq(Rec), NEW n \in 0..Len(s),
         n < Len(s) => s[n + 1].type = "torn"
  PROVE  Readable(s) \subseteq Readable(FirstOf(s, n))
<1>1. SUFFICES ASSUME NEW i \in 1..Len(s), \A j \in 1..i : s[j].type # "torn"
               PROVE  s[i] \in Readable(FirstOf(s, n))
  BY DEF Readable
<1>2. i <= n
  BY <1>1
<1>3. /\ Len(FirstOf(s, n)) = n
      /\ \A j \in 1..n : FirstOf(s, n)[j] = s[j]
  BY FirstOfFacts
<1> QED BY <1>1, <1>2, <1>3 DEF Readable

LEMMA ReadableIntact ==
  ASSUME NEW s \in Seq(Rec), Intact(s)
  PROVE  Range(s) = Readable(s) /\ Range(s) \subseteq LogRecord
<1>1. Range(s) = Readable(s)
  BY ReadableIsRead, ReadIntact
<1>2. \A i \in 1..Len(s) : s[i] \in LogRecord
  BY DEF Intact, Rec, Torn
<1> QED BY <1>1, <1>2 DEF Range

\* What is readable of two sequences together, or of one that a torn record
\* follows, or of a piece of one.
LEMMA ReadableConcat ==
  ASSUME NEW s \in Seq(Rec), NEW t \in Seq(Rec)
  PROVE  Readable(s \o t) \subseteq Readable(s) \cup Range(t)
<1> DEFINE z == s \o t
<1>1. /\ Len(z) = Len(s) + Len(t)
      /\ \A i \in 1..Len(s) : z[i] = s[i]
      /\ \A i \in 1..Len(z) : i > Len(s) => z[i] = t[i - Len(s)]
  OBVIOUS
<1>2. Range(t) = {t[i] : i \in 1..Len(t)}
  BY DEF Range
<1> HIDE DEF z
<1>3. SUFFICES ASSUME NEW i \in 1..Len(z), \A j \in 1..i : z[j].type # "torn"
               PROVE  z[i] \in Readable(s) \cup Range(t)
  BY DEF Readable, z
<1>4. CASE i <= Len(s)
  <2>1. i \in 1..Len(s) /\ \A j \in 1..i : s[j].type # "torn"
    BY <1>1, <1>3, <1>4
  <2> QED BY <1>1, <2>1 DEF Readable
<1>5. CASE i > Len(s)
  <2>1. i - Len(s) \in 1..Len(t) /\ z[i] = t[i - Len(s)]
    BY <1>1, <1>5
  <2> QED BY <1>2, <2>1
<1> QED BY <1>4, <1>5

LEMMA ReadableTorn ==
  ASSUME NEW s \in Seq(Rec)
  PROVE  Readable(Append(s, Torn)) \subseteq Readable(s)
<1> DEFINE z == Append(s, Torn)
<1>1. /\ Len(z) = Len(s) + 1 /\ z[Len(s) + 1].type = "torn"
      /\ \A i \in 1..Len(s) : z[i] = s[i]
  BY TornIsRec DEF Torn
<1> HIDE DEF z
<1>2. SUFFICES ASSUME NEW i \in 1..Len(z), \A j \in 1..i : z[j].type # "torn"
               PROVE  z[i] \in Readable(s)
  BY DEF Readable, z
<1>3. i \in 1..Len(s) /\ \A j \in 1..i : s[j].type # "torn"
  BY <1>1, <1>2
<1> QED BY <1>1, <1>3 DEF Readable

LEMMA ReadablePieces ==
  ASSUME NEW s \in Seq(Rec), NEW min \in Nat, NEW p \in Pieces(s, min)
  PROVE  Readable(p) \subseteq Readable(s)
<1>1. \A n \in 0..Len(s) : FirstOf(s, n) \in Seq(Rec) /\ Prefix(FirstOf(s, n), s)
  BY FirstOfFacts DEF Prefix
<1>2. \A n \in 0..Len(s) : Readable(FirstOf(s, n)) \subseteq Readable(s)
  BY <1>1, ReadableGrows
<1>3. CASE \E n \in min..Len(s) : p = FirstOf(s, n)
  BY <1>2, <1>3
<1>4. CASE \E n \in min..(Len(s) - 1) : p = Append(FirstOf(s, n), Torn)
  BY <1>1, <1>2, <1>4, ReadableTorn
<1> QED BY <1>3, <1>4 DEF Pieces

\* A piece of s that is written behind f.
LEMMA ReadableBehind ==
  ASSUME NEW f \in Seq(Rec), NEW s \in Seq(Rec), NEW p \in Pieces(s, 0)
  PROVE  Readable(f \o p) \subseteq Readable(f) \cup Range(s)
<1>1. \A n \in 0..Len(s) : /\ FirstOf(s, n) \in Seq(Rec)
                           /\ Range(FirstOf(s, n)) \subseteq Range(s)
  <2>1. SUFFICES ASSUME NEW n \in 0..Len(s)
                 PROVE  /\ FirstOf(s, n) \in Seq(Rec)
                        /\ Range(FirstOf(s, n)) \subseteq Range(s)
    OBVIOUS
  <2> DEFINE g == FirstOf(s, n)
  <2>2. g \in Seq(Rec) /\ Len(g) = n /\ \A i \in 1..n : g[i] = s[i]
    BY FirstOfFacts
  <2> HIDE DEF g
  <2>3. Range(g) = {g[i] : i \in 1..n} /\ Range(s) = {s[i] : i \in 1..Len(s)}
    <3>1. DOMAIN g = 1..n /\ DOMAIN s = 1..Len(s)
      BY <2>2
    <3> QED BY <3>1 DEF Range
  <2>4. Range(g) \subseteq Range(s)
    BY <2>2, <2>3
  <2> QED BY <2>2, <2>4 DEF g
<1>2. \A n \in 0..Len(s) :
        Readable(f \o FirstOf(s, n)) \subseteq Readable(f) \cup Range(s)
  BY <1>1, ReadableConcat
<1>3. CASE \E n \in 0..Len(s) : p = FirstOf(s, n)
  BY <1>2, <1>3
<1>4. CASE \E n \in 0..(Len(s) - 1) : p = Append(FirstOf(s, n), Torn)
  <2>1. PICK n \in 0..(Len(s) - 1) : p = Append(FirstOf(s, n), Torn)
    BY <1>4
  <2> DEFINE g == FirstOf(s, n)
  <2>2. g \in Seq(Rec) /\ Readable(f \o g) \subseteq Readable(f) \cup Range(s)
    BY <1>1, <1>2
  <2> HIDE DEF g
  <2>3. f \o Append(g, Torn) = Append(f \o g, Torn) /\ f \o g \in Seq(Rec)
    BY <2>2, TornIsRec
  <2>4. Readable(Append(f \o g, Torn)) \subseteq Readable(f \o g)
    BY <2>3, ReadableTorn
  <2> QED BY <2>1, <2>2, <2>3, <2>4 DEF g
<1> QED BY <1>3, <1>4 DEF Pieces

=============================================================================
