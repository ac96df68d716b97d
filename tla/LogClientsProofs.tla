-------------------------- MODULE LogClientsProofs --------------------------
(***************************************************************************)
(* The log shared by threads: type correctness, the order of the LSNs and  *)
(* the survival of what a Flush covered, for every number of threads and   *)
(* of records.  They need an Open that reads the file and cuts its torn    *)
(* tail off: a failing file_size ("stat") leaves the tail in the file, and *)
(* an Open that cannot read ("walread") leaves the stream open on records  *)
(* whose LSNs it does not know.                                            *)
(***************************************************************************)
EXTENDS LogClients, LogManagerProofs

ReadableLog == {"stat", "walread"} \cap Faults = {}

\* Their LSNs increase.
Ascending(s) ==
  \A i, j \in 1..Len(s) :
    (i < j /\ \A k \in 1..j : s[k].type # "torn") => s[i].lsn < s[j].lsn

\* An open log has no torn record, and a closed one has an empty buffer.
Whole ==
  /\ is_open => Intact(file) /\ Intact(buf)
  /\ ~is_open => buf = <<>>

\* The next LSN lies above all those of an open log.
Above ==
  is_open => /\ \A i \in 1..Len(file) : file[i].lsn < next_lsn
             /\ \A i \in 1..Len(buf) : buf[i].lsn < next_lsn

Ordered == Ascending(file \o buf) /\ Ascending(stable) /\ Above

\* What a Flush has covered is in the part of the file that survives a power
\* failure, whichever of the two contents the failure leaves; what a Flush is
\* about to cover is in the file.
Covered ==
  /\ flushed \subseteq Readable(FirstOf(file, kept)) \cap Readable(stable)
  /\ \A c \in Clients : promise[c] \subseteq Readable(file)

Inv == TypeOK /\ Whole /\ Ordered /\ Covered
-----------------------------------------------------------------------------
\* The order of the LSNs in pieces of the log.

LEMMA AscendingPrefix ==
  ASSUME NEW s \in Seq(Rec), NEW t \in Seq(Rec), Prefix(s, t), Ascending(t)
  PROVE  Ascending(s)
<1>1. SUFFICES ASSUME NEW i \in 1..Len(s), NEW j \in 1..Len(s), i < j,
                      \A k \in 1..j : s[k].type # "torn"
               PROVE  s[i].lsn < s[j].lsn
  BY DEF Ascending
<1>2. /\ i \in 1..Len(t) /\ j \in 1..Len(t) /\ t[i] = s[i] /\ t[j] = s[j]
      /\ \A k \in 1..j : t[k].type # "torn"
  BY <1>1 DEF Prefix
<1> QED BY <1>1, <1>2 DEF Ascending

\* A torn record hides whatever follows, so that it disturbs no order; nor
\* does a record whose LSN is above all others.
LEMMA AscendingAppend ==
  ASSUME NEW s \in Seq(Rec), NEW x \in Rec, Ascending(s),
         x.type = "torn" \/ \A i \in 1..Len(s) : s[i].lsn < x.lsn
  PROVE  Ascending(Append(s, x))
<1> DEFINE z == Append(s, x)
<1>1. Len(z) = Len(s) + 1 /\ z[Len(s) + 1] = x /\ \A i \in 1..Len(s) : z[i] = s[i]
  OBVIOUS
<1> HIDE DEF z
<1>2. SUFFICES ASSUME NEW i \in 1..Len(z), NEW j \in 1..Len(z), i < j,
                      \A k \in 1..j : z[k].type # "torn"
               PROVE  z[i].lsn < z[j].lsn
  BY DEF Ascending, z
<1>3. CASE j = Len(s) + 1
  BY <1>1, <1>2, <1>3
<1>4. CASE j # Len(s) + 1
  <2>1. i \in 1..Len(s) /\ j \in 1..Len(s) /\ \A k \in 1..j : s[k].type # "torn"
    BY <1>1, <1>2, <1>4
  <2> QED BY <1>1, <1>2, <2>1 DEF Ascending
<1> QED BY <1>3, <1>4

\* What a piece of a write leaves, behind what was there.
LEMMA PiecesAscend ==
  ASSUME NEW s \in Seq(Rec), NEW min \in Nat, NEW p \in Pieces(s, min),
         min <= Len(s), Ascending(s)
  PROVE  /\ p \in Seq(Rec) /\ Ascending(p)
         /\ Prefix(FirstOf(s, min), p)
<1>1. \A n \in min..Len(s) :
        /\ FirstOf(s, n) \in Seq(Rec) /\ Len(FirstOf(s, n)) = n
        /\ \A i \in 1..n : FirstOf(s, n)[i] = s[i]
  BY FirstOfFacts
<1>2. \A n \in min..Len(s) : Ascending(FirstOf(s, n))
  BY <1>1, AscendingPrefix DEF Prefix
<1>3. \A n \in min..Len(s) : Prefix(FirstOf(s, min), FirstOf(s, n))
  BY <1>1 DEF Prefix
<1>4. CASE \E n \in min..Len(s) : p = FirstOf(s, n)
  BY <1>1, <1>2, <1>3, <1>4
<1>5. CASE \E n \in min..(Len(s) - 1) : p = Append(FirstOf(s, n), Torn)
  <2>1. PICK n \in min..(Len(s) - 1) : p = Append(FirstOf(s, n), Torn)
    BY <1>5
  <2> DEFINE f == FirstOf(s, n)
  <2>2. f \in Seq(Rec) /\ Ascending(f) /\ Prefix(FirstOf(s, min), f)
    BY <1>1, <1>2, <1>3
  <2>3. FirstOf(s, min) \in Seq(Rec)
    BY <1>1
  <2> HIDE DEF f
  <2>4. Torn \in Rec /\ Torn.type = "torn"
    BY TornIsRec DEF Torn
  <2>5. Ascending(Append(f, Torn)) /\ Append(f, Torn) \in Seq(Rec)
    BY <2>2, <2>4, AscendingAppend
  <2>6. Prefix(FirstOf(s, min), Append(f, Torn))
    BY <2>2, <2>3, <2>4 DEF Prefix
  <2> QED BY <2>1, <2>5, <2>6 DEF f
<1> QED BY <1>4, <1>5 DEF Pieces
\* Emptying the stream, even if it fails part-way, keeps the file's records
\* in front and the order of the LSNs.
LEMMA DrainedAscends ==
  ASSUME LogTypeOK, Ascending(file \o buf), NEW f \in Drained
  PROVE  f \in Seq(Rec) /\ Prefix(file, f) /\ Ascending(f)
<1>1. file \in Seq(Rec) /\ buf \in Seq(Rec) /\ file \o buf \in Seq(Rec)
  BY DEF LogTypeOK
<1>2. \A n \in 0..Len(buf) : /\ file \o FirstOf(buf, n) \in Seq(Rec)
                             /\ Prefix(file \o FirstOf(buf, n), file \o buf)
                             /\ Prefix(file, file \o FirstOf(buf, n))
  <2>1. SUFFICES ASSUME NEW n \in 0..Len(buf)
                 PROVE  /\ file \o FirstOf(buf, n) \in Seq(Rec)
                        /\ Prefix(file \o FirstOf(buf, n), file \o buf)
                        /\ Prefix(file, file \o FirstOf(buf, n))
    OBVIOUS
  <2> DEFINE g == FirstOf(buf, n)
  <2>2. g \in Seq(Rec) /\ Len(g) = n /\ \A i \in 1..n : g[i] = buf[i]
    BY <1>1, FirstOfFacts
  <2> HIDE DEF g
  <2>3. /\ file \o g \in Seq(Rec) /\ Prefix(file \o g, file \o buf)
        /\ Prefix(file, file \o g)
    BY <1>1, <2>2 DEF Prefix
  <2> QED BY <2>3 DEF g
<1>3. \A n \in 0..Len(buf) : Ascending(file \o FirstOf(buf, n))
  BY <1>1, <1>2, AscendingPrefix
<1>4. CASE f = file \o buf
  BY <1>1, <1>4 DEF Prefix
<1>5. CASE \E n \in 0..Len(buf) : f = file \o FirstOf(buf, n)
  BY <1>2, <1>3, <1>5
<1>6. CASE \E n \in 0..(Len(buf) - 1) : f = file \o Append(FirstOf(buf, n), Torn)
  <2>1. PICK n \in 0..(Len(buf) - 1) : f = file \o Append(FirstOf(buf, n), Torn)
    BY <1>6
  <2>2. FirstOf(buf, n) \in Seq(Rec) /\ Torn \in Rec /\ Torn.type = "torn"
    BY <1>1, FirstOfFacts, TornIsRec DEF Torn
  <2> DEFINE g == file \o FirstOf(buf, n)
  <2>3. f = Append(g, Torn)
    BY <1>1, <2>1, <2>2
  <2>4. g \in Seq(Rec) /\ Ascending(g) /\ Prefix(file, g)
    BY <1>2, <1>3
  <2> HIDE DEF g
  <2>5. Ascending(Append(g, Torn)) /\ Append(g, Torn) \in Seq(Rec)
    BY <2>2, <2>4, AscendingAppend
  <2>6. Prefix(file, Append(g, Torn))
    BY <1>1, <2>2, <2>4 DEF Prefix
  <2> QED BY <2>3, <2>5, <2>6
<1>7. \E p \in Pieces(buf, 0) \cup {buf} : f = file \o p
  BY DEF Drained
<1> QED BY <1>4, <1>5, <1>6, <1>7 DEF Pieces

\* An operation that only lengthens the file keeps what is covered.
LEMMA GrowthCovers ==
  ASSUME LogTypeOK, Covered, file' \in Seq(Rec), Prefix(file, file'),
         kept' = kept, stable' = stable, flushed' = flushed,
         \A c \in Clients : promise'[c] \subseteq Readable(file)
  PROVE  Covered'
<1>1. file \in Seq(Rec) /\ kept \in 0..Len(file) /\ kept \in 0..Len(file')
  BY DEF LogTypeOK, Prefix
<1>2. /\ FirstOf(file, kept) \in Seq(Rec) /\ FirstOf(file', kept) \in Seq(Rec)
      /\ Prefix(FirstOf(file, kept), FirstOf(file', kept))
  <2>1. /\ FirstOf(file, kept) \in Seq(Rec) /\ Len(FirstOf(file, kept)) = kept
        /\ \A i \in 1..kept : FirstOf(file, kept)[i] = file[i]
    BY <1>1, FirstOfFacts
  <2>2. /\ FirstOf(file', kept) \in Seq(Rec) /\ Len(FirstOf(file', kept)) = kept
        /\ \A i \in 1..kept : FirstOf(file', kept)[i] = file'[i]
    BY <1>1, FirstOfFacts
  <2>3. kept <= Len(file) /\ \A i \in 1..kept : file'[i] = file[i]
    BY <1>1 DEF Prefix
  <2> QED BY <1>1, <2>1, <2>2, <2>3 DEF Prefix
<1>3. Readable(FirstOf(file, kept)) \subseteq Readable(FirstOf(file', kept))
  BY <1>2, ReadableGrows
<1>4. Readable(file) \subseteq Readable(file')
  BY <1>1, ReadableGrows
<1> QED BY <1>3, <1>4 DEF Covered

-----------------------------------------------------------------------------
\* The operations.

LEMMA InitInv == Init => Inv
<1> SUFFICES ASSUME Init PROVE Inv
  OBVIOUS
<1>1. TypeOK
  <2>1. is_open \in BOOLEAN
    BY Zenon DEF Init, LogInit
  <2>2. LogTypeOK
    BY <2>1, EmptySeq DEF Init, LogInit, LogTypeOK
  <2> QED BY <2>2 DEF Init, TypeOK
<1>2. file = <<>> /\ buf = <<>> /\ stable = <<>> /\ is_open = FALSE
  BY DEF Init, LogInit
<1>3. Whole /\ Above
  BY <1>2 DEF Whole, Above
<1>4. Ordered
  BY <1>2, <1>3 DEF Ordered, Ascending
<1>5. Covered
  BY DEF Init, Covered
<1> QED BY <1>1, <1>3, <1>4, <1>5 DEF Inv

\* Open cuts the file to its readable records and continues their numbering.
LEMMA OpenInv ==
  ASSUME ReadableLog, Inv, OpenLog
  PROVE  Inv'
<1> DEFINE r == ReadRecords(file)
<1>0. LogTypeOK /\ file \in Seq(Rec) /\ kept \in 0..Len(file)
  BY DEF Inv, TypeOK, LogTypeOK
<1>1. PICK n \in 0..Len(file) :
        /\ r = FirstOf(file, n)
        /\ Intact(FirstOf(file, n))
        /\ n < Len(file) => file[n + 1].type = "torn"
  BY <1>0, ReadRecordsFacts
<1>2. r \in Seq(Rec) /\ Len(r) = n /\ \A i \in 1..n : r[i] = file[i]
  BY <1>0, <1>1, FirstOfFacts
<1>3. TypeOK'
  BY <1>0, OpenType DEF OpenLog, TypeOK, Inv
<1>4. ~is_open /\ buf = <<>> /\ buf' = <<>> /\ stable' = stable
  BY DEF OpenLog, Open, OpenFails, Inv, Whole
<1>5. CutTail \/ UNCHANGED <<file, kept>>
  BY DEF OpenLog, Open, OpenFails
<1>6. Ascending(file)
  BY <1>0, <1>4 DEF Inv, Ordered
<1>7. Prefix(r, file) /\ Ascending(r)
  BY <1>0, <1>2, <1>6, AscendingPrefix DEF Prefix
<1>8. file' \in Seq(Rec) /\ Ascending(file')
  BY <1>0, <1>2, <1>5, <1>6, <1>7 DEF CutTail
<1>9. Covered'
  <2>1. CASE UNCHANGED <<file, kept>>
    BY <2>1, <1>4 DEF Covered, Inv, OpenLog
  <2>2. CASE CutTail
    <3> HIDE DEF r
    <3>1. file' = r /\ kept' = IF kept < n THEN kept ELSE n
      BY <2>2, <1>2 DEF CutTail, r
    <3>2. Readable(file) \subseteq Readable(r)
      BY <1>0, <1>1, ReadableCut
    <3>3. Readable(FirstOf(file, kept)) \subseteq Readable(FirstOf(r, kept'))
      <4>1. CASE kept < n
        <5>1. /\ FirstOf(file, kept) \in Seq(Rec) /\ Len(FirstOf(file, kept)) = kept
              /\ \A i \in 1..kept : FirstOf(file, kept)[i] = file[i]
          BY <1>0, FirstOfFacts
        <5>2. kept \in 0..Len(r)
          BY <1>0, <1>2, <4>1
        <5>3. /\ FirstOf(r, kept) \in Seq(Rec) /\ Len(FirstOf(r, kept)) = kept
              /\ \A i \in 1..kept : FirstOf(r, kept)[i] = r[i]
          BY <1>2, <5>2, FirstOfFacts
        <5>4. Prefix(FirstOf(file, kept), FirstOf(r, kept))
          BY <1>2, <4>1, <5>1, <5>2, <5>3 DEF Prefix
        <5> QED BY <3>1, <4>1, <5>1, <5>3, <5>4, ReadableGrows
      <4>2. CASE ~(kept < n)
        <5>1. FirstOf(r, kept') = r
          BY <1>2, <3>1, <4>2 DEF FirstOf
        <5>4. /\ FirstOf(file, kept) \in Seq(Rec) /\ Len(FirstOf(file, kept)) = kept
              /\ \A i \in 1..kept : FirstOf(file, kept)[i] = file[i]
          BY <1>0, FirstOfFacts
        <5>3. /\ FirstOf(file, kept) \in Seq(Rec) /\ Len(FirstOf(file, kept)) <= Len(file)
              /\ \A i \in 1..Len(FirstOf(file, kept)) : FirstOf(file, kept)[i] = file[i]
          BY <1>0, <5>4
        <5>2. FirstOf(file, kept) \in Seq(Rec) /\ Prefix(FirstOf(file, kept), file)
          BY <5>3 DEF Prefix
        <5> QED BY <1>0, <3>2, <5>1, <5>2, ReadableGrows
      <4> QED BY <4>1, <4>2
    <3> QED BY <1>4, <3>1, <3>2, <3>3 DEF Covered, Inv, OpenLog
  <2> QED BY <1>5, <2>1, <2>2
<1>10. Ordered' /\ Whole'
  <2>1. Ascending(file' \o buf') /\ Ascending(stable')
    BY <1>4, <1>8 DEF Inv, Ordered
  <2>2. CASE OpenFails
    <3>1. is_open' = FALSE
      BY <2>2, <1>4 DEF OpenFails, ReadableLog, Inv, TypeOK, LogTypeOK
    <3> QED BY <1>4, <2>1, <3>1 DEF Ordered, Above, Whole
  <2>3. CASE Open
    <3>1. file' = r /\ is_open' = TRUE
      BY <2>3 DEF Open, ReadableLog, CutTail
    <3>2. Intact(r)
      BY <1>1
    <3>3. \A i \in 1..n : r[i].lsn < next_lsn'
      <4>1. CASE n = 0
        BY <4>1
      <4>2. CASE n # 0
        <5>1. r # <<>>
          BY <1>2, <4>2
        <5>2. next_lsn' = LastLsn(r) + 1
          BY <2>3, <5>1 DEF Open
        <5>3. next_lsn' = r[n].lsn + 1
          BY <1>2, <5>2 DEF LastLsn
        <5> HIDE DEF r
        <5>4. \A i \in 1..n : r[i].lsn \in Nat
          BY <1>2, RecordFields
        <5>5. \A i \in 1..n : i < n => r[i].lsn < r[n].lsn
          BY <1>2, <1>7, <3>2 DEF Ascending, Intact
        <5> QED BY <4>2, <5>3, <5>4, <5>5
      <4> QED BY <4>1, <4>2
    <3>4. Above'
      BY <1>2, <1>4, <3>1, <3>3 DEF Above
    <3>5. Whole'
      BY <1>4, <3>1, <3>2 DEF Whole, Intact
    <3> QED BY <2>1, <3>4, <3>5 DEF Ordered
  <2> QED BY <2>2, <2>3 DEF OpenLog
<1> QED BY <1>3, <1>9, <1>10 DEF Inv
\* Append gives the record an LSN above all those before it.
LEMMA AppendInv ==
  ASSUME Inv, NEW c \in Clients, AppendBy(c)
  PROVE  Inv'
<1>0. LogTypeOK /\ file \in Seq(Rec) /\ buf \in Seq(Rec) /\ next_lsn \in Nat
  BY DEF Inv, TypeOK, LogTypeOK
<1>1. PICK l \in Payload : AppendRecord(1, kInvalidLsn, "update", l)
  BY DEF AppendBy
<1> DEFINE x == NewRecord(1, kInvalidLsn, "update", l)
           all == Append(buf, x)
<1>2. x \in Rec /\ x.type # "torn" /\ x.lsn = next_lsn
  BY <1>0 DEF NewRecord, LogRecord, Rec, LogRecordType, kInvalidLsn
<1>3. /\ is_open /\ next_lsn' = next_lsn + 1
      /\ stable' = stable /\ kept' = kept /\ is_open' = is_open
      /\ \E n \in 0..Len(all) : /\ file' = file \o FirstOf(all, n)
                                /\ buf' = SubSeq(all, n + 1, Len(all))
  BY <1>1 DEF AppendRecord
<1> HIDE DEF x
<1>4. all \in Seq(Rec) /\ Len(all) = Len(buf) + 1 /\ all[Len(buf) + 1] = x
      /\ \A i \in 1..Len(buf) : all[i] = buf[i]
  BY <1>0, <1>2
<1> HIDE DEF all
<1>5. PICK n \in 0..Len(all) : /\ file' = file \o FirstOf(all, n)
                               /\ buf' = SubSeq(all, n + 1, Len(all))
  BY <1>3
<1> DEFINE g == FirstOf(all, n)
<1>6. g \in Seq(Rec) /\ Len(g) = n /\ \A i \in 1..n : g[i] = all[i]
  BY <1>4, FirstOfFacts
<1>7. /\ buf' \in Seq(Rec) /\ Len(buf') = Len(all) - n
      /\ \A i \in 1..Len(buf') : buf'[i] = all[i + n]
  BY <1>4, <1>5
<1> HIDE DEF g
<1>8. file' = file \o g
  BY <1>5 DEF g
<1>9. file' \in Seq(Rec) /\ Prefix(file, file')
  BY <1>0, <1>6, <1>8 DEF Prefix
<1>10. file' \o buf' = Append(file \o buf, x)
  <2>1. file' \o buf' = file \o all
    <3>1. g \o buf' = all
      <4>1. g \o buf' \in Seq(Rec) /\ Len(g \o buf') = Len(all)
        BY <1>4, <1>6, <1>7
      <4>2. \A i \in 1..Len(all) : (g \o buf')[i] = all[i]
        <5>1. SUFFICES ASSUME NEW i \in 1..Len(all)
                       PROVE  (g \o buf')[i] = all[i]
          OBVIOUS
        <5>2. (g \o buf')[i] = IF i <= Len(g) THEN g[i] ELSE buf'[i - Len(g)]
          BY <1>6, <1>7, <1>4, ConcatProperties
        <5>3. CASE i <= n
          BY <1>6, <5>2, <5>3
        <5>4. CASE ~(i <= n)
          <6>1. i - n \in 1..Len(buf') /\ (i - n) + n = i
            BY <1>4, <1>7, <5>4
          <6>2. buf'[i - n] = all[(i - n) + n]
            BY <1>7, <6>1
          <6> QED BY <1>6, <5>2, <5>4, <6>1, <6>2
        <5> QED BY <5>3, <5>4
      <4> QED BY <1>4, <4>1, <4>2, SeqEqual
    <3>2. file \in Seq(Rec) /\ g \in Seq(Rec) /\ buf' \in Seq(Rec)
      BY <1>0, <1>6, <1>7
    <3>3. (file \o g) \o buf' = file \o (g \o buf')
      BY <3>2
    <3> QED BY <1>8, <3>1, <3>3
  <2> QED BY <1>0, <1>2, <2>1 DEF all
<1>11. TypeOK'
  <2>1. LogTypeOK'
    <3>1. /\ 1 \in Nat /\ kInvalidLsn \in Nat /\ "update" \in LogRecordType
          /\ l \in Payload \cup {NoPayload}
      BY DEF kInvalidLsn, LogRecordType
    <3> QED BY <1>0, <1>1, <3>1, AppendType
  <2> QED BY <2>1 DEF AppendBy, TypeOK, Inv
<1>12. Covered'
  <2>1. Covered /\ flushed' = flushed /\ promise' = promise
    BY DEF Inv, AppendBy
  <2> QED BY <1>0, <1>3, <1>9, <2>1, GrowthCovers DEF Covered
<1>13. Intact(file) /\ Intact(buf)
  BY <1>3 DEF Inv, Whole
<1>14. \A i \in 1..Len(all) : all[i].type # "torn"
  BY <1>0, <1>2, <1>4, <1>13 DEF Intact
<1>15. Whole'
  <2>1. \A i \in 1..Len(file') : file'[i].type # "torn"
    BY <1>0, <1>4, <1>6, <1>8, <1>13, <1>14 DEF Intact
  <2>2. \A i \in 1..Len(buf') : buf'[i].type # "torn"
    BY <1>4, <1>7, <1>14
  <2> QED BY <1>3, <2>1, <2>2 DEF Whole, Intact
<1>16. /\ \A i \in 1..Len(file) : file[i].lsn < next_lsn
       /\ \A i \in 1..Len(buf) : buf[i].lsn < next_lsn
  BY <1>3 DEF Inv, Ordered, Above
<1>17. \A i \in 1..Len(all) : all[i].lsn < next_lsn'
  <2>1. \A i \in 1..Len(buf) : buf[i].lsn \in Nat
    BY <1>0, RecordFields
  <2>0. next_lsn' = next_lsn + 1
    BY <1>3
  <2>2. \A i \in 1..Len(buf) : all[i].lsn < next_lsn'
    <3>1. SUFFICES ASSUME NEW i \in 1..Len(buf) PROVE all[i].lsn < next_lsn'
      OBVIOUS
    <3>2. all[i] = buf[i] /\ buf[i].lsn < next_lsn /\ buf[i].lsn \in Nat
      BY <1>4, <1>16, <2>1
    <3> QED BY <1>0, <2>0, <3>2
  <2>3. all[Len(buf) + 1].lsn < next_lsn'
    BY <1>0, <1>2, <1>3, <1>4
  <2> QED BY <1>4, <2>2, <2>3
<1>18. Above'
  <2>1. \A i \in 1..Len(file) : file[i].lsn \in Nat
    BY <1>0, RecordFields
  <2>2. \A i \in 1..Len(file') : file'[i].lsn < next_lsn'
    BY <1>0, <1>3, <1>4, <1>6, <1>8, <1>16, <1>17, <2>1, SMTT(30)
  <2>3. \A i \in 1..Len(buf') : buf'[i].lsn < next_lsn'
    BY <1>4, <1>7, <1>17
  <2> QED BY <2>2, <2>3 DEF Above
<1>19. Ascending(file' \o buf')
  <2> DEFINE s == file \o buf
  <2>0. /\ s \in Seq(Rec) /\ Len(s) = Len(file) + Len(buf)
        /\ \A i \in 1..Len(file) : s[i] = file[i]
        /\ \A i \in 1..Len(buf) : s[Len(file) + i] = buf[i]
    BY <1>0, ConcatProperties
  <2>4. \A i \in 1..Len(file) : s[i].lsn < x.lsn
    BY <1>2, <1>16, <2>0
  <2>5. \A i \in 1..Len(buf) : s[Len(file) + i].lsn < x.lsn
    BY <1>2, <1>16, <2>0
  <2>6. Len(file) \in Nat /\ Len(buf) \in Nat
    BY <1>0
  <2> HIDE DEF s
  <2>1. s \in Seq(Rec) /\ \A i \in 1..Len(s) : s[i].lsn < x.lsn
    <3>1. SUFFICES ASSUME NEW i \in 1..Len(s) PROVE s[i].lsn < x.lsn
      BY <2>0
    <3>2. CASE i <= Len(file)
      BY <2>4, <2>6, <3>2
    <3>3. CASE ~(i <= Len(file))
      <4>1. PICK k \in 1..Len(buf) : i = Len(file) + k
        <5>1. i - Len(file) \in 1..Len(buf) /\ i = Len(file) + (i - Len(file))
          BY <2>0, <2>6, <3>3
        <5> QED BY <5>1
      <4> QED BY <2>5, <4>1
    <3> QED BY <3>2, <3>3
  <2>2. Ascending(s)
    BY DEF Inv, Ordered, s
  <2>3. Ascending(Append(s, x))
    BY <1>2, <2>1, <2>2, AscendingAppend
  <2> QED BY <1>10, <2>3 DEF s
<1>20. Ordered'
  BY <1>3, <1>18, <1>19 DEF Inv, Ordered
<1> QED BY <1>11, <1>12, <1>15, <1>20 DEF Inv

\* The first part of Flush covers the whole log, which has no torn record.
LEMMA FlushInv ==
  ASSUME Inv, NEW c \in Clients, FlushBy(c)
  PROVE  Inv'
<1>0. /\ LogTypeOK /\ file \in Seq(Rec) /\ buf \in Seq(Rec)
      /\ promise \in [Clients -> SUBSET LogRecord]
      /\ pc \in [Clients -> {"idle", "sync", "truncsync"}]
  BY DEF Inv, TypeOK, LogTypeOK
<1>1. /\ is_open /\ file' = file \o buf /\ buf' = <<>> /\ is_open' = is_open
      /\ stable' = stable /\ kept' = kept /\ next_lsn' = next_lsn
  BY DEF FlushBy, FlushStream
<1>2. file' \in Seq(Rec) /\ Prefix(file, file')
  BY <1>0, <1>1 DEF Prefix
<1>3. Intact(file')
  BY <1>0, <1>1 DEF Inv, Whole, Intact
<1>4. Range(file') = Readable(file') /\ Range(file') \subseteq LogRecord
  BY <1>2, <1>3, ReadableIntact
<1>5. TypeOK'
  <2>1. LogTypeOK'
    BY <1>0, FlushType DEF FlushBy, kInvalidLsn
  <2>2. promise' \in [Clients -> SUBSET LogRecord]
    BY <1>0, <1>1, <1>4 DEF FlushBy
  <2>3. pc' \in [Clients -> {"idle", "sync", "truncsync"}]
    BY <1>0 DEF FlushBy
  <2> QED BY <2>1, <2>2, <2>3 DEF FlushBy, TypeOK, Inv
<1>6. Whole'
  BY <1>1, <1>3 DEF Whole, Intact
<1>7. Ordered'
  <2>1. file' \o buf' = file \o buf
    BY <1>0, <1>1
  <2>2. Above'
    BY <1>0, <1>1 DEF Inv, Ordered, Above
  <2> QED BY <1>1, <2>1, <2>2 DEF Inv, Ordered
<1>8. Covered'
  <2>1. Readable(file) \subseteq Readable(file')
    BY <1>0, <1>2, ReadableGrows
  <2>2. \A d \in Clients : promise'[d] \subseteq Readable(file')
    BY <1>0, <1>1, <1>4, <2>1 DEF FlushBy, Inv, Covered
  <2>3. flushed' \subseteq Readable(FirstOf(file', kept')) \cap Readable(stable')
    <3>1. /\ FirstOf(file, kept) = FirstOf(file', kept)
      BY <1>0, <1>1 DEF FirstOf, LogTypeOK
    <3> QED BY <1>1, <3>1 DEF FlushBy, Inv, Covered
  <2> QED BY <2>2, <2>3 DEF Covered
<1> QED BY <1>5, <1>6, <1>7, <1>8 DEF Inv

\* A truncation, also one that fails, withdraws what was promised.
LEMMA TruncateInv ==
  ASSUME Inv, NEW c \in Clients, TruncateBy(c) \/ TruncateFailsBy(c)
  PROVE  Inv'
<1>0. LogTypeOK /\ pc \in [Clients -> {"idle", "sync", "truncsync"}]
  BY DEF Inv, TypeOK
<1>1. promise' = [d \in Clients |-> {}] /\ flushed' = {} /\ stable' = stable
      /\ buf' = <<>> /\ (Truncate \/ TruncateFails)
  BY DEF TruncateBy, TruncateFailsBy, Truncate, TruncateFails
<1>2. TypeOK'
  <2>1. LogTypeOK'
    BY <1>0, <1>1, TruncateType
  <2>2. pc' \in [Clients -> {"idle", "sync", "truncsync"}]
    BY <1>0 DEF TruncateBy, TruncateFailsBy
  <2> QED BY <1>1, <2>1, <2>2 DEF TypeOK
<1>3. Covered'
  BY <1>1 DEF Covered
<1>4. Ascending(stable')
  BY <1>1 DEF Inv, Ordered
<1>5. file' \in Seq(Rec)
  BY <1>2 DEF TypeOK, LogTypeOK
<1>6. Ascending(file')
  <2>1. CASE file' = <<>>
    BY <2>1 DEF Ascending
  <2>2. CASE file' \in Drained
    BY <1>0, <2>2, DrainedAscends DEF Inv, Ordered
  <2> QED BY <1>1, <2>1, <2>2 DEF Truncate, TruncateFails
<1>7. file' \o buf' = file'
  BY <1>1, <1>5
<1>8. (is_open' /\ file' = <<>>) \/ is_open' = FALSE
  BY <1>1 DEF Truncate, TruncateFails
<1>9. Whole' /\ Above'
  BY <1>1, <1>8 DEF Whole, Above, Intact
<1> QED BY <1>2, <1>3, <1>4, <1>6, <1>7, <1>9 DEF Inv, Ordered

\* The second part of Flush: the whole file becomes stable, and with it what
\* this Flush, or any earlier one, has covered.
LEMMA SyncInv ==
  ASSUME Inv, NEW c \in Clients, SyncBy(c)
  PROVE  Inv'
<1>0. /\ LogTypeOK /\ file \in Seq(Rec) /\ kept \in 0..Len(file)
      /\ promise \in [Clients -> SUBSET LogRecord] /\ flushed \in SUBSET LogRecord
      /\ pc \in [Clients -> {"idle", "sync", "truncsync"}]
  BY DEF Inv, TypeOK, LogTypeOK
<1>1. /\ promise' = [promise EXCEPT ![c] = {}] /\ pc' = [pc EXCEPT ![c] = "idle"]
      /\ SyncFile \/ SyncFileFails
  BY DEF SyncBy
<1>2. UNCHANGED <<buf, file, is_open, next_lsn>>
  BY <1>1 DEF SyncFile, SyncFileFails, logVars
<1>3. flushed' = flushed \/ flushed' = flushed \cup promise[c]
  BY DEF SyncBy
<1>4. TypeOK'
  <2>1. LogTypeOK'
    BY <1>0, <1>1, SyncType
  <2> QED BY <1>0, <1>1, <1>3, <2>1 DEF TypeOK
<1>5. Whole' /\ Above'
  BY <1>2 DEF Inv, Ordered, Whole, Above
<1>6. \A d \in Clients : promise'[d] \subseteq Readable(file')
  BY <1>0, <1>1, <1>2 DEF Inv, Covered
<1>7. CASE SyncFileFails /\ flushed' = flushed
  <2>1. UNCHANGED logVars
    BY <1>7 DEF SyncFileFails
  <2> QED BY <1>4, <1>5, <1>6, <1>7, <2>1 DEF logVars, Inv, Ordered, Covered
<1>8. CASE SyncFile
  <2>1. stable' = file /\ kept' = Len(file) /\ file' = file /\ buf' = buf
    BY <1>8 DEF SyncFile
  <2>2. Prefix(file, file \o buf) /\ file \o buf \in Seq(Rec)
    BY <1>0 DEF Prefix, LogTypeOK
  <2>3. Ascending(file)
    BY <1>0, <2>2, AscendingPrefix DEF Inv, Ordered
  <2>4. Ordered'
    BY <1>5, <2>1, <2>3 DEF Inv, Ordered
  <2>5. FirstOf(file', kept') = file
    BY <1>0, <2>1 DEF FirstOf
  <2>6. FirstOf(file, kept) \in Seq(Rec) /\ Prefix(FirstOf(file, kept), file)
    BY <1>0, FirstOfFacts DEF Prefix
  <2>7. flushed \subseteq Readable(file) /\ promise[c] \subseteq Readable(file)
    BY <1>0, <2>6, ReadableGrows DEF Inv, Covered
  <2>8. Covered'
    BY <1>3, <1>6, <2>1, <2>5, <2>7 DEF Covered
  <2> QED BY <1>4, <1>5, <2>4, <2>8 DEF Inv
<1> QED BY <1>1, <1>7, <1>8 DEF SyncBy
\* Close hands the buffer to the file, or a piece of it.
LEMMA CloseInv ==
  ASSUME Inv, NEW c \in Clients, CloseBy(c)
  PROVE  Inv'
<1>0. LogTypeOK
  BY DEF Inv, TypeOK
<1>1. /\ file' \in Drained /\ buf' = <<>> /\ is_open' = FALSE
      /\ UNCHANGED <<stable, kept, next_lsn, durable_lsn, pc, promise, flushed>>
  BY DEF CloseBy, Close
<1>2. TypeOK'
  BY <1>0, CloseType DEF CloseBy, TypeOK, Inv
<1>3. file' \in Seq(Rec) /\ Prefix(file, file') /\ Ascending(file')
  BY <1>0, <1>1, DrainedAscends DEF Inv, Ordered
<1>4. Covered'
  <2>1. Covered
    BY DEF Inv
  <2> QED BY <1>0, <1>1, <1>3, <2>1, GrowthCovers DEF Covered
<1>5. file' \o buf' = file'
  BY <1>1, <1>3
<1>6. Whole' /\ Above'
  BY <1>1 DEF Whole, Above
<1> QED BY <1>1, <1>2, <1>3, <1>4, <1>5, <1>6 DEF Inv, Ordered

\* A process that dies may leave a torn record behind the file; a power
\* failure leaves the synced content or at least the records kept from it.
LEMMA CrashInv ==
  ASSUME Inv, Crash
  PROVE  Inv'
<1>0. /\ LogTypeOK /\ file \in Seq(Rec) /\ buf \in Seq(Rec) /\ stable \in Seq(Rec)
      /\ kept \in 0..Len(file)
  BY DEF Inv, TypeOK, LogTypeOK
<1>1. /\ buf' = <<>> /\ is_open' = FALSE /\ flushed' = flushed
      /\ promise' = [c \in Clients |-> {}] /\ pc' = [c \in Clients |-> "idle"]
  BY DEF Crash, LogKill, LogPowerLoss, LogProcessDies
<1>2. TypeOK'
  <2>1. LogTypeOK'
    BY <1>0, CrashType DEF Crash
  <2> QED BY <1>1, <2>1 DEF TypeOK, Inv
<1>3. file' \in Seq(Rec)
  BY <1>2 DEF TypeOK, LogTypeOK
<1>4. Whole' /\ Above'
  BY <1>1 DEF Whole, Above
<1>5. file' \o buf' = file'
  BY <1>1, <1>3
<1>6. Ascending(file) /\ Ascending(stable)
  <2>1. Prefix(file, file \o buf) /\ file \o buf \in Seq(Rec)
    BY <1>0 DEF Prefix
  <2> QED BY <1>0, <2>1, AscendingPrefix DEF Inv, Ordered
<1>7. CASE LogKill
  <2>1. stable' = stable /\ kept' = kept /\ file' \in {file, Append(file, Torn)}
    BY <1>7 DEF LogKill
  <2>2. Torn \in Rec /\ Torn.type = "torn"
    BY TornIsRec DEF Torn
  <2>3. Ascending(file')
    BY <1>0, <1>6, <2>1, <2>2, AscendingAppend
  <2>4. Prefix(file, file')
    BY <1>0, <2>1, <2>2 DEF Prefix
  <2>5. Covered'
    <3>1. \A c \in Clients : promise'[c] \subseteq Readable(file)
      BY <1>1
    <3> QED BY <1>0, <1>1, <1>3, <2>1, <2>4, <3>1, GrowthCovers DEF Inv
  <2> QED BY <1>2, <1>4, <1>5, <1>6, <2>1, <2>3, <2>5 DEF Inv, Ordered
<1>8. CASE LogPowerLoss
  <2>1. stable' = file' /\ kept' = Len(file') /\ file' \in {stable} \cup Pieces(file, kept)
    BY <1>8 DEF LogPowerLoss
  <2>2. Ascending(file') /\ flushed \subseteq Readable(file')
    <3>1. CASE file' = stable
      BY <1>6, <3>1 DEF Inv, Covered
    <3>2. CASE file' \in Pieces(file, kept)
      <4>1. Ascending(file') /\ Prefix(FirstOf(file, kept), file')
        BY <1>0, <1>6, <3>2, PiecesAscend
      <4>2. FirstOf(file, kept) \in Seq(Rec)
        BY <1>0, FirstOfFacts
      <4>3. Readable(FirstOf(file, kept)) \subseteq Readable(file')
        BY <1>3, <4>1, <4>2, ReadableGrows
      <4> QED BY <4>1, <4>3 DEF Inv, Covered
    <3> QED BY <2>1, <3>1, <3>2
  <2>3. FirstOf(file', kept') = file'
    BY <1>3, <2>1 DEF FirstOf
  <2>4. Covered'
    BY <1>1, <2>1, <2>2, <2>3 DEF Covered
  <2> QED BY <1>2, <1>4, <1>5, <2>1, <2>2, <2>4 DEF Inv, Ordered
<1> QED BY <1>7, <1>8 DEF Crash

LEMMA StepInv ==
  ASSUME ReadableLog, Inv, [Next]_vars
  PROVE  Inv'
<1>1. CASE UNCHANGED vars
  <2>1. UNCHANGED <<buf, file, stable, kept, is_open, next_lsn, durable_lsn,
                    pc, promise, flushed>>
    BY <1>1 DEF vars, logVars
  <2> QED BY <2>1 DEF Inv, TypeOK, LogTypeOK, Whole, Ordered, Above, Covered
<1>2. CASE OpenLog
  BY <1>2, OpenInv
<1>3. CASE Crash
  BY <1>3, CrashInv
<1>4. CASE \E c \in Clients : \/ AppendBy(c) \/ FlushBy(c) \/ TruncateBy(c)
                              \/ TruncateFailsBy(c) \/ SyncBy(c) \/ CloseBy(c)
  BY <1>4, AppendInv, FlushInv, TruncateInv, SyncInv, CloseInv
<1> QED BY <1>1, <1>2, <1>3, <1>4 DEF Next

LEMMA LogIsSound ==
  ASSUME ReadableLog
  PROVE  Spec => []Inv
<1>1. Init => Inv
  BY InitInv
<1>2. Inv /\ [Next]_vars => Inv'
  BY StepInv
<1> QED BY <1>1, <1>2, PTL DEF Spec

\* What a Flush that returned Ok covered (LogManager::Flush, its mutex_
\* released before SyncFile) is read back by ReadRecords from then on, in
\* every interleaving of any number of threads with any number of crashes and
\* power failures, as long as Open reads the file and can cut its torn tail.
THEOREM FlushedSurvives ==
  ASSUME ReadableLog
  PROVE  Spec => []FlushedSurvive
<1>1. Inv => FlushedSurvive
  <2>1. SUFFICES ASSUME Inv PROVE FlushedSurvive
    OBVIOUS
  <2>2. file \in Seq(Rec) /\ kept \in 0..Len(file)
    BY <2>1 DEF Inv, TypeOK, LogTypeOK
  <2>3. FirstOf(file, kept) \in Seq(Rec) /\ Prefix(FirstOf(file, kept), file)
    BY <2>2, FirstOfFacts DEF Prefix
  <2>4. flushed \subseteq Readable(file)
    BY <2>1, <2>2, <2>3, ReadableGrows DEF Inv, Covered
  <2> QED BY <2>2, <2>4, ReadableIsRead DEF FlushedSurvive
<1> QED BY <1>1, LogIsSound, PTL

\* The LSNs that LogManager::Append allocates increase along the log and stay
\* below next_lsn_, across Close and Open, crashes and truncations: Open takes
\* up the numbering where the file it reads leaves off.
THEOREM LsnsIncrease ==
  ASSUME ReadableLog
  PROVE  Spec => []LsnOrder
<1>1. Inv => LsnOrder
  <2>1. SUFFICES ASSUME Inv, is_open
                 PROVE  LET log == ReadRecords(file) \o buf IN
                        /\ \A i, j \in 1..Len(log) : i < j => log[i].lsn < log[j].lsn
                        /\ \A i \in 1..Len(log) : log[i].lsn < next_lsn
    BY DEF LsnOrder
  <2>2. file \in Seq(Rec) /\ buf \in Seq(Rec)
    BY <2>1 DEF Inv, TypeOK, LogTypeOK
  <2>3. ReadRecords(file) = file
    BY <2>1, <2>2, ReadIntact DEF Inv, Whole
  <2> DEFINE log == file \o buf
  <2>4. \A i \in 1..Len(log) : log[i].type # "torn"
    BY <2>1, <2>2 DEF Inv, Whole, Intact
  <2>5. \A i \in 1..Len(log) : log[i].lsn < next_lsn
    BY <2>1, <2>2 DEF Inv, Ordered, Above
  <2>6. Ascending(log)
    BY <2>1 DEF Inv, Ordered
  <2> HIDE DEF log
  <2>7. \A i, j \in 1..Len(log) : i < j => log[i].lsn < log[j].lsn
    BY <2>4, <2>6 DEF Ascending
  <2> QED BY <2>3, <2>5, <2>7 DEF log
<1> QED BY <1>1, LogIsSound, PTL

\* Every state of the shared log is well typed; in particular what a Flush
\* covers consists of records, never of the bytes of a torn one.
THEOREM ClientTypes ==
  ASSUME ReadableLog
  PROVE  Spec => []TypeOK
<1>1. Inv => TypeOK
  BY DEF Inv
<1> QED BY <1>1, LogIsSound, PTL

=============================================================================
