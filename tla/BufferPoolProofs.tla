--------------------------- MODULE BufferPoolProofs ---------------------------
(***************************************************************************)
(* Proofs about BufferPool: guards keep their page and every pin has its   *)
(* guard, the free lists never reach a page in use, and what was last      *)
(* written to a page is what the pool or the file holds.                   *)
(***************************************************************************)
EXTENDS BufferPool, FiniteSetTheorems, WellFoundedInduction, TLAPS

-----------------------------------------------------------------------------
(***************************************************************************)
(* The inductive invariant.                                                *)
(***************************************************************************)

\* The table and the frames agree, and only pages in use are cached or guarded.
Mapped ==
  /\ \A p \in PageIds, f \in Frames : page_table[p] = f <=> frames[f].id = p
  /\ \A p \in PageIds : page_table[p] # 0 => p \in owned
  /\ \A t \in Threads : guard[t] # NoGuard => guard[t].page \in PageIds

\* What NewPage has allocated belongs to one thread, and to nobody else yet.
FreshApart ==
  \A t \in Threads :
    /\ pc[t] = "idle" <=> fresh[t] = kInvalidPageId
    /\ pc[t] # "idle" => guard[t] = NoGuard
    /\ fresh[t] \notin owned
    /\ \A u \in Threads : fresh[u] = fresh[t] /\ t # u => fresh[t] = kInvalidPageId

InUse == owned \cup {fresh[t] : t \in Threads}

\* F is closed under the links of a file, which descend in rank on it.
Descends(file, F, rank) ==
  \A q \in F : /\ file[q].link \in F \cup {kInvalidPageId}
               /\ file[q].link \in F => rank[file[q].link] < rank[q]

\* A set of pages that the list from head cannot leave, and an order on it in
\* which the list descends: without these, soundness of a list is not
\* preserved by the writes to the pages of another one.
Listed(file, head, count, used) ==
  \E F \in SUBSET PageIds, rank \in [PageIds -> Nat] :
    /\ head \in F \cup {kInvalidPageId}
    /\ Descends(file, F, rank)
    /\ F \subseteq 1..(count - 1)
    /\ F \cap used = {}

\* The list in the header and the one in memory.
ListsApart ==
  /\ Listed(pages, header.head, header.count, InUse)
  /\ \A p \in InUse \ {kInvalidPageId} : p < header.count
  /\ is_open => /\ Listed(pages, free_list_head, page_count, InUse)
                /\ 0 < header.count /\ header.count <= page_count

\* A frame that is neither dirty nor being written has what the file has; a
\* page that NewPage has allocated is still empty.
CleanFrames ==
  \A p \in owned, f \in Frames :
    /\ page_table[p] = f /\ ~frames[f].dirty
    /\ \A t \in Threads : guard[t].frame = f => ~guard[t].writable
    => frames[f].bytes.data = pages[p].data

FreshEmpty ==
  \A t \in Threads : fresh[t] # kInvalidPageId => pages[fresh[t]].data = "zero"

Inv1 == TypeOK /\ Mapped /\ FreshApart /\ GuardStable
Inv2 == Inv1 /\ ListsApart
Inv3 == Inv2 /\ LatestKept /\ CleanFrames /\ FreshEmpty

-----------------------------------------------------------------------------
(***************************************************************************)
(* Induction, from the well-foundedness of the natural numbers.            *)
(***************************************************************************)

\* A set of naturals that is not empty has a least element.
LEMMA Least ==
  ASSUME NEW T \in SUBSET Nat, T # {}
  PROVE  \E x \in T : \A y \in T : x <= y
<1>1. PICK x \in T : \A y \in T : ~ (<<y, x>> \in OpToRel(<, Nat))
  BY NatLessThanWellFounded, WFMin
<1>2. \A y \in T : ~(y < x)
  BY <1>1 DEF OpToRel
<1> QED BY <1>2

\* What holds of 0 and passes from n to n + 1 holds of all naturals.
LEMMA Inductive ==
  ASSUME NEW S \in SUBSET Nat, 0 \in S, \A n \in S : n + 1 \in S
  PROVE  S = Nat
<1> SUFFICES ASSUME Nat \ S # {} PROVE FALSE
  OBVIOUS
<1>1. PICK x \in Nat \ S : \A y \in Nat \ S : x <= y
  BY Least
<1>2. x - 1 \in Nat /\ x - 1 \notin Nat \ S
  BY <1>1
<1> QED BY <1>1, <1>2

-----------------------------------------------------------------------------
(***************************************************************************)
(* Free lists.                                                             *)
(***************************************************************************)

\* What the recursion of FreeList says of the pages on a list of length m.
Walk(g, head, m) ==
  g = [n \in 0..m |-> IF n = 0 THEN head
                      ELSE IF g[n - 1] \in PageIds THEN pages[g[n - 1]].link
                      ELSE kInvalidPageId]

\* There is such a function, for every length.
LEMMA WalkExists ==
  ASSUME NEW head, NEW k \in Nat
  PROVE  \E g : Walk(g, head, k)
<1> DEFINE S == {m \in Nat : \E g : Walk(g, head, m)}
<1>1. 0 \in S
  <2>1. Walk([n \in 0..0 |-> head], head, 0)
    BY DEF Walk
  <2> QED BY <2>1
<1>2. ASSUME NEW m \in S PROVE m + 1 \in S
  <2>1. PICK g : Walk(g, head, m)
    OBVIOUS
  <2> DEFINE last == IF g[m] \in PageIds THEN pages[g[m]].link ELSE kInvalidPageId
             h == [n \in 0..m + 1 |-> IF n = m + 1 THEN last ELSE g[n]]
  <2>2. ASSUME NEW n \in 0..m + 1
        PROVE  h[n] = IF n = 0 THEN head
                      ELSE IF h[n - 1] \in PageIds THEN pages[h[n - 1]].link
                      ELSE kInvalidPageId
    <3>1. CASE n = m + 1
      <4>0. n - 1 = m /\ m \in 0..m + 1 /\ m # m + 1 /\ m + 1 \in 0..m + 1 /\ n # 0
        <5>1. m \in Nat
          OBVIOUS
        <5> HIDE DEF last, S
        <5> QED BY <3>1, <5>1
      <4>1. h[m] = g[m] /\ h[m + 1] = last
        <5> HIDE DEF last, S
        <5>1. h[m] = g[m]
          BY <4>0, ZenonT(40)
        <5>2. h[m + 1] = last
          BY <4>0, ZenonT(40)
        <5> QED BY <5>1, <5>2
      <4> HIDE DEF h, S
      <4> QED BY <3>1, <4>0, <4>1
    <3>2. CASE n # m + 1
      <4>1. n \in 0..m /\ h[n] = g[n] /\ (n # 0 => h[n - 1] = g[n - 1])
        BY <3>2
      <4> QED BY <4>1, <2>1 DEF Walk
    <3> QED BY <3>1, <3>2
  <2>3. h = [n \in 0..m + 1 |-> IF n = 0 THEN head
                      ELSE IF h[n - 1] \in PageIds THEN pages[h[n - 1]].link
                      ELSE kInvalidPageId]
    BY <2>2
  <2> HIDE DEF h
  <2>4. Walk(h, head, m + 1)
    BY <2>3 DEF Walk
  <2>5. m + 1 \in Nat
    OBVIOUS
  <2> QED BY <2>4, <2>5
<1>3. S = Nat
  <2>1. S \in SUBSET Nat
    OBVIOUS
  <2> HIDE DEF S
  <2> QED BY <1>1, <1>2, <2>1, Inductive
<1> QED BY <1>3

LEMMA FreeListWalk ==
  ASSUME NEW head
  PROVE  Walk(FreeList(head), head, kInvalidPageId)
<1>1. kInvalidPageId \in Nat
  BY DiskAssumption DEF kInvalidPageId
<1>2. \E w : Walk(w, head, kInvalidPageId)
  BY <1>1, WalkExists
<1>3. FreeList(head) = CHOOSE w : Walk(w, head, kInvalidPageId)
  BY DEF FreeList, Walk
<1> QED BY <1>2, <1>3

\* A list that cannot leave a set it descends on is sound: every step goes
\* down in rank, so that no page comes twice, and there are not enough pages
\* for a list of that length.
LEMMA ListedIsSound ==
  ASSUME NEW head, NEW count \in Int, NEW used, Listed(pages, head, count, used)
  PROVE  ListSound(head, count, used)
<1>1. PICK F \in SUBSET PageIds, rank \in [PageIds -> Nat] :
        /\ head \in F \cup {kInvalidPageId}
        /\ Descends(pages, F, rank)
        /\ F \subseteq 1..(count - 1)
        /\ F \cap used = {}
  BY DEF Listed
<1> DEFINE at == FreeList(head)
           k  == kInvalidPageId
<1>2. k \in Nat \ {0} /\ k \notin PageIds /\ PageIds = 1..MaxPage /\ k = MaxPage + 1
  BY DiskAssumption DEF kInvalidPageId, PageIds
<1>3. /\ at[0] = head
      /\ \A n \in 0..k : n + 1 \in 0..k =>
           at[n + 1] = IF at[n] \in PageIds THEN pages[at[n]].link ELSE k
  <2>1. Walk(at, head, k)
    BY FreeListWalk
  <2> HIDE DEF at
  <2>2. 0 \in 0..k
    BY <1>2
  <2>3. ASSUME NEW n \in 0..k, n + 1 \in 0..k
        PROVE  at[n + 1] = IF at[n] \in PageIds THEN pages[at[n]].link ELSE k
    BY <2>1, <2>3, <1>2 DEF Walk
  <2> QED BY <2>1, <2>2, <2>3 DEF Walk
<1> HIDE DEF at, k
<1> DEFINE S == {n \in Nat : n \in 0..k => at[n] \in F \cup {k}}
<1>4. \A n \in 0..k : at[n] \in F \cup {k}
  <2>1. 0 \in S
    BY <1>1, <1>3 DEF k
  <2>2. ASSUME NEW n \in S PROVE n + 1 \in S
    <3>1. CASE n + 1 \in 0..k
      <4>1. n \in 0..k /\ at[n] \in F \cup {k}
        BY <3>1, <1>2
      <4> QED BY <4>1, <1>1, <1>2, <1>3, <3>1 DEF Descends, k
    <3> QED BY <3>1
  <2>3. S = Nat
    <3>1. S \in SUBSET Nat
      OBVIOUS
    <3> HIDE DEF S
    <3> QED BY <2>1, <2>2, <3>1, Inductive
  <2> QED BY <2>3, <1>2
<1> DEFINE R == {n \in Nat : \A i, j \in 0..k : j = i + n + 1 /\ at[j] # k =>
                   at[i] # k /\ rank[at[j]] < rank[at[i]]}
<1>5. \A i, j \in 0..k : i < j /\ at[j] # k => rank[at[j]] < rank[at[i]] /\ at[i] # k
  <2>1. ASSUME NEW i \in 0..k, i + 1 \in 0..k, at[i + 1] # k
        PROVE  at[i] # k /\ rank[at[i + 1]] < rank[at[i]]
    BY <1>1, <1>2, <1>3, <1>4, <2>1, SMTT(30) DEF Descends, k
  <2>2. 0 \in R
    BY <2>1
  <2>3. ASSUME NEW n \in R PROVE n + 1 \in R
    <3>1. SUFFICES ASSUME NEW i \in 0..k, NEW j \in 0..k, j = i + (n + 1) + 1, at[j] # k
                   PROVE  at[i] # k /\ rank[at[j]] < rank[at[i]]
      OBVIOUS
    <3>2. i + 1 \in 0..k /\ j = (i + 1) + n + 1
      BY <3>1, <1>2
    <3>3. at[i + 1] # k /\ rank[at[j]] < rank[at[i + 1]]
      BY <3>1, <3>2
    <3>4. at[i] # k /\ rank[at[i + 1]] < rank[at[i]]
      BY <2>1, <3>2, <3>3
    <3>5. at[i] \in PageIds /\ at[i + 1] \in PageIds /\ at[j] \in PageIds
      BY <1>4, <3>1, <3>2, <3>3, <3>4
    <3>6. rank[at[i]] \in Nat /\ rank[at[i + 1]] \in Nat /\ rank[at[j]] \in Nat
      BY <3>5
    <3> QED BY <3>3, <3>4, <3>6
  <2>4. R = Nat
    <3>1. R \in SUBSET Nat
      OBVIOUS
    <3> HIDE DEF R
    <3> QED BY <2>2, <2>3, <3>1, Inductive
  <2>5. SUFFICES ASSUME NEW i \in 0..k, NEW j \in 0..k, i < j, at[j] # k
                 PROVE  rank[at[j]] < rank[at[i]] /\ at[i] # k
    OBVIOUS
  <2>6. j - i - 1 \in Nat /\ j = i + (j - i - 1) + 1
    BY <2>5, <1>2
  <2>7. j - i - 1 \in R
    BY <2>4, <2>6
  <2> QED BY <2>5, <2>6, <2>7
<1>6. at[k] = k
  <2> SUFFICES ASSUME at[k] # k PROVE FALSE
    OBVIOUS
  <2>1. \A n \in 0..k : at[n] \in PageIds
    <3>1. k \in 0..k /\ \A n \in 0..k : n = k \/ n < k
      BY <1>2
    <3>2. \A n \in 0..k : at[n] # k
      BY <3>1, <1>5
    <3> QED BY <3>2, <1>4
  <2> DEFINE f == [n \in 0..k |-> at[n]]
  <2>2. f \in [0..k -> PageIds]
    BY <2>1
  <2>3. IsFiniteSet(0..k) /\ Cardinality(0..k) = k + 1
    BY <1>2, FS_Interval
  <2>4. IsFiniteSet(PageIds) /\ Cardinality(PageIds) = k - 1
    BY <1>2, FS_Interval, DiskAssumption
  <2>5. PICK i, j \in 0..k : i # j /\ f[i] = f[j]
    <3>1. Cardinality(PageIds) < Cardinality(0..k)
      BY <2>3, <2>4, <1>2
    <3> HIDE DEF f
    <3> QED BY <3>1, <2>2, <2>3, <2>4, FS_PigeonHole
  <2>6. at[i] = at[j] /\ rank[at[i]] \in Nat /\ rank[at[j]] \in Nat
    BY <2>5, <2>1
  <2>7. rank[at[i]] < rank[at[j]] \/ rank[at[j]] < rank[at[i]]
    BY <1>5, <2>1, <2>5, <1>2
  <2> QED BY <2>6, <2>7
<1>7. \A n \in 0..k : at[n] # k => at[n] \in 1..(count - 1) /\ at[n] \notin used
  BY <1>1, <1>4
<1> QED BY <1>6, <1>7 DEF ListSound, at, k

\* Writes to pages in use, and cutting a list short, leave it sound.
LEMMA ListKept ==
  ASSUME NEW file, NEW file2, NEW head, NEW count \in Int, NEW count2 \in Int,
         NEW used, NEW used2,
         Listed(file, head, count, used),
         count <= count2, used2 \cap PageIds \subseteq used,
         \A q \in PageIds \ used : file2[q].link \in {file[q].link, kInvalidPageId}
  PROVE  Listed(file2, head, count2, used2)
<1>1. PICK F \in SUBSET PageIds, rank \in [PageIds -> Nat] :
        /\ head \in F \cup {kInvalidPageId} /\ Descends(file, F, rank)
        /\ F \subseteq 1..(count - 1) /\ F \cap used = {}
  BY DEF Listed
<1>2. kInvalidPageId \notin PageIds
  BY DiskAssumption DEF kInvalidPageId, PageIds
<1>3. Descends(file2, F, rank)
  BY <1>1, <1>2 DEF Descends
<1>4. F \subseteq 1..(count2 - 1)
  BY <1>1
<1>5. F \cap used2 = {}
  BY <1>1
<1> QED BY <1>1, <1>3, <1>4, <1>5 DEF Listed

\* The head of a list is not in use; the list goes on from its link without it.
LEMMA ListTaken ==
  ASSUME NEW file, NEW file2, NEW head \in PageIds, NEW count \in Int,
         NEW used, NEW used2,
         Listed(file, head, count, used),
         used2 \cap PageIds \subseteq used \cup {head},
         \A q \in PageIds \ (used \cup {head}) : file2[q].link = file[q].link
  PROVE  /\ Listed(file2, file[head].link, count, used2)
         /\ head \notin used /\ head \in 1..(count - 1)
<1>0. kInvalidPageId \notin PageIds
  BY DiskAssumption DEF kInvalidPageId, PageIds
<1>1. PICK F \in SUBSET PageIds, rank \in [PageIds -> Nat] :
        /\ head \in F \cup {kInvalidPageId} /\ Descends(file, F, rank)
        /\ F \subseteq 1..(count - 1) /\ F \cap used = {}
  BY DEF Listed
<1>2. head \in F
  BY <1>0, <1>1
<1> DEFINE G == {q \in F : rank[q] < rank[head]}
<1>3. file[head].link \in G \cup {kInvalidPageId}
  BY <1>1, <1>2 DEF Descends
<1>4. head \notin G
  BY <1>1
<1>5. Descends(file2, G, rank)
  <2>1. SUFFICES ASSUME NEW q \in G
                 PROVE  /\ file2[q].link \in G \cup {kInvalidPageId}
                        /\ file2[q].link \in G => rank[file2[q].link] < rank[q]
    BY DEF Descends
  <2>2. q \in F /\ q \in PageIds \ (used \cup {head}) /\ rank[q] < rank[head]
    BY <1>1, <1>4
  <2>3. /\ file2[q].link = file[q].link /\ file[q].link \in F \cup {kInvalidPageId}
        /\ file[q].link \in F => rank[file[q].link] < rank[q]
    BY <1>1, <2>2 DEF Descends
  <2>4. \A x \in F : rank[x] \in Nat
    OBVIOUS
  <2> QED BY <2>2, <2>3, <2>4, <1>2
<1>6. G \in SUBSET PageIds /\ G \subseteq 1..(count - 1) /\ G \cap used2 = {}
  BY <1>1, <1>4
<1>7. Listed(file2, file[head].link, count, used2)
  <2> HIDE DEF G
  <2> QED BY <1>3, <1>5, <1>6 DEF Listed
<1> QED BY <1>1, <1>2, <1>7

\* A page that was in use becomes the head of the list.
LEMMA ListPushed ==
  ASSUME NEW file, NEW file2, NEW head, NEW count \in Int, NEW used, NEW used2,
         NEW p \in PageIds, p \in used, p < count,
         Listed(file, head, count, used),
         used2 \cap PageIds \subseteq used \ {p}, file2[p].link = head,
         \A q \in PageIds \ used : file2[q].link = file[q].link
  PROVE  Listed(file2, p, count, used2)
<1>0. kInvalidPageId \notin PageIds
  BY DiskAssumption DEF kInvalidPageId, PageIds
<1>1. PICK F \in SUBSET PageIds, rank \in [PageIds -> Nat] :
        /\ head \in F \cup {kInvalidPageId} /\ Descends(file, F, rank)
        /\ F \subseteq 1..(count - 1) /\ F \cap used = {}
  BY DEF Listed
<1> DEFINE G == F \cup {p}
           r == [rank EXCEPT ![p] = IF head \in F THEN rank[head] + 1 ELSE 0]
<1>2. p \notin F /\ p # head
  BY <1>0, <1>1
<1>3. r \in [PageIds -> Nat] /\ \A q \in F : r[q] = rank[q]
  BY <1>1, <1>2
<1>4. head \in F => r[head] < r[p]
  BY <1>1, <1>2, <1>3
<1>5. Descends(file2, G, r)
  <2>1. SUFFICES ASSUME NEW q \in G
                 PROVE  /\ file2[q].link \in G \cup {kInvalidPageId}
                        /\ file2[q].link \in G => r[file2[q].link] < r[q]
    BY DEF Descends
  <2>2. CASE q = p
    BY <2>2, <1>1, <1>2, <1>4
  <2>3. CASE q # p
    <3>1. /\ file2[q].link = file[q].link /\ file[q].link \in F \cup {kInvalidPageId}
          /\ file[q].link \in F => rank[file[q].link] < rank[q]
      BY <2>3, <1>1 DEF Descends
    <3> HIDE DEF r
    <3> QED BY <3>1, <2>3, <1>0, <1>2, <1>3
  <2> QED BY <2>2, <2>3
<1>6. G \in SUBSET PageIds /\ G \subseteq 1..(count - 1) /\ G \cap used2 = {}
  <2>1. p \in 1..(count - 1)
    BY DiskAssumption DEF PageIds
  <2> QED BY <1>1, <2>1
<1> HIDE DEF G, r
<1>7. p \in G \cup {kInvalidPageId}
  BY DEF G
<1> QED BY <1>3, <1>5, <1>6, <1>7 DEF Listed

-----------------------------------------------------------------------------
(***************************************************************************)
(* Guards and frames.                                                      *)
(***************************************************************************)

LEMMA VictimType ==
  ASSUME TypeOK
  PROVE  Victim \in 0..PoolSize /\ (Victim # 0 => frames[Victim].pin_count = 0)
<1> DEFINE unpinned == {f \in Frames : frames[f].pin_count = 0}
           full     == {i \in Frames : recency[i] \in unpinned
                                       /\ frames[recency[i]].id # kInvalidPageId}
<1>1. full \in SUBSET Nat /\ unpinned \in SUBSET Nat
  BY PoolAssumption DEF Frames
<1>2. Victim = IF full # {} THEN recency[CHOOSE i \in full : \A j \in full : i <= j]
               ELSE IF unpinned # {} THEN CHOOSE f \in unpinned : \A g \in unpinned : f <= g
               ELSE 0
  BY DEF Victim
<1>3. full # {} => (CHOOSE i \in full : \A j \in full : i <= j) \in full
  <2> HIDE DEF full
  <2> QED BY <1>1, Least
<1>4. unpinned # {} => (CHOOSE f \in unpinned : \A g \in unpinned : f <= g) \in unpinned
  <2> HIDE DEF unpinned
  <2> QED BY <1>1, Least
<1>5. Victim \in unpinned \/ Victim = 0
  BY <1>2, <1>3, <1>4
<1> QED BY <1>5, PoolAssumption DEF Frames

Guard == [page : PageIds \cup {kInvalidPageId}, frame : 0..PoolSize, writable : BOOLEAN]

Holders(g, f) == {t \in Threads : g[t] # NoGuard /\ g[t].frame = f}

LEMMA HoldersFinite ==
  ASSUME NEW g, NEW f
  PROVE  IsFiniteSet(Holders(g, f)) /\ Cardinality(Holders(g, f)) \in Nat
<1>1. Holders(g, f) \in SUBSET Threads
  BY DEF Holders
<1>2. IsFiniteSet(Threads)
  BY PoolAssumption
<1>3. IsFiniteSet(Holders(g, f))
  BY <1>1, <1>2, FS_Subset
<1> QED BY <1>3, FS_CardinalityType

\* A frame without pins has no guard.
LEMMA NoPinNoGuard ==
  ASSUME GuardStable, NEW f \in Frames, frames[f].pin_count = 0
  PROVE  \A t \in Threads : guard[t] # NoGuard => guard[t].frame # f
<1>1. Cardinality(Holders(guard, f)) = 0
  BY DEF GuardStable, Holders
<1>2. Holders(guard, f) = {}
  BY <1>1, HoldersFinite, FS_EmptySet
<1> QED BY <1>2 DEF Holders

\* A guard more, and a guard less.
LEMMA HoldersAdded ==
  ASSUME NEW g \in [Threads -> Guard], NEW h, NEW t \in Threads, g[t] = NoGuard,
         NEW p, NEW f \in Frames, NEW w,
         h = [g EXCEPT ![t] = [page |-> p, frame |-> f, writable |-> w]],
         NEW e \in Frames
  PROVE  Cardinality(Holders(h, e)) =
           IF e = f THEN Cardinality(Holders(g, e)) + 1 ELSE Cardinality(Holders(g, e))
<1>1. f # 0
  BY PoolAssumption DEF Frames
<1>2. h[t] # NoGuard /\ h[t].frame = f /\ \A u \in Threads : u # t => h[u] = g[u]
  BY <1>1 DEF NoGuard
<1>3. t \notin Holders(g, e)
  BY DEF Holders
<1>4. CASE e = f
  <2>1. Holders(h, e) = Holders(g, e) \cup {t}
    BY <1>2, <1>4 DEF Holders
  <2> QED BY <2>1, <1>3, <1>4, HoldersFinite, FS_AddElement
<1>5. CASE e # f
  <2>1. Holders(h, e) = Holders(g, e)
    BY <1>2, <1>3, <1>5 DEF Holders
  <2> QED BY <2>1, <1>5
<1> QED BY <1>4, <1>5

LEMMA HoldersRemoved ==
  ASSUME NEW g, NEW h, NEW t \in Threads, NEW f \in Frames, NEW e \in Frames,
         g[t] # NoGuard, g[t].frame = f,
         h[t] = NoGuard, \A u \in Threads : u # t => h[u] = g[u]
  PROVE  Cardinality(Holders(h, e)) =
           IF e = f THEN Cardinality(Holders(g, e)) - 1 ELSE Cardinality(Holders(g, e))
<1>2. CASE e = f
  <2>1. Holders(h, e) = Holders(g, e) \ {t} /\ t \in Holders(g, e)
    BY <1>2 DEF Holders
  <2>2. Cardinality(Holders(g, e) \ {t}) = Cardinality(Holders(g, e)) - 1
    BY <2>1, HoldersFinite, FS_RemoveElement
  <2> QED BY <2>1, <2>2, <1>2
<1>3. CASE e # f
  <2>1. Holders(h, e) = Holders(g, e)
    BY <1>3 DEF Holders
  <2> QED BY <2>1, <1>3
<1> QED BY <1>2, <1>3

LEMMA Constants ==
  /\ kInvalidPageId \notin PageIds /\ kInvalidPageId = MaxPage + 1 /\ MaxPage \in Nat
  /\ PageIds = 1..MaxPage /\ Links = 0..kInvalidPageId /\ PageIds \subseteq Links
  /\ Frames = 1..PoolSize /\ PoolSize \in Nat /\ 0 \notin Frames
  /\ NoGuard \in Guard /\ Empty \in Frame /\ NoGuard.frame = 0 /\ ~NoGuard.writable
  /\ \A n \in Links : Free(n) \in Bytes
  /\ \A v \in Vals \cup {"zero", "torn"}, n \in Links : [link |-> n, data |-> v] \in Bytes
  BY DiskAssumption, PoolAssumption
     DEF kInvalidPageId, PageIds, Links, Frames, NoGuard, Guard, Empty, Frame, Free, Bytes,
         Unwritten

LEMMA GuardedFrame ==
  ASSUME Inv1, NEW t \in Threads, guard[t] # NoGuard
  PROVE  /\ guard[t].frame \in Frames /\ guard[t].frame # 0
         /\ guard[t].page \in PageIds /\ guard[t].page \in owned
         /\ frames[guard[t].frame].id = guard[t].page
         /\ page_table[guard[t].page] = guard[t].frame
<1>1. guard[t] \in Guard
  BY DEF Inv1, TypeOK, Guard
<1>2. guard[t].frame \in 0..PoolSize
  BY <1>1 DEF Guard
<1>3. /\ guard[t].frame # 0 /\ frames[guard[t].frame].id = guard[t].page
      /\ page_table[guard[t].page] = guard[t].frame
  BY DEF Inv1, GuardStable
<1>4. guard[t].page \in PageIds
  BY DEF Inv1, Mapped
<1>5. guard[t].page \in owned
  BY <1>3, <1>4 DEF Inv1, Mapped
<1> QED BY <1>2, <1>3, <1>4, <1>5, Constants

\* What a failed write leaves, as far as lists are concerned.
LEMMA FailedWriteType ==
  ASSUME DiskTypeOK, NEW p \in PageIds, NEW b \in Bytes, NEW file \in FailedWrite(p, b)
  PROVE  /\ file \in [PageIds -> Bytes]
         /\ \A q \in PageIds : q # p => file[q] = pages[q]
         /\ file[p].link \in {pages[p].link, b.link}
         /\ ~TornWrites => file = pages
<1>1. PICK c \in {pages[p]} \cup (IF TornWrites THEN {[link |-> n, data |-> "torn"] :
                                          n \in {pages[p].link, b.link}} ELSE {}) :
        file = [pages EXCEPT ![p] = c]
  BY DEF FailedWrite
<1>2. pages \in [PageIds -> Bytes]
  BY DEF DiskTypeOK
<1>3. pages[p].link \in Links /\ b.link \in Links
  BY <1>2 DEF Bytes
<1>4. c \in Bytes /\ c.link \in {pages[p].link, b.link}
  BY <1>1, <1>2, <1>3, Constants
<1>5. ~TornWrites => c = pages[p]
  BY <1>1
<1> QED BY <1>1, <1>2, <1>4, <1>5

\* The lists stay apart as long as they and the pages in use stay the same and
\* only pages in use are written.
LEMMA ListsKept ==
  ASSUME Inv2, UNCHANGED <<header, is_open, page_count, free_list_head>>,
         InUse' \cap PageIds \subseteq InUse, InUse' \subseteq PageIds \cup {kInvalidPageId},
         \A q \in PageIds \ InUse : pages'[q].link = pages[q].link
  PROVE  ListsApart'
<1>1. /\ Listed(pages, header.head, header.count, InUse)
      /\ \A p \in InUse \ {kInvalidPageId} : p < header.count
      /\ is_open => /\ Listed(pages, free_list_head, page_count, InUse)
                    /\ 0 < header.count /\ header.count <= page_count
  BY DEF Inv2, ListsApart
<1>2. header.count \in Int /\ page_count \in Int
  BY Constants DEF Inv2, Inv1, TypeOK, DiskTypeOK
<1>3. Listed(pages', header.head, header.count, InUse')
  BY <1>1, <1>2, ListKept
<1>4. is_open => Listed(pages', free_list_head, page_count, InUse')
  BY <1>1, <1>2, ListKept
<1>5. \A p \in InUse' \ {kInvalidPageId} : p < header.count
  BY <1>1
<1> QED BY <1>1, <1>3, <1>4, <1>5 DEF ListsApart

\* Steps that change the bytes of frames and of cached pages and nothing else.
LEMMA OnlyContents ==
  ASSUME Inv2, TypeOK',
         UNCHANGED <<header, is_open, page_count, free_list_head, page_table,
                     guard, pc, fresh, owned>>,
         \A f \in Frames : /\ frames'[f].id = frames[f].id
                           /\ frames'[f].pin_count = frames[f].pin_count,
         \A q \in PageIds : page_table[q] = 0 => pages'[q].link = pages[q].link
  PROVE  Inv2'
<1>1. Mapped'
  BY DEF Inv2, Inv1, Mapped
<1>2. FreshApart'
  BY DEF Inv2, Inv1, FreshApart
<1>3. GuardStable'
  <2>1. \A t \in Threads : guard[t] # NoGuard =>
          /\ guard[t].frame # 0 /\ guard[t].frame \in Frames
          /\ frames[guard[t].frame].id = guard[t].page
          /\ page_table[guard[t].page] = guard[t].frame
    BY GuardedFrame DEF Inv2
  <2>2. \A f \in Frames : frames[f].pin_count = 
         Cardinality({t \in Threads : guard[t] # NoGuard /\ guard[t].frame = f})
    BY DEF Inv2, Inv1, GuardStable
  <2> QED BY <2>1, <2>2 DEF GuardStable
<1>4. ListsApart'
  <2>1. InUse' = InUse
    BY DEF InUse
  <2>2. \A q \in PageIds \ InUse : page_table[q] = 0
    BY DEF Inv2, Inv1, Mapped, InUse
  <2>3. InUse \subseteq PageIds \cup {kInvalidPageId}
    BY DEF Inv2, Inv1, TypeOK, InUse
  <2> QED BY <2>1, <2>2, <2>3, ListsKept
<1> QED BY <1>1, <1>2, <1>3, <1>4 DEF Inv2, Inv1

-----------------------------------------------------------------------------
(***************************************************************************)
(* The steps, one lemma each.                                              *)
(***************************************************************************)

LEMMA InitInv2 == Init => Inv2
<1> SUFFICES ASSUME Init PROVE Inv2
  OBVIOUS
<1> USE DEF Init, DiskInit
<1>1. TypeOK
  <2>1. DiskTypeOK
    <3>1. Unwritten \in Bytes /\ kInvalidPageId \in Links /\ 0 \in 0..kInvalidPageId
      BY Constants DEF Unwritten
    <3>2. header \in [count : 0..kInvalidPageId, head : Links]
      BY <3>1 DEF Header
    <3> QED BY <3>1, <3>2 DEF DiskTypeOK
  <2>2. frames \in [Frames -> Frame] /\ guard \in [Threads -> Guard]
    BY Constants DEF NoFrames, NoGuards
  <2>3. /\ page_table \in [PageIds -> 0..PoolSize] /\ recency \in [Frames -> Frames]
        /\ crashes \in 0..MaxCrashes
    BY PoolAssumption DEF NoTable
  <2> QED BY <2>1, <2>2, <2>3 DEF TypeOK, Guard, AllIdle
<1>2. Mapped
  BY Constants DEF Mapped, NoTable, NoFrames, Empty, NoGuards
<1>3. FreshApart
  BY DEF FreshApart, NoGuards, AllIdle
<1>4. GuardStable
  <2>1. \A f \in Frames : {t \in Threads : guard[t] # NoGuard /\ guard[t].frame = f} = {}
    BY DEF NoGuards
  <2>2. \A f \in Frames : frames[f].pin_count = 0
    BY DEF NoFrames, Empty
  <2> QED BY <2>1, <2>2, FS_EmptySet DEF GuardStable, NoGuards
<1>5. ListsApart
  <2>1. InUse \ {kInvalidPageId} = {}
    BY DEF InUse
  <2>2. Listed(pages, kInvalidPageId, 0, InUse)
    <3>1. {} \in SUBSET PageIds /\ [q \in PageIds |-> 0] \in [PageIds -> Nat]
      OBVIOUS
    <3>2. Descends(pages, {}, [q \in PageIds |-> 0])
      BY DEF Descends
    <3> QED BY <3>1, <3>2 DEF Listed
  <2> QED BY <2>1, <2>2 DEF ListsApart, Header
<1> QED BY <1>1, <1>2, <1>3, <1>4, <1>5 DEF Inv2, Inv1

LEMMA WriteThroughInv2 ==
  ASSUME Inv2, NEW t \in Threads, NEW v \in Vals, WriteThrough(t, v)
  PROVE  Inv2'
<1>1. guard[t] # NoGuard
  BY Constants DEF WriteThrough
<1>2. guard[t].frame \in Frames /\ guard[t].page \in PageIds
  BY <1>1, GuardedFrame DEF Inv2
<1>3. frames \in [Frames -> Frame] /\ latest \in [PageIds -> Vals \cup {"zero", "torn"}]
  BY DEF Inv2, Inv1, TypeOK
<1>4. Data(v) \in Bytes
  BY Constants DEF Data
<1>5. frames' \in [Frames -> Frame]
  BY <1>2, <1>3, <1>4 DEF WriteThrough, Frame
<1>6. latest' \in [PageIds -> Vals \cup {"zero", "torn"}]
  BY <1>2, <1>3 DEF WriteThrough
<1>7. TypeOK'
  BY <1>5, <1>6 DEF WriteThrough, Inv2, Inv1, TypeOK, DiskTypeOK, diskVars
<1>8. \A f \in Frames : /\ frames'[f].id = frames[f].id
                        /\ frames'[f].pin_count = frames[f].pin_count
  BY <1>2, <1>3 DEF WriteThrough, Frame
<1> QED BY <1>7, <1>8, OnlyContents DEF WriteThrough, diskVars

LEMMA FlushPageInv2 ==
  ASSUME Inv2, NEW t \in Threads, NEW p \in PageIds, FlushPage(t, p)
  PROVE  Inv2'
<1> DEFINE f == page_table[p]
<1>1. f \in Frames /\ frames \in [Frames -> Frame] /\ pages \in [PageIds -> Bytes]
  BY Constants DEF FlushPage, Inv2, Inv1, TypeOK, DiskTypeOK
<1>2. frames[f] \in Frame /\ frames[f].bytes \in Bytes
  BY <1>1 DEF Frame
<1>3. /\ pages' \in [PageIds -> Bytes]
      /\ \A q \in PageIds : q # p => pages'[q] = pages[q]
  <2>1. CASE pages' = [pages EXCEPT ![p] = frames[f].bytes]
    BY <2>1, <1>1, <1>2
  <2>2. CASE pages' \in FailedWrite(p, frames[f].bytes)
    BY <2>2, <1>2, FailedWriteType DEF Inv2, Inv1, TypeOK
  <2> QED BY <2>1, <2>2 DEF FlushPage
<1>4. /\ frames' \in [Frames -> Frame]
      /\ \A g \in Frames : /\ frames'[g].id = frames[g].id
                            /\ frames'[g].pin_count = frames[g].pin_count
  <2>1. CASE frames' = [frames EXCEPT ![f].dirty = FALSE]
    <3>1. LET c == [frames[f] EXCEPT !.dirty = FALSE] IN
          c \in Frame /\ c.id = frames[f].id /\ c.pin_count = frames[f].pin_count
      BY <1>2 DEF Frame
    <3>2. frames' = [frames EXCEPT ![f] = [frames[f] EXCEPT !.dirty = FALSE]]
      BY <2>1
    <3> HIDE DEF f
    <3> QED BY <1>1, <3>1, <3>2
  <2>2. CASE frames' = frames
    BY <2>2, <1>1
  <2> QED BY <2>1, <2>2 DEF FlushPage
<1>5. TypeOK'
  BY <1>3, <1>4 DEF FlushPage, Inv2, Inv1, TypeOK, DiskTypeOK
<1> QED BY <1>3, <1>4, <1>5, OnlyContents DEF FlushPage

LEMMA FlushedPagesType ==
  ASSUME TypeOK, NEW n \in 0..PoolSize
  PROVE  /\ FlushedPages(n) \in [PageIds -> Bytes]
         /\ \A q \in PageIds : page_table[q] = 0 => FlushedPages(n)[q] = pages[q]
<1>1. frames \in [Frames -> Frame] /\ pages \in [PageIds -> Bytes]
  BY DEF TypeOK, DiskTypeOK
<1>2. Flushed(n) \subseteq Frames /\ 0 \notin Flushed(n)
  BY Constants DEF Flushed
<1>3. \A f \in Frames : frames[f].bytes \in Bytes
  BY <1>1 DEF Frame
<1> QED BY <1>1, <1>2, <1>3 DEF FlushedPages

\* What the file can hold when FlushAllPages stops at a write.
LEMMA StoppedType ==
  ASSUME Inv1, NEW n \in Frames, n \in Flushed(n), NEW file \in StoppedAt(n)
  PROVE  /\ file \in [PageIds -> Bytes]
         /\ \A q \in PageIds : page_table[q] = 0 => file[q] = pages[q]
         /\ ~TornWrites => file = FlushedPages(n - 1)
<1> DEFINE p == frames[n].id
           before == FlushedPages(n - 1)
<1>1. /\ frames \in [Frames -> Frame] /\ DiskTypeOK /\ TypeOK
      /\ n \in Nat /\ n - 1 \in 0..PoolSize /\ n # 0
  <2>1. n \in 1..PoolSize /\ PoolSize \in Nat
    BY Constants
  <2>2. n \in Nat /\ n - 1 \in 0..PoolSize /\ n # 0
    BY <2>1
  <2> QED BY <2>2 DEF Inv1, TypeOK
<1>2. frames[n].bytes \in Bytes /\ p # kInvalidPageId
  BY <1>1 DEF Frame, Flushed
<1>3. p \in PageIds /\ page_table[p] = n
  BY <1>1, <1>2 DEF Inv1, Mapped, Frame
<1>4. n \notin Flushed(n - 1)
  BY <1>1, Constants DEF Flushed
<1>5. before \in [PageIds -> Bytes] /\ \A q \in PageIds : page_table[q] = 0 => before[q] = pages[q]
  BY <1>1, FlushedPagesType
<1>6. before[p] = pages[p]
  BY <1>3, <1>4 DEF FlushedPages
<1>7. PICK f \in FailedWrite(p, frames[n].bytes) : file = [before EXCEPT ![p] = f[p]]
  BY DEF StoppedAt
<1>8. f \in [PageIds -> Bytes] /\ (~TornWrites => f = pages)
  BY <1>1, <1>2, <1>3, FailedWriteType
<1> HIDE DEF p, before
<1>9. file \in [PageIds -> Bytes]
  BY <1>3, <1>5, <1>7, <1>8
<1>10. \A q \in PageIds : page_table[q] = 0 => file[q] = pages[q]
  BY <1>1, <1>3, <1>5, <1>7
<1>11. ASSUME ~TornWrites PROVE file = before
  BY <1>5, <1>6, <1>7, <1>8, <1>11
<1> QED BY <1>9, <1>10, <1>11 DEF before

LEMMA FlushAllPagesInv2 ==
  ASSUME Inv2, NEW t \in Threads, FlushAllPages(t)
  PROVE  Inv2'
<1>0. Inv1 /\ TypeOK
  BY DEF Inv2, Inv1
<1>1. PICK n \in 0..PoolSize : Cleaned(n)
  BY Constants DEF FlushAllPages
<1>2. frames \in [Frames -> Frame]
  BY DEF Inv2, Inv1, TypeOK
<1>3. /\ frames' \in [Frames -> Frame]
      /\ \A g \in Frames : /\ frames'[g].id = frames[g].id
                            /\ frames'[g].pin_count = frames[g].pin_count
  <2>1. frames' = [f \in Frames |-> IF f \in Flushed(n)
                                    THEN [frames[f] EXCEPT !.dirty = FALSE] ELSE frames[f]]
    BY <1>1 DEF Cleaned
  <2>2. \A f \in Frames : LET c == [frames[f] EXCEPT !.dirty = FALSE] IN
          c \in Frame /\ c.id = frames[f].id /\ c.pin_count = frames[f].pin_count
    BY <1>2 DEF Frame
  <2>3. ASSUME NEW f \in Frames
        PROVE  /\ frames'[f] \in Frame /\ frames'[f].id = frames[f].id
               /\ frames'[f].pin_count = frames[f].pin_count
    <3>1. CASE f \in Flushed(n)
      <4>1. frames'[f] = [frames[f] EXCEPT !.dirty = FALSE]
        BY <2>1, <3>1
      <4> QED BY <4>1, <2>2
    <3>2. CASE f \notin Flushed(n)
      BY <2>1, <3>2, <1>2
    <3> QED BY <3>1, <3>2
  <2>4. frames' \in [Frames -> Frame]
    BY <2>1, <2>3
  <2> QED BY <2>3, <2>4
<1>4. /\ pages' \in [PageIds -> Bytes]
      /\ \A q \in PageIds : page_table[q] = 0 => pages'[q] = pages[q]
  <2>1. CASE pages' = FlushedPages(PoolSize)
    BY <1>0, <2>1, FlushedPagesType, Constants
  <2>2. CASE \E m \in Frames : m \in Flushed(m) /\ pages' \in StoppedAt(m)
    BY <1>0, <2>2, StoppedType
  <2> QED BY <2>1, <2>2 DEF FlushAllPages
<1>5. TypeOK'
  BY <1>3, <1>4 DEF FlushAllPages, Inv2, Inv1, TypeOK, DiskTypeOK
<1> QED BY <1>3, <1>4, <1>5, OnlyContents DEF FlushAllPages

LEMMA DropInv2 ==
  ASSUME Inv2, NEW t \in Threads, Drop(t)
  PROVE  Inv2'
<1> DEFINE g == guard[t]
           f == page_table[g.page]
<1>1. guard[t] # NoGuard /\ guard \in [Threads -> Guard] /\ frames \in [Frames -> Frame]
  BY DEF Drop, Inv2, Inv1, TypeOK, Guard
<1>2. f = g.frame /\ f \in Frames /\ f # 0 /\ g.writable \in BOOLEAN
  <2>1. g.writable \in BOOLEAN
    BY <1>1 DEF Guard
  <2> QED BY <2>1, <1>1, GuardedFrame DEF Inv2
<1>3. frames[f].pin_count \in Nat
  BY <1>1, <1>2 DEF Frame
<1>4. frames' = [frames EXCEPT ![f].pin_count = IF @ > 0 THEN @ - 1 ELSE 0,
                               ![f].dirty = @ \/ g.writable]
  BY <1>2 DEF Drop, Released
<1>5. guard' = [guard EXCEPT ![t] = NoGuard]
  BY DEF Drop
<1>6. /\ frames' \in [Frames -> Frame]
      /\ \A e \in Frames : frames'[e].id = frames[e].id
      /\ \A e \in Frames : frames'[e].pin_count =
           IF e = f THEN IF frames[f].pin_count > 0 THEN frames[f].pin_count - 1 ELSE 0
           ELSE frames[e].pin_count
  BY <1>1, <1>2, <1>3, <1>4 DEF Frame
<1>7. guard' \in [Threads -> Guard]
  BY <1>1, <1>5, Constants
<1>8. TypeOK'
  BY <1>6, <1>7 DEF Drop, Inv2, Inv1, TypeOK, DiskTypeOK, diskVars, Guard
<1>9. Mapped'
  <2>1. \A u \in Threads : guard'[u] # NoGuard => u # t /\ guard'[u] = guard[u]
    BY <1>1, <1>5
  <2> QED BY <2>1, <1>6 DEF Drop, Inv2, Inv1, Mapped
<1>10. FreshApart'
  BY <1>1, <1>5 DEF Drop, Inv2, Inv1, FreshApart
<1>11. GuardStable'
  <2>1. ASSUME NEW u \in Threads, guard'[u] # NoGuard
        PROVE  /\ guard'[u].frame # 0
               /\ frames'[guard'[u].frame].id = guard'[u].page
               /\ page_table'[guard'[u].page] = guard'[u].frame
    <3>1. u # t /\ guard'[u] = guard[u] /\ guard[u] # NoGuard
      BY <2>1, <1>1, <1>5
    <3> QED BY <3>1, <1>6, GuardedFrame DEF Drop, Inv2
  <2>2. ASSUME NEW e \in Frames
        PROVE  frames'[e].pin_count = Cardinality(Holders(guard', e))
    <3>1. frames[e].pin_count = Cardinality(Holders(guard, e))
      BY DEF Inv2, Inv1, GuardStable, Holders
    <3>2. Cardinality(Holders(guard', e)) =
            IF e = f THEN Cardinality(Holders(guard, e)) - 1
            ELSE Cardinality(Holders(guard, e))
      <4> HIDE DEF g, f
      <4>1. guard[t].frame = f /\ f \in Frames
        BY <1>2 DEF g
      <4>2. guard'[t] = NoGuard /\ \A u \in Threads : u # t => guard'[u] = guard[u]
        BY <1>1, <1>5
      <4> QED BY <4>1, <4>2, <1>1, HoldersRemoved
    <3>3. Cardinality(Holders(guard', e)) \in Nat /\ Cardinality(Holders(guard, e)) \in Nat
      BY HoldersFinite
    <3> HIDE DEF g, f
    <3> QED BY <3>1, <3>2, <3>3, <1>6
  <2> QED BY <2>1, <2>2 DEF GuardStable, Holders
<1>12. ListsApart'
  <2>1. InUse' = InUse /\ InUse \subseteq PageIds \cup {kInvalidPageId}
    BY DEF InUse, Drop, Inv2, Inv1, TypeOK
  <2> QED BY <2>1, ListsKept DEF Drop, diskVars
<1> QED BY <1>8, <1>9, <1>10, <1>11, <1>12 DEF Inv2, Inv1

LEMMA UsedType ==
  ASSUME TypeOK, NEW f \in Frames, Used(f)
  PROVE  recency' \in [Frames -> Frames]
<1> DEFINE i == CHOOSE i \in Frames : recency[i] = f
<1>1. recency' = [j \in Frames |-> IF j < i THEN recency[j]
                                   ELSE IF j < PoolSize THEN recency[j + 1] ELSE f]
  BY DEF Used
<1>2. recency \in [Frames -> Frames]
  BY DEF TypeOK
<1>3. \A j \in Frames : j < PoolSize => j + 1 \in Frames
  BY Constants
<1> HIDE DEF i
<1> QED BY <1>1, <1>2, <1>3

\* FetchPage has found the page or read it: the guard is the only new one.
LEMMA FetchedInv1 ==
  ASSUME Inv1, NEW t \in Threads, NEW p \in PageIds, NEW w \in BOOLEAN,
         guard[t] = NoGuard, FetchHit(t, p, w) \/ FetchMiss(t, p, w),
         owned \subseteq owned', p \in owned'
  PROVE  /\ frames' \in [Frames -> Frame] /\ page_table' \in [PageIds -> 0..PoolSize]
         /\ recency' \in [Frames -> Frames] /\ guard' \in [Threads -> Guard]
         /\ pages' \in [PageIds -> Bytes]
         /\ UNCHANGED <<header, is_open, page_count, free_list_head>>
         /\ guard' = [guard EXCEPT ![t] = guard'[t]]
         /\ Mapped' /\ GuardStable'
         /\ \A q \in PageIds : page_table[q] = 0 => pages'[q] = pages[q]
<1>0. /\ guard \in [Threads -> Guard] /\ frames \in [Frames -> Frame]
      /\ page_table \in [PageIds -> 0..PoolSize] /\ pages \in [PageIds -> Bytes]
  BY DEF Inv1, TypeOK, DiskTypeOK, Guard
\* The frame f gets the page p, whatever it had before was unpinned.
<1>1. ASSUME NEW f \in Frames, NEW b \in Bytes, NEW d \in BOOLEAN,
             guard' = [guard EXCEPT ![t] = [page |-> p, frame |-> f, writable |-> w]],
             frames' = [frames EXCEPT ![f] = [id |-> p, bytes |-> b,
                                  pin_count |-> frames[f].pin_count + 1, dirty |-> d]],
             page_table' = Reassigned(f, p),
             page_table[p] = f \/ (page_table[p] = 0 /\ frames[f].pin_count = 0)
      PROVE  /\ frames' \in [Frames -> Frame] /\ page_table' \in [PageIds -> 0..PoolSize]
             /\ guard' \in [Threads -> Guard]
             /\ Mapped' /\ GuardStable'
  <2>1. frames[f].pin_count \in Nat /\ frames[f].id \in PageIds \cup {kInvalidPageId}
    BY <1>0 DEF Frame
  <2>2. frames' \in [Frames -> Frame]
    BY <1>0, <1>1, <2>1 DEF Frame
  <2>3. page_table' \in [PageIds -> 0..PoolSize]
    BY <1>0, <1>1, Constants DEF Reassigned
  <2>4. guard' \in [Threads -> Guard]
    BY <1>0, <1>1, Constants DEF Guard
  <2>5. \A q \in PageIds, e \in Frames : page_table[q] = e <=> frames[e].id = q
    BY DEF Inv1, Mapped
  <2>6. ASSUME NEW q \in PageIds, NEW e \in Frames
        PROVE  page_table'[q] = e <=> frames'[e].id = q
    <3>1. page_table'[q] = IF q = p THEN f ELSE IF q = frames[f].id THEN 0 ELSE page_table[q]
      BY <1>1 DEF Reassigned
    <3>2. frames'[e].id = IF e = f THEN p ELSE frames[e].id
      BY <1>0, <1>1
    <3>3. CASE e = f
      BY <3>1, <3>2, <3>3, <2>5, Constants
    <3>4. CASE e # f /\ q = p
      BY <3>1, <3>2, <3>4, <1>1, <2>5, Constants
    <3>5. CASE e # f /\ q # p
      BY <3>1, <3>2, <3>5, <2>5, Constants
    <3> QED BY <3>3, <3>4, <3>5
  <2>7. Mapped'
    <3>1. \A q \in PageIds : page_table'[q] # 0 => q \in owned'
      BY <1>1, Constants DEF Reassigned, Inv1, Mapped
    <3>2. \A u \in Threads : guard'[u] # NoGuard => guard'[u].page \in PageIds
      BY <1>0, <1>1 DEF Inv1, Mapped
    <3> QED BY <2>6, <3>1, <3>2 DEF Mapped
  <2>8. ASSUME NEW u \in Threads, guard'[u] # NoGuard
        PROVE  /\ guard'[u].frame # 0
               /\ frames'[guard'[u].frame].id = guard'[u].page
               /\ page_table'[guard'[u].page] = guard'[u].frame
    <3>1. CASE u = t
      <4>1. guard'[u].frame = f /\ guard'[u].page = p
        BY <3>1, <1>0, <1>1
      <4> QED BY <4>1, <1>0, <1>1, Constants DEF Reassigned
    <3>2. CASE u # t
      <4>1. guard'[u] = guard[u] /\ guard[u] # NoGuard
        BY <3>2, <1>0, <1>1, <2>8
      <4>2. /\ guard[u].frame \in Frames /\ guard[u].frame # 0 /\ guard[u].page \in PageIds
            /\ frames[guard[u].frame].id = guard[u].page
            /\ page_table[guard[u].page] = guard[u].frame
        BY <4>1, GuardedFrame
      <4>3. frames[f].pin_count = 0 => guard[u].frame # f
        BY <4>1, NoPinNoGuard DEF Inv1
      <4>4. frames'[guard[u].frame].id = guard[u].page
        <5>1. CASE guard[u].frame = f
          BY <5>1, <4>2, <4>3, <1>0, <1>1, <2>5
        <5>2. CASE guard[u].frame # f
          BY <5>2, <4>2, <1>0, <1>1
        <5> QED BY <5>1, <5>2
      <4>5. page_table'[guard[u].page] = guard[u].frame
        BY <4>2, <4>4, <2>6
      <4> QED BY <4>1, <4>2, <4>4, <4>5
    <3> QED BY <3>1, <3>2
  <2>9. ASSUME NEW e \in Frames
        PROVE  frames'[e].pin_count = Cardinality(Holders(guard', e))
    <3>1. frames[e].pin_count = Cardinality(Holders(guard, e))
      BY DEF Inv1, GuardStable, Holders
    <3>2. Cardinality(Holders(guard', e)) =
            IF e = f THEN Cardinality(Holders(guard, e)) + 1
            ELSE Cardinality(Holders(guard, e))
      BY <1>0, <1>1, HoldersAdded, ZenonT(60)
    <3>3. frames'[e].pin_count = IF e = f THEN frames[e].pin_count + 1 ELSE frames[e].pin_count
      BY <1>0, <1>1
    <3> QED BY <3>1, <3>2, <3>3
  <2>10. GuardStable'
    BY <2>8, <2>9 DEF GuardStable, Holders
  <2> QED BY <2>2, <2>3, <2>4, <2>7, <2>10
<1>2. CASE FetchHit(t, p, w)
  <2> DEFINE f == page_table[p]
  <2>1. f \in Frames /\ frames[f].id = p /\ frames[f] \in Frame
    BY <1>0, <1>2, Constants DEF FetchHit, Inv1, Mapped
  <2>2. frames' = [frames EXCEPT ![f] = [id |-> p, bytes |-> frames[f].bytes,
                     pin_count |-> frames[f].pin_count + 1, dirty |-> frames[f].dirty]]
    <3>1. frames' = [frames EXCEPT ![f].pin_count = @ + 1]
      BY <1>2 DEF FetchHit
    <3>2. [frames[f] EXCEPT !.pin_count = @ + 1]
            = [id |-> p, bytes |-> frames[f].bytes,
               pin_count |-> frames[f].pin_count + 1, dirty |-> frames[f].dirty]
      BY <2>1 DEF Frame
    <3> QED BY <3>1, <3>2, <1>0, <2>1
  <2>3. page_table' = Reassigned(f, p)
    BY <1>0, <1>2, <2>1 DEF FetchHit, Reassigned
  <2>4. frames[f].bytes \in Bytes /\ frames[f].dirty \in BOOLEAN
    BY <2>1 DEF Frame
  <2>5. guard' = [guard EXCEPT ![t] = [page |-> p, frame |-> f, writable |-> w]]
    BY <1>2 DEF FetchHit, Guards
  <2>6. recency' \in [Frames -> Frames]
    BY <1>2, <2>1, UsedType DEF FetchHit, Inv1
  <2>7. UNCHANGED diskVars
    BY <1>2 DEF FetchHit
  <2> HIDE DEF f
  <2>8. /\ frames' \in [Frames -> Frame] /\ page_table' \in [PageIds -> 0..PoolSize]
        /\ guard' \in [Threads -> Guard] /\ Mapped' /\ GuardStable'
    BY <1>1, <2>1, <2>2, <2>3, <2>4, <2>5 DEF f
  <2> QED BY <2>5, <2>6, <2>7, <2>8, <1>0 DEF diskVars
<1>3. CASE FetchMiss(t, p, w)
  <2> DEFINE f == Victim
  <2>1. f \in Frames /\ frames[f].pin_count = 0 /\ frames[f] \in Frame /\ page_table[p] = 0
    BY <1>0, <1>3, VictimType, Constants DEF FetchMiss, Inv1
  <2>2. pages' = WrittenBack(f)
    BY <1>3 DEF FetchMiss
  <2>3. /\ pages' \in [PageIds -> Bytes]
        /\ \A q \in PageIds : page_table[q] = 0 => pages'[q] = pages[q]
    <3>1. frames[f].bytes \in Bytes
      BY <2>1 DEF Frame
    <3>2. \A q \in PageIds : frames[f].id = q => page_table[q] = f
      BY <2>1 DEF Inv1, Mapped
    <3> HIDE DEF f
    <3> QED BY <1>0, <2>1, <2>2, <3>1, <3>2, Constants DEF WrittenBack
  <2>4. frames' = [frames EXCEPT ![f] = [id |-> p, bytes |-> pages'[p],
                     pin_count |-> frames[f].pin_count + 1, dirty |-> FALSE]]
    <3>1. frames[f].pin_count + 1 = 1
      BY <2>1
    <3> QED BY <3>1, <1>3 DEF FetchMiss
  <2>5. page_table' = Reassigned(f, p)
    BY <1>3 DEF FetchMiss
  <2>6. guard' = [guard EXCEPT ![t] = [page |-> p, frame |-> f, writable |-> w]]
    BY <1>3 DEF FetchMiss, Guards
  <2>7. recency' \in [Frames -> Frames]
    BY <1>3, <2>1, UsedType DEF FetchMiss, Inv1
  <2>8. UNCHANGED <<header, is_open, page_count, free_list_head>>
    BY <1>3 DEF FetchMiss
  <2> HIDE DEF f
  <2>9. /\ frames' \in [Frames -> Frame] /\ page_table' \in [PageIds -> 0..PoolSize]
        /\ guard' \in [Threads -> Guard] /\ Mapped' /\ GuardStable'
    BY <1>1, <2>1, <2>3, <2>4, <2>5, <2>6
  <2> QED BY <2>3, <2>6, <2>7, <2>8, <2>9
<1> QED BY <1>2, <1>3

\* FetchPage has failed: at most a frame without pins has been emptied.
LEMMA FetchFailsInv1 ==
  ASSUME Inv1, NEW p \in PageIds, FetchFails(p), owned' = owned
  PROVE  /\ frames' \in [Frames -> Frame] /\ page_table' \in [PageIds -> 0..PoolSize]
         /\ recency' = recency /\ guard' = guard
         /\ pages' \in [PageIds -> Bytes]
         /\ UNCHANGED <<header, is_open, page_count, free_list_head>>
         /\ Mapped' /\ GuardStable'
         /\ \A q \in PageIds : page_table[q] = 0 => pages'[q] = pages[q]
<1>0. /\ guard \in [Threads -> Guard] /\ frames \in [Frames -> Frame]
      /\ page_table \in [PageIds -> 0..PoolSize] /\ pages \in [PageIds -> Bytes]
  BY DEF Inv1, TypeOK, DiskTypeOK, Guard
<1>1. UNCHANGED <<header, is_open, page_count, free_list_head, recency, guard>>
  BY DEF FetchFails
<1> DEFINE f == Victim
<1>2. f # 0 => f \in Frames /\ frames[f].pin_count = 0 /\ frames[f] \in Frame
  BY <1>0, VictimType, Constants DEF Inv1
<1>3. ASSUME UNCHANGED <<frames, page_table>> PROVE Mapped' /\ GuardStable'
  <2>1. Mapped'
    BY <1>1, <1>3 DEF Inv1, Mapped
  <2>2. GuardStable'
    BY <1>1, <1>3 DEF Inv1, GuardStable
  <2> QED BY <2>1, <2>2
<1>4. CASE UNCHANGED <<pages, frames, page_table>>
  BY <1>0, <1>1, <1>3, <1>4
<1>5. CASE /\ f # 0 /\ frames[f].id # kInvalidPageId
           /\ pages' \in FailedWrite(frames[f].id, frames[f].bytes)
           /\ UNCHANGED <<frames, page_table>>
  <2>1. frames[f].id \in PageIds /\ frames[f].bytes \in Bytes
    BY <1>2, <1>5 DEF Frame
  <2>2. page_table[frames[f].id] = f
    BY <1>2, <1>5, <2>1 DEF Inv1, Mapped
  <2>3. /\ pages' \in [PageIds -> Bytes]
        /\ \A q \in PageIds : q # frames[f].id => pages'[q] = pages[q]
    <3> HIDE DEF f
    <3> QED BY <1>5, <2>1, FailedWriteType DEF Inv1, TypeOK
  <2> HIDE DEF f
  <2> QED BY <1>0, <1>1, <1>3, <1>5, <2>2, <2>3
<1>6. CASE /\ f # 0
           /\ pages' = WrittenBack(f)
           /\ frames' = [frames EXCEPT ![f] = [Empty EXCEPT !.dirty = frames[f].dirty]]
           /\ page_table' = Reassigned(f, kInvalidPageId)
  <2> HIDE DEF f
  <2>1. f \in Frames /\ frames[f].pin_count = 0 /\ frames[f] \in Frame
    BY <1>2, <1>6
  <2> DEFINE c == [Empty EXCEPT !.dirty = frames[f].dirty]
  <2>2. c \in Frame /\ c.id = kInvalidPageId /\ c.pin_count = 0
    BY <2>1, Constants DEF Frame, Empty
  <2>3. frames' = [frames EXCEPT ![f] = c]
    BY <1>6
  <2> HIDE DEF c
  <2>4. frames' \in [Frames -> Frame] /\ frames'[f] = c
        /\ \A e \in Frames : e # f => frames'[e] = frames[e]
    BY <1>0, <2>1, <2>2, <2>3
  <2>5. page_table' \in [PageIds -> 0..PoolSize]
    BY <1>0, <1>6, Constants DEF Reassigned
  <2>6. \A q \in PageIds, e \in Frames : page_table[q] = e <=> frames[e].id = q
    BY DEF Inv1, Mapped
  <2>7. \A q \in PageIds : page_table'[q] = IF q = frames[f].id THEN 0 ELSE page_table[q]
    BY <1>6, Constants DEF Reassigned
  <2>8. ASSUME NEW q \in PageIds, NEW e \in Frames
        PROVE  page_table'[q] = e <=> frames'[e].id = q
    <3>1. CASE e = f
      BY <3>1, <2>1, <2>2, <2>4, <2>6, <2>7, Constants
    <3>2. CASE e # f
      BY <3>2, <2>1, <2>4, <2>6, <2>7, Constants
    <3> QED BY <3>1, <3>2
  <2>9. Mapped'
    <3>1. \A q \in PageIds : page_table'[q] # 0 => q \in owned'
      BY <2>7 DEF Inv1, Mapped
    <3>2. \A u \in Threads : guard'[u] # NoGuard => guard'[u].page \in PageIds
      BY <1>1 DEF Inv1, Mapped
    <3> QED BY <2>8, <3>1, <3>2 DEF Mapped
  <2>10. ASSUME NEW u \in Threads, guard'[u] # NoGuard
         PROVE  /\ guard'[u].frame # 0
                /\ frames'[guard'[u].frame].id = guard'[u].page
                /\ page_table'[guard'[u].page] = guard'[u].frame
    <3>1. guard'[u] = guard[u] /\ guard[u] # NoGuard
      BY <1>1, <2>10
    <3>2. /\ guard[u].frame \in Frames /\ guard[u].frame # 0 /\ guard[u].page \in PageIds
          /\ frames[guard[u].frame].id = guard[u].page
          /\ page_table[guard[u].page] = guard[u].frame
      BY <3>1, GuardedFrame
    <3>3. guard[u].frame # f
      BY <2>1, <3>1, NoPinNoGuard DEF Inv1
    <3>4. frames'[guard[u].frame].id = guard[u].page
      BY <2>4, <3>2, <3>3
    <3> QED BY <3>1, <3>2, <3>4, <2>8
  <2>11. ASSUME NEW e \in Frames
         PROVE  frames'[e].pin_count = Cardinality(Holders(guard', e))
    <3>1. frames[e].pin_count = Cardinality(Holders(guard, e))
      BY DEF Inv1, GuardStable, Holders
    <3>2. frames'[e].pin_count = frames[e].pin_count
      BY <2>1, <2>2, <2>4
    <3> QED BY <1>1, <3>1, <3>2
  <2>12. GuardStable'
    BY <2>10, <2>11 DEF GuardStable, Holders
  <2>13. /\ pages' \in [PageIds -> Bytes]
         /\ \A q \in PageIds : page_table[q] = 0 => pages'[q] = pages[q]
    <3>1. frames[f].bytes \in Bytes
      BY <2>1 DEF Frame
    <3>2. \A q \in PageIds : frames[f].id = q => page_table[q] = f
      BY <2>1 DEF Inv1, Mapped
    <3> QED BY <1>0, <1>6, <2>1, <3>1, <3>2, Constants DEF WrittenBack
  <2> QED BY <1>1, <2>4, <2>5, <2>9, <2>12, <2>13
<1> QED BY <1>4, <1>5, <1>6 DEF FetchFails

LEMMA FetchPageInv2 ==
  ASSUME Inv2, NEW t \in Threads, NEW p \in PageIds, NEW w \in BOOLEAN, FetchPage(t, p, w)
  PROVE  Inv2'
<1>1. /\ pc[t] = "idle" /\ guard[t] = NoGuard /\ p \in owned
      /\ UNCHANGED <<pc, fresh, owned, latest, crashes>>
  BY DEF FetchPage, Unguarded, Idle
<1>2. guard \in [Threads -> Guard] /\ recency \in [Frames -> Frames]
  BY DEF Inv2, Inv1, TypeOK, Guard
<1>3. /\ frames' \in [Frames -> Frame] /\ page_table' \in [PageIds -> 0..PoolSize]
      /\ recency' \in [Frames -> Frames] /\ guard' \in [Threads -> Guard]
      /\ pages' \in [PageIds -> Bytes]
      /\ UNCHANGED <<header, is_open, page_count, free_list_head>>
      /\ Mapped' /\ GuardStable'
      /\ \A u \in Threads : u # t => guard'[u] = guard[u]
      /\ \A q \in PageIds : page_table[q] = 0 => pages'[q] = pages[q]
  <2>1. CASE FetchHit(t, p, w) \/ FetchMiss(t, p, w)
    <3>1. guard' = [guard EXCEPT ![t] = guard'[t]]
      BY <1>1, <2>1, FetchedInv1 DEF Inv2
    <3>2. \A u \in Threads : u # t => guard'[u] = guard[u]
      BY <3>1, <1>2
    <3> QED BY <1>1, <2>1, <3>2, FetchedInv1 DEF Inv2
  <2>2. CASE FetchFails(p)
    BY <1>1, <1>2, <2>2, FetchFailsInv1 DEF Inv2
  <2> QED BY <2>1, <2>2 DEF FetchPage
<1>4. TypeOK'
  BY <1>1, <1>3 DEF Inv2, Inv1, TypeOK, DiskTypeOK, Guard
<1>5. FreshApart'
  BY <1>1, <1>3 DEF Inv2, Inv1, FreshApart
<1>6. ListsApart'
  <2>1. InUse' = InUse /\ InUse \subseteq PageIds \cup {kInvalidPageId}
    BY <1>1 DEF InUse, Inv2, Inv1, TypeOK
  <2>2. \A q \in PageIds \ InUse : page_table[q] = 0
    BY DEF Inv2, Inv1, Mapped, InUse
  <2> QED BY <1>3, <2>1, <2>2, ListsKept
<1> QED BY <1>3, <1>4, <1>5, <1>6 DEF Inv2, Inv1

LEMMA NewPageFetchInv2 ==
  ASSUME Inv2, NEW t \in Threads, NewPageFetch(t)
  PROVE  Inv2'
<1> DEFINE p == fresh[t]
<1>1. pc[t] = "fetch" /\ guard[t] = NoGuard /\ p \in PageIds /\ p \notin owned /\ crashes' = crashes
  BY DEF NewPageFetch, Inv2, Inv1, FreshApart, TypeOK
<1>2. /\ guard \in [Threads -> Guard] /\ recency \in [Frames -> Frames]
      /\ fresh \in [Threads -> PageIds \cup {kInvalidPageId}] /\ owned \subseteq PageIds
      /\ pc \in [Threads -> {"idle", "fetch", "undo"}]
      /\ latest \in [PageIds -> Vals \cup {"zero", "torn"}]
  BY DEF Inv2, Inv1, TypeOK, Guard
<1>3. CASE /\ FetchHit(t, p, TRUE) \/ FetchMiss(t, p, TRUE)
           /\ owned' = owned \cup {p}
           /\ latest' = [latest EXCEPT ![p] = "zero"]
           /\ NewPageEnds(t)
  <2>1. /\ frames' \in [Frames -> Frame] /\ page_table' \in [PageIds -> 0..PoolSize]
        /\ recency' \in [Frames -> Frames] /\ guard' \in [Threads -> Guard]
        /\ pages' \in [PageIds -> Bytes]
        /\ UNCHANGED <<header, is_open, page_count, free_list_head>>
        /\ guard' = [guard EXCEPT ![t] = guard'[t]]
        /\ Mapped' /\ GuardStable'
        /\ \A q \in PageIds : page_table[q] = 0 => pages'[q] = pages[q]
    <3>1. TRUE \in BOOLEAN /\ owned \subseteq owned' /\ p \in owned'
      BY <1>3
    <3> HIDE DEF p
    <3> QED BY <1>1, <1>3, <3>1, FetchedInv1 DEF Inv2
  <2>2. /\ pc' = [pc EXCEPT ![t] = "idle"] /\ fresh' = [fresh EXCEPT ![t] = kInvalidPageId]
        /\ \A u \in Threads : u # t => guard'[u] = guard[u]
    BY <1>2, <1>3, <2>1 DEF NewPageEnds
  <2>3. TypeOK'
    <3>1. /\ pc' \in [Threads -> {"idle", "fetch", "undo"}]
          /\ fresh' \in [Threads -> PageIds \cup {kInvalidPageId}]
          /\ owned' \in SUBSET PageIds /\ latest' \in [PageIds -> Vals \cup {"zero", "torn"}]
      BY <1>1, <1>2, <1>3, <2>2
    <3> QED BY <1>1, <2>1, <3>1 DEF Inv2, Inv1, TypeOK, DiskTypeOK, Guard
  <2>4. FreshApart'
    <3>1. \A u \in Threads : u # t => fresh[u] # p
      BY <1>1, Constants DEF Inv2, Inv1, FreshApart
    <3>2. ASSUME NEW u \in Threads
          PROVE  /\ pc'[u] = "idle" <=> fresh'[u] = kInvalidPageId
                 /\ pc'[u] # "idle" => guard'[u] = NoGuard
                 /\ fresh'[u] \notin owned'
                 /\ \A v \in Threads : fresh'[v] = fresh'[u] /\ u # v =>
                      fresh'[u] = kInvalidPageId
      <4>1. CASE u = t
        BY <4>1, <1>1, <1>2, <1>3, <2>2, Constants
      <4>2. CASE u # t
        BY <4>2, <1>1, <1>2, <1>3, <2>2, <3>1, Constants DEF Inv2, Inv1, FreshApart
      <4> QED BY <4>1, <4>2
    <3> QED BY <3>2 DEF FreshApart
  <2>5. ListsApart'
    <3>1. InUse' \cap PageIds \subseteq InUse
      BY <1>1, <1>2, <1>3, <2>2, Constants DEF InUse
    <3>2. InUse' \subseteq PageIds \cup {kInvalidPageId}
      BY <2>3 DEF InUse, TypeOK
    <3>3. \A q \in PageIds \ InUse : page_table[q] = 0
      BY DEF Inv2, Inv1, Mapped, InUse
    <3> QED BY <2>1, <3>1, <3>2, <3>3, ListsKept
  <2> QED BY <2>1, <2>3, <2>4, <2>5 DEF Inv2, Inv1
<1>4. CASE /\ FetchFails(p)
           /\ pc' = [pc EXCEPT ![t] = "undo"]
           /\ UNCHANGED <<fresh, owned, latest>>
  <2>1. /\ frames' \in [Frames -> Frame] /\ page_table' \in [PageIds -> 0..PoolSize]
        /\ recency' = recency /\ guard' = guard
        /\ pages' \in [PageIds -> Bytes]
        /\ UNCHANGED <<header, is_open, page_count, free_list_head>>
        /\ Mapped' /\ GuardStable'
        /\ \A q \in PageIds : page_table[q] = 0 => pages'[q] = pages[q]
    <3> HIDE DEF p
    <3> QED BY <1>1, <1>4, FetchFailsInv1 DEF Inv2
  <2>2. TypeOK'
    <3>1. pc' \in [Threads -> {"idle", "fetch", "undo"}]
      BY <1>2, <1>4
    <3> QED BY <1>1, <1>4, <2>1, <3>1 DEF Inv2, Inv1, TypeOK, DiskTypeOK
  <2>3. FreshApart'
    BY <1>1, <1>2, <1>4, <2>1 DEF Inv2, Inv1, FreshApart
  <2>4. ListsApart'
    <3>1. InUse' = InUse /\ InUse \subseteq PageIds \cup {kInvalidPageId}
      BY <1>4 DEF InUse, Inv2, Inv1, TypeOK
    <3>2. \A q \in PageIds \ InUse : page_table[q] = 0
      BY DEF Inv2, Inv1, Mapped, InUse
    <3> QED BY <2>1, <3>1, <3>2, ListsKept
  <2> QED BY <2>1, <2>2, <2>3, <2>4 DEF Inv2, Inv1
<1> QED BY <1>3, <1>4 DEF NewPageFetch

\* The state of the file, as the proofs about the lists use it.
LEMMA FileFacts ==
  ASSUME Inv2
  PROVE  /\ pages \in [PageIds -> Bytes] /\ header.count \in 0..kInvalidPageId
         /\ header.head \in Links /\ page_count \in 0..kInvalidPageId
         /\ free_list_head \in Links /\ is_open \in BOOLEAN
         /\ header \in [count : 0..kInvalidPageId, head : Links]
         /\ Listed(pages, header.head, header.count, InUse)
         /\ \A p \in InUse \ {kInvalidPageId} : p < header.count
         /\ is_open => /\ Listed(pages, free_list_head, page_count, InUse)
                       /\ 0 < header.count /\ header.count <= page_count
         /\ InUse \subseteq PageIds \cup {kInvalidPageId}
         /\ \A p \in PageIds : pages[p].link \in Links
<1>1. /\ pages \in [PageIds -> Bytes] /\ header \in [count : 0..kInvalidPageId, head : Links]
      /\ page_count \in 0..kInvalidPageId /\ free_list_head \in Links /\ is_open \in BOOLEAN
  BY DEF Inv2, Inv1, TypeOK, DiskTypeOK
<1>2. InUse \subseteq PageIds \cup {kInvalidPageId}
  BY DEF Inv2, Inv1, TypeOK, InUse
<1>3. \A p \in PageIds : pages[p].link \in Links
  BY <1>1 DEF Bytes
<1> QED BY <1>1, <1>2, <1>3 DEF Inv2, ListsApart

LEMMA ListEmpty ==
  ASSUME NEW file, NEW count, NEW used
  PROVE  Listed(file, kInvalidPageId, count, used)
<1>1. {} \in SUBSET PageIds /\ [q \in PageIds |-> 0] \in [PageIds -> Nat]
  OBVIOUS
<1>2. Descends(file, {}, [q \in PageIds |-> 0])
  BY DEF Descends
<1> QED BY <1>1, <1>2 DEF Listed

\* The head of the list in memory is a page, or there is none.
LEMMA HeadIsPage ==
  ASSUME Inv2, is_open, free_list_head # kInvalidPageId
  PROVE  free_list_head \in PageIds
BY FileFacts DEF Listed

\* What TakeAllocated takes is a page of nobody, and on no list any more.
LEMMA Taken ==
  ASSUME Inv2, is_open, TakeAllocated, NEW used, used \cap PageIds \subseteq InUse \cup {Allocated},
         \A q \in PageIds : q # Allocated => pages'[q].link = pages[q].link
  PROVE  /\ Allocated \in PageIds /\ Allocated \notin InUse
         /\ page_count' \in 0..kInvalidPageId /\ page_count <= page_count'
         /\ Allocated < page_count' /\ free_list_head' \in Links
         /\ Listed(pages', free_list_head', page_count', used)
<1>0. 0 < header.count /\ header.count <= page_count /\ Allocated <= MaxPage
  BY FileFacts DEF TakeAllocated
<1>1. CASE free_list_head # kInvalidPageId
  <2>1. /\ Allocated = free_list_head /\ free_list_head \in PageIds
        /\ free_list_head' = pages[free_list_head].link /\ page_count' = page_count
    BY <1>1, HeadIsPage DEF TakeAllocated, Allocated
  <2>2. page_count \in Int /\ page_count \in 0..kInvalidPageId
    BY FileFacts, Constants
  <2>3. /\ Listed(pages', pages[free_list_head].link, page_count, used)
        /\ free_list_head \notin InUse /\ free_list_head \in 1..(page_count - 1)
    <3>1. Listed(pages, free_list_head, page_count, InUse)
      BY FileFacts
    <3> QED BY <2>1, <2>2, <3>1, ListTaken
  <2>4. pages[free_list_head].link \in Links
    BY <2>1, FileFacts
  <2> QED BY <2>1, <2>2, <2>3, <2>4
<1>2. CASE free_list_head = kInvalidPageId
  <2>1. /\ Allocated = page_count /\ page_count' = page_count + 1
        /\ free_list_head' = kInvalidPageId
    BY <1>2 DEF TakeAllocated, Allocated
  <2>2. page_count \in PageIds /\ page_count \in Nat
    BY <1>0, <2>1, FileFacts, Constants
  <2>3. page_count \notin InUse
    BY <1>0, <2>2, FileFacts, Constants
  <2>4. Listed(pages', free_list_head', page_count', used)
    BY <2>1, ListEmpty
  <2> QED BY <1>0, <2>1, <2>2, <2>3, <2>4, Constants
<1> QED BY <1>1, <1>2

LEMMA NewPageInv2 ==
  ASSUME Inv2, NEW t \in Threads, NewPage(t)
  PROVE  Inv2'
<1>1. /\ is_open /\ pc[t] = "idle" /\ guard[t] = NoGuard /\ fresh[t] = kInvalidPageId
      /\ UNCHANGED <<frames, page_table, recency, guard, owned, latest, crashes>>
  BY DEF NewPage, Unguarded, Idle, poolVars, Inv2, Inv1, FreshApart
<1>2. /\ pages \in [PageIds -> Bytes] /\ Fresh \in Bytes /\ Fresh.link = kInvalidPageId
      /\ fresh \in [Threads -> PageIds \cup {kInvalidPageId}]
      /\ pc \in [Threads -> {"idle", "fetch", "undo"}]
  BY Constants DEF Fresh, Free, Inv2, Inv1, TypeOK, DiskTypeOK
<1>3. Mapped' /\ GuardStable'
  <2>1. Mapped'
    BY <1>1 DEF Inv2, Inv1, Mapped
  <2>2. GuardStable'
    BY <1>1 DEF Inv2, Inv1, GuardStable
  <2> QED BY <2>1, <2>2
<1> DEFINE a == Allocated
<1>4. CASE AllocatePage /\ pc' = [pc EXCEPT ![t] = "fetch"] /\ fresh' = [fresh EXCEPT ![t] = a]
  <2>1. /\ TakeAllocated /\ pages' = [pages EXCEPT ![a] = Fresh]
        /\ header' = Header(page_count', free_list_head') /\ is_open' = is_open
    BY <1>4 DEF AllocatePage
  <2>2. InUse' \subseteq InUse \cup {a}
    BY <1>1, <1>2, <1>4 DEF InUse
  <2>3. \A q \in PageIds : q # a => pages'[q].link = pages[q].link
    BY <1>2, <2>1
  <2>4. /\ a \in PageIds /\ a \notin InUse
        /\ page_count' \in 0..kInvalidPageId /\ page_count <= page_count'
        /\ a < page_count' /\ free_list_head' \in Links
        /\ Listed(pages', free_list_head', page_count', InUse')
    <3>1. InUse' \cap PageIds \subseteq InUse \cup {a}
      BY <2>2
    <3> QED BY <1>1, <2>1, <2>3, <3>1, Taken
  <2> HIDE DEF a
  <2>5. TypeOK'
    <3>1. DiskTypeOK'
      BY <1>2, <2>1, <2>4, FileFacts DEF DiskTypeOK, Header
    <3>2. /\ pc' \in [Threads -> {"idle", "fetch", "undo"}]
          /\ fresh' \in [Threads -> PageIds \cup {kInvalidPageId}]
      BY <1>2, <1>4, <2>4
    <3> QED BY <1>1, <3>1, <3>2 DEF Inv2, Inv1, TypeOK
  <2>6. FreshApart'
    <3>1. a \notin owned /\ \A u \in Threads : fresh[u] # a
      BY <2>4 DEF InUse
    <3>2. ASSUME NEW u \in Threads
          PROVE  /\ pc'[u] = "idle" <=> fresh'[u] = kInvalidPageId
                 /\ pc'[u] # "idle" => guard'[u] = NoGuard
                 /\ fresh'[u] \notin owned'
                 /\ \A v \in Threads : fresh'[v] = fresh'[u] /\ u # v =>
                      fresh'[u] = kInvalidPageId
      <4>1. CASE u = t
        BY <4>1, <1>1, <1>2, <1>4, <2>4, <3>1, Constants
      <4>2. CASE u # t
        BY <4>2, <1>1, <1>2, <1>4, <3>1, Constants DEF Inv2, Inv1, FreshApart
      <4> QED BY <4>1, <4>2
    <3> QED BY <3>2 DEF FreshApart
  <2>7. ListsApart'
    <3>1. header'.head = free_list_head' /\ header'.count = page_count'
      BY <2>1 DEF Header
    <3>2. \A q \in InUse' \ {kInvalidPageId} : q < page_count'
      BY <1>1, <2>2, <2>4, FileFacts, Constants
    <3>3. 0 < page_count' /\ page_count' <= page_count'
      BY <1>1, <2>4, FileFacts, Constants
    <3> QED BY <2>4, <3>1, <3>2, <3>3 DEF ListsApart
  <2> QED BY <1>3, <2>5, <2>6, <2>7 DEF Inv2, Inv1
<1>5. CASE AllocatePageFails /\ UNCHANGED <<pc, fresh>>
  <2>1. TakeAllocated /\ UNCHANGED <<header, is_open>>
    BY <1>5 DEF AllocatePageFails
  <2>2. InUse' = InUse
    BY <1>1, <1>5 DEF InUse
  <2>3. a \in PageIds
    <3>1. CASE free_list_head # kInvalidPageId
      BY <1>1, <3>1, HeadIsPage DEF Allocated
    <3>2. CASE free_list_head = kInvalidPageId
      BY <1>1, <2>1, <3>2, FileFacts, Constants DEF TakeAllocated, Allocated
    <3> QED BY <3>1, <3>2
  <2>4. /\ pages' \in [PageIds -> Bytes]
        /\ \A q \in PageIds : q # a => pages'[q].link = pages[q].link
        /\ pages'[a].link \in {pages[a].link, kInvalidPageId}
    <3>1. CASE pages' = [pages EXCEPT ![a] = Fresh]
      BY <1>2, <2>3, <3>1
    <3>2. CASE pages' \in FailedWrite(a, Fresh)
      <4> HIDE DEF a
      <4> QED BY <1>2, <2>3, <3>2, FailedWriteType DEF Inv2, Inv1, TypeOK
    <3> QED BY <1>5, <3>1, <3>2 DEF AllocatePageFails
  <2>5. /\ page_count' \in 0..kInvalidPageId /\ page_count <= page_count'
        /\ free_list_head' \in Links
        /\ Listed(pages', free_list_head', page_count', InUse)
    BY <1>1, <2>1, <2>4, Taken
  <2> HIDE DEF a
  <2>6. TypeOK'
    <3>1. DiskTypeOK'
      BY <2>1, <2>4, <2>5, FileFacts DEF DiskTypeOK
    <3> QED BY <1>1, <1>5, <3>1 DEF Inv2, Inv1, TypeOK
  <2>7. FreshApart'
    BY <1>1, <1>5 DEF Inv2, Inv1, FreshApart
  <2>8. ListsApart'
    <3>1. Listed(pages', header.head, header.count, InUse)
      <4>1. header.count \in Int /\ header.count <= header.count
        BY FileFacts, Constants
      <4>2. \A q \in PageIds \ InUse : pages'[q].link \in {pages[q].link, kInvalidPageId}
        BY <2>4
      <4>3. InUse \cap PageIds \subseteq InUse /\ Listed(pages, header.head, header.count, InUse)
        BY FileFacts
      <4> QED BY <4>1, <4>2, <4>3, ListKept
    <3>2. header.count <= page_count'
      BY <1>1, <2>5, FileFacts, Constants
    <3> QED BY <1>1, <2>1, <2>2, <2>5, <3>1, <3>2, FileFacts DEF ListsApart
  <2> QED BY <1>3, <2>6, <2>7, <2>8 DEF Inv2, Inv1
<1> QED BY <1>4, <1>5 DEF NewPage

\* A page that was in use is freed, or that fails.
LEMMA FreedLists ==
  ASSUME Inv2, NEW p \in PageIds, p \in InUse, FreePage(p) \/ FreePageFails(p),
         InUse' \cap PageIds \subseteq InUse \ {p}, InUse' \subseteq PageIds \cup {kInvalidPageId}
  PROVE  ListsApart' /\ DiskTypeOK' /\ \A q \in PageIds : q # p => pages'[q] = pages[q]
<1>1. is_open /\ is_open' = is_open /\ page_count' = page_count
  BY DEF FreePage, FreePageFails
<1>2. /\ pages \in [PageIds -> Bytes] /\ page_count \in Int /\ header.count \in Int
      /\ p < page_count /\ 0 < page_count /\ free_list_head \in Links
      /\ Free(free_list_head) \in Bytes /\ Free(free_list_head).link = free_list_head
      /\ \A q \in InUse' \ {kInvalidPageId} : q < header.count /\ q < page_count
  BY <1>1, FileFacts, Constants DEF Free
<1>3. CASE /\ pages' = [pages EXCEPT ![p] = Free(free_list_head)]
           /\ free_list_head' = p
  <2>1. /\ pages' \in [PageIds -> Bytes] /\ pages'[p].link = free_list_head
        /\ \A q \in PageIds : q # p => pages'[q] = pages[q]
    BY <1>2, <1>3
  <2>2. Listed(pages', p, page_count, InUse')
    <3>1. Listed(pages, free_list_head, page_count, InUse)
      BY <1>1, FileFacts
    <3>2. \A q \in PageIds \ InUse : pages'[q].link = pages[q].link
      BY <2>1
    <3> QED BY <1>2, <2>1, <3>1, <3>2, ListPushed
  <2>3. CASE header' = Header(page_count, p)
    <3>1. header'.head = p /\ header'.count = page_count
      BY <2>3 DEF Header
    <3>2. ListsApart'
      BY <1>1, <1>2, <1>3, <2>2, <3>1 DEF ListsApart
    <3>3. DiskTypeOK'
      BY <1>1, <1>3, <2>1, <2>3, FileFacts, Constants DEF DiskTypeOK, Header
    <3> QED BY <2>1, <3>2, <3>3
  <2>4. CASE header' = header
    <3>1. Listed(pages', header.head, header.count, InUse')
      <4>1. \A q \in PageIds \ InUse : pages'[q].link \in {pages[q].link, kInvalidPageId}
        BY <2>1
      <4>2. /\ InUse' \cap PageIds \subseteq InUse /\ header.count <= header.count
            /\ Listed(pages, header.head, header.count, InUse)
        BY <1>2, FileFacts
      <4> QED BY <1>2, <4>1, <4>2, ListKept
    <3>2. ListsApart'
      BY <1>1, <1>2, <1>3, <2>2, <2>4, <3>1, FileFacts DEF ListsApart
    <3>3. DiskTypeOK'
      BY <1>1, <1>3, <2>1, <2>4, FileFacts, Constants DEF DiskTypeOK
    <3> QED BY <2>1, <3>2, <3>3
  <2> QED BY <2>3, <2>4 DEF FreePage, FreePageFails
<1>4. CASE /\ pages' \in FailedWrite(p, Free(free_list_head))
           /\ free_list_head' = free_list_head /\ header' = header
  <2>1. /\ pages' \in [PageIds -> Bytes]
        /\ \A q \in PageIds : q # p => pages'[q] = pages[q]
    BY <1>2, <1>4, FailedWriteType DEF Inv2, Inv1, TypeOK
  <2>2. ListsApart'
    BY <1>1, <1>4, <2>1, ListsKept
  <2>3. DiskTypeOK'
    BY <1>1, <1>4, <2>1, FileFacts DEF DiskTypeOK
  <2> QED BY <2>1, <2>2, <2>3
<1> QED BY <1>3, <1>4 DEF FreePage, FreePageFails

LEMMA NewPageUndoInv2 ==
  ASSUME Inv2, NEW t \in Threads, NewPageUndo(t)
  PROVE  Inv2'
<1> DEFINE p == fresh[t]
<1>1. /\ p \in PageIds /\ p \notin owned /\ p \in InUse
      /\ \A u \in Threads : u # t => fresh[u] # p
  BY Constants DEF NewPageUndo, Inv2, Inv1, FreshApart, TypeOK, InUse
<1>2. /\ UNCHANGED <<frames, page_table, recency, guard, owned, latest, crashes>>
      /\ pc' = [pc EXCEPT ![t] = "idle"] /\ fresh' = [fresh EXCEPT ![t] = kInvalidPageId]
  BY DEF NewPageUndo, NewPageEnds, poolVars
<1>3. /\ fresh \in [Threads -> PageIds \cup {kInvalidPageId}] /\ owned \subseteq PageIds
      /\ pc \in [Threads -> {"idle", "fetch", "undo"}]
  BY DEF Inv2, Inv1, TypeOK
<1>4. /\ pc' \in [Threads -> {"idle", "fetch", "undo"}]
      /\ fresh' \in [Threads -> PageIds \cup {kInvalidPageId}]
  BY <1>2, <1>3
<1>5. /\ InUse' \cap PageIds \subseteq InUse \ {p} /\ InUse' \subseteq PageIds \cup {kInvalidPageId}
  <2>1. InUse' \subseteq PageIds \cup {kInvalidPageId}
    BY <1>2, <1>3, <1>4 DEF InUse
  <2>2. ASSUME NEW u \in Threads, fresh'[u] # kInvalidPageId
        PROVE  fresh'[u] \in InUse /\ fresh'[u] # p
    <3>1. u # t /\ fresh'[u] = fresh[u]
      BY <1>2, <1>3, <2>2
    <3> QED BY <1>1, <3>1 DEF InUse
  <2>3. owned' \subseteq InUse \ {p}
    BY <1>1, <1>2 DEF InUse
  <2>4. InUse' = owned' \cup {fresh'[u] : u \in Threads}
    BY DEF InUse
  <2> HIDE DEF p
  <2> QED BY <2>1, <2>2, <2>3, <2>4, Constants
<1>6. ListsApart' /\ DiskTypeOK'
  <2>1. FreePage(p) \/ FreePageFails(p)
    BY DEF NewPageUndo
  <2> HIDE DEF p
  <2> QED BY <1>1, <1>5, <2>1, FreedLists
<1>7. TypeOK'
  BY <1>2, <1>4, <1>6 DEF Inv2, Inv1, TypeOK
<1>8. Mapped' /\ GuardStable'
  <2>1. Mapped'
    BY <1>2 DEF Inv2, Inv1, Mapped
  <2>2. GuardStable'
    BY <1>2 DEF Inv2, Inv1, GuardStable
  <2> QED BY <2>1, <2>2
<1>9. FreshApart'
  BY <1>2, <1>3, Constants DEF Inv2, Inv1, FreshApart
<1> QED BY <1>6, <1>7, <1>8, <1>9 DEF Inv2, Inv1

LEMMA DeletePageInv2 ==
  ASSUME Inv2, NEW t \in Threads, NEW p \in PageIds, DeletePage(t, p)
  PROVE  Inv2'
<1>1. /\ p \in owned /\ Unpinned(p) /\ owned' = owned \ {p}
      /\ frames' = [f \in Frames |-> IF f = page_table[p] THEN Empty ELSE frames[f]]
      /\ page_table' = [page_table EXCEPT ![p] = 0]
      /\ UNCHANGED <<recency, guard, pc, fresh, latest, crashes>>
  BY DEF DeletePage
<1>2. /\ frames \in [Frames -> Frame] /\ page_table \in [PageIds -> 0..PoolSize]
      /\ owned \in SUBSET PageIds /\ fresh \in [Threads -> PageIds \cup {kInvalidPageId}]
  BY DEF Inv2, Inv1, TypeOK
<1>3. /\ frames' \in [Frames -> Frame] /\ page_table' \in [PageIds -> 0..PoolSize]
      /\ owned' \in SUBSET PageIds
  <2>1. 0 \in 0..PoolSize
    BY Constants
  <2> QED BY <1>1, <1>2, <2>1, Constants
<1>4. /\ \A u \in Threads : fresh[u] # p
      /\ InUse' \cap PageIds \subseteq InUse \ {p}
      /\ InUse' \subseteq PageIds \cup {kInvalidPageId} /\ p \in InUse
  <2>1. \A u \in Threads : fresh[u] # p
    BY <1>1 DEF Inv2, Inv1, FreshApart
  <2> QED BY <1>1, <1>2, <2>1 DEF InUse
<1>5. ListsApart' /\ DiskTypeOK'
  BY <1>4, FreedLists DEF DeletePage
<1>6. TypeOK'
  BY <1>1, <1>3, <1>5 DEF Inv2, Inv1, TypeOK
<1>7. FreshApart'
  BY <1>1 DEF Inv2, Inv1, FreshApart
<1>8. \A q \in PageIds, f \in Frames : page_table[q] = f <=> frames[f].id = q
  BY DEF Inv2, Inv1, Mapped
<1>9. ASSUME NEW u \in Threads, guard[u] # NoGuard
      PROVE  /\ guard[u].frame \in Frames /\ guard[u].frame # page_table[p]
             /\ guard[u].page \in PageIds /\ guard[u].page # p
             /\ frames[guard[u].frame].id = guard[u].page
             /\ page_table[guard[u].page] = guard[u].frame
  <2>1. /\ guard[u].frame \in Frames /\ guard[u].page \in PageIds
        /\ frames[guard[u].frame].id = guard[u].page
        /\ page_table[guard[u].page] = guard[u].frame
    BY <1>9, GuardedFrame DEF Inv2
  <2>2. \A f \in Frames : page_table[p] = f => guard[u].frame # f
    BY <1>1, <1>9, NoPinNoGuard DEF Unpinned, Inv2, Inv1
  <2> QED BY <2>1, <2>2
<1>10. Mapped'
  <2>1. ASSUME NEW q \in PageIds, NEW f \in Frames
        PROVE  page_table'[q] = f <=> frames'[f].id = q
    <3>1. page_table'[q] = IF q = p THEN 0 ELSE page_table[q]
      BY <1>1, <1>2
    <3>2. frames'[f].id = IF f = page_table[p] THEN kInvalidPageId ELSE frames[f].id
      BY <1>1 DEF Empty
    <3>3. CASE q = p
      BY <3>1, <3>2, <3>3, <1>8, Constants
    <3>4. CASE q # p
      BY <3>1, <3>2, <3>4, <1>8, Constants
    <3> QED BY <3>3, <3>4
  <2>2. \A q \in PageIds : page_table'[q] # 0 => q \in owned'
    BY <1>1, <1>2 DEF Inv2, Inv1, Mapped
  <2>3. \A u \in Threads : guard'[u] # NoGuard => guard'[u].page \in PageIds
    BY <1>1, <1>9
  <2> QED BY <2>1, <2>2, <2>3 DEF Mapped
<1>11. GuardStable'
  <2>1. ASSUME NEW u \in Threads, guard'[u] # NoGuard
        PROVE  /\ guard'[u].frame # 0
               /\ frames'[guard'[u].frame].id = guard'[u].page
               /\ page_table'[guard'[u].page] = guard'[u].frame
    <3>1. guard'[u] = guard[u] /\ guard[u] # NoGuard
      BY <1>1, <2>1
    <3>2. guard[u].frame # 0
      BY <1>9, <3>1, Constants
    <3>3. frames'[guard[u].frame] = frames[guard[u].frame]
      BY <1>1, <1>9, <3>1
    <3>4. page_table'[guard[u].page] = page_table[guard[u].page]
      BY <1>1, <1>2, <1>9, <3>1
    <3> QED BY <1>9, <3>1, <3>2, <3>3, <3>4
  <2>2. ASSUME NEW f \in Frames
        PROVE  frames'[f].pin_count = Cardinality(Holders(guard', f))
    <3>1. frames[f].pin_count = Cardinality(Holders(guard, f))
      BY DEF Inv2, Inv1, GuardStable, Holders
    <3>2. frames'[f].pin_count = frames[f].pin_count
      <4>1. CASE f = page_table[p]
        BY <4>1, <1>1 DEF Unpinned, Empty
      <4>2. CASE f # page_table[p]
        BY <4>2, <1>1
      <4> QED BY <4>1, <4>2
    <3> QED BY <1>1, <3>1, <3>2
  <2> QED BY <2>1, <2>2 DEF GuardStable, Holders
<1> QED BY <1>5, <1>6, <1>7, <1>10, <1>11 DEF Inv2, Inv1

LEMMA StartInv2 ==
  ASSUME Inv2, Start
  PROVE  Inv2'
<1>1. /\ ~is_open /\ is_open' = TRUE /\ pages' = pages
      /\ header' = Header(page_count', free_list_head')
      /\ UNCHANGED <<frames, page_table, recency, guard, pc, fresh, owned, latest, crashes>>
  BY DEF Start, DiskOpen, poolVars
<1>2. header'.head = free_list_head' /\ header'.count = page_count' /\ InUse' = InUse
  BY <1>1 DEF Header, InUse
<1>3. /\ page_count' \in 0..kInvalidPageId /\ free_list_head' \in Links /\ 0 < page_count'
      /\ Listed(pages, free_list_head', page_count', InUse)
      /\ \A q \in InUse \ {kInvalidPageId} : q < page_count'
  <2>1. CASE header.count = 0
    <3>1. page_count' = 1 /\ free_list_head' = kInvalidPageId
      BY <2>1 DEF Start, DiskOpen
    <3>2. Listed(pages, free_list_head', page_count', InUse)
      BY <3>1, ListEmpty
    <3>3. \A q \in InUse \ {kInvalidPageId} : q < page_count'
      BY <2>1, <3>1, FileFacts, Constants
    <3> QED BY <3>1, <3>2, <3>3, Constants
  <2>2. CASE header.count # 0
    <3>1. page_count' = header.count /\ free_list_head' = header.head
      BY <2>2 DEF Start, DiskOpen
    <3> QED BY <2>2, <3>1, FileFacts, Constants
  <2> QED BY <2>1, <2>2
<1>4. ListsApart'
  BY <1>1, <1>2, <1>3, Constants DEF ListsApart
<1>5. DiskTypeOK'
  BY <1>1, <1>3, FileFacts DEF DiskTypeOK, Header
<1>6. TypeOK'
  BY <1>1, <1>5 DEF Inv2, Inv1, TypeOK
<1>7. Mapped'
  BY <1>1 DEF Inv2, Inv1, Mapped
<1>8. FreshApart'
  BY <1>1 DEF Inv2, Inv1, FreshApart
<1>9. GuardStable'
  BY <1>1 DEF Inv2, Inv1, GuardStable
<1> QED BY <1>4, <1>6, <1>7, <1>8, <1>9 DEF Inv2, Inv1

\* Without its pool, all that is left of the invariant is the file.
LEMMA PoolGoneInv ==
  ASSUME Inv2, PoolGone, DiskTypeOK', owned' \in SUBSET PageIds, crashes' \in 0..MaxCrashes,
         latest' \in [PageIds -> Vals \cup {"zero", "torn"}]
  PROVE  Inv1' /\ InUse' \subseteq owned' \cup {kInvalidPageId}
<1> USE DEF PoolGone
<1>1. TypeOK'
  <2>1. frames' \in [Frames -> Frame] /\ guard' \in [Threads -> Guard]
    BY Constants DEF NoFrames, NoGuards
  <2>2. page_table' \in [PageIds -> 0..PoolSize] /\ recency' \in [Frames -> Frames]
    BY PoolAssumption DEF NoTable
  <2> QED BY <2>1, <2>2 DEF TypeOK, Guard, AllIdle
<1>2. Mapped'
  BY Constants DEF Mapped, NoTable, NoFrames, Empty, NoGuards
<1>3. FreshApart'
  BY Constants DEF FreshApart, NoGuards, AllIdle
<1>4. GuardStable'
  <2>1. \A f \in Frames : {t \in Threads : guard'[t] # NoGuard /\ guard'[t].frame = f} = {}
    BY DEF NoGuards
  <2>2. \A f \in Frames : frames'[f].pin_count = 0
    BY DEF NoFrames, Empty
  <2> QED BY <2>1, <2>2, FS_EmptySet DEF GuardStable, NoGuards
<1>5. InUse' \subseteq owned' \cup {kInvalidPageId}
  BY DEF InUse
<1> QED BY <1>1, <1>2, <1>3, <1>4, <1>5 DEF Inv1

LEMMA DataType ==
  ASSUME NEW file \in [PageIds -> Bytes]
  PROVE  [p \in PageIds |-> file[p].data] \in [PageIds -> Vals \cup {"zero", "torn"}]
BY DEF Bytes

LEMMA StopInv2 ==
  ASSUME Inv2, Stop
  PROVE  Inv2'
<1>1. latest' = latest \/ latest' = [p \in PageIds |-> pages'[p].data]
  BY DEF Stop
<1>2. /\ pages' \in [PageIds -> Bytes]
      /\ \A q \in PageIds : page_table[q] = 0 => pages'[q] = pages[q]
  <2>1. CASE pages' = FlushedPages(PoolSize)
    BY <2>1, FlushedPagesType, Constants DEF Inv2, Inv1
  <2>2. CASE \E m \in Frames : m \in Flushed(m) /\ pages' \in StoppedAt(m)
    BY <2>2, StoppedType DEF Inv2
  <2> QED BY <2>1, <2>2 DEF Stop
<1>3. /\ is_open /\ is_open' = FALSE /\ header' \in {Header(page_count, free_list_head), header}
      /\ UNCHANGED <<page_count, free_list_head, owned, crashes>> /\ PoolGone
  BY DEF Stop, DiskClose
<1>4. DiskTypeOK'
  <2>1. header' \in [count : 0..kInvalidPageId, head : Links]
    BY <1>3, FileFacts DEF Header
  <2>2. is_open' \in BOOLEAN
    BY <1>3
  <2> QED BY <1>2, <1>3, <2>1, <2>2, FileFacts DEF DiskTypeOK
<1>5. latest' \in [PageIds -> Vals \cup {"zero", "torn"}]
  BY <1>1, <1>2, DataType DEF Inv2, Inv1, TypeOK
<1>6. Inv1' /\ InUse' \subseteq owned \cup {kInvalidPageId}
  BY <1>3, <1>4, <1>5, PoolGoneInv DEF Inv2, Inv1, TypeOK
<1>7. ListsApart'
  <2>1. InUse' \cap PageIds \subseteq InUse /\ InUse' \ {kInvalidPageId} \subseteq InUse
    BY <1>6, Constants DEF InUse
  <2>2. \A q \in PageIds \ InUse : pages'[q].link \in {pages[q].link, kInvalidPageId}
    BY <1>2 DEF Inv2, Inv1, Mapped, InUse
  <2>3. header.count \in Int /\ page_count \in Int /\ header.count <= page_count
    BY <1>3, FileFacts, Constants
  <2>4. CASE header' = header
    <3>1. Listed(pages', header.head, header.count, InUse')
      BY <2>1, <2>2, <2>3, FileFacts, ListKept
    <3> QED BY <1>3, <2>1, <2>4, <3>1, FileFacts DEF ListsApart
  <2>5. CASE header' = Header(page_count, free_list_head)
    <3>1. Listed(pages', free_list_head, page_count, InUse')
      <4>1. Listed(pages, free_list_head, page_count, InUse) /\ page_count <= page_count
        BY <1>3, <2>3, FileFacts
      <4> QED BY <2>1, <2>2, <2>3, <4>1, ListKept
    <3>2. header'.head = free_list_head /\ header'.count = page_count
      BY <2>5 DEF Header
    <3>3. \A q \in InUse' \ {kInvalidPageId} : q < page_count
      BY <2>1, <2>3, FileFacts, Constants
    <3> QED BY <1>3, <3>1, <3>2, <3>3 DEF ListsApart
  <2> QED BY <1>3, <2>4, <2>5
<1> QED BY <1>6, <1>7 DEF Inv2

LEMMA CrashInv2 ==
  ASSUME Inv2, Crash
  PROVE  Inv2'
<1>1. PICK leaving \in {{}} \cup {{p} : p \in {q \in owned : Unpinned(q)}} :
        DiskKill(leaving) /\ owned' = owned \ leaving
  BY DEF Crash
<1>2. /\ is_open /\ is_open' = FALSE /\ header' = header
      /\ page_count' = 0 /\ free_list_head' = kInvalidPageId /\ PoolGone
      /\ latest' = [p \in PageIds |-> pages'[p].data]
  BY <1>1 DEF Crash, DiskKill
<1>3. leaving \subseteq owned /\ owned \in SUBSET PageIds
  BY <1>1 DEF Inv2, Inv1, TypeOK
<1>4. /\ pages \in [PageIds -> Bytes] /\ Fresh \in Bytes /\ Fresh.link = kInvalidPageId
      /\ Free(free_list_head) \in Bytes
  BY FileFacts, Constants DEF Fresh, Free
<1>5. /\ pages' \in [PageIds -> Bytes]
      /\ \A q \in PageIds \ InUse : pages'[q].link \in {pages[q].link, kInvalidPageId}
  <2>1. CASE pages' = pages
    BY <1>4, <2>1
  <2>2. CASE pages' = [pages EXCEPT ![Allocated] = Fresh]
    BY <1>4, <2>2
  <2>3. CASE \E p \in leaving : pages' = [pages EXCEPT ![p] = Free(free_list_head)]
    <3>1. PICK p \in leaving : pages' = [pages EXCEPT ![p] = Free(free_list_head)]
      BY <2>3
    <3>2. p \in InUse /\ p \in PageIds
      BY <1>3 DEF InUse
    <3> QED BY <1>4, <3>1, <3>2
  <2> QED BY <1>1, <2>1, <2>2, <2>3 DEF DiskKill
<1>6. DiskTypeOK'
  <2>1. page_count' \in 0..kInvalidPageId /\ free_list_head' \in Links
    BY <1>2, Constants
  <2>2. is_open' \in BOOLEAN
    BY <1>2
  <2> QED BY <1>2, <1>5, <2>1, <2>2, FileFacts DEF DiskTypeOK
<1>7. latest' \in [PageIds -> Vals \cup {"zero", "torn"}]
  BY <1>2, <1>5, DataType
<1>8. crashes' \in 0..MaxCrashes
  BY PoolAssumption DEF Crash, Inv2, Inv1, TypeOK
<1>9. Inv1' /\ InUse' \subseteq owned \cup {kInvalidPageId}
  BY <1>1, <1>2, <1>3, <1>6, <1>7, <1>8, PoolGoneInv
<1>10. ListsApart'
  <2>1. InUse' \cap PageIds \subseteq InUse /\ InUse' \ {kInvalidPageId} \subseteq InUse
    BY <1>9, Constants DEF InUse
  <2>2. header.count \in Int /\ header.count <= header.count
    BY FileFacts, Constants
  <2>3. Listed(pages', header.head, header.count, InUse')
    BY <1>5, <2>1, <2>2, FileFacts, ListKept
  <2> QED BY <1>2, <2>1, <2>3, FileFacts DEF ListsApart
<1> QED BY <1>9, <1>10 DEF Inv2

LEMMA StutterInv2 ==
  ASSUME Inv2, UNCHANGED vars
  PROVE  Inv2'
<1> USE DEF vars, diskVars, poolVars
<1>1. TypeOK'
  BY DEF Inv2, Inv1, TypeOK, DiskTypeOK
<1>2. Mapped'
  BY DEF Inv2, Inv1, Mapped
<1>3. FreshApart'
  BY DEF Inv2, Inv1, FreshApart
<1>4. GuardStable'
  BY DEF Inv2, Inv1, GuardStable
<1>5. ListsApart'
  BY DEF Inv2, ListsApart, InUse
<1> QED BY <1>1, <1>2, <1>3, <1>4, <1>5 DEF Inv2, Inv1

LEMMA NextInv2 ==
  ASSUME Inv2, [Next]_vars
  PROVE  Inv2'
BY StartInv2, StopInv2, CrashInv2, FetchPageInv2, WriteThroughInv2, DropInv2, NewPageInv2,
   NewPageFetchInv2, NewPageUndoInv2, DeletePageInv2, FlushPageInv2, FlushAllPagesInv2,
   StutterInv2 DEF Next

\* The pages of a sound list are not in use, and the list ends: the list in
\* memory for the pages NewPage has not returned yet as well.
LEMMA ListsAreSound ==
  ASSUME Inv2
  PROVE  FreeListSound
<1>1. header.count \in Int /\ page_count \in Int /\ header.count <= kInvalidPageId
  BY FileFacts, Constants
<1>2. ListSound(header.head, header.count, owned)
  <2>1. Listed(pages, header.head, header.count, owned)
    BY FileFacts DEF Listed, InUse
  <2> QED BY <1>1, <2>1, ListedIsSound
<1>3. owned \subseteq 1..(header.count - 1)
  <2>1. owned \subseteq PageIds /\ owned \subseteq InUse
    BY DEF Inv2, Inv1, TypeOK, InUse
  <2> QED BY <1>1, <2>1, FileFacts, Constants
<1>4. is_open => ListSound(free_list_head, page_count, InUse)
  BY <1>1, FileFacts, ListedIsSound
<1> QED BY <1>2, <1>3, <1>4 DEF FreeListSound, InUse

LEMMA SpecInv2 == Spec => []Inv2
<1>1. Inv2 /\ [Next]_vars => Inv2'
  BY NextInv2
<1> QED BY <1>1, InitInv2, PTL DEF Spec

\* The types of the pool and of the page file under it, whatever threads do
\* between the locks of the two, and whatever fails.
THEOREM PoolTypes == Spec => []TypeOK
<1>1. Inv2 => TypeOK
  BY DEF Inv2, Inv1
<1> QED BY <1>1, SpecInv2, PTL

\* The promise of PageGuard, for every number of frames, pages and threads: no
\* eviction, deletion or failed fetch takes the page from under a guard, and
\* the pin count of a frame is the number of its guards.
THEOREM GuardsProtect == Spec => []GuardStable
<1>1. Inv2 => GuardStable
  BY DEF Inv2, Inv1
<1> QED BY <1>1, SpecInv2, PTL

\* No allocation hands out a page in use, before or after a restart, whatever
\* writes failed or were torn and wherever the process died.
THEOREM FreeListsSound == Spec => []FreeListSound
<1>1. Inv2 => FreeListSound
  BY ListsAreSound
<1> QED BY <1>1, SpecInv2, PTL

-----------------------------------------------------------------------------
(***************************************************************************)
(* What the pages hold.                                                    *)
(***************************************************************************)

Contents == LatestKept /\ CleanFrames /\ FreshEmpty

\* The facts these proofs use: two pages have two frames, a cached page is in
\* use, a page of NewPage is in use by nobody else and not cached.
LEMMA CacheFacts ==
  ASSUME Inv2
  PROVE  /\ frames \in [Frames -> Frame] /\ page_table \in [PageIds -> 0..PoolSize]
         /\ pages \in [PageIds -> Bytes] /\ owned \subseteq PageIds
         /\ guard \in [Threads -> Guard]
         /\ fresh \in [Threads -> PageIds \cup {kInvalidPageId}]
         /\ latest \in [PageIds -> Vals \cup {"zero", "torn"}]
         /\ \A p \in PageIds : page_table[p] # 0 =>
              page_table[p] \in Frames /\ p \in owned /\ frames[page_table[p]].id = p
         /\ \A p, q \in PageIds : page_table[p] = page_table[q] /\ page_table[p] # 0 => p = q
         /\ \A p \in PageIds, f \in Frames : page_table[p] = f <=> frames[f].id = p
         /\ \A t \in Threads : fresh[t] \notin owned
         /\ \A t \in Threads : fresh[t] \in PageIds => page_table[fresh[t]] = 0
<1>1. /\ frames \in [Frames -> Frame] /\ page_table \in [PageIds -> 0..PoolSize]
      /\ pages \in [PageIds -> Bytes] /\ owned \subseteq PageIds
      /\ guard \in [Threads -> Guard]
      /\ fresh \in [Threads -> PageIds \cup {kInvalidPageId}]
      /\ latest \in [PageIds -> Vals \cup {"zero", "torn"}]
  BY DEF Inv2, Inv1, TypeOK, DiskTypeOK, Guard
<1>2. /\ \A p \in PageIds, f \in Frames : page_table[p] = f <=> frames[f].id = p
      /\ \A p \in PageIds : page_table[p] # 0 => p \in owned
  BY DEF Inv2, Inv1, Mapped
<1>3. \A t \in Threads : fresh[t] \notin owned
  BY DEF Inv2, Inv1, FreshApart
<1>4. \A p \in PageIds : page_table[p] # 0 => page_table[p] \in Frames
  BY <1>1, Constants
<1> QED BY <1>1, <1>2, <1>3, <1>4

\* A frame without pins has in the file, once written back, what it holds.
LEMMA EvictKeeps ==
  ASSUME Inv3, NEW f \in Frames, frames[f].pin_count = 0
  PROVE  \A q \in PageIds : WrittenBack(f)[q].data =
           IF page_table[q] = f THEN frames[f].bytes.data ELSE pages[q].data
<1>1. SUFFICES ASSUME NEW q \in PageIds
               PROVE  WrittenBack(f)[q].data =
                        IF page_table[q] = f THEN frames[f].bytes.data ELSE pages[q].data
  OBVIOUS
<1>2. Inv2 /\ CleanFrames
  BY DEF Inv3
<1>3. page_table[q] = f <=> frames[f].id = q
  BY <1>2, CacheFacts
<1>4. CASE page_table[q] = f /\ ~frames[f].dirty
  <2>1. q \in owned
    BY <1>2, <1>4, CacheFacts, Constants
  <2>2. \A t \in Threads : guard[t].frame = f => ~guard[t].writable
    <3>1. \A t \in Threads : guard[t] # NoGuard => guard[t].frame # f
      BY <1>2, NoPinNoGuard DEF Inv2, Inv1
    <3> QED BY <3>1, Constants
  <2>3. frames[f].bytes.data = pages[q].data
    BY <1>2, <1>4, <2>1, <2>2 DEF CleanFrames
  <2> QED BY <1>3, <1>4, <2>3 DEF WrittenBack
<1>5. CASE page_table[q] = f /\ frames[f].dirty
  BY <1>3, <1>5 DEF WrittenBack
<1>6. CASE page_table[q] # f
  BY <1>3, <1>6 DEF WrittenBack
<1> QED BY <1>4, <1>5, <1>6

LEMMA InitContents == Init => Contents
BY DEF Init, Contents, LatestKept, CleanFrames, FreshEmpty

LEMMA WriteThroughContents ==
  ASSUME Inv3, NEW t \in Threads, NEW v \in Vals, WriteThrough(t, v)
  PROVE  Contents'
<1> DEFINE f == guard[t].frame
           p == guard[t].page
<1>0. Inv2 /\ LatestKept /\ CleanFrames /\ FreshEmpty
  BY DEF Inv3
<1>1. guard[t] # NoGuard /\ guard[t].writable
  BY Constants DEF WriteThrough
<1>2. f \in Frames /\ p \in PageIds /\ page_table[p] = f /\ p \in owned
  BY <1>0, <1>1, GuardedFrame DEF Inv2
<1>3. /\ frames' = [frames EXCEPT ![f].bytes = Data(v)]
      /\ latest' = [latest EXCEPT ![p] = v]
      /\ UNCHANGED <<pages, page_table, guard, fresh, owned>>
  BY DEF WriteThrough, diskVars
<1> HIDE DEF f, p
<1>4. \A e \in Frames : /\ frames'[e].bytes.data = IF e = f THEN v ELSE frames[e].bytes.data
                        /\ frames'[e].dirty = frames[e].dirty
  BY <1>0, <1>2, <1>3, CacheFacts DEF Data, Frame
<1>5. LatestKept'
  <2>1. SUFFICES ASSUME NEW q \in owned
                 PROVE  latest'[q] = IF page_table[q] = 0 THEN pages[q].data
                                     ELSE frames'[page_table[q]].bytes.data
    BY <1>3 DEF LatestKept
  <2>2. q \in PageIds
    BY <1>0, CacheFacts
  <2>3. CASE q = p
    BY <1>0, <1>2, <1>3, <1>4, <2>3, CacheFacts, Constants
  <2>4. CASE q # p
    <3>1. page_table[q] # f
      BY <1>0, <1>2, <2>2, <2>4, CacheFacts, Constants
    <3>2. page_table[q] # 0 => page_table[q] \in Frames
      BY <1>0, <2>2, CacheFacts
    <3>3. latest'[q] = latest[q]
      BY <1>0, <1>3, <2>2, <2>4, CacheFacts
    <3> QED BY <1>0, <1>4, <2>2, <3>1, <3>2, <3>3 DEF LatestKept
  <2> QED BY <2>3, <2>4
<1>6. CleanFrames'
  <2>1. SUFFICES ASSUME NEW q \in owned, NEW e \in Frames, page_table[q] = e, ~frames[e].dirty,
                        \A u \in Threads : guard[u].frame = e => ~guard[u].writable
                 PROVE  frames'[e].bytes.data = pages[q].data
    BY <1>3, <1>4 DEF CleanFrames
  <2>2. e # f
    BY <1>1, <2>1 DEF f
  <2> QED BY <1>0, <1>4, <2>1, <2>2 DEF CleanFrames
<1>7. FreshEmpty'
  BY <1>0, <1>3 DEF FreshEmpty
<1> QED BY <1>5, <1>6, <1>7 DEF Contents

\* Steps after which every cached page and every page of the file has the data
\* it had, and no frame has lost its dirty flag or a writable guard unmarked.
LEMMA SameContents ==
  ASSUME Inv3,
         owned' \subseteq owned, \A q \in owned' : page_table'[q] = page_table[q],
         \A q \in owned' : pages'[q].data = pages[q].data /\ latest'[q] = latest[q],
         \A q \in owned' : page_table[q] # 0 =>
           frames'[page_table[q]].bytes.data = frames[page_table[q]].bytes.data,
         \A q \in owned' : page_table[q] # 0 /\ ~frames'[page_table[q]].dirty
             /\ (\A t \in Threads : guard'[t].frame = page_table[q] => ~guard'[t].writable) =>
           /\ ~frames[page_table[q]].dirty
           /\ \A t \in Threads : guard[t].frame = page_table[q] => ~guard[t].writable
  PROVE  LatestKept' /\ CleanFrames'
<1>0. Inv2 /\ LatestKept /\ CleanFrames
  BY DEF Inv3
<1>1. LatestKept'
  BY <1>0 DEF LatestKept
<1>2. CleanFrames'
  <2>1. SUFFICES ASSUME NEW q \in owned', NEW e \in Frames, page_table'[q] = e, ~frames'[e].dirty,
                        \A u \in Threads : guard'[u].frame = e => ~guard'[u].writable
                 PROVE  frames'[e].bytes.data = pages'[q].data
    BY DEF CleanFrames
  <2>2. page_table[q] = e /\ e # 0 /\ q \in owned
    BY <2>1, Constants
  <2> QED BY <1>0, <2>1, <2>2 DEF CleanFrames
<1> QED BY <1>1, <1>2

LEMMA DropContents ==
  ASSUME Inv3, NEW t \in Threads, Drop(t)
  PROVE  Contents'
<1> DEFINE g == guard[t]
           f == page_table[g.page]
<1>0. Inv2 /\ FreshEmpty /\ guard[t] # NoGuard
  BY DEF Inv3, Drop
<1>1. f = g.frame /\ f \in Frames /\ f # 0
  BY <1>0, GuardedFrame DEF Inv2
<1>2. /\ frames' = [frames EXCEPT ![f].pin_count = IF @ > 0 THEN @ - 1 ELSE 0,
                                 ![f].dirty = @ \/ g.writable]
      /\ guard' = [guard EXCEPT ![t] = NoGuard]
      /\ UNCHANGED <<pages, page_table, fresh, owned, latest>>
  BY <1>1 DEF Drop, Released, diskVars
<1>3. \A e \in Frames : /\ frames'[e].bytes = frames[e].bytes
                        /\ ~frames'[e].dirty => ~frames[e].dirty /\ (e = f => ~g.writable)
  BY <1>0, <1>1, <1>2, CacheFacts DEF Frame
<1>4. \A q \in owned : page_table[q] # 0 => page_table[q] \in Frames
  BY <1>0, CacheFacts
<1>5. ASSUME NEW e \in Frames, ~frames'[e].dirty,
             \A u \in Threads : guard'[u].frame = e => ~guard'[u].writable
      PROVE  \A u \in Threads : guard[u].frame = e => ~guard[u].writable
  <2>1. SUFFICES ASSUME NEW u \in Threads, guard[u].frame = e PROVE ~guard[u].writable
    OBVIOUS
  <2>2. CASE u = t
    BY <1>1, <1>3, <1>5, <2>1, <2>2
  <2>3. CASE u # t
    <3>1. guard'[u] = guard[u]
      BY <1>0, <1>2, <2>3, CacheFacts
    <3> QED BY <1>5, <2>1, <3>1
  <2> QED BY <2>2, <2>3
<1> HIDE DEF f, g
<1>6. LatestKept' /\ CleanFrames'
  BY <1>2, <1>3, <1>4, <1>5, SameContents
<1>7. FreshEmpty'
  BY <1>0, <1>2 DEF FreshEmpty
<1> QED BY <1>6, <1>7 DEF Contents

LEMMA FlushPageContents ==
  ASSUME Inv3, ~TornWrites, NEW t \in Threads, NEW p \in PageIds, FlushPage(t, p)
  PROVE  Contents'
<1> DEFINE f == page_table[p]
<1>0. Inv2 /\ LatestKept /\ CleanFrames /\ FreshEmpty
  BY DEF Inv3
<1>1. p \in owned /\ f # 0 /\ UNCHANGED <<page_table, guard, fresh, owned, latest>>
  BY DEF FlushPage
<1>2. f \in Frames /\ frames[f].bytes \in Bytes
  BY <1>0, <1>1, CacheFacts DEF Frame
<1>3. CASE /\ pages' = [pages EXCEPT ![p] = frames[f].bytes]
           /\ frames' = [frames EXCEPT ![f].dirty = FALSE]
  <2>1. \A e \in Frames : /\ frames'[e].bytes = frames[e].bytes
                          /\ e # f => frames'[e].dirty = frames[e].dirty
    <3>1. [frames[f] EXCEPT !.dirty = FALSE].bytes = frames[f].bytes
      BY <1>0, <1>2, CacheFacts DEF Frame
    <3>2. frames' = [frames EXCEPT ![f] = [frames[f] EXCEPT !.dirty = FALSE]]
      BY <1>3
    <3>3. frames \in [Frames -> Frame]
      BY <1>0, CacheFacts
    <3> HIDE DEF f
    <3> QED BY <1>2, <3>1, <3>2, <3>3
  <2>2. \A q \in PageIds : pages'[q] = IF q = p THEN frames[f].bytes ELSE pages[q]
    BY <1>0, <1>3, CacheFacts
  <2> HIDE DEF f
  <2>3. LatestKept'
    <3>1. SUFFICES ASSUME NEW q \in owned
                   PROVE  latest[q] = IF page_table[q] = 0 THEN pages'[q].data
                                      ELSE frames'[page_table[q]].bytes.data
      BY <1>1 DEF LatestKept
    <3>2. q \in PageIds /\ (page_table[q] # 0 => page_table[q] \in Frames)
      BY <1>0, CacheFacts
    <3>3. page_table[q] = 0 => q # p
      BY <1>1 DEF f
    <3> QED BY <1>0, <2>1, <2>2, <3>2, <3>3 DEF LatestKept
  <2>4. CleanFrames'
    <3>1. SUFFICES ASSUME NEW q \in owned, NEW e \in Frames, page_table[q] = e, ~frames'[e].dirty,
                          \A u \in Threads : guard[u].frame = e => ~guard[u].writable
                   PROVE  frames'[e].bytes.data = pages'[q].data
      BY <1>1 DEF CleanFrames
    <3>2. q \in PageIds
      BY <1>0, CacheFacts
    <3>3. CASE q = p
      BY <2>1, <2>2, <3>1, <3>2, <3>3 DEF f
    <3>4. CASE q # p
      <4>1. e # f
        BY <1>0, <1>1, <3>1, <3>2, <3>4, CacheFacts DEF f
      <4> QED BY <1>0, <2>1, <2>2, <3>1, <3>2, <3>4, <4>1 DEF CleanFrames
    <3> QED BY <3>3, <3>4
  <2>5. FreshEmpty'
    <3>1. SUFFICES ASSUME NEW u \in Threads, fresh[u] # kInvalidPageId
                   PROVE  pages'[fresh[u]].data = "zero"
      BY <1>1 DEF FreshEmpty
    <3>2. fresh[u] \in PageIds /\ fresh[u] # p
      BY <1>0, <1>1, <3>1, CacheFacts
    <3> QED BY <1>0, <2>2, <3>1, <3>2 DEF FreshEmpty
  <2> QED BY <2>3, <2>4, <2>5 DEF Contents
<1>4. CASE pages' \in FailedWrite(p, frames[f].bytes) /\ frames' = frames
  <2>1. pages' = pages
    <3>1. DiskTypeOK
      BY <1>0 DEF Inv2, Inv1, TypeOK
    <3> QED BY <1>2, <1>4, <3>1, FailedWriteType
  <2>2. LatestKept'
    BY <1>0, <1>1, <1>4, <2>1 DEF LatestKept
  <2>3. CleanFrames'
    BY <1>0, <1>1, <1>4, <2>1 DEF CleanFrames
  <2>4. FreshEmpty'
    BY <1>0, <1>1, <2>1 DEF FreshEmpty
  <2> QED BY <2>2, <2>3, <2>4 DEF Contents
<1> QED BY <1>3, <1>4 DEF FlushPage

\* What FlushAllPages has written by frame n.
LEMMA FlushedContents ==
  ASSUME Inv3, NEW n \in 0..PoolSize
  PROVE  /\ Flushed(n) \subseteq Frames
         /\ \A q \in PageIds : FlushedPages(n)[q].data =
              IF page_table[q] \in Flushed(n) THEN frames[page_table[q]].bytes.data
              ELSE pages[q].data
BY Constants DEF FlushedPages, Flushed

LEMMA FlushAllPagesContents ==
  ASSUME Inv3, ~TornWrites, NEW t \in Threads, FlushAllPages(t)
  PROVE  Contents'
<1>0. Inv2 /\ LatestKept /\ CleanFrames /\ FreshEmpty
  BY DEF Inv3
<1>1. PICK n \in 0..PoolSize : pages' = FlushedPages(n) /\ Cleaned(n)
  <2>1. CASE pages' = FlushedPages(PoolSize) /\ Cleaned(PoolSize)
    BY <2>1, Constants
  <2>2. ASSUME NEW n \in Frames, n \in Flushed(n), pages' \in StoppedAt(n), Cleaned(n - 1)
        PROVE  n - 1 \in 0..PoolSize /\ pages' = FlushedPages(n - 1)
    <3>1. n \in 1..PoolSize /\ PoolSize \in Nat
      BY Constants
    <3>2. n - 1 \in 0..PoolSize
      BY <3>1
    <3> QED BY <1>0, <2>2, <3>2, StoppedType DEF Inv2
  <2> QED BY <2>1, <2>2 DEF FlushAllPages
<1>2. UNCHANGED <<page_table, guard, fresh, owned, latest>>
  BY DEF FlushAllPages
<1>3. \A e \in Frames : /\ frames'[e].bytes = frames[e].bytes
                        /\ frames'[e].dirty = IF e \in Flushed(n) THEN FALSE ELSE frames[e].dirty
  <2>1. SUFFICES ASSUME NEW e \in Frames
                 PROVE  /\ frames'[e].bytes = frames[e].bytes
                        /\ frames'[e].dirty = IF e \in Flushed(n) THEN FALSE ELSE frames[e].dirty
    OBVIOUS
  <2>2. frames'[e] = IF e \in Flushed(n) THEN [frames[e] EXCEPT !.dirty = FALSE] ELSE frames[e]
    BY <1>1 DEF Cleaned
  <2>3. frames[e] \in Frame
    BY <1>0, CacheFacts
  <2> QED BY <2>2, <2>3 DEF Frame
<1>4. /\ Flushed(n) \subseteq Frames
      /\ \A q \in PageIds : pages'[q].data =
           IF page_table[q] \in Flushed(n) THEN frames[page_table[q]].bytes.data ELSE pages[q].data
  BY <1>1, FlushedContents
<1>5. LatestKept'
  <2>1. SUFFICES ASSUME NEW q \in owned
                 PROVE  latest[q] = IF page_table[q] = 0 THEN pages'[q].data
                                    ELSE frames'[page_table[q]].bytes.data
    BY <1>2 DEF LatestKept
  <2>2. q \in PageIds /\ (page_table[q] # 0 => page_table[q] \in Frames)
    BY <1>0, CacheFacts
  <2> QED BY <1>0, <1>3, <1>4, <2>2, Constants DEF LatestKept
<1>6. CleanFrames'
  <2>1. SUFFICES ASSUME NEW q \in owned, NEW e \in Frames, page_table[q] = e, ~frames'[e].dirty,
                        \A u \in Threads : guard[u].frame = e => ~guard[u].writable
                 PROVE  frames'[e].bytes.data = pages'[q].data
    BY <1>2 DEF CleanFrames
  <2>2. q \in PageIds
    BY <1>0, CacheFacts
  <2> QED BY <1>0, <1>3, <1>4, <2>1, <2>2 DEF CleanFrames
<1>7. FreshEmpty'
  <2>1. SUFFICES ASSUME NEW u \in Threads, fresh[u] # kInvalidPageId
                 PROVE  pages'[fresh[u]].data = "zero"
    BY <1>2 DEF FreshEmpty
  <2>2. fresh[u] \in PageIds /\ page_table[fresh[u]] = 0
    BY <1>0, <2>1, CacheFacts
  <2> QED BY <1>0, <1>4, <2>1, <2>2, Constants DEF FreshEmpty
<1> QED BY <1>5, <1>6, <1>7 DEF Contents

\* The page of the frame f leaves the pool and the page p, if any, comes: what
\* the pool or the file has of every page in use is what was there before.
LEMMA EvictedContents ==
  ASSUME Inv3, NEW f \in Frames, frames[f].pin_count = 0, pages' = WrittenBack(f),
         NEW p \in PageIds \cup {kInvalidPageId}, p \in PageIds => page_table[p] = 0,
         NEW c, frames' = [frames EXCEPT ![f] = c], p \in PageIds => c.bytes = pages'[p],
         page_table' = Reassigned(f, p),
         \A u \in Threads : guard[u] # NoGuard => guard'[u] = guard[u],
         \A u \in Threads : fresh'[u] \in {fresh[u], kInvalidPageId},
         owned' \subseteq PageIds, owned' \subseteq owned \cup {p},
         \A q \in owned : latest'[q] = latest[q],
         p \in owned' \ owned => latest'[p] = "zero" /\ pages[p].data = "zero"
  PROVE  Contents'
<1>0. Inv2 /\ LatestKept /\ CleanFrames /\ FreshEmpty
  BY DEF Inv3
<1>1. \A q \in PageIds : pages'[q].data =
        IF page_table[q] = f THEN frames[f].bytes.data ELSE pages[q].data
  BY EvictKeeps
<1>2. \A q \in PageIds : page_table'[q] =
        IF q = p THEN f ELSE IF page_table[q] = f THEN 0 ELSE page_table[q]
  BY <1>0, CacheFacts DEF Reassigned
<1>3. frames'[f] = c /\ \A e \in Frames : e # f => frames'[e] = frames[e]
  BY <1>0, CacheFacts
<1>4. LatestKept'
  <2>1. SUFFICES ASSUME NEW q \in owned'
                 PROVE  latest'[q] = IF page_table'[q] = 0 THEN pages'[q].data
                                     ELSE frames'[page_table'[q]].bytes.data
    BY DEF LatestKept
  <2>2. CASE q = p
    <3>1. q \in PageIds /\ page_table[q] = 0 /\ page_table'[q] = f /\ f # 0
      BY <1>2, <2>2, Constants
    <3>2. frames'[f].bytes.data = pages[q].data
      BY <1>1, <1>3, <2>2, <3>1
    <3>3. CASE q \in owned
      BY <1>0, <3>1, <3>2, <3>3 DEF LatestKept
    <3>4. CASE q \notin owned
      BY <2>2, <3>1, <3>2, <3>4
    <3> QED BY <3>3, <3>4
  <2>3. CASE q # p
    <3>1. q \in PageIds /\ q \in owned /\ latest'[q] = latest[q]
      BY <2>3
    <3>2. /\ latest[q] = IF page_table[q] = 0 THEN pages[q].data
                         ELSE frames[page_table[q]].bytes.data
          /\ page_table[q] # 0 => page_table[q] \in Frames
      BY <1>0, <3>1, CacheFacts DEF LatestKept
    <3>3. CASE page_table[q] = f
      BY <1>1, <1>2, <2>3, <3>1, <3>2, <3>3, Constants
    <3>4. CASE page_table[q] # f
      BY <1>1, <1>2, <1>3, <2>3, <3>1, <3>2, <3>4
    <3> QED BY <3>3, <3>4
  <2> QED BY <2>2, <2>3
<1>5. CleanFrames'
  <2>1. SUFFICES ASSUME NEW q \in owned', NEW e \in Frames, page_table'[q] = e, ~frames'[e].dirty,
                        \A u \in Threads : guard'[u].frame = e => ~guard'[u].writable
                 PROVE  frames'[e].bytes.data = pages'[q].data
    BY DEF CleanFrames
  <2>2. CASE q = p
    BY <1>2, <1>3, <2>1, <2>2
  <2>3. CASE q # p
    <3>1. q \in owned /\ q \in PageIds /\ page_table[q] = e /\ e # f
      BY <1>2, <2>1, <2>3, Constants
    <3>2. \A u \in Threads : guard[u].frame = e => ~guard[u].writable
      BY <2>1, Constants
    <3>3. frames[e].bytes.data = pages[q].data
      BY <1>0, <1>3, <2>1, <3>1, <3>2 DEF CleanFrames
    <3> QED BY <1>1, <1>3, <3>1, <3>3
  <2> QED BY <2>2, <2>3
<1>6. FreshEmpty'
  <2>1. SUFFICES ASSUME NEW u \in Threads, fresh'[u] # kInvalidPageId
                 PROVE  pages'[fresh'[u]].data = "zero"
    BY DEF FreshEmpty
  <2>2. fresh'[u] = fresh[u] /\ fresh[u] \in PageIds /\ page_table[fresh[u]] = 0
    BY <1>0, <2>1, CacheFacts
  <2>3. pages[fresh[u]].data = "zero"
    BY <1>0, <2>1, <2>2 DEF FreshEmpty
  <2> QED BY <1>1, <2>2, <2>3, Constants
<1> QED BY <1>4, <1>5, <1>6 DEF Contents

LEMMA FetchFailsContents ==
  ASSUME Inv3, ~TornWrites, NEW p \in PageIds, FetchFails(p), UNCHANGED <<fresh, owned, latest>>
  PROVE  Contents'
<1>0. Inv2 /\ LatestKept /\ CleanFrames /\ FreshEmpty /\ guard' = guard
  BY DEF Inv3, FetchFails
<1> DEFINE f == Victim
<1>1. f # 0 => f \in Frames /\ frames[f].pin_count = 0 /\ frames[f] \in Frame
  BY <1>0, VictimType, CacheFacts, Constants DEF Inv2, Inv1
<1>2. ASSUME UNCHANGED <<pages, frames, page_table>> PROVE Contents'
  <2>1. LatestKept'
    BY <1>0, <1>2 DEF LatestKept
  <2>2. CleanFrames'
    BY <1>0, <1>2 DEF CleanFrames
  <2>3. FreshEmpty'
    BY <1>0, <1>2 DEF FreshEmpty
  <2> QED BY <2>1, <2>2, <2>3 DEF Contents
<1>3. CASE /\ f # 0 /\ frames[f].id # kInvalidPageId
           /\ pages' \in FailedWrite(frames[f].id, frames[f].bytes)
           /\ UNCHANGED <<frames, page_table>>
  <2>1. frames[f].id \in PageIds /\ frames[f].bytes \in Bytes
    BY <1>1, <1>3 DEF Frame
  <2>2. DiskTypeOK
    BY <1>0 DEF Inv2, Inv1, TypeOK
  <2> HIDE DEF f
  <2>3. pages' = pages
    BY <1>3, <2>1, <2>2, FailedWriteType
  <2> QED BY <1>2, <1>3, <2>3
<1>4. CASE /\ f # 0
           /\ pages' = WrittenBack(f)
           /\ frames' = [frames EXCEPT ![f] = [Empty EXCEPT !.dirty = frames[f].dirty]]
           /\ page_table' = Reassigned(f, kInvalidPageId)
  <2> HIDE DEF f
  <2>1. owned' \subseteq PageIds
    BY <1>0, CacheFacts
  <2> QED BY <1>0, <1>1, <1>4, <2>1, EvictedContents, Constants
<1> QED BY <1>2, <1>3, <1>4 DEF FetchFails

LEMMA FetchPageContents ==
  ASSUME Inv3, ~TornWrites, NEW t \in Threads, NEW p \in PageIds, NEW w \in BOOLEAN,
         FetchPage(t, p, w)
  PROVE  Contents'
<1>0. /\ Inv2 /\ LatestKept /\ CleanFrames /\ FreshEmpty
      /\ guard[t] = NoGuard /\ p \in owned /\ UNCHANGED <<fresh, owned, latest>>
  BY DEF Inv3, FetchPage, Unguarded, Idle
<1>1. CASE FetchHit(t, p, w)
  <2> DEFINE f == page_table[p]
  <2>1. /\ f # 0 /\ f \in Frames /\ frames' = [frames EXCEPT ![f].pin_count = @ + 1]
        /\ guard' = [guard EXCEPT ![t] = [page |-> p, frame |-> f, writable |-> w]]
        /\ UNCHANGED <<pages, page_table>>
    BY <1>0, <1>1, CacheFacts DEF FetchHit, Guards, diskVars
  <2>2. \A e \in Frames : frames'[e].bytes = frames[e].bytes /\ frames'[e].dirty = frames[e].dirty
    <3>1. LET c == [frames[f] EXCEPT !.pin_count = @ + 1] IN
            c.bytes = frames[f].bytes /\ c.dirty = frames[f].dirty
      BY <1>0, <2>1, CacheFacts DEF Frame
    <3>2. frames' = [frames EXCEPT ![f] = [frames[f] EXCEPT !.pin_count = @ + 1]]
      BY <2>1
    <3>3. frames \in [Frames -> Frame]
      BY <1>0, CacheFacts
    <3> HIDE DEF f
    <3> QED BY <2>1, <3>1, <3>2, <3>3
  <2> HIDE DEF f
  <2>3. \A q \in owned : page_table[q] # 0 => page_table[q] \in Frames
    BY <1>0, CacheFacts
  <2>4. ASSUME NEW e \in Frames, \A u \in Threads : guard'[u].frame = e => ~guard'[u].writable
        PROVE  \A u \in Threads : guard[u].frame = e => ~guard[u].writable
    <3>1. \A u \in Threads : u # t => guard'[u] = guard[u]
      BY <1>0, <2>1, CacheFacts
    <3>2. ~guard[t].writable
      BY <1>0, Constants
    <3> QED BY <2>4, <3>1, <3>2
  <2>5. LatestKept' /\ CleanFrames'
    BY <1>0, <2>1, <2>2, <2>3, <2>4, SameContents
  <2>6. FreshEmpty'
    BY <1>0, <2>1 DEF FreshEmpty
  <2> QED BY <2>5, <2>6 DEF Contents
<1>2. CASE FetchMiss(t, p, w)
  <2> DEFINE f == Victim
             c == [id |-> p, bytes |-> pages'[p], pin_count |-> 1, dirty |-> FALSE]
  <2>1. f \in Frames /\ frames[f].pin_count = 0
    BY <1>0, <1>2, VictimType, Constants DEF FetchMiss, Inv2, Inv1
  <2>2. /\ pages' = WrittenBack(f) /\ frames' = [frames EXCEPT ![f] = c]
        /\ page_table' = Reassigned(f, p) /\ page_table[p] = 0
        /\ guard' = [guard EXCEPT ![t] = [page |-> p, frame |-> f, writable |-> w]]
    BY <1>2 DEF FetchMiss, Guards
  <2>3. c.bytes = pages'[p]
    OBVIOUS
  <2> HIDE DEF f, c
  <2>4. \A u \in Threads : guard[u] # NoGuard => guard'[u] = guard[u]
    BY <1>0, <2>2, CacheFacts
  <2>5. owned' \subseteq PageIds
    BY <1>0, CacheFacts
  <2> QED BY <1>0, <2>1, <2>2, <2>3, <2>4, <2>5, EvictedContents
<1>3. CASE FetchFails(p)
  BY <1>0, <1>3, FetchFailsContents
<1> QED BY <1>1, <1>2, <1>3 DEF FetchPage

LEMMA NewPageFetchContents ==
  ASSUME Inv3, ~TornWrites, NEW t \in Threads, NewPageFetch(t)
  PROVE  Contents'
<1> DEFINE p == fresh[t]
<1>0. /\ Inv2 /\ LatestKept /\ CleanFrames /\ FreshEmpty /\ pc[t] = "fetch"
  BY DEF Inv3, NewPageFetch
<1>1. p \in PageIds /\ p # kInvalidPageId /\ p \notin owned /\ page_table[p] = 0 /\ guard[t] = NoGuard
  BY <1>0, CacheFacts DEF Inv2, Inv1, FreshApart
<1>2. pages[p].data = "zero"
  BY <1>0, <1>1 DEF FreshEmpty
<1>3. CASE /\ FetchMiss(t, p, TRUE)
           /\ owned' = owned \cup {p}
           /\ latest' = [latest EXCEPT ![p] = "zero"]
           /\ NewPageEnds(t)
  <2> DEFINE f == Victim
             c == [id |-> p, bytes |-> pages'[p], pin_count |-> 1, dirty |-> FALSE]
  <2>1. f \in Frames /\ frames[f].pin_count = 0
    BY <1>0, <1>3, VictimType, Constants DEF FetchMiss, Inv2, Inv1
  <2>2. /\ pages' = WrittenBack(f) /\ frames' = [frames EXCEPT ![f] = c]
        /\ page_table' = Reassigned(f, p)
        /\ guard' = [guard EXCEPT ![t] = [page |-> p, frame |-> f, writable |-> TRUE]]
        /\ fresh' = [fresh EXCEPT ![t] = kInvalidPageId]
    BY <1>3 DEF FetchMiss, Guards, NewPageEnds
  <2>3. c.bytes = pages'[p]
    OBVIOUS
  <2> HIDE DEF f, c
  <2>4. \A u \in Threads : guard[u] # NoGuard => guard'[u] = guard[u]
    BY <1>0, <1>1, <2>2, CacheFacts
  <2>5. owned' \subseteq PageIds
    BY <1>0, <1>1, <1>3, CacheFacts
  <2>6. \A u \in Threads : fresh'[u] \in {fresh[u], kInvalidPageId}
    BY <1>0, <2>2, CacheFacts
  <2>7. latest'[p] = "zero" /\ \A q \in owned : latest'[q] = latest[q]
    BY <1>0, <1>1, <1>3, CacheFacts
  <2> HIDE DEF p
  <2> QED BY <1>1, <1>2, <1>3, <2>1, <2>2, <2>3, <2>4, <2>5, <2>6, <2>7, EvictedContents
<1>4. CASE FetchFails(p) /\ UNCHANGED <<fresh, owned, latest>>
  <2> HIDE DEF p
  <2> QED BY <1>1, <1>4, FetchFailsContents
<1> QED BY <1>1, <1>3, <1>4 DEF NewPageFetch, FetchHit

\* Steps that write only pages which are not in use, or no longer, and leave
\* the frames of the others alone.
LEMMA OtherPages ==
  ASSUME Inv3, NEW a \in PageIds, a \notin owned', owned' \subseteq owned, UNCHANGED <<guard, latest>>,
         \A q \in PageIds : q # a => pages'[q] = pages[q] /\ page_table'[q] = page_table[q],
         \A f \in Frames : f # page_table[a] => frames'[f] = frames[f]
  PROVE  LatestKept' /\ CleanFrames'
<1>0. Inv2
  BY DEF Inv3
<1>1. \A q \in owned' : q \in PageIds /\ q # a
  BY <1>0, CacheFacts
<1>2. \A q \in owned' : page_table[q] # 0 =>
        page_table[q] \in Frames /\ page_table[q] # page_table[a]
  BY <1>0, <1>1, CacheFacts
<1>3. \A q \in owned' : page_table[q] # 0 => frames'[page_table[q]] = frames[page_table[q]]
  BY <1>2
<1> QED BY <1>1, <1>3, SameContents

LEMMA NewPageContents ==
  ASSUME Inv3, NEW t \in Threads, NewPage(t)
  PROVE  Contents'
<1> DEFINE a == Allocated
<1>0. /\ Inv2 /\ FreshEmpty /\ is_open
      /\ UNCHANGED <<frames, page_table, guard, owned, latest>>
  BY DEF Inv3, NewPage, Unguarded, Idle, poolVars
<1>1. /\ pages \in [PageIds -> Bytes] /\ Fresh \in Bytes /\ Fresh.data = "zero"
      /\ fresh \in [Threads -> PageIds \cup {kInvalidPageId}] /\ DiskTypeOK
  <2>1. Fresh \in Bytes /\ Fresh.data = "zero"
    BY Constants DEF Fresh, Free
  <2>2. DiskTypeOK
    BY <1>0 DEF Inv2, Inv1, TypeOK
  <2> QED BY <1>0, <2>1, <2>2, CacheFacts
<1>2. TakeAllocated
  BY DEF NewPage, AllocatePage, AllocatePageFails
<1>3. a \in PageIds
  <2>1. CASE free_list_head # kInvalidPageId
    BY <1>0, <2>1, HeadIsPage DEF Allocated
  <2>2. CASE free_list_head = kInvalidPageId
    BY <1>0, <1>2, <2>2, FileFacts, Constants DEF TakeAllocated, Allocated
  <2> QED BY <2>1, <2>2
<1>4. /\ \A q \in PageIds : q # a => pages'[q] = pages[q]
      /\ fresh' = fresh \/ (fresh' = [fresh EXCEPT ![t] = a] /\ pages'[a].data = "zero")
  <2>1. CASE AllocatePage /\ fresh' = [fresh EXCEPT ![t] = a]
    <3>1. pages' = [pages EXCEPT ![a] = Fresh]
      BY <2>1 DEF AllocatePage
    <3> HIDE DEF a
    <3> QED BY <1>1, <1>3, <2>1, <3>1
  <2>2. CASE AllocatePageFails /\ fresh' = fresh
    <3>1. pages' = [pages EXCEPT ![a] = Fresh] \/ pages' \in FailedWrite(a, Fresh)
      BY <2>2 DEF AllocatePageFails
    <3> HIDE DEF a
    <3>2. \A q \in PageIds : q # a => pages'[q] = pages[q]
      BY <1>1, <1>3, <3>1, FailedWriteType
    <3> QED BY <2>2, <3>2
  <2> QED BY <2>1, <2>2 DEF NewPage
<1>5. a \notin InUse
  <2>1. InUse \cap PageIds \subseteq InUse \cup {a}
    OBVIOUS
  <2>2. \A q \in PageIds : q # a => pages'[q].link = pages[q].link
    BY <1>4
  <2> QED BY <1>0, <1>2, <2>1, <2>2, Taken
<1> HIDE DEF a
<1>6. LatestKept' /\ CleanFrames'
  BY <1>0, <1>3, <1>4, <1>5, OtherPages DEF InUse
<1>7. FreshEmpty'
  <2>1. SUFFICES ASSUME NEW u \in Threads, fresh'[u] # kInvalidPageId
                 PROVE  pages'[fresh'[u]].data = "zero"
    BY DEF FreshEmpty
  <2>2. CASE fresh'[u] = fresh[u]
    <3>1. fresh[u] \in PageIds /\ fresh[u] # a
      BY <1>1, <1>5, <2>1, <2>2 DEF InUse
    <3> QED BY <1>0, <1>4, <2>1, <2>2, <3>1 DEF FreshEmpty
  <2>3. CASE fresh'[u] # fresh[u]
    BY <1>1, <1>4, <2>3
  <2> QED BY <2>2, <2>3
<1> QED BY <1>6, <1>7 DEF Contents

LEMMA NewPageUndoContents ==
  ASSUME Inv3, NEW t \in Threads, NewPageUndo(t)
  PROVE  Contents'
<1> DEFINE p == fresh[t]
<1>0. /\ Inv2 /\ FreshEmpty /\ UNCHANGED <<frames, page_table, guard, owned, latest>>
      /\ fresh' = [fresh EXCEPT ![t] = kInvalidPageId] /\ (FreePage(p) \/ FreePageFails(p))
  BY DEF Inv3, NewPageUndo, NewPageEnds, poolVars
<1>1. /\ p \in PageIds /\ p \notin owned /\ p \in InUse
      /\ \A u \in Threads : u # t => fresh[u] # p
  BY Constants DEF Inv3, NewPageUndo, Inv2, Inv1, FreshApart, TypeOK, InUse
<1>2. \A q \in PageIds : q # p => pages'[q] = pages[q]
  <2>1. Free(free_list_head) \in Bytes /\ DiskTypeOK /\ pages \in [PageIds -> Bytes]
    BY <1>0, FileFacts, Constants DEF Inv2, Inv1, TypeOK
  <2>2. \/ pages' = [pages EXCEPT ![p] = Free(free_list_head)]
        \/ pages' \in FailedWrite(p, Free(free_list_head))
    BY <1>0 DEF FreePage, FreePageFails
  <2> HIDE DEF p
  <2> QED BY <1>1, <2>1, <2>2, FailedWriteType
<1> HIDE DEF p
<1>3. LatestKept' /\ CleanFrames'
  BY <1>0, <1>1, <1>2, OtherPages
<1>4. FreshEmpty'
  <2>1. SUFFICES ASSUME NEW u \in Threads, fresh'[u] # kInvalidPageId
                 PROVE  pages'[fresh'[u]].data = "zero"
    BY DEF FreshEmpty
  <2>2. u # t /\ fresh'[u] = fresh[u] /\ fresh[u] \in PageIds
    BY <1>0, <2>1, CacheFacts
  <2> QED BY <1>0, <1>1, <1>2, <2>1, <2>2 DEF FreshEmpty
<1> QED BY <1>3, <1>4 DEF Contents

LEMMA DeletePageContents ==
  ASSUME Inv3, NEW t \in Threads, NEW p \in PageIds, DeletePage(t, p)
  PROVE  Contents'
<1>0. /\ Inv2 /\ FreshEmpty /\ p \in owned /\ owned' = owned \ {p}
      /\ frames' = [f \in Frames |-> IF f = page_table[p] THEN Empty ELSE frames[f]]
      /\ page_table' = [page_table EXCEPT ![p] = 0]
      /\ UNCHANGED <<guard, fresh, latest>>
  BY DEF Inv3, DeletePage
<1>1. \A q \in PageIds : q # p => pages'[q] = pages[q]
  <2>1. Free(free_list_head) \in Bytes /\ DiskTypeOK /\ pages \in [PageIds -> Bytes]
    BY <1>0, FileFacts, Constants DEF Inv2, Inv1, TypeOK
  <2>2. \/ pages' = [pages EXCEPT ![p] = Free(free_list_head)]
        \/ pages' \in FailedWrite(p, Free(free_list_head))
    BY DEF DeletePage, FreePage, FreePageFails
  <2> QED BY <2>1, <2>2, FailedWriteType
<1>2. \A q \in PageIds : q # p => page_table'[q] = page_table[q]
  BY <1>0, CacheFacts
<1>3. LatestKept' /\ CleanFrames'
  BY <1>0, <1>1, <1>2, OtherPages
<1>4. FreshEmpty'
  <2>1. SUFFICES ASSUME NEW u \in Threads, fresh[u] # kInvalidPageId
                 PROVE  pages'[fresh[u]].data = "zero"
    BY <1>0 DEF FreshEmpty
  <2>2. fresh[u] \in PageIds /\ fresh[u] # p
    BY <1>0, <2>1, CacheFacts
  <2> QED BY <1>0, <1>1, <2>1, <2>2 DEF FreshEmpty
<1> QED BY <1>3, <1>4 DEF Contents

LEMMA StopContents ==
  ASSUME Inv3, Stop
  PROVE  Contents'
<1>0. /\ Inv2 /\ LatestKept /\ CleanFrames /\ guard = NoGuards /\ owned' = owned
      /\ page_table' = NoTable /\ fresh' = [t \in Threads |-> kInvalidPageId]
  BY DEF Inv3, Stop, PoolGone
<1>1. CleanFrames' /\ FreshEmpty'
  BY <1>0, CacheFacts, Constants DEF CleanFrames, FreshEmpty, NoTable
<1>2. LatestKept'
  <2>1. SUFFICES ASSUME NEW q \in owned PROVE latest'[q] = pages'[q].data
    BY <1>0, CacheFacts DEF LatestKept, NoTable
  <2>2. q \in PageIds /\ (page_table[q] # 0 => page_table[q] \in Frames)
    BY <1>0, CacheFacts
  <2>3. CASE pages' = FlushedPages(PoolSize) /\ latest' = latest
    <3>1. PoolSize \in 0..PoolSize
      BY Constants
    <3>2. pages'[q].data = IF page_table[q] \in Flushed(PoolSize)
                           THEN frames[page_table[q]].bytes.data ELSE pages[q].data
      BY <2>2, <2>3, <3>1, FlushedContents
    <3>3. latest[q] = IF page_table[q] = 0 THEN pages[q].data
                      ELSE frames[page_table[q]].bytes.data
      BY <1>0 DEF LatestKept
    <3>4. CASE page_table[q] = 0
      <4>1. 0 \notin Flushed(PoolSize)
        BY <3>1, FlushedContents, Constants
      <4> QED BY <2>3, <3>2, <3>3, <3>4, <4>1
    <3>5. CASE page_table[q] # 0 /\ frames[page_table[q]].dirty
      <4>1. frames[page_table[q]].id # kInvalidPageId
        BY <1>0, <2>2, <3>5, CacheFacts, Constants
      <4>2. page_table[q] \in Flushed(PoolSize)
        BY <2>2, <3>5, <4>1, Constants DEF Flushed
      <4> QED BY <2>3, <3>2, <3>3, <3>5, <4>2
    <3>6. CASE page_table[q] # 0 /\ ~frames[page_table[q]].dirty
      <4>1. \A u \in Threads : ~guard[u].writable
        BY <1>0, Constants DEF NoGuards
      <4>2. frames[page_table[q]].bytes.data = pages[q].data
        BY <1>0, <2>2, <3>6, <4>1 DEF CleanFrames
      <4> QED BY <2>3, <3>2, <3>3, <3>6, <4>2
    <3> QED BY <3>4, <3>5, <3>6
  <2>4. CASE latest' = [p \in PageIds |-> pages'[p].data]
    BY <2>2, <2>4
  <2> QED BY <2>3, <2>4 DEF Stop
<1> QED BY <1>1, <1>2 DEF Contents

LEMMA CrashContents ==
  ASSUME Inv3, Crash
  PROVE  Contents'
<1>1. /\ Inv2 /\ owned' \subseteq owned /\ latest' = [p \in PageIds |-> pages'[p].data]
      /\ page_table' = NoTable /\ fresh' = [t \in Threads |-> kInvalidPageId]
  BY DEF Inv3, Crash, PoolGone
<1>2. \A q \in owned' : q \in PageIds
  BY <1>1, CacheFacts
<1>3. CleanFrames' /\ FreshEmpty'
  BY <1>1, <1>2, Constants DEF CleanFrames, FreshEmpty, NoTable
<1>4. LatestKept'
  BY <1>1, <1>2 DEF LatestKept, NoTable
<1> QED BY <1>3, <1>4 DEF Contents

LEMMA UnchangedContents ==
  ASSUME Inv3, UNCHANGED <<pages, frames, page_table, guard, fresh, owned, latest>>
  PROVE  Contents'
<1>1. LatestKept'
  BY DEF Inv3, LatestKept
<1>2. CleanFrames'
  BY DEF Inv3, CleanFrames
<1>3. FreshEmpty'
  BY DEF Inv3, FreshEmpty
<1> QED BY <1>1, <1>2, <1>3 DEF Contents

LEMMA NextInv3 ==
  ASSUME Inv3, ~TornWrites, [Next]_vars
  PROVE  Inv3'
<1>1. Inv2'
  BY NextInv2 DEF Inv3
<1>2. Start => Contents'
  BY UnchangedContents DEF Start, DiskOpen, poolVars
<1>3. UNCHANGED vars => Contents'
  BY UnchangedContents DEF vars, diskVars, poolVars
<1>4. Contents'
  BY <1>2, <1>3, StopContents, CrashContents, FetchPageContents, WriteThroughContents,
     DropContents, NewPageContents, NewPageFetchContents, NewPageUndoContents,
     DeletePageContents, FlushPageContents, FlushAllPagesContents DEF Next
<1> QED BY <1>1, <1>4 DEF Inv3, Contents

\* Whoever fetches a page gets what was last written to it, for every number of
\* frames, pages and threads, where a write that fails leaves the page as it
\* was: TLC refutes this for torn writes, which FlushPage of a clean frame and
\* the write-back of a victim do not survive.
THEOREM LatestIsKept ==
  ASSUME ~TornWrites
  PROVE  Spec => []LatestKept
<1>1. Init => Inv3
  BY InitInv2, InitContents DEF Inv3, Contents
<1>2. Inv3 /\ [Next]_vars => Inv3'
  BY NextInv3
<1>3. Inv3 => LatestKept
  BY DEF Inv3
<1> QED BY <1>1, <1>2, <1>3, PTL DEF Spec
=============================================================================
