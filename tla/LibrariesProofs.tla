--------------------------- MODULE LibrariesProofs ---------------------------
(***************************************************************************)
(* Proofs about the transaction manager, the table heap, the index, the    *)
(* replacer, the LIKE loop, values and their keys, SQL operators and the   *)
(* snapshot format, for every bound and every input.                       *)
(***************************************************************************)
EXTENDS Libraries, ValuesProofs

\* Every step of the specification is one of one library, which leaves the
\* variables of the others alone.
LEMMA OneLibrary ==
  ASSUME [Next]_vars
  PROVE  /\ Txn!Next \/ UNCHANGED txnVars
         /\ Heap!Next \/ UNCHANGED heapVars
         /\ Index!Next \/ UNCHANGED indexVars
         /\ Lruk!Next \/ UNCHANGED lrukVars
         /\ Loop!Next \/ UNCHANGED likeVars
         /\ UNCHANGED choice
BY DEF Next, vars, TransactionStep, HeapStep, IndexStep, ReplacerStep, LikeStep

\* A pure function is always looked at with an input of its own.
LEMMA InputGiven == Spec => [](input \in Inputs(subject))
<1>1. Init => input \in Inputs(subject)
  BY DEF Init
<1>2. input \in Inputs(subject) /\ [Next]_vars => (input \in Inputs(subject))'
  BY OneLibrary DEF choice
<1> QED BY <1>1, <1>2, PTL DEF Spec

-----------------------------------------------------------------------------
(***************************************************************************)
(* Transaction numbers and snapshots.                                      *)
(***************************************************************************)
NumberInv ==
  /\ nextId \in Nat \ {0} /\ nextId <= MaxTxn + 1
  /\ active \in SUBSET (1..nextId - 1)
  /\ committed \in SUBSET (1..nextId - 1)
  /\ active \cap committed = {}

\* What CurrentSnapshot has read so far: no transaction that runs now is older
\* than xmin, and unless another thread came in between, xmax is still the
\* next number.
ReaderInv ==
  /\ reader \in [at : {"idle", "xmax", "active"}, self : Nat, xmin : Nat,
                 xmax : Nat, raced : BOOLEAN]
  /\ reader.at = "idle" => reader = Txn!NoReader
  /\ reader.at # "idle" => /\ reader.xmin <= nextId
                           /\ \A x \in active : reader.xmin <= x
  /\ reader.at = "active" => /\ reader.xmax <= nextId
                             /\ ~reader.raced => reader.xmax = nextId

\* A transaction below xmax that the snapshot does not list as running is over,
\* for good.
Settled(s) ==
  /\ s.xmax \in Nat /\ s.xmax <= nextId
  /\ \A x \in 1..MaxTxn :
       x < s.xmax /\ x \notin s.active /\ x # s.self => x \notin active

\* What holds of a snapshot from the moment it is handed out.
SnapshotInv(s) ==
  /\ Settled(s)
  /\ Txn!Visible(s) = s.seen
  /\ ~s.raced => s.seen \ {s.self} = s.committed \ {s.self}
  /\ \A x \in 1..s.xmin - 1 : x \in s.over \cup {s.self}

TxnInv ==
  /\ NumberInv /\ ReaderInv
  /\ \A s \in snaps : SnapshotInv(s)

LEMMA OldestFacts ==
  ASSUME NumberInv, NEW next \in Nat, nextId <= next
  PROVE  /\ Txn!Oldest(next) \in Nat /\ Txn!Oldest(next) <= next
         /\ \A x \in active : Txn!Oldest(next) <= x
<1>1. CASE active = {}
  BY <1>1 DEF Txn!Oldest
<1>2. CASE active # {}
  <2>1. active \in SUBSET Nat /\ \A x \in active : x < nextId
    BY DEF NumberInv
  <2>2. PICK m \in active : \A y \in active : m <= y
    BY <1>2, <2>1, LeastNatural
  <2>3. Txn!Min(active) \in active /\ \A y \in active : Txn!Min(active) <= y
    BY <2>2 DEF Txn!Min
  <2>4. Txn!Oldest(next) = Txn!Min(active)
    BY <1>2 DEF Txn!Oldest
  <2>5. nextId \in Nat
    BY DEF NumberInv
  <2>6. \A o \in active : o \in Nat /\ o <= next
    BY <2>1, <2>5
  <2>7. Txn!Min(active) \in Nat /\ Txn!Min(active) <= next
    BY <2>3, <2>6
  <2> QED BY <2>3, <2>4, <2>7
<1> QED BY <1>1, <1>2

\* A snapshot that is handed out sees what is committed unless the call raced,
\* and has no running transaction below xmin.
LEMMA HandedOut ==
  ASSUME NumberInv, NEW self, NEW xmin \in Nat, NEW xmax \in Nat, NEW act,
         NEW raced \in BOOLEAN, NEW s,
         s = Txn!Remembered([self |-> self, xmin |-> xmin, xmax |-> xmax, active |-> act],
                            raced),
         act \subseteq active,
         xmin <= nextId \/ (xmin = nextId + 1 /\ self = nextId),
         \A x \in active : xmin <= x,
         ~raced => nextId <= xmax
  PROVE  /\ s.self = self /\ s.xmax = xmax /\ s.active = act
         /\ Txn!Visible(s) = s.seen
         /\ ~s.raced => s.seen \ {s.self} = s.committed \ {s.self}
         /\ \A x \in 1..s.xmin - 1 : x \in s.over \cup {s.self}
<1> DEFINE r == [self |-> self, xmin |-> xmin, xmax |-> xmax, active |-> act]
<1>1. /\ r.self = self /\ r.xmin = xmin /\ r.xmax = xmax /\ r.active = act
  OBVIOUS
<1> HIDE DEF r
<1>2. /\ s.self = self /\ s.xmin = xmin /\ s.xmax = xmax /\ s.active = act
      /\ s.raced = raced /\ s.seen = Txn!Visible(r) /\ s.committed = committed
      /\ s.over = (1..nextId - 1) \ active
  BY <1>1 DEF Txn!Remembered, r
<1>3. Txn!Visible(s) = s.seen
  BY <1>1, <1>2 DEF Txn!Visible, Txn!CommittedBefore
<1>4. ASSUME ~raced
      PROVE  s.seen \ {self} = committed \ {self}
  <2>1. committed \subseteq 1..MaxTxn /\ \A x \in committed : x < nextId /\ x \notin act
    BY CounterAssumption DEF NumberInv
  <2>2. \A x \in committed : x < xmax
    BY <1>4, <2>1 DEF NumberInv
  <2> QED BY <1>1, <1>2, <2>1, <2>2 DEF Txn!Visible, Txn!CommittedBefore
<1>5. \A x \in 1..xmin - 1 : x \in s.over \cup {self}
  BY <1>2 DEF NumberInv
<1> QED BY <1>2, <1>3, <1>4, <1>5

\* What holds of a snapshot goes on holding, whatever the transactions do.
LEMMA SnapshotKept ==
  ASSUME NumberInv, nextId \in Nat, nextId' \in Nat, nextId <= nextId',
         active' \subseteq active \cup {nextId},
         committed \subseteq committed', committed' \subseteq committed \cup active,
         NEW s, SnapshotInv(s)
  PROVE  SnapshotInv(s)'
<1>1. Settled(s)'
  BY DEF SnapshotInv, Settled, NumberInv
<1>2. Txn!Visible(s)' = Txn!Visible(s)
  BY DEF SnapshotInv, Settled, Txn!Visible, Txn!CommittedBefore
<1> QED BY <1>1, <1>2 DEF SnapshotInv

LEMMA SnapshotsKept ==
  ASSUME TxnInv, nextId' \in Nat, nextId <= nextId',
         active' \subseteq active \cup {nextId},
         committed \subseteq committed', committed' \subseteq committed \cup active
  PROVE  \A s \in snaps : SnapshotInv(s)'
<1> SUFFICES ASSUME NEW s \in snaps PROVE SnapshotInv(s)'
  OBVIOUS
<1>1. NumberInv /\ SnapshotInv(s) /\ nextId \in Nat
  BY DEF TxnInv, NumberInv
<1> QED BY <1>1, SnapshotKept

\* A step under the mutex marks the call under way as raced.
LEMMA ReaderKept ==
  ASSUME NumberInv, ReaderInv, Txn!Locked, nextId' \in Nat, nextId <= nextId',
         \A x \in active' : x \in active \/ x = nextId
  PROVE  ReaderInv'
<1>1. CASE reader = Txn!NoReader
  BY <1>1 DEF ReaderInv, Txn!Locked, Txn!NoReader
<1>2. CASE reader # Txn!NoReader
  <2>1. /\ reader' \in [at : {"idle", "xmax", "active"}, self : Nat, xmin : Nat,
                        xmax : Nat, raced : BOOLEAN]
        /\ reader'.at = reader.at /\ reader'.xmin = reader.xmin
        /\ reader'.xmax = reader.xmax /\ reader'.raced
    BY <1>2 DEF ReaderInv, Txn!Locked
  <2>2. reader.at # "idle" /\ reader.xmin \in Nat /\ reader.xmax \in Nat /\ nextId \in Nat
    BY <1>2 DEF ReaderInv, NumberInv
  <2>3. reader.xmin <= nextId' /\ \A x \in active' : reader.xmin <= x
    <3>1. reader.xmin <= nextId /\ \A x \in active : reader.xmin <= x
      BY <2>2 DEF ReaderInv
    <3> QED BY <2>2, <3>1
  <2>4. reader.at = "active" => reader.xmax <= nextId'
    BY <2>2 DEF ReaderInv
  <2> QED BY <2>1, <2>2, <2>3, <2>4 DEF ReaderInv
<1> QED BY <1>1, <1>2

LEMMA TxnStep ==
  ASSUME TxnInv, Txn!Next \/ UNCHANGED txnVars
  PROVE  TxnInv'
<1>0. NumberInv /\ ReaderInv /\ nextId \in Nat
  BY DEF TxnInv, NumberInv
<1>1. CASE Txn!Begin
  <2>1. /\ nextId <= MaxTxn /\ nextId' = nextId + 1 /\ active' = active \cup {nextId}
        /\ committed' = committed /\ Txn!Locked
    BY <1>1 DEF Txn!Begin
  <2>2. NumberInv'
    BY <1>0, <2>1, CounterAssumption DEF NumberInv
  <2>3. ReaderInv'
    BY <1>0, <2>1, ReaderKept
  <2>4. PICK n \in Nat : n = nextId
    BY <1>0
  <2>5. PICK act : act = active
    OBVIOUS
  <2>6. PICK xmin \in Nat : /\ xmin = Txn!Oldest(n + 1) /\ xmin <= n + 1
                            /\ \A x \in active : xmin <= x
    BY <1>0, <2>4, OldestFacts
  <2>7. PICK s : s = Txn!Remembered([self |-> n, xmin |-> xmin, xmax |-> n + 1,
                                     active |-> act], FALSE)
    OBVIOUS
  <2>8. snaps' = snaps \cup {s}
    BY <1>1, <2>4, <2>5, <2>6, <2>7 DEF Txn!Begin
  <2>9. n + 1 \in Nat /\ nextId <= n + 1 /\ (xmin <= nextId \/ (xmin = nextId + 1 /\ n = nextId))
    BY <2>4, <2>6
  <2>10. /\ s.self = n /\ s.xmax = n + 1 /\ s.active = act
         /\ Txn!Visible(s) = s.seen
         /\ ~s.raced => s.seen \ {s.self} = s.committed \ {s.self}
         /\ \A x \in 1..s.xmin - 1 : x \in s.over \cup {s.self}
    <3>1. act \subseteq active /\ (\A x \in active : xmin <= x) /\ xmin \in Nat /\ FALSE \in BOOLEAN
      BY <2>5, <2>6
    <3>2. ASSUME NEW xmax \in Nat, NEW raced \in BOOLEAN, xmax = n + 1, raced = FALSE
          PROVE  /\ s.self = n /\ s.xmax = xmax /\ s.active = act
                 /\ Txn!Visible(s) = s.seen
                 /\ ~s.raced => s.seen \ {s.self} = s.committed \ {s.self}
                 /\ \A x \in 1..s.xmin - 1 : x \in s.over \cup {s.self}
      <4>1. /\ s = Txn!Remembered([self |-> n, xmin |-> xmin, xmax |-> xmax,
                                   active |-> act], raced)
            /\ ~raced => nextId <= xmax
        BY <2>7, <2>9, <3>2
      <4> QED BY <1>0, <2>9, <3>1, <4>1, HandedOut
    <3> QED BY <2>9, <3>2
  <2>11. Settled(s)'
    BY <2>1, <2>4, <2>5, <2>10 DEF Settled
  <2>12. Txn!Visible(s)' = Txn!Visible(s)
    BY <2>1 DEF Txn!Visible, Txn!CommittedBefore
  <2>13. SnapshotInv(s)'
    BY <2>10, <2>11, <2>12 DEF SnapshotInv
  <2>14. \A u \in snaps : SnapshotInv(u)'
    BY <1>0, <2>1, SnapshotsKept
  <2> QED BY <2>2, <2>3, <2>8, <2>13, <2>14 DEF TxnInv
<1>2. ASSUME NEW t \in active, Txn!Commit(t) \/ Txn!Abort(t)
      PROVE  TxnInv'
  <2>1. /\ nextId' = nextId /\ active' = active \ {t}
        /\ committed' \in {committed, committed \cup {t}} /\ Txn!Locked /\ snaps' = snaps
    BY <1>2 DEF Txn!Commit, Txn!Abort
  <2>2. NumberInv'
    BY <1>0, <2>1 DEF NumberInv
  <2>3. ReaderInv'
    BY <1>0, <2>1, ReaderKept
  <2>4. \A u \in snaps : SnapshotInv(u)'
    BY <1>0, <2>1, SnapshotsKept
  <2> QED BY <2>1, <2>2, <2>3, <2>4 DEF TxnInv
<1>3. ASSUME NEW self \in active \cup {0}, Txn!ReadXmin(self)
      PROVE  TxnInv'
  <2>1. UNCHANGED <<nextId, active, committed, snaps>>
    BY <1>3 DEF Txn!ReadXmin
  <2>2. /\ Txn!Oldest(nextId) \in Nat /\ Txn!Oldest(nextId) <= nextId
        /\ \A x \in active : Txn!Oldest(nextId) <= x
    BY <1>0, OldestFacts
  <2>3. ReaderInv'
    BY <1>0, <1>3, <2>1, <2>2 DEF ReaderInv, NumberInv, Txn!ReadXmin
  <2>4. NumberInv'
    BY <1>0, <2>1 DEF NumberInv
  <2>5. \A u \in snaps : SnapshotInv(u)'
    BY <1>0, <2>1, SnapshotsKept
  <2> QED BY <2>1, <2>3, <2>4, <2>5 DEF TxnInv
<1>4. CASE Txn!ReadXmax
  <2>1. UNCHANGED <<nextId, active, committed, snaps>>
    BY <1>4 DEF Txn!ReadXmax
  <2>2. reader.at = "xmax" /\ reader' = [reader EXCEPT !.at = "active", !.xmax = nextId]
    BY <1>4 DEF Txn!ReadXmax
  <2>3. /\ reader' \in [at : {"idle", "xmax", "active"}, self : Nat, xmin : Nat,
                        xmax : Nat, raced : BOOLEAN]
        /\ reader'.at = "active" /\ reader'.xmin = reader.xmin /\ reader'.xmax = nextId
    BY <1>0, <2>2 DEF ReaderInv
  <2>4. ReaderInv'
    BY <1>0, <2>1, <2>2, <2>3 DEF ReaderInv
  <2>5. NumberInv'
    BY <1>0, <2>1 DEF NumberInv
  <2>6. \A u \in snaps : SnapshotInv(u)'
    BY <1>0, <2>1, SnapshotsKept
  <2> QED BY <2>1, <2>4, <2>5, <2>6 DEF TxnInv
<1>5. CASE Txn!ReadActive
  <2>1. UNCHANGED <<nextId, active, committed>> /\ reader' = Txn!NoReader
    BY <1>5 DEF Txn!ReadActive
  <2>2. NumberInv' /\ ReaderInv'
    BY <1>0, <2>1 DEF NumberInv, ReaderInv, Txn!NoReader
  <2>3. /\ reader.self \in Nat /\ reader.xmin \in Nat /\ reader.xmax \in Nat
        /\ reader.raced \in BOOLEAN
        /\ reader.xmin <= nextId /\ reader.xmax <= nextId
        /\ \A x \in active : reader.xmin <= x
        /\ ~reader.raced => nextId <= reader.xmax
    BY <1>0, <1>5 DEF ReaderInv, NumberInv, Txn!ReadActive
  <2>4. PICK self \in Nat, xmin \in Nat, xmax \in Nat, raced \in BOOLEAN :
          self = reader.self /\ xmin = reader.xmin /\ xmax = reader.xmax /\ raced = reader.raced
    BY <2>3
  <2>5. PICK act : act = active \ {self}
    OBVIOUS
  <2>6. PICK s : s = Txn!Remembered([self |-> self, xmin |-> xmin, xmax |-> xmax,
                                     active |-> act], raced)
    OBVIOUS
  <2>7. snaps' = snaps \cup {s}
    BY <1>5, <2>4, <2>5, <2>6 DEF Txn!ReadActive
  <2>8. /\ s.self = self /\ s.xmax = xmax /\ s.active = act
        /\ Txn!Visible(s) = s.seen
        /\ ~s.raced => s.seen \ {s.self} = s.committed \ {s.self}
        /\ \A x \in 1..s.xmin - 1 : x \in s.over \cup {s.self}
    <3>1. /\ xmin <= nextId /\ act \subseteq active /\ (\A x \in active : xmin <= x)
          /\ (~raced => nextId <= xmax)
      BY <2>3, <2>4, <2>5
    <3> QED BY <1>0, <2>6, <3>1, HandedOut
  <2>9. Settled(s)'
    BY <2>1, <2>3, <2>4, <2>5, <2>8 DEF Settled
  <2>10. Txn!Visible(s)' = Txn!Visible(s)
    BY <2>1 DEF Txn!Visible, Txn!CommittedBefore
  <2>11. SnapshotInv(s)'
    BY <2>8, <2>9, <2>10 DEF SnapshotInv
  <2>12. \A u \in snaps : SnapshotInv(u)'
    BY <1>0, <2>1, SnapshotsKept
  <2> QED BY <2>2, <2>7, <2>11, <2>12 DEF TxnInv
<1>6. CASE UNCHANGED txnVars
  <2>1. UNCHANGED <<nextId, active, committed, reader, snaps>>
    BY <1>6 DEF txnVars
  <2>2. NumberInv' /\ ReaderInv'
    BY <1>0, <2>1 DEF NumberInv, ReaderInv
  <2>3. \A u \in snaps : SnapshotInv(u)'
    BY <1>0, <2>1, SnapshotsKept
  <2> QED BY <2>1, <2>2, <2>3 DEF TxnInv
<1> QED BY <1>1, <1>2, <1>3, <1>4, <1>5, <1>6 DEF Txn!Next

LEMMA TxnInductive == Spec => []TxnInv
<1>1. Init => TxnInv
  BY CounterAssumption
     DEF Init, Txn!Init, Txn!NoReader, TxnInv, NumberInv, ReaderInv
<1>2. TxnInv /\ [Next]_vars => TxnInv'
  BY OneLibrary, TxnStep
<1> QED BY <1>1, <1>2, PTL DEF Spec

\* However many transactions begin, commit and abort after a snapshot has been
\* handed out, it sees what it saw then, although CurrentSnapshot reads
\* next_id_ and active_ without the mutex (src/src/txn/transaction_manager.cpp).
THEOREM SnapshotsAreStable == Spec => []SnapshotStable
<1>1. TxnInv => SnapshotStable
  BY DEF TxnInv, SnapshotInv, SnapshotStable, Txn!SnapshotStable
<1> QED BY <1>1, TxnInductive, PTL

\* Below xmin of a snapshot every transaction was over when it was handed out,
\* even when other threads came between its reads of xmin and of active_.
THEOREM XminIsSafe == Spec => []XminSafe
<1>1. TxnInv => XminSafe
  BY DEF TxnInv, SnapshotInv, XminSafe, Txn!XminSafe
<1> QED BY <1>1, TxnInductive, PTL

-----------------------------------------------------------------------------
(***************************************************************************)
(* Row addresses of the table heap.                                        *)
(***************************************************************************)
\* The address a comes before the one that is given out next.
Passed(a) == a[1] < nextPage \/ (a[1] = nextPage /\ a[2] < nextSlot)

Addresses == {given[i] : i \in 1..Len(given)}

HeapInv ==
  /\ nextPage \in Nat /\ nextSlot \in 0..SlotsPerPage - 1
  /\ given \in Seq(Nat \X Nat)
  /\ \A a \in Addresses : Passed(a)
  /\ DOMAIN tuples \subseteq Addresses
  /\ HeapFaithful

\* The counters only grow, also when the slots of a page are used up.
LEMMA AdvanceGrows ==
  ASSUME HeapInv, Heap!Advance
  PROVE  /\ nextPage' \in Nat /\ nextSlot' \in 0..SlotsPerPage - 1
         /\ \A a \in Nat \X Nat : Passed(a) => Passed(a)'
         /\ \A a \in Nat \X Nat : a = <<nextPage, nextSlot>> => Passed(a)'
<1>1. /\ nextPage \in Nat /\ nextSlot \in Nat /\ nextSlot < SlotsPerPage
      /\ SlotsPerPage \in Nat /\ SlotsPerPage > 0
  BY CounterAssumption DEF HeapInv
<1>2. CASE nextSlot + 1 = SlotsPerPage
  <2>1. nextSlot' = 0
    BY <1>1, <1>2 DEF Heap!Advance
  <2>2. nextPage' = nextPage + 1
    BY <2>1 DEF Heap!Advance
  <2> QED BY <1>1, <2>1, <2>2 DEF Passed
<1>3. CASE nextSlot + 1 # SlotsPerPage
  <2>1. nextSlot' = nextSlot + 1
    <3>1. nextSlot + 1 \in Nat /\ nextSlot + 1 < SlotsPerPage
      BY <1>1, <1>3
    <3> QED BY <1>1, <3>1 DEF Heap!Advance
  <2>2. nextPage' = nextPage
    BY <1>1, <2>1 DEF Heap!Advance
  <2> QED BY <1>1, <1>3, <2>1, <2>2 DEF Passed
<1> QED BY <1>2, <1>3

LEMMA HeapInserts ==
  ASSUME HeapInv, NEW t, Heap!InsertTuple(t)
  PROVE  HeapInv'
<1>0. /\ nextPage \in Nat /\ nextSlot \in Nat /\ given \in Seq(Nat \X Nat)
      /\ Len(given) \in Nat /\ tuples = stored
  BY CounterAssumption DEF HeapInv, HeapFaithful, Heap!HeapFaithful
<1>1. PICK rid \in Nat \X Nat : rid = <<nextPage, nextSlot>>
  BY <1>0
<1>2. /\ Heap!Advance /\ given' = Append(given, rid)
      /\ tuples' = (IF rid \in DOMAIN tuples THEN tuples ELSE Heap!With(tuples, rid, t))
      /\ stored' = Heap!With(stored, rid, t)
  BY <1>1 DEF Heap!InsertTuple
<1>3. ~Passed(rid)
  BY <1>0, <1>1 DEF Passed
<1>4. /\ nextPage' \in Nat /\ nextSlot' \in 0..SlotsPerPage - 1
      /\ \A a \in Nat \X Nat : Passed(a) => Passed(a)'
      /\ Passed(rid)'
  BY <1>1, <1>2, AdvanceGrows
<1>5. /\ given' \in Seq(Nat \X Nat) /\ Len(given') = Len(given) + 1
      /\ \A i \in 1..Len(given) : given'[i] = given[i]
      /\ given'[Len(given) + 1] = rid
  BY <1>0, <1>1, <1>2
<1>6. Addresses \subseteq Nat \X Nat /\ rid \notin Addresses
  BY <1>0, <1>3, SMTT(30) DEF HeapInv, Addresses
<1>7. Addresses' = Addresses \cup {rid}
  <2>1. 1..Len(given') = (1..Len(given)) \cup {Len(given) + 1}
    BY <1>0, <1>5
  <2>2. ASSUME NEW a PROVE a \in Addresses' <=> a \in Addresses \cup {rid}
    <3>1. a \in Addresses' <=> \E i \in 1..Len(given') : a = given'[i]
      BY DEF Addresses
    <3>2. a \in Addresses <=> \E i \in 1..Len(given) : a = given[i]
      BY DEF Addresses
    <3>3. (\E i \in 1..Len(given') : a = given'[i])
            <=> (\E i \in 1..Len(given) : a = given'[i]) \/ a = given'[Len(given) + 1]
      BY <2>1
    <3> QED BY <1>5, <3>1, <3>2, <3>3
  <2> QED BY <2>2
<1>8. \A a \in Addresses' : Passed(a)'
  BY <1>4, <1>6, <1>7 DEF HeapInv
<1>9. /\ tuples' = Heap!With(tuples, rid, t) /\ tuples' = stored'
      /\ DOMAIN tuples' \subseteq Addresses'
  BY <1>0, <1>2, <1>6, <1>7 DEF HeapInv, Heap!With
<1>10. ASSUME NEW i \in 1..Len(given'), NEW j \in 1..Len(given'), i # j
       PROVE  given'[i] # given'[j]
  <2>1. \A k \in 1..Len(given) : given'[k] = given[k] /\ given[k] # rid
    BY <1>5, <1>6 DEF Addresses
  <2>2. \A k \in 1..Len(given') : k \in 1..Len(given) \/ k = Len(given) + 1
    BY <1>0, <1>5
  <2>3. \A k, l \in 1..Len(given) : k # l => given[k] # given[l]
    BY DEF HeapInv, HeapFaithful, Heap!HeapFaithful
  <2> QED BY <1>5, <1>10, <2>1, <2>2, <2>3
<1> QED BY <1>4, <1>5, <1>8, <1>9, <1>10 DEF HeapInv, HeapFaithful, Heap!HeapFaithful

LEMMA HeapStepKeeps ==
  ASSUME HeapInv, Heap!Next \/ UNCHANGED heapVars
  PROVE  HeapInv'
<1>0. tuples = stored
  BY DEF HeapInv, HeapFaithful, Heap!HeapFaithful
<1>1. ASSUME UNCHANGED <<nextPage, nextSlot, given>>, tuples' = stored',
             DOMAIN tuples' \subseteq DOMAIN tuples
      PROVE  HeapInv'
  <2>1. Addresses' = Addresses /\ \A a : Passed(a)' = Passed(a)
    BY <1>1 DEF Addresses, Passed
  <2> QED BY <1>1, <2>1 DEF HeapInv, HeapFaithful, Heap!HeapFaithful
<1>2. ASSUME NEW rid \in DOMAIN tuples, Heap!MarkDelete(rid)
      PROVE  HeapInv'
  BY <1>0, <1>1, <1>2 DEF Heap!MarkDelete, Heap!Without
<1>3. ASSUME NEW rid \in DOMAIN tuples, NEW t \in Tuples, Heap!UpdateTuple(rid, t)
      PROVE  HeapInv'
  BY <1>0, <1>1, <1>3 DEF Heap!UpdateTuple
<1>4. CASE UNCHANGED heapVars
  BY <1>0, <1>1, <1>4 DEF heapVars
<1> QED BY <1>2, <1>3, <1>4, HeapInserts DEF Heap!Next

LEMMA HeapInductive == Spec => []HeapInv
<1>1. Init => HeapInv
  <2> SUFFICES ASSUME Heap!Init PROVE HeapInv
    BY DEF Init
  <2>1. /\ tuples = <<>> /\ stored = <<>> /\ given = <<>> /\ nextPage = 1 /\ nextSlot = 0
        /\ Addresses = {} /\ DOMAIN tuples = {}
    BY DEF Heap!Init, Addresses
  <2> QED BY <2>1, CounterAssumption DEF HeapInv, HeapFaithful, Heap!HeapFaithful
<1>2. HeapInv /\ [Next]_vars => HeapInv'
  BY OneLibrary, HeapStepKeeps
<1> QED BY <1>1, <1>2, PTL DEF Spec

\* InsertTuple never gives an address out twice, across pages and over deleted
\* tuples, for every number of slots on a page, and emplace always finds the
\* address free, so that what was stored is found
\* (src/src/table/table_heap.cpp).
THEOREM AddressesAreFresh == Spec => []HeapFaithful
<1>1. HeapInv => HeapFaithful
  BY DEF HeapInv
<1> QED BY <1>1, HeapInductive, PTL

-----------------------------------------------------------------------------
(***************************************************************************)
(* The access times of the replacer.                                       *)
(***************************************************************************)
\* a is the last K entries of h, or all of them.
LastOf(a, h) ==
  /\ a \in Seq(Nat) /\ h \in Seq(Nat)
  /\ Len(a) = IF Len(h) <= K THEN Len(h) ELSE K
  /\ \A i \in 1..Len(a) : a[i] = h[Len(h) - Len(a) + i]

LrukInv ==
  /\ clock \in Nat
  /\ DOMAIN accesses \subseteq Frames /\ evictable \subseteq DOMAIN accesses
  /\ history \in [Frames -> Seq(Nat)]
  /\ \A f \in DOMAIN accesses : LastOf(accesses[f], history[f]) /\ Len(history[f]) > 0
  /\ \A f \in Frames \ DOMAIN accesses : history[f] = <<>>

\* push_back, and pop_front beyond K, keep the last K.
LEMMA RecentKeeps ==
  ASSUME NEW a, NEW h, LastOf(a, h), NEW c \in Nat
  PROVE  LastOf(Lruk!Recent(Append(a, c)), Append(h, c))
<1>0. /\ a \in Seq(Nat) /\ h \in Seq(Nat) /\ Len(a) \in Nat /\ Len(h) \in Nat
      /\ K \in Nat /\ K > 0
  BY CounterAssumption DEF LastOf
<1> DEFINE b == Append(a, c)
           k == Append(h, c)
<1>1. /\ b \in Seq(Nat) /\ Len(b) = Len(a) + 1 /\ b[Len(a) + 1] = c
      /\ \A i \in 1..Len(a) : b[i] = a[i]
  BY <1>0
<1>2. /\ k \in Seq(Nat) /\ Len(k) = Len(h) + 1 /\ k[Len(h) + 1] = c
      /\ \A i \in 1..Len(h) : k[i] = h[i]
  BY <1>0
<1> HIDE DEF b, k
<1>3. CASE Len(h) < K
  <2>1. Len(a) = Len(h) /\ \A i \in 1..Len(a) : a[i] = h[i]
    <3>1. \A i \in 1..Len(a) : a[i] = h[Len(h) - Len(a) + i]
      BY DEF LastOf
    <3>2. Len(a) = Len(h)
      BY <1>0, <1>3 DEF LastOf
    <3>3. \A i \in 1..Len(a) : Len(h) - Len(a) + i = i
      BY <1>0, <3>2
    <3> QED BY <3>1, <3>2, <3>3
  <2>2. Lruk!Recent(b) = b
    BY <1>0, <1>1, <1>3, <2>1 DEF Lruk!Recent
  <2>3. \A i \in 1..Len(b) : i \in 1..Len(a) \/ i = Len(a) + 1
    BY <1>0, <1>1
  <2>4. \A i \in 1..Len(b) : b[i] = k[i]
    BY <1>1, <1>2, <2>1, <2>3
  <2>5. \A i \in 1..Len(b) : Len(k) - Len(b) + i = i
    BY <1>0, <1>1, <1>2, <2>1
  <2>6. LastOf(b, k)
    <3>1. Len(b) = Len(k) /\ Len(k) <= K
      BY <1>0, <1>1, <1>2, <1>3, <2>1
    <3> QED BY <1>1, <1>2, <2>4, <2>5, <3>1 DEF LastOf
  <2> QED BY <2>2, <2>6 DEF b, k
<1>4. CASE Len(h) >= K
  <2>1. Len(a) = K /\ \A i \in 1..K : a[i] = h[Len(h) - K + i]
    <3>1. \A i \in 1..Len(a) : a[i] = h[Len(h) - Len(a) + i]
      BY DEF LastOf
    <3>2. Len(a) = K
      BY <1>0, <1>4 DEF LastOf
    <3> QED BY <3>1, <3>2
  <2>2. Lruk!Recent(b) = Tail(b)
    BY <1>0, <1>1, <2>1 DEF Lruk!Recent
  <2>3. /\ Tail(b) \in Seq(Nat) /\ Len(Tail(b)) = K
        /\ \A i \in 1..K : Tail(b)[i] = b[i + 1]
    BY <1>0, <1>1, <2>1
  <2>4. ASSUME NEW i \in 1..K
        PROVE  b[i + 1] = k[Len(k) - K + i]
    <3>1. CASE i = K
      BY <1>0, <1>1, <1>2, <2>1, <3>1
    <3>2. CASE i # K
      <4>1. i + 1 \in 1..K /\ Len(h) - K + (i + 1) \in 1..Len(h)
        BY <1>0, <1>4, <3>2
      <4>2. b[i + 1] = h[Len(h) - K + (i + 1)]
        BY <1>1, <2>1, <4>1
      <4>3. Len(k) - K + i = Len(h) - K + (i + 1)
        BY <1>0, <1>2
      <4> QED BY <1>2, <4>1, <4>2, <4>3
    <3> QED BY <3>1, <3>2
  <2>5. LastOf(Tail(b), k)
    <3>1. ~(Len(k) <= K)
      BY <1>0, <1>2, <1>4
    <3> QED BY <1>2, <2>3, <2>4, <3>1 DEF LastOf
  <2> QED BY <2>2, <2>5 DEF b, k
<1> QED BY <1>0, <1>3, <1>4

LEMMA TouchKeeps ==
  ASSUME LrukInv, NEW f \in Frames, Lruk!Touch(f),
         evictable' \subseteq evictable \cup {f}
  PROVE  LrukInv'
<1>0. /\ clock \in Nat /\ history \in [Frames -> Seq(Nat)]
  BY DEF LrukInv
<1>1. PICK c \in Nat : c = clock'
  BY <1>0 DEF Lruk!Touch
<1>2. PICK times : times = IF f \in DOMAIN accesses THEN accesses[f] ELSE <<>>
  OBVIOUS
<1>3. PICK new : new = Lruk!Recent(Append(times, c))
  OBVIOUS
<1>4. /\ accesses' = [g \in DOMAIN accesses \cup {f} |-> IF g = f THEN new ELSE accesses[g]]
      /\ history' = [history EXCEPT ![f] = Append(@, c)]
  BY <1>1, <1>2, <1>3 DEF Lruk!Touch, Lruk!Holding, Lruk!Known
<1>5. LastOf(times, history[f])
  <2>1. CASE f \in DOMAIN accesses
    BY <1>2, <2>1 DEF LrukInv
  <2>2. CASE f \notin DOMAIN accesses
    <3>1. times = <<>> /\ history[f] = <<>>
      BY <1>2, <2>2 DEF LrukInv
    <3> QED BY <3>1, CounterAssumption DEF LastOf
  <2> QED BY <2>1, <2>2
<1>6. LastOf(new, Append(history[f], c))
  BY <1>3, <1>5, RecentKeeps
<1>7. /\ DOMAIN accesses' = DOMAIN accesses \cup {f}
      /\ accesses'[f] = new
      /\ \A g \in DOMAIN accesses \ {f} : accesses'[g] = accesses[g]
  BY <1>4
<1>8. /\ history' \in [Frames -> Seq(Nat)]
      /\ history'[f] = Append(history[f], c) /\ Len(history'[f]) > 0
      /\ \A g \in Frames \ {f} : history'[g] = history[g]
  BY <1>0, <1>4
<1>9. \A g \in DOMAIN accesses' : LastOf(accesses'[g], history'[g]) /\ Len(history'[g]) > 0
  <2> SUFFICES ASSUME NEW g \in DOMAIN accesses'
               PROVE  LastOf(accesses'[g], history'[g]) /\ Len(history'[g]) > 0
    OBVIOUS
  <2>1. CASE g = f
    BY <1>6, <1>7, <1>8, <2>1
  <2>2. CASE g # f
    <3>1. /\ g \in DOMAIN accesses /\ accesses'[g] = accesses[g] /\ history'[g] = history[g]
          /\ LastOf(accesses[g], history[g]) /\ Len(history[g]) > 0
      BY <1>7, <1>8, <2>2 DEF LrukInv
    <3> QED BY <3>1
  <2> QED BY <2>1, <2>2
<1> QED BY <1>1, <1>7, <1>8, <1>9 DEF LrukInv, LastOf

LEMMA RemoveKeeps ==
  ASSUME LrukInv, NEW f \in Frames, Lruk!Remove(f)
  PROVE  LrukInv'
<1>1. /\ accesses' = [g \in DOMAIN accesses \ {f} |-> accesses[g]]
      /\ evictable' = evictable \ {f} /\ history' = [history EXCEPT ![f] = <<>>]
      /\ clock' = clock
  BY DEF Lruk!Remove, Lruk!Known
<1>2. /\ DOMAIN accesses' = DOMAIN accesses \ {f}
      /\ \A g \in DOMAIN accesses \ {f} : accesses'[g] = accesses[g]
  BY <1>1
<1>3. /\ history' \in [Frames -> Seq(Nat)] /\ history'[f] = <<>>
      /\ \A g \in Frames \ {f} : history'[g] = history[g]
  BY <1>1 DEF LrukInv
<1>4. \A g \in DOMAIN accesses' : LastOf(accesses'[g], history'[g]) /\ Len(history'[g]) > 0
  <2> SUFFICES ASSUME NEW g \in DOMAIN accesses'
               PROVE  LastOf(accesses'[g], history'[g]) /\ Len(history'[g]) > 0
    OBVIOUS
  <2>1. /\ g \in DOMAIN accesses /\ g # f
        /\ accesses'[g] = accesses[g]
        /\ LastOf(accesses[g], history[g]) /\ Len(history[g]) > 0
    BY <1>2 DEF LrukInv
  <2>2. history'[g] = history[g]
    BY <1>3, <2>1 DEF LrukInv
  <2> QED BY <2>1, <2>2
<1>5. DOMAIN accesses' \subseteq Frames /\ evictable' \subseteq DOMAIN accesses'
  BY <1>1, <1>2 DEF LrukInv
<1>6. clock' \in Nat /\ history' \in [Frames -> Seq(Nat)]
  BY <1>1, <1>3 DEF LrukInv
<1>7. ASSUME NEW g \in Frames \ DOMAIN accesses' PROVE history'[g] = <<>>
  <2>1. CASE g = f
    BY <1>3, <2>1
  <2>2. CASE g # f
    <3>1. g \in Frames \ DOMAIN accesses
      BY <1>2, <2>2
    <3>2. history'[g] = history[g] /\ history[g] = <<>>
      BY <1>3, <2>2, <3>1 DEF LrukInv
    <3> QED BY <3>2
  <2> QED BY <2>1, <2>2
<1> QED BY <1>4, <1>5, <1>6, <1>7 DEF LrukInv

LEMMA LrukStepKeeps ==
  ASSUME LrukInv, Lruk!Next \/ UNCHANGED lrukVars
  PROVE  LrukInv'
<1>1. ASSUME UNCHANGED <<accesses, clock, history>>, evictable' \subseteq DOMAIN accesses
      PROVE  LrukInv'
  BY <1>1 DEF LrukInv, LastOf
<1>2. ASSUME NEW f \in Frames, Lruk!RecordAccess(f)
      PROVE  LrukInv'
  <2>1. CASE Lruk!Touch(f) /\ UNCHANGED evictable
    BY <2>1, TouchKeeps
  <2>2. CASE UNCHANGED <<accesses, evictable, clock, history>>
    BY <1>1, <2>2 DEF LrukInv
  <2> QED BY <1>2, <2>1, <2>2 DEF Lruk!RecordAccess
<1>3. ASSUME NEW f \in Frames, NEW on \in BOOLEAN, Lruk!SetEvictable(f, on)
      PROVE  LrukInv'
  <2>1. evictable' \subseteq evictable \cup {f}
    BY <1>3 DEF Lruk!SetEvictable
  <2>2. CASE f \in DOMAIN accesses
    BY <1>1, <1>3, <2>1, <2>2 DEF Lruk!SetEvictable, Lruk!Known, LrukInv
  <2>3. CASE f \notin DOMAIN accesses
    BY <1>3, <2>1, <2>3, TouchKeeps DEF Lruk!SetEvictable, Lruk!Known
  <2> QED BY <2>2, <2>3
<1>4. CASE Lruk!Evict
  <2>1. PICK f \in evictable : Lruk!Remove(f)
    BY <1>4 DEF Lruk!Evict
  <2>2. f \in Frames
    BY <2>1 DEF LrukInv
  <2> QED BY <2>1, <2>2, RemoveKeeps
<1>5. CASE UNCHANGED lrukVars
  BY <1>1, <1>5 DEF lrukVars, LrukInv
<1> QED BY <1>2, <1>3, <1>4, <1>5, RemoveKeeps DEF Lruk!Next

LEMMA LrukInductive == Spec => []LrukInv
<1>1. Init => LrukInv
  <2> SUFFICES ASSUME Lruk!Init PROVE LrukInv
    BY DEF Init
  <2>1. /\ clock = 0 /\ evictable = {} /\ accesses = <<>> /\ DOMAIN accesses = {}
        /\ history = [f \in Frames |-> <<>>]
    BY DEF Lruk!Init
  <2>2. history \in [Frames -> Seq(Nat)] /\ \A f \in Frames : history[f] = <<>>
    BY <2>1
  <2> QED BY <2>1, <2>2 DEF LrukInv
<1>2. LrukInv /\ [Next]_vars => LrukInv'
  BY OneLibrary, LrukStepKeeps
<1> QED BY <1>1, <1>2, PTL DEF Spec

\* The order of two frames by the times that are kept is the one by the whole
\* history.
LEMMA BeforeByDistance ==
  ASSUME LrukInv, NEW f \in DOMAIN accesses, NEW g \in DOMAIN accesses
  PROVE  Lruk!Before(f, g)
           <=> \/ Lruk!Distance(f)[1] < Lruk!Distance(g)[1]
               \/ /\ Lruk!Distance(f)[1] = Lruk!Distance(g)[1]
                  /\ Lruk!Distance(f)[2] < Lruk!Distance(g)[2]
<1>1. ASSUME NEW h \in DOMAIN accesses
      PROVE  \/ /\ ~(Len(accesses[h]) >= K) /\ Lruk!Distance(h) = <<0, Head(accesses[h])>>
             \/ /\ Len(accesses[h]) >= K /\ Lruk!Distance(h) = <<1, Head(accesses[h])>>
  <2>1. /\ LastOf(accesses[h], history[h]) /\ Len(history[h]) > 0
        /\ Len(history[h]) \in Nat /\ K \in Nat /\ K > 0
    <3>1. LastOf(accesses[h], history[h]) /\ Len(history[h]) > 0
      BY DEF LrukInv
    <3>2. Len(history[h]) \in Nat
      BY <3>1 DEF LastOf
    <3> QED BY <3>1, <3>2, CounterAssumption
  <2>2. Len(accesses[h]) \in Nat /\ Len(accesses[h]) > 0 /\ accesses[h] \in Seq(Nat)
    BY <2>1 DEF LastOf
  <2>3. Head(accesses[h]) = accesses[h][1] /\ 1 \in 1..Len(accesses[h])
    BY <2>2
  <2>4. accesses[h][1] = history[h][Len(history[h]) - Len(accesses[h]) + 1]
    BY <2>1, <2>3 DEF LastOf
  <2>5. CASE Len(history[h]) < K
    <3>1. Len(accesses[h]) = Len(history[h])
      BY <2>1, <2>5 DEF LastOf
    <3>2. Len(history[h]) - Len(accesses[h]) + 1 = 1
      BY <2>1, <3>1
    <3> QED BY <2>1, <2>3, <2>4, <2>5, <3>1, <3>2 DEF Lruk!Distance
  <2>6. CASE ~(Len(history[h]) < K)
    <3>1. Len(accesses[h]) = K
      BY <2>1, <2>6 DEF LastOf
    <3> QED BY <2>1, <2>3, <2>4, <2>6, <3>1 DEF Lruk!Distance
  <2> QED BY <2>5, <2>6
<1> QED BY <1>1 DEF Lruk!Before

\* The K access times that are kept are enough to choose the victim of the
\* whole history, for every K, every capacity and every sequence of accesses,
\* removals and evictions (src/src/buffer/lruk_replacer.cpp).
THEOREM LruKIsExact == Spec => []EvictsByLruK
<1>1. LrukInv => EvictsByLruK
  <2> SUFFICES ASSUME LrukInv, NEW f \in evictable
      PROVE  Lruk!IsVictim(f) <=>
               \A g \in evictable \ {f} :
                 \/ Lruk!Distance(f)[1] < Lruk!Distance(g)[1]
                 \/ /\ Lruk!Distance(f)[1] = Lruk!Distance(g)[1]
                    /\ Lruk!Distance(f)[2] < Lruk!Distance(g)[2]
    BY DEF EvictsByLruK, Lruk!EvictsByLruK
  <2>1. evictable \subseteq DOMAIN accesses
    BY DEF LrukInv
  <2> QED BY <2>1, BeforeByDistance DEF Lruk!IsVictim
<1> QED BY <1>1, LrukInductive, PTL

-----------------------------------------------------------------------------
(***************************************************************************)
(* The LIKE loop.                                                          *)
(***************************************************************************)
\* The places that the rest of the pattern from j on leaves, given those of
\* the rest after it.
PlacesAt(f, v, p, j) ==
  IF j > Len(p) THEN {Len(v) + 1}
  ELSE IF p[j] = "%" THEN {i \in 1..Len(v) + 1 : \E k \in f[j + 1] : i <= k}
  ELSE {i \in 1..Len(v) : p[j] \in {"_", v[i]} /\ i + 1 \in f[j + 1]}

PlacesFrom(f, v, p, lo) == f = [j \in lo..Len(p) + 1 |-> PlacesAt(f, v, p, j)]

\* The places exist, from the end of the pattern on.
LEMMA PlacesExist ==
  ASSUME NEW v, NEW p, Len(p) \in Nat, NEW m \in Nat, m <= Len(p)
  PROVE  \E f : PlacesFrom(f, v, p, Len(p) + 1 - m)
<1> DEFINE S == {n \in Nat : n <= Len(p) => \E f : PlacesFrom(f, v, p, Len(p) + 1 - n)}
<1>1. 0 \in S
  <2> DEFINE f == [j \in Len(p) + 1..Len(p) + 1 |-> {Len(v) + 1}]
  <2>1. \A j \in Len(p) + 1..Len(p) + 1 : PlacesAt(f, v, p, j) = {Len(v) + 1}
    <3> HIDE DEF f
    <3>1. \A j \in Len(p) + 1..Len(p) + 1 : j > Len(p)
      OBVIOUS
    <3> QED BY <3>1 DEF PlacesAt
  <2>2. PlacesFrom(f, v, p, Len(p) + 1)
    BY <2>1 DEF PlacesFrom
  <2>3. Len(p) + 1 - 0 = Len(p) + 1
    OBVIOUS
  <2> HIDE DEF f
  <2> QED BY <2>2, <2>3
<1>2. ASSUME NEW n \in S PROVE n + 1 \in S
  <2> SUFFICES ASSUME n + 1 <= Len(p)
               PROVE  \E f : PlacesFrom(f, v, p, Len(p) + 1 - (n + 1))
    OBVIOUS
  <2>1. n \in Nat /\ n <= Len(p)
    OBVIOUS
  <2>2. PICK f : PlacesFrom(f, v, p, Len(p) + 1 - n)
    BY <2>1
  <2>3. PICK lo \in Nat : /\ lo = Len(p) + 1 - (n + 1) /\ lo + 1 = Len(p) + 1 - n
                          /\ 1 <= lo /\ lo <= Len(p)
    BY <2>1
  <2> DEFINE g == [j \in lo..Len(p) + 1 |-> IF j = lo THEN PlacesAt(f, v, p, lo) ELSE f[j]]
  <2>4. ASSUME NEW j \in lo..Len(p) + 1
        PROVE  g[j] = PlacesAt(g, v, p, j)
    <3>1. CASE j > Len(p)
      <4>1. j # lo /\ j \in lo + 1..Len(p) + 1
        BY <2>3, <3>1
      <4>2. g[j] = f[j]
        BY <4>1
      <4>3. f[j] = PlacesAt(f, v, p, j)
        BY <2>2, <2>3, <4>1 DEF PlacesFrom
      <4> QED BY <3>1, <4>2, <4>3 DEF PlacesAt
    <3>2. CASE ~(j > Len(p))
      <4>1. j + 1 \in lo + 1..Len(p) + 1 /\ j + 1 # lo /\ j + 1 \in lo..Len(p) + 1
        BY <2>3, <3>2
      <4>2. g[j + 1] = f[j + 1]
        BY <4>1
      <4>3. PlacesAt(g, v, p, j) = PlacesAt(f, v, p, j)
        BY <4>2 DEF PlacesAt
      <4>4. CASE j = lo
        BY <4>3, <4>4
      <4>5. CASE j # lo
        <5>1. j \in lo + 1..Len(p) + 1
          BY <2>3, <4>5
        <5>2. f[j] = PlacesAt(f, v, p, j)
          BY <2>2, <2>3, <5>1 DEF PlacesFrom
        <5> QED BY <4>3, <4>5, <5>2
      <4> QED BY <4>4, <4>5
    <3> QED BY <3>1, <3>2
  <2>5. g = [j \in lo..Len(p) + 1 |-> g[j]]
    OBVIOUS
  <2> HIDE DEF g
  <2>6. PlacesFrom(g, v, p, lo)
    BY <2>4, <2>5 DEF PlacesFrom
  <2> QED BY <2>3, <2>6
<1>3. S = Nat
  <2>1. S \in SUBSET Nat
    OBVIOUS
  <2> HIDE DEF S
  <2> QED BY <1>1, <1>2, <2>1, Inductive
<1> QED BY <1>3

LEMMA PlacesFacts ==
  ASSUME NEW v, NEW p, Len(p) \in Nat
  PROVE  \A j \in 1..Len(p) + 1 :
           Loop!Places(v, p)[j] = PlacesAt(Loop!Places(v, p), v, p, j)
<1>1. \E f : PlacesFrom(f, v, p, 1)
  <2>1. PICK m \in Nat : m = Len(p)
    OBVIOUS
  <2>2. m <= Len(p) /\ Len(p) + 1 - m = 1
    BY <2>1
  <2>3. \E f : PlacesFrom(f, v, p, Len(p) + 1 - m)
    BY <2>2, PlacesExist
  <2> QED BY <2>2, <2>3
<1>2. Loop!Places(v, p) = CHOOSE f : PlacesFrom(f, v, p, 1)
  BY DEF Loop!Places, PlacesFrom, PlacesAt
<1>3. PlacesFrom(Loop!Places(v, p), v, p, 1)
  BY <1>1, <1>2
<1> QED BY <1>3 DEF PlacesFrom

\* F obeys the definition of the places.
PlacesAre(F, v, p) == \A j \in 1..Len(p) + 1 : F[j] = PlacesAt(F, v, p, j)

\* Only '%' from j on.
Percents(p, j) == \A l \in j..Len(p) : p[l] = "%"

\* What the unfolded definition says of the places, by what is at j.
LEMMA PlacesByCase ==
  ASSUME NEW v, NEW p, NEW F, Len(p) \in Nat, Len(v) \in Nat, PlacesAre(F, v, p)
  PROVE  /\ F[Len(p) + 1] = {Len(v) + 1}
         /\ \A j \in 1..Len(p) : p[j] = "%" =>
              \A i : i \in F[j] <=> i \in 1..Len(v) + 1 /\ \E k \in F[j + 1] : i <= k
         /\ \A j \in 1..Len(p) : p[j] # "%" =>
              \A i : i \in F[j]
                       <=> i \in 1..Len(v) /\ p[j] \in {"_", v[i]} /\ i + 1 \in F[j + 1]
         /\ \A j \in 1..Len(p) + 1 : F[j] \subseteq 1..Len(v) + 1
<1> USE DEF PlacesAre
<1>1. F[Len(p) + 1] = {Len(v) + 1}
  <2>1. Len(p) + 1 \in 1..Len(p) + 1 /\ Len(p) + 1 > Len(p)
    OBVIOUS
  <2> QED BY <2>1 DEF PlacesAt
<1>2. ASSUME NEW j \in 1..Len(p), p[j] = "%"
      PROVE  F[j] = {i \in 1..Len(v) + 1 : \E k \in F[j + 1] : i <= k}
  <2>1. j \in 1..Len(p) + 1 /\ ~(j > Len(p))
    OBVIOUS
  <2> QED BY <1>2, <2>1 DEF PlacesAt
<1>3. ASSUME NEW j \in 1..Len(p), p[j] # "%"
      PROVE  F[j] = {i \in 1..Len(v) : p[j] \in {"_", v[i]} /\ i + 1 \in F[j + 1]}
  <2>1. j \in 1..Len(p) + 1 /\ ~(j > Len(p))
    OBVIOUS
  <2> QED BY <1>3, <2>1 DEF PlacesAt
<1>4. ASSUME NEW j \in 1..Len(p) + 1
      PROVE  F[j] \subseteq 1..Len(v) + 1
  <2>1. CASE j = Len(p) + 1
    BY <1>1, <2>1
  <2>2. CASE j # Len(p) + 1
    <3>1. j \in 1..Len(p)
      BY <2>2
    <3>2. CASE p[j] = "%"
      BY <1>2, <3>1, <3>2
    <3>3. CASE p[j] # "%"
      <4>1. F[j] \subseteq 1..Len(v)
        BY <1>3, <3>1, <3>3
      <4> QED BY <4>1
    <3> QED BY <3>2, <3>3
  <2> QED BY <2>1, <2>2
<1> QED BY <1>1, <1>2, <1>3, <1>4, ZenonT(40)

\* At the end of the value, what is left of the pattern may only be '%'.
LEMMA PlacesAtEnd ==
  ASSUME NEW v, NEW p, NEW F, Len(p) \in Nat, Len(v) \in Nat, PlacesAre(F, v, p),
         NEW j \in 1..Len(p) + 1
  PROVE  Len(v) + 1 \in F[j] <=> Percents(p, j)
<1> DEFINE Holds(k) == Len(v) + 1 \in F[k] <=> \A l \in k..Len(p) : p[l] = "%"
           S == {n \in Nat : n <= Len(p) => Holds(Len(p) + 1 - n)}
<1>0. /\ F[Len(p) + 1] = {Len(v) + 1}
      /\ \A l \in 1..Len(p) : p[l] = "%" =>
           \A i : i \in F[l] <=> i \in 1..Len(v) + 1 /\ \E k \in F[l + 1] : i <= k
      /\ \A l \in 1..Len(p) : p[l] # "%" =>
           \A i : i \in F[l]
                    <=> i \in 1..Len(v) /\ p[l] \in {"_", v[i]} /\ i + 1 \in F[l + 1]
      /\ \A l \in 1..Len(p) + 1 : F[l] \subseteq 1..Len(v) + 1
  BY PlacesByCase
<1>1. 0 \in S
  <2>1. Len(p) + 1 - 0 = Len(p) + 1 /\ Len(p) + 1..Len(p) = {}
    OBVIOUS
  <2>2. Holds(Len(p) + 1)
    BY <1>0, <2>1
  <2> HIDE DEF Holds
  <2> QED BY <2>1, <2>2
<1>2. ASSUME NEW n \in S PROVE n + 1 \in S
  <2> SUFFICES ASSUME n + 1 <= Len(p) PROVE Holds(Len(p) + 1 - (n + 1))
    <3> HIDE DEF Holds
    <3> QED OBVIOUS
  <2>1. PICK k \in 1..Len(p) : k = Len(p) + 1 - (n + 1) /\ k + 1 = Len(p) + 1 - n
    OBVIOUS
  <2>2. n \in Nat /\ Holds(k + 1)
    BY <2>1
  <2>3. k..Len(p) = {k} \cup (k + 1..Len(p))
    OBVIOUS
  <2>4. Holds(k)
    <3> HIDE DEF S
    <3>0. /\ k \in 1..Len(p) /\ k + 1 \in 1..Len(p) + 1
          /\ Len(v) + 1 \in 1..Len(v) + 1 /\ Len(v) + 1 \notin 1..Len(v)
      OBVIOUS
    <3>1. CASE p[k] = "%"
      <4>1. Len(v) + 1 \in F[k] <=> \E q \in F[k + 1] : Len(v) + 1 <= q
        BY <1>0, <3>0, <3>1
      <4>2. F[k + 1] \subseteq 1..Len(v) + 1
        BY <1>0, <3>0
      <4>3. Len(v) + 1 \in F[k] <=> Len(v) + 1 \in F[k + 1]
        BY <4>1, <4>2
      <4> QED BY <2>2, <2>3, <3>1, <4>3
    <3>2. CASE p[k] # "%"
      <4>1. Len(v) + 1 \notin F[k]
        BY <1>0, <3>0, <3>2
      <4> QED BY <2>3, <3>2, <4>1
    <3> QED BY <3>1, <3>2
  <2> QED BY <2>1, <2>4
<1>3. S = Nat
  <2>1. S \in SUBSET Nat
    OBVIOUS
  <2> HIDE DEF S
  <2> QED BY <1>1, <1>2, <2>1, Inductive
<1>4. PICK n \in Nat : n <= Len(p) /\ j = Len(p) + 1 - n
  <2>1. Len(p) + 1 - j \in Nat /\ Len(p) + 1 - j <= Len(p) /\ j = Len(p) + 1 - (Len(p) + 1 - j)
    OBVIOUS
  <2> QED BY <2>1
<1>5. Holds(Len(p) + 1 - n)
  BY <1>3, <1>4
<1> QED BY <1>4, <1>5 DEF Percents

\* What the loop needs to know of the places.
PlaceFacts(F, v, n, p, m) ==
  /\ F[m + 1] = {n + 1}
  /\ \A j \in 1..m : p[j] = "%" =>
       \A i : i \in F[j] <=> i \in 1..n + 1 /\ \E k \in F[j + 1] : i <= k
  /\ \A j \in 1..m : p[j] # "%" =>
       \A i : i \in F[j]
                <=> i \in 1..n /\ p[j] \in {"_", v[i]} /\ i + 1 \in F[j + 1]
  /\ \A j \in 1..m + 1 : F[j] \subseteq 1..n + 1
  /\ \A j \in 1..m + 1 : n + 1 \in F[j] <=> \A l \in j..m : p[l] = "%"

LEMMA PlacesHaveFacts ==
  ASSUME NEW v, NEW p, NEW n \in Nat, NEW m \in Nat, n = Len(v), m = Len(p)
  PROVE  PlaceFacts(Loop!Places(v, p), v, n, p, m)
<1>1. PICK F : F = Loop!Places(v, p)
  OBVIOUS
<1>2. PlacesAre(F, v, p)
  BY <1>1, PlacesFacts DEF PlacesAre
<1>0. Len(p) \in Nat /\ Len(v) \in Nat
  OBVIOUS
<1>3. ASSUME NEW j \in 1..Len(p) + 1
      PROVE  Len(v) + 1 \in F[j] <=> Percents(p, j)
  BY <1>0, <1>2, PlacesAtEnd
<1>4. /\ F[Len(p) + 1] = {Len(v) + 1}
      /\ \A j \in 1..Len(p) : p[j] = "%" =>
           \A i : i \in F[j] <=> i \in 1..Len(v) + 1 /\ \E k \in F[j + 1] : i <= k
      /\ \A j \in 1..Len(p) : p[j] # "%" =>
           \A i : i \in F[j]
                    <=> i \in 1..Len(v) /\ p[j] \in {"_", v[i]} /\ i + 1 \in F[j + 1]
      /\ \A j \in 1..Len(p) + 1 : F[j] \subseteq 1..Len(v) + 1
  BY <1>0, <1>2, PlacesByCase
<1>5. PlaceFacts(F, v, n, p, m)
  BY <1>3, <1>4 DEF PlaceFacts, Percents
<1> QED BY <1>1, <1>5

\* Where the loop is: before any '%', the value matches exactly if it does from
\* i and j on.  After the '%' at w, exactly if it does from wv and w on; and
\* what was read after it, which has no '%', has the length i - wv and leads
\* every match after the '%' to a match from j on.
At(F, n, p, i, j, w, wv) ==
  IF w = 0 THEN 1 \in F[1] <=> i \in F[j]
  ELSE /\ p[w] = "%" /\ w < j /\ wv <= i /\ j - (w + 1) = i - wv
       /\ 1 \in F[1] <=> wv \in F[w]
       /\ wv \in F[w + 1] <=> i \in F[j]
       /\ \A k \in wv..n + 1 : k \in F[w + 1] => k + (i - wv) \in F[j]

\* A match of '%' is one of what comes after it, here or later.
LEMMA AtWildcard ==
  ASSUME NEW v, NEW p, NEW F, NEW n \in Nat, NEW m \in Nat, PlaceFacts(F, v, n, p, m),
         NEW i \in 1..n + 1, NEW j \in 1..m + 1,
         NEW w \in 1..m, NEW wv \in 1..n + 1, At(F, n, p, i, j, w, wv)
  PROVE  1 \in F[1] <=> \E k \in wv..n + 1 : k \in F[w + 1]
<1>1. p[w] = "%" /\ (1 \in F[1] <=> wv \in F[w])
  BY DEF At
<1>2. wv \in F[w] <=> \E k \in F[w + 1] : wv <= k
  BY <1>1 DEF PlaceFacts
<1>3. F[w + 1] \subseteq 1..n + 1
  <2>1. w + 1 \in 1..m + 1
    OBVIOUS
  <2> QED BY <2>1 DEF PlaceFacts
<1> QED BY <1>1, <1>2, <1>3

\* The character at j is not '%', and fits the one at i of the value.
Fits(v, p, i, j) == p[j] # "%" /\ p[j] \in {"_", v[i]}

\* It is not '%' and does not fit.
Misfits(v, p, i, j) == p[j] # "%" /\ p[j] \notin {"_", v[i]}

LEMMA MatchCharAt ==
  ASSUME NEW v, NEW p, NEW F, NEW n \in Nat, NEW m \in Nat, PlaceFacts(F, v, n, p, m),
         NEW i \in 1..n, NEW j \in 1..m,
         NEW w \in 0..m, NEW wv \in 1..n + 1, At(F, n, p, i, j, w, wv),
         Fits(v, p, i, j)
  PROVE  At(F, n, p, i + 1, j + 1, w, wv)
<1>1. \A k : k \in F[j] <=> k \in 1..n /\ p[j] \in {"_", v[k]} /\ k + 1 \in F[j + 1]
  BY DEF PlaceFacts, Fits
<1>2. i \in F[j] <=> i + 1 \in F[j + 1]
  BY <1>1 DEF Fits
<1>3. CASE w = 0
  BY <1>2, <1>3 DEF At
<1>4. CASE w # 0
  <2>1. /\ p[w] = "%" /\ w < j /\ wv <= i /\ j - (w + 1) = i - wv
        /\ 1 \in F[1] <=> wv \in F[w]
        /\ wv \in F[w + 1] <=> i \in F[j]
        /\ \A k \in wv..n + 1 : k \in F[w + 1] => k + (i - wv) \in F[j]
    BY <1>4 DEF At
  <2>2. w < j + 1 /\ wv <= i + 1 /\ (j + 1) - (w + 1) = (i + 1) - wv
    BY <2>1
  <2>3. ASSUME NEW k \in wv..n + 1, k \in F[w + 1]
        PROVE  k + ((i + 1) - wv) \in F[j + 1]
    <3>1. k + (i - wv) \in F[j]
      BY <2>1, <2>3
    <3>2. k + (i - wv) + 1 \in F[j + 1]
      BY <1>1, <3>1
    <3>3. k + (i - wv) + 1 = k + ((i + 1) - wv)
      OBVIOUS
    <3> QED BY <3>2, <3>3
  <2> QED BY <1>2, <1>4, <2>1, <2>2, <2>3 DEF At
<1> QED BY <1>3, <1>4

LEMMA MeetWildcardAt ==
  ASSUME NEW v, NEW p, NEW F, NEW n \in Nat, NEW m \in Nat, PlaceFacts(F, v, n, p, m),
         NEW i \in 1..n, NEW j \in 1..m,
         NEW w \in 0..m, NEW wv \in 1..n + 1, At(F, n, p, i, j, w, wv),
         p[j] = "%"
  PROVE  At(F, n, p, i, j + 1, j, i)
<1>1. 1 \in F[1] <=> i \in F[j]
  <2>1. CASE w = 0
    BY <2>1 DEF At
  <2>2. CASE w # 0
    <3>1. /\ wv <= i /\ (wv \in F[w + 1] <=> i \in F[j])
          /\ \A k \in wv..n + 1 : k \in F[w + 1] => k + (i - wv) \in F[j]
      BY <2>2 DEF At
    <3>2. w \in 1..m /\ i \in 1..n + 1 /\ j \in 1..m + 1
      BY <2>2
    <3>3. 1 \in F[1] <=> \E k \in wv..n + 1 : k \in F[w + 1]
      BY <3>2, AtWildcard
    <3>4. ASSUME i \in F[j] PROVE 1 \in F[1]
      <4>1. wv \in wv..n + 1
        OBVIOUS
      <4> QED BY <3>1, <3>3, <3>4, <4>1
    <3>5. ASSUME 1 \in F[1] PROVE i \in F[j]
      <4>1. PICK k \in wv..n + 1 : k \in F[w + 1]
        BY <3>3, <3>5
      <4>2. k + (i - wv) \in F[j]
        BY <3>1, <4>1
      <4>3. PICK q \in F[j + 1] : k + (i - wv) <= q
        BY <4>2 DEF PlaceFacts
      <4>4. q \in 1..n + 1
        <5>1. j + 1 \in 1..m + 1
          OBVIOUS
        <5> QED BY <4>3, <5>1 DEF PlaceFacts
      <4>5. i <= q
        BY <3>1, <4>1, <4>3, <4>4
      <4> QED BY <3>2, <4>3, <4>5 DEF PlaceFacts
    <3> QED BY <3>4, <3>5
  <2> QED BY <2>1, <2>2
<1>2. ASSUME NEW k \in i..n + 1, k \in F[j + 1]
      PROVE  k + (i - i) \in F[j + 1]
  <2>1. k + (i - i) = k
    OBVIOUS
  <2> QED BY <1>2, <2>1
<1>3. j # 0 /\ j < j + 1 /\ i <= i /\ (j + 1) - (j + 1) = i - i
  OBVIOUS
<1> QED BY <1>1, <1>2, <1>3 DEF At

\* Where neither the character nor a '%' fits, there is no match.
LEMMA NoMatchAt ==
  ASSUME NEW v, NEW p, NEW F, NEW n \in Nat, NEW m \in Nat, PlaceFacts(F, v, n, p, m),
         NEW i \in 1..n, NEW j \in 1..m + 1,
         j <= m => Misfits(v, p, i, j)
  PROVE  i \notin F[j]
<1>1. CASE j = m + 1
  <2>1. F[m + 1] = {n + 1}
    BY DEF PlaceFacts
  <2> QED BY <1>1, <2>1
<1>2. CASE j # m + 1
  <2>1. j \in 1..m /\ j <= m
    BY <1>2
  <2> QED BY <2>1 DEF PlaceFacts, Misfits
<1> QED BY <1>1, <1>2

LEMMA BacktrackAt ==
  ASSUME NEW v, NEW p, NEW F, NEW n \in Nat, NEW m \in Nat, PlaceFacts(F, v, n, p, m),
         NEW i \in 1..n, NEW j \in 1..m + 1,
         NEW w \in 1..m, NEW wv \in 1..n + 1, At(F, n, p, i, j, w, wv),
         i \notin F[j]
  PROVE  wv + 1 \in 1..n + 1 /\ At(F, n, p, wv + 1, w + 1, w, wv + 1)
<1>1. /\ p[w] = "%" /\ wv <= i /\ wv \notin F[w + 1]
  BY DEF At
<1>2. wv + 1 \in 1..n + 1
  BY <1>1
<1>3. 1 \in F[1] <=> \E k \in wv..n + 1 : k \in F[w + 1]
  <2>1. i \in 1..n + 1
    OBVIOUS
  <2> QED BY <2>1, AtWildcard
<1>4. F[w + 1] \subseteq 1..n + 1
  <2>1. w + 1 \in 1..m + 1
    OBVIOUS
  <2> QED BY <2>1 DEF PlaceFacts
<1>5. wv + 1 \in F[w] <=> \E k \in F[w + 1] : wv + 1 <= k
  BY <1>1, <1>2 DEF PlaceFacts
<1>6. \A k \in 1..n + 1 : k \in F[w + 1] => (wv <= k <=> wv + 1 <= k)
  BY <1>1
<1>7. 1 \in F[1] <=> wv + 1 \in F[w]
  BY <1>3, <1>4, <1>5, <1>6
<1>8. ASSUME NEW k \in wv + 1..n + 1, k \in F[w + 1]
      PROVE  k + ((wv + 1) - (wv + 1)) \in F[w + 1]
  <2>1. k + ((wv + 1) - (wv + 1)) = k
    OBVIOUS
  <2> QED BY <1>8, <2>1
<1>9. w # 0 /\ w < w + 1 /\ wv + 1 <= wv + 1 /\ (w + 1) - (w + 1) = (wv + 1) - (wv + 1)
  OBVIOUS
<1> QED BY <1>1, <1>2, <1>7, <1>8, <1>9 DEF At

LEMMA FinishAt ==
  ASSUME NEW v, NEW p, NEW F, NEW n \in Nat, NEW m \in Nat, PlaceFacts(F, v, n, p, m),
         NEW i \in 1..n + 1, i = n + 1, NEW j \in 1..m + 1,
         NEW w \in 0..m, NEW wv \in 1..n + 1, At(F, n, p, i, j, w, wv)
  PROVE  1 \in F[1] <=> \A l \in j..m : p[l] = "%"
<1>1. i \in F[j] <=> \A l \in j..m : p[l] = "%"
  BY DEF PlaceFacts
<1>2. CASE w = 0
  BY <1>1, <1>2 DEF At
<1>3. CASE w # 0
  <2>1. /\ wv <= i /\ (wv \in F[w + 1] <=> i \in F[j])
        /\ \A k \in wv..n + 1 : k \in F[w + 1] => k + (i - wv) \in F[j]
    BY <1>3 DEF At
  <2>2. w \in 1..m
    BY <1>3
  <2>3. 1 \in F[1] <=> \E k \in wv..n + 1 : k \in F[w + 1]
    BY <2>2, AtWildcard
  <2>4. ASSUME NEW k \in wv..n + 1, k \in F[w + 1]
        PROVE  k = wv
    <3>1. k + (i - wv) \in 1..n + 1
      BY <2>1, <2>4 DEF PlaceFacts
    <3> QED BY <3>1
  <2>5. wv \in wv..n + 1
    OBVIOUS
  <2> QED BY <1>1, <2>1, <2>3, <2>4, <2>5
<1> QED BY <1>2, <1>3

PatternChars == Chars \cup {"%", "_"}

LikeInv ==
  /\ value \in Seq(Chars) /\ pattern \in Seq(PatternChars)
  /\ vi \in 1..Len(value) + 1 /\ pi \in 1..Len(pattern) + 1
  /\ wildcard \in 0..Len(pattern) /\ wildcardValue \in 1..Len(value) + 1
  /\ result = "running" =>
       At(Loop!Places(value, pattern), Len(value), pattern, vi, pi, wildcard, wildcardValue)
  /\ LikeCorrect

LEMMA LikeStepKeeps ==
  ASSUME LikeInv, Loop!Next \/ UNCHANGED likeVars
  PROVE  LikeInv'
<1>1. CASE UNCHANGED likeVars
  <2>1. UNCHANGED <<value, pattern, vi, pi, wildcard, wildcardValue, result>>
    BY <1>1 DEF likeVars
  <2> QED BY <2>1 DEF LikeInv, LikeCorrect, Loop!LikeCorrect, Loop!Like
<1>2. CASE Loop!Next
  <2>1. /\ value' = value /\ pattern' = pattern /\ result = "running"
        /\ value \in Seq(Chars) /\ pattern \in Seq(PatternChars)
    BY <1>2 DEF LikeInv, Loop!Next, Loop!MatchChar, Loop!MeetWildcard, Loop!Backtrack,
                Loop!GiveUp, Loop!Finish, Loop!InValue
  <2>2. PICK v, p : v = value /\ p = pattern
    OBVIOUS
  <2>3. PICK n \in Nat, m \in Nat : n = Len(v) /\ m = Len(p)
    <3>1. Len(value) \in Nat /\ Len(pattern) \in Nat
      BY <2>1
    <3> QED BY <2>2, <3>1
  <2>4. PICK F : F = Loop!Places(v, p)
    OBVIOUS
  <2>5. PlaceFacts(F, v, n, p, m)
    BY <2>3, <2>4, PlacesHaveFacts
  <2>6. PICK i \in 1..n + 1, j \in 1..m + 1, w \in 0..m, wv \in 1..n + 1 :
          i = vi /\ j = pi /\ w = wildcard /\ wv = wildcardValue
    BY <2>2, <2>3 DEF LikeInv
  <2>7. At(F, n, p, i, j, w, wv)
    BY <2>1, <2>2, <2>3, <2>4, <2>6 DEF LikeInv
  <2>8. \A k \in 1..n : v[k] # "%"
    <3>1. \A k \in 1..n : v[k] \in Chars
      BY <2>1, <2>2, <2>3
    <3> QED BY <3>1, CharsAssumption
  \* A pass that goes on.
  <2>9. ASSUME NEW i1 \in 1..n + 1, NEW j1 \in 1..m + 1, NEW w1 \in 0..m,
               NEW wv1 \in 1..n + 1, At(F, n, p, i1, j1, w1, wv1),
               vi' = i1, pi' = j1, wildcard' = w1, wildcardValue' = wv1, result' = result
        PROVE  LikeInv'
    BY <2>1, <2>2, <2>3, <2>4, <2>9 DEF LikeInv, LikeCorrect, Loop!LikeCorrect
  \* A pass that ends the loop.
  <2>10. ASSUME UNCHANGED <<vi, pi, wildcard, wildcardValue>>, result' \in {"true", "false"},
                result' = "true" <=> 1 \in F[1]
         PROVE  LikeInv'
    <3>1. Loop!LikeCorrect'
      <4>1. Loop!Like(value', pattern') <=> 1 \in F[1]
        BY <2>1, <2>2, <2>4 DEF Loop!Like
      <4> QED BY <2>10, <4>1 DEF Loop!LikeCorrect
    <3> QED BY <2>1, <2>2, <2>10, <3>1 DEF LikeInv, LikeCorrect
  <2>11. CASE Loop!MatchChar
    <3>1. /\ i \in 1..n /\ j \in 1..m
          /\ vi' = i + 1 /\ pi' = j + 1
          /\ wildcard' = w /\ wildcardValue' = wv /\ result' = result
      <4>1. /\ vi <= Len(value) /\ pi <= Len(pattern) /\ vi' = vi + 1 /\ pi' = pi + 1
            /\ UNCHANGED <<wildcard, wildcardValue, result>>
        BY <2>11 DEF Loop!MatchChar, Loop!InValue, Loop!FitsChar, Loop!InPattern
      <4> QED BY <2>2, <2>3, <2>6, <4>1
    <3>0. Fits(v, p, i, j)
      <4>1. p[j] \in {"_", v[i]} /\ v[i] # "%"
        BY <2>2, <2>6, <2>8, <2>11, <3>1 DEF Loop!MatchChar, Loop!FitsChar
      <4> QED BY <4>1 DEF Fits
    <3>2. At(F, n, p, i + 1, j + 1, w, wv)
      BY <2>5, <2>7, <3>0, <3>1, MatchCharAt
    <3>3. i + 1 \in 1..n + 1 /\ j + 1 \in 1..m + 1
      BY <3>1
    <3> QED BY <2>9, <3>1, <3>2, <3>3
  <2>12. CASE Loop!MeetWildcard
    <3>1. /\ i \in 1..n /\ j \in 1..m
          /\ vi' = i /\ pi' = j + 1 /\ wildcard' = j /\ wildcardValue' = i
          /\ result' = result
      <4>1. /\ vi <= Len(value) /\ pi <= Len(pattern) /\ vi' = vi /\ pi' = pi + 1
            /\ wildcard' = pi /\ wildcardValue' = vi /\ result' = result
        BY <2>12 DEF Loop!MeetWildcard, Loop!InValue, Loop!FitsWildcard, Loop!InPattern
      <4> QED BY <2>2, <2>3, <2>6, <4>1
    <3>0. p[j] = "%"
      BY <2>2, <2>6, <2>12 DEF Loop!MeetWildcard, Loop!FitsWildcard
    <3>2. At(F, n, p, i, j + 1, j, i)
      BY <2>5, <2>7, <3>0, <3>1, MeetWildcardAt
    <3>3. i \in 1..n + 1 /\ j + 1 \in 1..m + 1 /\ j \in 0..m
      BY <3>1
    <3> QED BY <2>9, <3>1, <3>2, <3>3
  <2>13. ASSUME Loop!InValue, ~Loop!FitsChar, ~Loop!FitsWildcard
         PROVE  i \in 1..n /\ i \notin F[j]
    <3>1. i \in 1..n
      <4>1. vi <= Len(value)
        BY <2>13 DEF Loop!InValue
      <4> QED BY <2>2, <2>3, <2>6, <4>1
    <3>2. j <= m => Misfits(v, p, i, j)
      BY <2>2, <2>3, <2>6, <2>13 DEF Loop!FitsChar, Loop!FitsWildcard, Loop!InPattern, Misfits
    <3> QED BY <2>5, <3>1, <3>2, NoMatchAt
  <2>14. CASE Loop!Backtrack
    <3>1. /\ i \in 1..n /\ i \notin F[j] /\ w \in 1..m
          /\ vi' = wv + 1 /\ pi' = w + 1 /\ wildcard' = w /\ wildcardValue' = wv + 1
          /\ result' = result
      <4>1. /\ wildcard # 0 /\ pi' = wildcard + 1 /\ wildcardValue' = wildcardValue + 1
            /\ vi' = wildcardValue' /\ wildcard' = wildcard /\ result' = result
            /\ Loop!InValue /\ ~Loop!FitsChar /\ ~Loop!FitsWildcard
        BY <2>14 DEF Loop!Backtrack
      <4> QED BY <2>6, <2>13, <4>1
    <3>2. wv + 1 \in 1..n + 1 /\ At(F, n, p, wv + 1, w + 1, w, wv + 1)
      BY <2>5, <2>7, <3>1, BacktrackAt
    <3>3. w + 1 \in 1..m + 1
      BY <3>1
    <3> QED BY <2>9, <3>1, <3>2, <3>3
  <2>15. CASE Loop!GiveUp
    <3>1. /\ i \notin F[j] /\ w = 0 /\ result' = "false"
          /\ UNCHANGED <<vi, pi, wildcard, wildcardValue>>
      BY <2>6, <2>13, <2>15 DEF Loop!GiveUp
    <3>2. 1 \notin F[1]
      BY <2>7, <3>1 DEF At
    <3> QED BY <2>10, <3>1, <3>2
  <2>16. CASE Loop!Finish
    <3>1. /\ i = n + 1 /\ UNCHANGED <<vi, pi, wildcard, wildcardValue>>
          /\ result' = IF \A l \in j..m : p[l] = "%" THEN "true" ELSE "false"
      <4>1. /\ vi > Len(value) /\ UNCHANGED <<vi, pi, wildcard, wildcardValue>>
            /\ result' = IF \A l \in pi..Len(pattern) : pattern[l] = "%"
                         THEN "true" ELSE "false"
        BY <2>16 DEF Loop!Finish
      <4>2. i > n
        BY <2>2, <2>3, <2>6, <4>1
      <4>3. i = n + 1
        BY <4>2
      <4> QED BY <2>2, <2>3, <2>6, <4>1, <4>3
    <3>2. 1 \in F[1] <=> \A l \in j..m : p[l] = "%"
      BY <2>5, <2>7, <3>1, FinishAt
    <3> QED BY <2>10, <3>1, <3>2
  <2> QED BY <1>2, <2>11, <2>12, <2>14, <2>15, <2>16 DEF Loop!Next
<1> QED BY <1>1, <1>2

LEMMA LikeInductive == Spec => []LikeInv
<1>1. Init => LikeInv
  <2> SUFFICES ASSUME NEW v \in Seq(Chars), NEW p \in Seq(PatternChars),
                      Loop!Start(v, p)
               PROVE  LikeInv
    <3>1. ASSUME NEW S, NEW s \in Loop!Strings(S) PROVE s \in Seq(S)
      BY DEF Loop!Strings
    <3>2. Init => \/ Loop!Init
                  \/ Loop!Start(<<>>, <<>>)
      BY DEF Init
    <3>3. Loop!Init => \E v \in Seq(Chars), p \in Seq(PatternChars) : Loop!Start(v, p)
      BY <3>1 DEF Loop!Init, PatternChars
    <3>4. <<>> \in Seq(Chars) /\ <<>> \in Seq(PatternChars)
      OBVIOUS
    <3> QED BY <3>2, <3>3, <3>4
  <2>1. /\ value = v /\ pattern = p /\ vi = 1 /\ pi = 1 /\ wildcard = 0 /\ wildcardValue = 1
        /\ result = "running"
    BY DEF Loop!Start
  <2>2. Len(v) \in Nat /\ Len(p) \in Nat
    OBVIOUS
  <2>3. At(Loop!Places(v, p), Len(v), p, 1, 1, 0, 1)
    BY DEF At
  <2> QED BY <2>1, <2>2, <2>3 DEF LikeInv, LikeCorrect, Loop!LikeCorrect
<1>2. LikeInv /\ [Next]_vars => LikeInv'
  BY OneLibrary, LikeStepKeeps
<1> QED BY <1>1, <1>2, PTL DEF Spec

\* Whatever the value and the pattern, and however many '%' the pattern has:
\* when the loop ends, its answer is the one that the meaning of LIKE gives,
\* although it goes back to the last '%' only (src/src/api/db.cpp).
THEOREM LikeIsCorrect == Spec => []LikeCorrect
<1>1. LikeInv => LikeCorrect
  BY DEF LikeInv
<1> QED BY <1>1, LikeInductive, PTL

-----------------------------------------------------------------------------
(***************************************************************************)
(* Value::Compare as an order.                                             *)
(***************************************************************************)
\* ORDER BY hands Compare to std::stable_sort, which requires an order: it is
\* one on the values of a column, across INTEGER and REAL, for all texts and
\* blobs (src/src/common/value.cpp).
THEOREM CompareIsAnOrder == Spec => []CompareOrders
<1>1. input \in Inputs(subject) => CompareOrders
  <2> SUFFICES ASSUME subject = "values", input \in Inputs(subject)
               PROVE  Ordered(input[1], input[2], input[3])
    BY DEF CompareOrders
  <2>1. input[1] \in SampleValues /\ input[2] \in SampleValues /\ input[3] \in SampleValues
    BY DEF Inputs
  <2> QED BY <2>1, CompareOrdersValues, ValuesAssumption
<1> QED BY <1>1, InputGiven, PTL

-----------------------------------------------------------------------------
(***************************************************************************)
(* The keys of values.                                                     *)
(***************************************************************************)
\* An index that compares EncodeKey byte by byte has its rows in the order of
\* Value::Compare, with NULL first, and backwards with descending keys
\* (src/src/common/value.cpp).
THEOREM KeysAreOrdered == Spec => []KeyOrder
<1>1. input \in Inputs(subject) => KeyOrder
  <2> SUFFICES ASSUME subject = "values", input \in Inputs(subject)
               PROVE  KeysFollow(input[1], input[2])
    BY DEF KeyOrder
  <2>1. input[1] \in SampleValues /\ input[2] \in SampleValues
    BY DEF Inputs
  <2> QED BY <2>1, KeysFollowValues, ValuesAssumption
<1> QED BY <1>1, InputGiven, PTL

\* Value::DecodeKey gives back the value whose key it reads, and takes no key
\* that was cut short for a value.
THEOREM KeysAreReadBack == Spec => []KeyRoundTrip
<1>1. input \in Inputs(subject) => KeyRoundTrip
  <2> SUFFICES ASSUME subject = "values", input \in Inputs(subject)
               PROVE  KeyReads(input[1])
    BY DEF KeyRoundTrip
  <2>1. input[1] \in SampleValues
    BY DEF Inputs
  <2> QED BY <2>1, KeysAreRead, ValuesAssumption
<1> QED BY <1>1, InputGiven, PTL

-----------------------------------------------------------------------------
(***************************************************************************)
(* The pairs of the index.                                                 *)
(***************************************************************************)
OthersAt(f, s, rid, n) ==
  IF n = 0 THEN <<>> ELSE IF s[n] = rid THEN f[n - 1] ELSE Append(f[n - 1], s[n])

OthersTo(f, s, rid, hi) == f = [n \in 0..hi |-> OthersAt(f, s, rid, n)]

LEMMA OthersExist ==
  ASSUME NEW s, NEW rid, NEW hi \in Nat
  PROVE  \E f : OthersTo(f, s, rid, hi)
<1> DEFINE S == {n \in Nat : \E f : OthersTo(f, s, rid, n)}
<1>1. 0 \in S
  <2> DEFINE f == [n \in 0..0 |-> <<>>]
  <2>1. \A n \in 0..0 : OthersAt(f, s, rid, n) = <<>>
    BY DEF OthersAt
  <2>2. OthersTo(f, s, rid, 0)
    BY <2>1 DEF OthersTo
  <2> HIDE DEF f
  <2> QED BY <2>2
<1>2. ASSUME NEW n \in S PROVE n + 1 \in S
  <2>1. n \in Nat
    OBVIOUS
  <2>2. PICK f : OthersTo(f, s, rid, n)
    OBVIOUS
  <2> HIDE DEF S
  <2> DEFINE last == IF s[n + 1] = rid THEN f[n] ELSE Append(f[n], s[n + 1])
             g == [k \in 0..n + 1 |-> IF k = n + 1 THEN last ELSE f[k]]
  <2>3. ASSUME NEW k \in 0..n + 1
        PROVE  g[k] = OthersAt(g, s, rid, k)
    <3>1. CASE k = n + 1
      <4>1. g[k] = last /\ k - 1 \in 0..n + 1 /\ k - 1 # n + 1 /\ k - 1 = n /\ k # 0
        BY <2>1, <3>1
      <4>2. g[k - 1] = f[n]
        BY <4>1
      <4> QED BY <3>1, <4>1, <4>2 DEF OthersAt
    <3>2. CASE k # n + 1
      <4>1. k \in 0..n /\ (k # 0 => k - 1 \in 0..n + 1 /\ k - 1 # n + 1)
        BY <2>1, <3>2
      <4>2. g[k] = f[k] /\ (k # 0 => g[k - 1] = f[k - 1])
        BY <3>2, <4>1
      <4>3. f[k] = OthersAt(f, s, rid, k)
        BY <2>2, <4>1 DEF OthersTo
      <4>4. OthersAt(g, s, rid, k) = OthersAt(f, s, rid, k)
        BY <4>2 DEF OthersAt
      <4> QED BY <4>2, <4>3, <4>4
    <3> QED BY <3>1, <3>2
  <2>4. g = [k \in 0..n + 1 |-> g[k]]
    OBVIOUS
  <2> HIDE DEF g
  <2>5. OthersTo(g, s, rid, n + 1)
    BY <2>3, <2>4 DEF OthersTo
  <2> QED BY <2>1, <2>5 DEF S
<1>3. S = Nat
  <2>1. S \in SUBSET Nat
    OBVIOUS
  <2> HIDE DEF S
  <2> QED BY <1>1, <1>2, <2>1, Inductive
<1> QED BY <1>3

Distinct(s) == \A i, j \in 1..Len(s) : s[i] = s[j] => i = j

\* std::remove leaves the other RIDs, and does not make duplicates.
LEMMA OthersFacts ==
  ASSUME NEW s \in Seq(Rids), NEW rid, Distinct(s)
  PROVE  LET left == Index!Others(s, rid)[Len(s)]
         IN  /\ left \in Seq(Rids) /\ Distinct(left)
             /\ \A x : x \in Index!Listed(left) <=> x # rid /\ x \in Index!Listed(s)
<1>0. Len(s) \in Nat
  OBVIOUS
<1>1. PICK F : F = Index!Others(s, rid)
  OBVIOUS
<1>2. \A n \in 0..Len(s) : F[n] = OthersAt(F, s, rid, n)
  <2>1. \E f : OthersTo(f, s, rid, Len(s))
    BY <1>0, OthersExist
  <2>2. Index!Others(s, rid) = CHOOSE f : OthersTo(f, s, rid, Len(s))
    BY DEF Index!Others, OthersTo, OthersAt
  <2>3. OthersTo(F, s, rid, Len(s))
    BY <1>1, <2>1, <2>2
  <2> QED BY <2>3 DEF OthersTo
<1> DEFINE Good(n) == /\ F[n] \in Seq(Rids) /\ Distinct(F[n])
                      /\ \A x : (\E i \in 1..Len(F[n]) : F[n][i] = x)
                                  <=> x # rid /\ \E i \in 1..n : s[i] = x
           S == {n \in Nat : n <= Len(s) => Good(n)}
<1>3. 0 \in S
  <2>1. F[0] = <<>>
    BY <1>0, <1>2 DEF OthersAt
  <2>2. Good(0)
    BY <2>1 DEF Distinct
  <2> HIDE DEF Good
  <2> QED BY <2>2
<1>4. ASSUME NEW n \in S PROVE n + 1 \in S
  <2> SUFFICES ASSUME n + 1 <= Len(s) PROVE Good(n + 1)
    <3> HIDE DEF Good
    <3> QED OBVIOUS
  <2>1. n \in Nat /\ n + 1 \in 1..Len(s) /\ n + 1 \in 0..Len(s) /\ n + 1 # 0
        /\ (n + 1) - 1 = n
    BY <1>0
  <2>2. Good(n)
    <3> HIDE DEF Good
    <3> QED BY <1>0, <2>1
  <2>3. F[n + 1] = IF s[n + 1] = rid THEN F[n] ELSE Append(F[n], s[n + 1])
    BY <1>2, <2>1 DEF OthersAt
  <2> HIDE DEF S
  <2>4. \A x : (\E i \in 1..n + 1 : s[i] = x) <=> (\E i \in 1..n : s[i] = x) \/ x = s[n + 1]
    BY <2>1
  <2>5. CASE s[n + 1] = rid
    <3>1. F[n + 1] = F[n]
      BY <2>3, <2>5
    <3> QED BY <2>2, <2>4, <2>5, <3>1
  <2>6. CASE s[n + 1] # rid
    <3>1. PICK t \in Seq(Rids), r \in Rids : t = F[n] /\ r = s[n + 1]
      BY <2>1, <2>2
    <3>2. PICK u : u = Append(t, r) /\ u = F[n + 1]
      BY <2>3, <2>6, <3>1
    <3>3. /\ u \in Seq(Rids) /\ Len(u) = Len(t) + 1 /\ u[Len(t) + 1] = r
          /\ \A i \in 1..Len(t) : u[i] = t[i]
      <4>1. u = Append(t, r) /\ t \in Seq(Rids) /\ r \in Rids
        BY <3>1, <3>2
      <4>2. u \in Seq(Rids) /\ Len(u) = Len(t) + 1
        BY <4>1
      <4>3. u[Len(t) + 1] = r
        BY <4>1
      <4> QED BY <4>1, <4>2, <4>3
    <3>4. Len(t) \in Nat
      BY <3>1
    <3>5. \A x : (\E i \in 1..Len(u) : u[i] = x) <=> (\E i \in 1..Len(t) : t[i] = x) \/ x = r
      <4>1. \A i \in 1..Len(u) : i \in 1..Len(t) \/ i = Len(t) + 1
        BY <3>3, <3>4
      <4>2. \A i \in 1..Len(t) : i \in 1..Len(u)
        BY <3>3, <3>4
      <4>3. Len(t) + 1 \in 1..Len(u)
        BY <3>3, <3>4
      <4> QED BY <3>3, <4>1, <4>2, <4>3
    <3>6. \A x : (\E i \in 1..Len(t) : t[i] = x) <=> x # rid /\ \E i \in 1..n : s[i] = x
      BY <2>2, <3>1
    <3>7. \A i \in 1..n : s[i] # r
      BY <1>0, <2>1, <3>1 DEF Distinct
    <3>8. \A i \in 1..Len(t) : t[i] # r
      BY <3>6, <3>7
    <3>9. Distinct(u)
      <4> SUFFICES ASSUME NEW i \in 1..Len(u), NEW j \in 1..Len(u), u[i] = u[j] PROVE i = j
        BY DEF Distinct
      <4>1. (i \in 1..Len(t) \/ i = Len(t) + 1) /\ (j \in 1..Len(t) \/ j = Len(t) + 1)
        BY <3>3, <3>4
      <4>2. Distinct(t)
        BY <2>2, <3>1
      <4> QED BY <3>3, <3>8, <4>1, <4>2 DEF Distinct
    <3>10. \A x : (\E i \in 1..Len(u) : u[i] = x) <=> x # rid /\ \E i \in 1..n + 1 : s[i] = x
      BY <2>4, <2>6, <3>1, <3>5, <3>6
    <3> QED BY <3>2, <3>3, <3>9, <3>10
  <2> QED BY <2>5, <2>6
<1>5. S = Nat
  <2>1. S \in SUBSET Nat
    OBVIOUS
  <2> HIDE DEF S
  <2> QED BY <1>3, <1>4, <2>1, Inductive
<1>6. Good(Len(s))
  <2> HIDE DEF Good
  <2>1. Len(s) \in S
    BY <1>0, <1>5
  <2> QED BY <1>0, <2>1
<1> QED BY <1>1, <1>6 DEF Index!Listed

\* The lists of the keys, one by one.
ListInv(rids) ==
  /\ rids \in Seq(Rids) /\ Len(rids) > 0 /\ Distinct(rids)
  /\ unique => Len(rids) = 1

\* The pair p is in the index.
InIndex(p) ==
  \E key \in DOMAIN entries : \E rid \in Index!Listed(entries[key]) : p = <<key, rid>>

IndexInv ==
  /\ unique \in BOOLEAN /\ misled \in BOOLEAN
  /\ \A key \in DOMAIN entries : ListInv(entries[key])
  /\ ~misled => \A p : p \in pairs <=> InIndex(p)

LEMMA IndexInserts ==
  ASSUME IndexInv, NEW key \in Keys, NEW rid \in Rids, Index!Insert(key, rid)
  PROVE  IndexInv'
<1>1. PICK old : old = Index!Values(key)
  OBVIOUS
<1>2. PICK new : new = Append(old, rid)
  OBVIOUS
<1>3. /\ entries' = [k \in DOMAIN entries \cup {key} |-> IF k = key THEN new ELSE entries[k]]
      /\ pairs' = pairs \cup {<<key, rid>>} /\ unique' = unique /\ misled' = misled
      /\ ~(unique /\ old # <<>>) /\ rid \notin Index!Listed(old)
  BY <1>1, <1>2 DEF Index!Insert, Index!With, Index!Refuses
<1>4. old \in Seq(Rids) /\ Distinct(old)
  <2>1. CASE key \in DOMAIN entries
    BY <1>1, <2>1 DEF IndexInv, ListInv, Index!Values
  <2>2. CASE key \notin DOMAIN entries
    BY <1>1, <2>2 DEF Index!Values, Distinct
  <2> QED BY <2>1, <2>2
<1>5. Len(old) \in Nat
  BY <1>4
<1>6. /\ new \in Seq(Rids) /\ Len(new) = Len(old) + 1 /\ new[Len(old) + 1] = rid
      /\ \A i \in 1..Len(old) : new[i] = old[i]
  BY <1>2, <1>4
<1>7. \A i \in 1..Len(new) : i \in 1..Len(old) \/ i = Len(old) + 1
  BY <1>5, <1>6
<1>8. \A i \in 1..Len(old) : old[i] # rid
  BY <1>3 DEF Index!Listed
<1>9. Distinct(new)
  BY <1>4, <1>6, <1>7, <1>8 DEF Distinct
<1>10. unique => Len(new) = 1
  <2>1. unique => old = <<>>
    BY <1>3
  <2> QED BY <1>6, <2>1
<1>11. ListInv(new)
  BY <1>5, <1>6, <1>9, <1>10 DEF ListInv
<1>12. /\ DOMAIN entries' = DOMAIN entries \cup {key} /\ entries'[key] = new
       /\ \A k \in DOMAIN entries \ {key} : entries'[k] = entries[k]
  BY <1>3
<1>13. \A k \in DOMAIN entries' : ListInv(entries'[k])
  BY <1>11, <1>12 DEF IndexInv
<1>14. \A x : x \in Index!Listed(new) <=> x \in Index!Listed(old) \/ x = rid
  <2>1. Len(old) + 1 \in 1..Len(new) /\ \A i \in 1..Len(old) : i \in 1..Len(new)
    BY <1>5, <1>6
  <2> QED BY <1>6, <1>7, <2>1 DEF Index!Listed
<1>15. ASSUME NEW p PROVE InIndex(p)' <=> InIndex(p) \/ p = <<key, rid>>
  <2>1. InIndex(p)' <=> \E k \in DOMAIN entries' : \E x \in Index!Listed(entries'[k]) : p = <<k, x>>
    BY DEF InIndex, Index!Listed
  <2>2. key \notin DOMAIN entries => Index!Listed(old) = {}
    BY <1>1 DEF Index!Values, Index!Listed
  <2>3. key \in DOMAIN entries => old = entries[key]
    BY <1>1 DEF Index!Values
  <2>4. ASSUME InIndex(p)' PROVE InIndex(p) \/ p = <<key, rid>>
    <3>0. PICK k \in DOMAIN entries' : \E x \in Index!Listed(entries'[k]) : p = <<k, x>>
      BY <2>1, <2>4
    <3>1. PICK x \in Index!Listed(entries'[k]) : p = <<k, x>>
      BY <3>0
    <3>2. CASE k = key
      <4>1. x \in Index!Listed(old) \/ x = rid
        BY <1>12, <1>14, <3>1, <3>2
      <4> QED BY <2>2, <2>3, <3>1, <3>2, <4>1 DEF InIndex
    <3>3. CASE k # key
      <4>1. k \in DOMAIN entries /\ x \in Index!Listed(entries[k])
        BY <1>12, <3>1, <3>3
      <4> QED BY <3>1, <4>1 DEF InIndex
    <3> QED BY <3>2, <3>3
  <2>5. ASSUME p = <<key, rid>> PROVE InIndex(p)'
    BY <1>12, <1>14, <2>1, <2>5
  <2>6. ASSUME InIndex(p) PROVE InIndex(p)'
    <3>0. PICK k \in DOMAIN entries : \E x \in Index!Listed(entries[k]) : p = <<k, x>>
      BY <2>6 DEF InIndex
    <3>1. PICK x \in Index!Listed(entries[k]) : p = <<k, x>>
      BY <3>0
    <3>2. k \in DOMAIN entries' /\ x \in Index!Listed(entries'[k])
      BY <1>12, <1>14, <2>3, <3>1
    <3> QED BY <2>1, <3>1, <3>2
  <2> QED BY <2>4, <2>5, <2>6
<1>16. ~misled' => \A p : p \in pairs' <=> InIndex(p)'
  BY <1>3, <1>15 DEF IndexInv
<1>17. \A k \in DOMAIN entries' : ListInv(entries[k])'
  BY <1>3, <1>13 DEF ListInv
<1> QED BY <1>3, <1>16, <1>17 DEF IndexInv

\* A key whose list loses the RID, or all of them.
LEMMA IndexRemoves ==
  ASSUME IndexInv, NEW key \in Keys, NEW rid, Index!Remove(key, rid)
  PROVE  IndexInv'
<1>1. PICK old : old = entries[key]
  OBVIOUS
<1>2. PICK left : left = Index!Others(old, rid)[Len(old)]
  OBVIOUS
<1>3. PICK all \in BOOLEAN : all <=> unique \/ rid = NoRid \/ left = <<>>
  OBVIOUS
<1>4. /\ key \in DOMAIN entries /\ unique' = unique
      /\ entries' = (IF all THEN [k \in DOMAIN entries \ {key} |-> entries[k]]
                     ELSE [entries EXCEPT ![key] = left])
      /\ pairs' = {p \in pairs : p[1] # key \/ (rid # NoRid /\ p[2] # rid)}
      /\ misled' = (misled \/ (unique /\ rid \notin {NoRid, old[1]}))
  BY <1>1, <1>2, <1>3 DEF Index!Remove, Index!Without
<1>5. ListInv(old)
  BY <1>1, <1>4 DEF IndexInv
<1>6. /\ left \in Seq(Rids) /\ Distinct(left)
      /\ \A x : x \in Index!Listed(left) <=> x # rid /\ x \in Index!Listed(old)
  BY <1>2, <1>5, OthersFacts DEF ListInv
<1>7. /\ DOMAIN entries' = (IF all THEN DOMAIN entries \ {key} ELSE DOMAIN entries)
      /\ \A k \in DOMAIN entries \ {key} : entries'[k] = entries[k]
      /\ ~all => entries'[key] = left
  BY <1>4
<1>8. \A k \in DOMAIN entries' : ListInv(entries[k])'
  <2> SUFFICES ASSUME NEW k \in DOMAIN entries' PROVE ListInv(entries[k])'
    OBVIOUS
  <2>1. CASE k # key
    <3>1. k \in DOMAIN entries /\ entries'[k] = entries[k] /\ ListInv(entries[k])
      BY <1>7, <2>1 DEF IndexInv
    <3> QED BY <1>4, <3>1 DEF ListInv
  <2>2. CASE k = key
    <3>1. ~all /\ entries'[k] = left /\ ~unique /\ left # <<>>
      BY <1>3, <1>7, <2>2
    <3>2. Len(left) > 0
      BY <1>6, <3>1
    <3> QED BY <1>4, <1>6, <3>1, <3>2 DEF ListInv
  <2> QED BY <2>1, <2>2
<1>9. misled' \in BOOLEAN
  BY <1>4
<1>10. ASSUME ~misled', NEW p PROVE p \in pairs' <=> InIndex(p)'
  <2>1. ~misled /\ (unique => rid \in {NoRid, old[1]})
    BY <1>4, <1>10 DEF IndexInv
  <2>2. p \in pairs <=> InIndex(p)
    BY <2>1 DEF IndexInv
  <2>3. p \in pairs' <=> InIndex(p) /\ (p[1] # key \/ (rid # NoRid /\ p[2] # rid))
    BY <1>4, <2>2
  <2>4. InIndex(p)' <=> \E k \in DOMAIN entries' : \E x \in Index!Listed(entries'[k]) : p = <<k, x>>
    BY DEF InIndex, Index!Listed
  \* Where the whole key goes, the pair with the RID was all that it had.
  <2>5. all /\ rid # NoRid => \A x \in Index!Listed(old) : x = rid
    <3>1. CASE unique
      <4>1. Len(old) = 1
        BY <1>5, <3>1 DEF ListInv
      <4> QED BY <2>1, <3>1, <4>1 DEF Index!Listed
    <3>2. CASE left = <<>>
      BY <1>6, <3>2 DEF Index!Listed
    <3> QED BY <1>3, <3>1, <3>2
  <2>6. ASSUME NEW k \in DOMAIN entries, NEW x \in Index!Listed(entries[k]), p = <<k, x>>,
               p[1] # key \/ (rid # NoRid /\ p[2] # rid)
        PROVE  InIndex(p)'
    <3>1. CASE k # key
      <4>1. k \in DOMAIN entries' /\ entries'[k] = entries[k]
        BY <1>7, <3>1
      <4> QED BY <2>4, <2>6, <4>1
    <3>2. CASE k = key
      <4>1. rid # NoRid /\ x # rid /\ x \in Index!Listed(old)
        BY <1>1, <2>6, <3>2
      <4>2. ~all /\ x \in Index!Listed(left)
        BY <1>6, <2>5, <4>1
      <4>3. key \in DOMAIN entries' /\ entries'[key] = left
        BY <1>4, <1>7, <4>2
      <4> QED BY <2>4, <2>6, <3>2, <4>2, <4>3
    <3> QED BY <3>1, <3>2
  <2>7. ASSUME NEW k \in DOMAIN entries', NEW x \in Index!Listed(entries'[k]), p = <<k, x>>
        PROVE  InIndex(p) /\ (p[1] # key \/ (rid # NoRid /\ p[2] # rid))
    <3>1. CASE k # key
      <4>1. k \in DOMAIN entries /\ entries'[k] = entries[k]
        BY <1>7, <3>1
      <4> QED BY <2>7, <3>1, <4>1 DEF InIndex
    <3>2. CASE k = key
      <4>1. ~all /\ entries'[key] = left
        BY <1>7, <3>2
      <4>2. rid # NoRid /\ x # rid /\ x \in Index!Listed(old)
        BY <1>3, <1>6, <2>7, <3>2, <4>1
      <4> QED BY <1>1, <1>4, <2>7, <3>2, <4>2 DEF InIndex
    <3> QED BY <3>1, <3>2
  <2> QED BY <2>3, <2>4, <2>6, <2>7 DEF InIndex
<1> QED BY <1>4, <1>8, <1>9, <1>10 DEF IndexInv

LEMMA IndexInductive == Spec => []IndexInv
<1>1. Init => IndexInv
  <2> SUFFICES ASSUME Index!Init PROVE IndexInv
    BY DEF Init
  <2>1. /\ unique \in BOOLEAN /\ entries = <<>> /\ DOMAIN entries = {} /\ pairs = {}
        /\ misled = FALSE
    BY DEF Index!Init
  <2> QED BY <2>1 DEF IndexInv, InIndex
<1>2. IndexInv /\ [Next]_vars => IndexInv'
  <2> SUFFICES ASSUME IndexInv, Index!Next \/ UNCHANGED indexVars PROVE IndexInv'
    BY OneLibrary
  <2>1. CASE Index!Next
    BY <2>1, IndexInserts, IndexRemoves DEF Index!Next
  <2>2. CASE UNCHANGED indexVars
    <3>1. UNCHANGED <<unique, entries, pairs, misled>>
      BY <2>2 DEF indexVars
    <3> QED BY <3>1 DEF IndexInv, ListInv, InIndex, Index!Listed
  <2> QED BY <2>1, <2>2
<1> QED BY <1>1, <1>2, PTL DEF Spec

\* The index holds the pairs that its callers put there, each once, through
\* every sequence of insertions and removals, unique or not
\* (src/src/index/b_plus_tree.cpp).
THEOREM IndexIsFaithful == Spec => []IndexFaithful
<1>1. IndexInv => IndexFaithful
  <2> SUFFICES ASSUME IndexInv PROVE IndexFaithful
    OBVIOUS
  <2>1. ASSUME NEW key \in DOMAIN entries
        PROVE  /\ entries[key] # <<>>
               /\ \A i, j \in 1..Len(entries[key]) :
                    entries[key][i] = entries[key][j] \/ unique => i = j
    <3>1. ListInv(entries[key])
      BY DEF IndexInv
    <3>2. entries[key] # <<>>
      BY <3>1 DEF ListInv
    <3>3. ASSUME NEW i \in 1..Len(entries[key]), NEW j \in 1..Len(entries[key])
          PROVE  entries[key][i] = entries[key][j] \/ unique => i = j
      <4>1. CASE unique
        <5>1. Len(entries[key]) = 1
          BY <3>1, <4>1 DEF ListInv
        <5> QED BY <5>1
      <4>2. CASE ~unique
        BY <3>1, <4>2 DEF ListInv, Distinct
      <4> QED BY <4>1, <4>2
    <3> QED BY <3>2, <3>3
  <2>2. ASSUME ~misled
        PROVE  pairs = UNION {{<<key, rid>> : rid \in Index!Listed(entries[key])} :
                                key \in DOMAIN entries}
    <3>1. \A p : p \in pairs <=> InIndex(p)
      BY <2>2 DEF IndexInv
    <3> QED BY <3>1 DEF InIndex
  <2> QED BY <2>1, <2>2 DEF IndexFaithful, Index!IndexFaithful
<1> QED BY <1>1, IndexInductive, PTL

-----------------------------------------------------------------------------
(***************************************************************************)
(* SQL operators: three-valued logic and IN.                               *)
(***************************************************************************)
Yes    == Boolean(TRUE)
No     == Boolean(FALSE)
Truths == {Null, Yes, No}

LEMMA TruthFacts ==
  /\ Null.type = 0 /\ Yes.type = 1 /\ No.type = 1 /\ Error.type = 7
  /\ Yes.data[1] = 1 /\ No.data[1] = 0
  /\ Yes # No /\ Null # Yes /\ Null # No
  /\ Error \notin Truths
<1>1. /\ Null.type = 0 /\ Yes.type = 1 /\ No.type = 1 /\ Error.type = 7
      /\ Yes.data = <<1>> /\ No.data = <<0>>
  BY DEF Null, Yes, No, Boolean, Error
<1>2. <<1>>[1] = 1 /\ <<0>>[1] = 0
  OBVIOUS
<1>3. Yes.data[1] = 1 /\ No.data[1] = 0
  BY <1>1, <1>2
<1>4. Yes # No /\ Null # Yes /\ Null # No
  BY <1>1, <1>3
<1>5. Error \notin Truths
  BY <1>1 DEF Truths
<1> QED BY <1>1, <1>3, <1>4, <1>5

LEMMA TruthIsOneOf ==
  ASSUME NEW v, IsValue(v), InRange(v), v.type \in {0, 1}
  PROVE  v \in Truths
<1>1. v = [type |-> v.type, data |-> v.data]
  BY DEF InRange
<1>2. CASE v.type = 0
  <2>1. v.data = <<>>
    BY <1>2 DEF InRange
  <2> QED BY <1>1, <1>2, <2>1 DEF Truths, Null
<1>3. CASE v.type = 1
  <2>1. v.data \in Seq(Int) /\ Len(v.data) = 1 /\ v.data[1] \in 0..1
    BY <1>3 DEF InRange, IsValue
  <2>2. v.data = <<v.data[1]>>
    BY <2>1
  <2>3. v.data[1] = 0 \/ v.data[1] = 1
    BY <2>1
  <2>4. v.data = <<0>> \/ v.data = <<1>>
    BY <2>2, <2>3
  <2>5. Yes = [type |-> 1, data |-> <<1>>] /\ No = [type |-> 1, data |-> <<0>>]
    BY DEF Yes, No, Boolean
  <2> QED BY <1>1, <1>3, <2>4, <2>5 DEF Truths
<1> QED BY <1>2, <1>3

LEMMA OneAndTwo == 1..1 = {1} /\ 1..2 = {1, 2}
OBVIOUS

LEMMA ApplyUnary ==
  ASSUME NEW op \in {"not", "is null"}, NEW v
  PROVE  Apply(op, <<v>>) = IF v = Error THEN Error ELSE Unary(op, v)
<1>1. Len(<<v>>) = 1 /\ <<v>>[1] = v
  OBVIOUS
<1>2. (\E i \in 1..Len(<<v>>) : <<v>>[i] = Error) <=> v = Error
  BY <1>1, OneAndTwo
<1> QED BY <1>1, <1>2 DEF Apply

LEMMA ApplyBinary ==
  ASSUME NEW op \in {"and", "or"}, NEW v, NEW w
  PROVE  Apply(op, <<v, w>>) = IF v = Error \/ w = Error THEN Error ELSE Logic(op, v, w)
<1>1. Len(<<v, w>>) = 2 /\ <<v, w>>[1] = v /\ <<v, w>>[2] = w
  OBVIOUS
<1>2. (\E i \in 1..Len(<<v, w>>) : <<v, w>>[i] = Error) <=> v = Error \/ w = Error
  BY <1>1, OneAndTwo
<1> QED BY <1>1, <1>2 DEF Apply

\* NOT and IS NULL, AND and OR on truth values.
LEMMA TruthTables ==
  /\ Unary("not", Yes) = No /\ Unary("not", No) = Yes /\ Unary("not", Null) = Null
  /\ Unary("is null", Yes) = No /\ Unary("is null", No) = No /\ Unary("is null", Null) = Yes
<1>0. ~IsNull(Yes) /\ ~IsNull(No) /\ IsNull(Null)
  BY TruthFacts DEF IsNull
<1>1. Unary("not", Yes) = No /\ Unary("not", No) = Yes /\ Unary("not", Null) = Null
  <2>1. \A v : ~IsNull(v) /\ v.type = 1 => Unary("not", v) = IF v.data[1] = 0 THEN Yes ELSE No
    <3>1. \A v : Boolean(v.data[1] = 0) = IF v.data[1] = 0 THEN Yes ELSE No
      BY DEF Boolean, Yes, No
    <3> QED BY <3>1 DEF Unary
  <2>2. Unary("not", Null) = Null
    BY <1>0 DEF Unary
  <2> QED BY <1>0, <2>1, <2>2, TruthFacts
<1>2. Unary("is null", Yes) = No /\ Unary("is null", No) = No /\ Unary("is null", Null) = Yes
  <2>1. \A v : Unary("is null", v) = IF IsNull(v) THEN Yes ELSE No
    BY DEF Unary, Boolean, Yes, No
  <2> QED BY <1>0, <2>1
<1> QED BY <1>1, <1>2

LEMMA LogicTables ==
  ASSUME NEW a \in Truths, NEW b \in Truths
  PROVE  /\ Logic("and", a, b) = IF No \in {a, b} THEN No
                                 ELSE IF Null \in {a, b} THEN Null ELSE Yes
         /\ Logic("or", a, b) = IF Yes \in {a, b} THEN Yes
                                ELSE IF Null \in {a, b} THEN Null ELSE No
<1>0. ~IsNull(Yes) /\ ~IsNull(No) /\ IsNull(Null)
  BY TruthFacts DEF IsNull
<1>1. \A x \in Truths : x.type \in {0, 1} /\ (IsNull(x) <=> x = Null)
  BY <1>0, TruthFacts DEF Truths
<1>2. {a.type, b.type} \ {0, 1} = {}
  BY <1>1
<1>3. (Null \in {a, b}) <=> (IsNull(a) \/ IsNull(b))
  BY <1>1
<1>4. Boolean("and" = "or") = No /\ Boolean("and" = "and") = Yes
      /\ Boolean("or" = "or") = Yes /\ Boolean("or" = "and") = No
  BY DEF Boolean, Yes, No
<1>5. Logic("and", a, b) = IF No \in {a, b} THEN No
                           ELSE IF IsNull(a) \/ IsNull(b) THEN Null ELSE Yes
  BY <1>2, <1>4 DEF Logic
<1>6. Logic("or", a, b) = IF Yes \in {a, b} THEN Yes
                          ELSE IF IsNull(a) \/ IsNull(b) THEN Null ELSE No
  BY <1>2, <1>4 DEF Logic
<1> QED BY <1>3, <1>5, <1>6

\* What is no truth value makes an error of AND, OR and NOT.
LEMMA NoTruth ==
  ASSUME NEW a, NEW b, a.type \notin {0, 1} \/ b.type \notin {0, 1}
  PROVE  Logic("and", a, b) = Error /\ Logic("or", a, b) = Error
<1>1. {a.type, b.type} \ {0, 1} # {}
  OBVIOUS
<1> QED BY <1>1 DEF Logic

LEMMA NotNoTruth ==
  ASSUME NEW a, a.type \notin {0, 1}
  PROVE  Unary("not", a) = Error
BY DEF Unary, IsNull

\* The operators on any values, errors included.
NotOf(v)    == IF v = Error THEN Error ELSE Unary("not", v)
NullOf(v)   == IF v = Error THEN Error ELSE Unary("is null", v)
AndOf(v, w) == IF v = Error \/ w = Error THEN Error ELSE Logic("and", v, w)
OrOf(v, w)  == IF v = Error \/ w = Error THEN Error ELSE Logic("or", v, w)

\* A truth value, or what is none, whose negation is an error.
LEMMA TruthOrNot ==
  ASSUME NEW v, v = Error \/ (IsValue(v) /\ InRange(v))
  PROVE  IF v.type \in {0, 1} THEN v \in Truths /\ v # Error
         ELSE v \notin Truths /\ NotOf(v) = Error
<1>1. CASE v = Error
  BY <1>1, TruthFacts DEF NotOf
<1>2. CASE v # Error /\ v.type \in {0, 1}
  BY <1>2, TruthIsOneOf
<1>3. CASE v # Error /\ v.type \notin {0, 1}
  <2>1. v \notin Truths
    BY <1>3, TruthFacts DEF Truths
  <2> QED BY <1>3, <2>1, NotNoTruth DEF NotOf
<1> QED BY <1>1, <1>2, <1>3

LEMMA TruthsStay ==
  ASSUME NEW a \in Truths, NEW b \in Truths
  PROVE  /\ NotOf(a) = IF a = Yes THEN No ELSE IF a = No THEN Yes ELSE Null
         /\ NullOf(a) = IF a = Null THEN Yes ELSE No
         /\ AndOf(a, b) = IF No \in {a, b} THEN No ELSE IF Null \in {a, b} THEN Null ELSE Yes
         /\ OrOf(a, b) = IF Yes \in {a, b} THEN Yes ELSE IF Null \in {a, b} THEN Null ELSE No
<1>1. a # Error /\ b # Error
  BY TruthFacts
<1>2. NotOf(a) = IF a = Yes THEN No ELSE IF a = No THEN Yes ELSE Null
  BY <1>1, TruthTables, TruthFacts DEF NotOf, Truths
<1>3. NullOf(a) = IF a = Null THEN Yes ELSE No
  BY <1>1, TruthTables, TruthFacts DEF NullOf, Truths
<1>4. AndOf(a, b) = Logic("and", a, b) /\ OrOf(a, b) = Logic("or", a, b)
  BY <1>1 DEF AndOf, OrOf
<1> QED BY <1>2, <1>3, <1>4, LogicTables

\* The values of a predicate, and of what is built from two of them.
LEMMA PredicateValue ==
  ASSUME NEW p \in SamplePredicates, NEW row \in SampleRows
  PROVE  \/ Evaluate(p, row, <<>>) = Error
         \/ IsValue(Evaluate(p, row, <<>>)) /\ InRange(Evaluate(p, row, <<>>))
BY PredicatesAssumption

LEMMA NegationValues ==
  ASSUME NEW p \in SamplePredicates, NEW q \in SamplePredicates, NEW row \in SampleRows,
         NEW e \in {p, q, Node("and", <<p, q>>)}
  PROVE  /\ Evaluate(Node("not", <<e>>), row, <<>>) = NotOf(Evaluate(e, row, <<>>))
         /\ Evaluate(Node("is null", <<e>>), row, <<>>) = NullOf(Evaluate(e, row, <<>>))
<1>1. \A op \in {"not", "is null"}, x \in {p, q, Node("and", <<p, q>>)} :
        Evaluate(Node(op, <<x>>), row, <<>>) = Apply(op, <<Evaluate(x, row, <<>>)>>)
  BY PredicatesAssumption, ZenonT(60)
<1>2. \A x : Apply("not", <<x>>) = NotOf(x) /\ Apply("is null", <<x>>) = NullOf(x)
  BY ApplyUnary DEF NotOf, NullOf
<1> QED BY <1>1, <1>2

LEMMA LogicValues ==
  ASSUME NEW p \in SamplePredicates, NEW q \in SamplePredicates, NEW row \in SampleRows
  PROVE  LET a == Evaluate(p, row, <<>>)
             b == Evaluate(q, row, <<>>)
         IN
         /\ Evaluate(Node("and", <<p, q>>), row, <<>>) = AndOf(a, b)
         /\ Evaluate(Node("or", <<p, q>>), row, <<>>) = OrOf(a, b)
         /\ Evaluate(Node("or", <<Node("not", <<p>>), Node("not", <<q>>)>>), row, <<>>)
              = OrOf(NotOf(a), NotOf(b))
<1> DEFINE np == Node("not", <<p>>)
           nq == Node("not", <<q>>)
<1>1. \A op \in {"and", "or"} :
        /\ Evaluate(Node(op, <<p, q>>), row, <<>>)
             = Apply(op, <<Evaluate(p, row, <<>>), Evaluate(q, row, <<>>)>>)
        /\ Evaluate(Node(op, <<np, nq>>), row, <<>>)
             = Apply(op, <<Evaluate(np, row, <<>>), Evaluate(nq, row, <<>>)>>)
  BY PredicatesAssumption, ZenonT(60)
<1>2. \A x, y : Apply("and", <<x, y>>) = AndOf(x, y) /\ Apply("or", <<x, y>>) = OrOf(x, y)
  BY ApplyBinary DEF AndOf, OrOf
<1>3. /\ Evaluate(np, row, <<>>) = NotOf(Evaluate(p, row, <<>>))
      /\ Evaluate(nq, row, <<>>) = NotOf(Evaluate(q, row, <<>>))
  BY NegationValues
<1> QED BY <1>1, <1>2, <1>3

LEMMA OneIsChosen ==
  ASSUME NEW e, NEW row, Evaluate(e, row, <<>>) \in Truths,
         Evaluate(Node("not", <<e>>), row, <<>>) = NotOf(Evaluate(e, row, <<>>)),
         Evaluate(Node("is null", <<e>>), row, <<>>) = NullOf(Evaluate(e, row, <<>>))
  PROVE  Partition(e, row)
<1>1. PICK a \in Truths : a = Evaluate(e, row, <<>>)
  OBVIOUS
<1>2. PICK f, g : f = Node("not", <<e>>) /\ g = Node("is null", <<e>>)
  OBVIOUS
<1>3. PICK b, c : b = NotOf(a) /\ c = NullOf(a)
  OBVIOUS
<1>4. Evaluate(f, row, <<>>) = b /\ Evaluate(g, row, <<>>) = c
  BY <1>1, <1>2, <1>3
<1>5. \/ a = Yes /\ b # Yes /\ c # Yes
      \/ a # Yes /\ b = Yes /\ c # Yes
      \/ a # Yes /\ b # Yes /\ c = Yes
  BY <1>3, TruthsStay, TruthFacts DEF Truths
<1>6. \A x : Truthy(x) <=> x = Yes
  BY DEF Truthy, Yes
<1>7. \E chosen \in {e, f, g} : \A x \in {e, f, g} :
        Evaluate(x, row, <<>>) = Yes <=> x = chosen
  BY <1>1, <1>4, <1>5
<1> QED BY <1>2, <1>6, <1>7 DEF Partition

LEMMA PartitionHolds ==
  ASSUME NEW p \in SamplePredicates, NEW q \in SamplePredicates, NEW row \in SampleRows,
         NEW e \in {p, Node("and", <<p, q>>)}
  PROVE  Partition(e, row)
<1>1. PICK a, b : a = Evaluate(p, row, <<>>) /\ b = Evaluate(q, row, <<>>)
  OBVIOUS
<1>2. PICK v : v = Evaluate(e, row, <<>>)
  OBVIOUS
<1> SUFFICES ASSUME v.type \in {0, 1} PROVE Partition(e, row)
  BY <1>2 DEF Partition
<1>3. /\ Evaluate(Node("not", <<e>>), row, <<>>) = NotOf(v)
      /\ Evaluate(Node("is null", <<e>>), row, <<>>) = NullOf(v)
  <2>1. e \in {p, q, Node("and", <<p, q>>)}
    OBVIOUS
  <2> QED BY <1>2, <2>1, NegationValues, ZenonT(60)
<1>4. \A x \in {p, q} : \/ Evaluate(x, row, <<>>) = Error
                        \/ /\ IsValue(Evaluate(x, row, <<>>))
                           /\ InRange(Evaluate(x, row, <<>>))
  BY PredicateValue
<1>5. v \in Truths
  <2>1. CASE e = p
    BY <1>2, <1>4, <2>1, TruthOrNot
  <2>2. CASE e # p
    <3>1. v = AndOf(a, b)
      <4>1. Evaluate(Node("and", <<p, q>>), row, <<>>) = AndOf(a, b)
        BY <1>1, LogicValues
      <4> QED BY <1>2, <2>2, <4>1
    <3>2. CASE a.type \in {0, 1} /\ b.type \in {0, 1}
      <4>1. a \in Truths /\ b \in Truths
        BY <1>1, <1>4, <3>2, TruthOrNot
      <4> QED BY <3>1, <4>1, TruthsStay DEF Truths
    <3>3. CASE ~(a.type \in {0, 1} /\ b.type \in {0, 1})
      <4>1. v = Error
        BY <3>1, <3>3, NoTruth DEF AndOf
      <4> QED BY <4>1, TruthFacts
    <3> QED BY <3>2, <3>3
  <2> QED BY <2>1, <2>2
<1> QED BY <1>2, <1>3, <1>5, OneIsChosen

LEMMA LatticeHolds ==
  ASSUME NEW p \in SamplePredicates, NEW q \in SamplePredicates, NEW row \in SampleRows
  PROVE  Lattice(p, q, row)
<1>1. PICK a, b : a = Evaluate(p, row, <<>>) /\ b = Evaluate(q, row, <<>>)
  OBVIOUS
<1> SUFFICES ASSUME {a.type, b.type} \subseteq {0, 1} PROVE Lattice(p, q, row)
  BY <1>1 DEF Lattice
<1>2. a \in Truths /\ b \in Truths
  BY <1>1, PredicateValue, TruthOrNot
<1>3. Rank(Null) = 1 /\ Rank(Yes) = 2 /\ Rank(No) = 0
  <2>1. IsNull(Null) /\ ~IsNull(Yes) /\ ~IsNull(No)
    BY TruthFacts DEF IsNull
  <2>2. Yes.data[1] = 1 /\ No.data[1] = 0
    BY TruthFacts
  <2> QED BY <2>1, <2>2 DEF Rank
<1>4. PICK c, d : c = AndOf(a, b) /\ d = OrOf(a, b)
  OBVIOUS
<1>5. \/ Rank(a) <= Rank(b) /\ Rank(c) = Rank(a) /\ Rank(d) = Rank(b)
      \/ Rank(b) <= Rank(a) /\ Rank(c) = Rank(b) /\ Rank(d) = Rank(a)
  BY <1>2, <1>3, <1>4, TruthsStay, TruthFacts DEF Truths
<1>6. Rank(a) \in Int /\ Rank(b) \in Int
  BY <1>2, <1>3 DEF Truths
<1>7. /\ Evaluate(Node("and", <<p, q>>), row, <<>>) = c
      /\ Evaluate(Node("or", <<p, q>>), row, <<>>) = d
  BY <1>1, <1>4, LogicValues
<1>8. \A r \in {Rank(a), Rank(b)} : Rank(c) <= r /\ r <= Rank(d)
  BY <1>5, <1>6
<1>9. {Rank(Evaluate(Node(op, <<p, q>>), row, <<>>)) : op \in {"and", "or"}} = {Rank(a), Rank(b)}
  <2>1. {Rank(Evaluate(Node(op, <<p, q>>), row, <<>>)) : op \in {"and", "or"}} = {Rank(c), Rank(d)}
    BY <1>7
  <2> QED BY <1>5, <2>1
<1> QED BY <1>1, <1>7, <1>8, <1>9 DEF Lattice

LEMMA DeMorganHolds ==
  ASSUME NEW p \in SamplePredicates, NEW q \in SamplePredicates, NEW row \in SampleRows
  PROVE  DeMorgan(p, q, row)
<1>1. PICK a, b : a = Evaluate(p, row, <<>>) /\ b = Evaluate(q, row, <<>>)
  OBVIOUS
<1>2. \A x \in {a, b} : IF x.type \in {0, 1} THEN x \in Truths /\ x # Error
                        ELSE x \notin Truths /\ NotOf(x) = Error
  BY <1>1, PredicateValue, TruthOrNot
<1>3. NotOf(AndOf(a, b)) = OrOf(NotOf(a), NotOf(b))
  <2>1. CASE a \in Truths /\ b \in Truths
    <3>1. \A x \in Truths, y \in Truths : AndOf(x, y) \in Truths /\ NotOf(x) \in Truths
      BY TruthsStay DEF Truths
    <3> QED BY <2>1, <3>1, TruthsStay, TruthFacts DEF Truths
  <2>2. CASE ~(a \in Truths /\ b \in Truths)
    <3>1. NotOf(a) = Error \/ NotOf(b) = Error
      BY <1>2, <2>2
    <3>2. OrOf(NotOf(a), NotOf(b)) = Error
      BY <3>1 DEF OrOf
    <3>3. AndOf(a, b) = Error
      BY <1>2, <2>2, NoTruth DEF AndOf
    <3> QED BY <3>2, <3>3 DEF NotOf
  <2> QED BY <2>1, <2>2
<1>4. PICK both, other : /\ both = Node("and", <<p, q>>)
                        /\ other = Node("or", <<Node("not", <<p>>), Node("not", <<q>>)>>)
  OBVIOUS
<1>5. /\ Evaluate(both, row, <<>>) = AndOf(a, b)
      /\ Evaluate(other, row, <<>>) = OrOf(NotOf(a), NotOf(b))
      /\ Evaluate(Node("not", <<both>>), row, <<>>) = NotOf(Evaluate(both, row, <<>>))
  BY <1>1, <1>4, LogicValues, NegationValues, ZenonT(60)
<1> QED BY <1>3, <1>4, <1>5 DEF DeMorgan

\* The candidates of IN that are looked at are candidates.
LEMMA SeenAmong ==
  ASSUME NEW x, NEW y, NEW z, NEW i \in Seen(<<x, y, z>>)
  PROVE  <<x, y, z>>[i] \in {x, y, z}
<1>1. PICK v : v = <<x, y, z>>
  OBVIOUS
<1>2. Len(v) = 3 /\ v[1] = x /\ v[2] = y /\ v[3] = z
  BY <1>1
<1>3. PICK M : M = Matches(v)
  OBVIOUS
<1>4. M \in SUBSET (2..3)
  BY <1>2, <1>3 DEF Matches
<1>5. i \in 1..3
  <2>1. CASE M = {}
    BY <1>1, <1>2, <1>3, <2>1 DEF Seen
  <2>2. CASE M # {}
    <3>1. \E m \in M : \A j \in M : m <= j
      <4>1. CASE 2 \in M
        BY <1>4, <4>1
      <4>2. CASE 2 \notin M
        <5>1. \A j \in M : j = 3
          BY <1>4, <4>2
        <5> QED BY <2>2, <5>1
      <4> QED BY <4>1, <4>2
    <3>2. PICK f : f = FirstIn(M)
      OBVIOUS
    <3>3. f \in 2..3
      BY <1>4, <3>1, <3>2 DEF FirstIn
    <3>4. i \in 1..f
      BY <1>1, <1>3, <2>2, <3>2 DEF Seen
    <3> QED BY <3>3, <3>4
  <2> QED BY <2>1, <2>2
<1>6. i = 1 \/ i = 2 \/ i = 3
  BY <1>5
<1> QED BY <1>1, <1>2, <1>6

LEMMA ComparedOrUnknown ==
  ASSUME NEW x, NEW y, ~IsNull(x), ~IsNull(y), x.type = y.type, ~IsNaN(x), ~IsNaN(y)
  PROVE  Compare(x, y) \in {"lt", "gt", "eq"}
BY DEF Compare

LEMMA InIsOrHolds ==
  ASSUME NEW x, NEW y, NEW z, \A v \in {x, y, z} : IsValue(v) /\ InRange(v)
  PROVE  InIsOr(x, y, z)
<1> SUFFICES ASSUME ~IsNull(y), ~IsNull(z), y.type = z.type, x.type \in {0, y.type},
                    \A v \in {x, y, z} : ~IsNaN(v)
             PROVE  Apply("in", <<x, y, z>>)
                      = Logic("or", Equality("=", Compare(x, y)), Equality("=", Compare(x, z)))
  BY DEF InIsOr
<1>1. PICK v : v = <<x, y, z>>
  OBVIOUS
<1>2. Len(v) = 3 /\ v[1] = x /\ v[2] = y /\ v[3] = z
  BY <1>1
<1>3. Apply("in", v) = EvalIn(v)
  BY DEF Apply
<1>4. x # Error /\ y # Error /\ z # Error
  <2>1. x.type # 7 /\ y.type # 7 /\ z.type # 7
    BY DEF IsValue
  <2> QED BY <2>1, TruthFacts
<1>5. CASE IsNull(x)
  <2>1. x = Null
    <3>1. x.type = 0
      BY <1>5 DEF IsNull
    <3>2. x.data = <<>> /\ x = [type |-> x.type, data |-> x.data]
      BY <3>1 DEF InRange
    <3> QED BY <3>1, <3>2 DEF Null
  <2>2. Apply("in", v) = Null
    BY <1>2, <1>3, <1>5, <2>1 DEF EvalIn
  <2>3. Equality("=", Compare(x, y)) = Null /\ Equality("=", Compare(x, z)) = Null
    BY <1>5 DEF Compare, Equality
  <2>4. Logic("or", Null, Null) = Null
    <3>1. Null \in Truths /\ Null # Yes
      BY TruthFacts DEF Truths
    <3> QED BY <3>1, LogicTables
  <2> QED BY <1>1, <2>2, <2>3, <2>4
<1>6. CASE ~IsNull(x)
  <2>1. Compare(x, y) \in {"lt", "gt", "eq"} /\ Compare(x, z) \in {"lt", "gt", "eq"}
    <3>1. x.type = y.type /\ x.type = z.type
      BY <1>6 DEF IsNull
    <3> QED BY <1>6, <3>1, ComparedOrUnknown
  <2>2. \A c \in {"lt", "gt", "eq"} : Equality("=", c) = IF c = "eq" THEN Yes ELSE No
    BY DEF Equality, Boolean, Yes, No
  <2>3. PICK a, b : /\ a = Equality("=", Compare(x, y)) /\ b = Equality("=", Compare(x, z))
                    /\ a = (IF Compare(x, y) = "eq" THEN Yes ELSE No)
                    /\ b = (IF Compare(x, z) = "eq" THEN Yes ELSE No)
    BY <2>1, <2>2
  <2>4. Logic("or", a, b) = IF Compare(x, y) = "eq" \/ Compare(x, z) = "eq" THEN Yes ELSE No
    <3>1. a \in Truths /\ b \in Truths /\ Null \notin {a, b}
          /\ (Yes \in {a, b} <=> Compare(x, y) = "eq" \/ Compare(x, z) = "eq")
      BY <2>3, TruthFacts DEF Truths
    <3> QED BY <3>1, LogicTables
  <2>5. ~\E i \in Seen(v) : v[i] = Error
    BY <1>1, <1>4, SeenAmong
  <2>6. Matches(v) # {} <=> Compare(x, y) = "eq" \/ Compare(x, z) = "eq"
    <3>1. Matches(v) = {i \in 2..3 : Compare(x, v[i]) = "eq"}
      BY <1>2 DEF Matches
    <3>2. 2 \in 2..3 /\ 3 \in 2..3 /\ \A i \in 2..3 : i = 2 \/ i = 3
      OBVIOUS
    <3> QED BY <1>2, <3>1, <3>2
  <2>7. EvalIn(v) = IF Compare(x, y) = "eq" \/ Compare(x, z) = "eq" THEN Yes ELSE No
    <3>1. EvalIn(v) = Boolean(Matches(v) # {})
      BY <1>2, <1>4, <1>6, <2>5 DEF EvalIn
    <3> QED BY <2>6, <3>1 DEF Boolean, Yes, No
  <2> QED BY <1>1, <1>3, <2>3, <2>4, <2>7
<1> QED BY <1>5, <1>6

\* IN (a, b), which stops at the first candidate that is equal, is the same as
\* a chain of OR, which stops at none (Eval in src/src/api/db.cpp).
THEOREM InIsAChainOfOr == Spec => []InMatchesOr
<1>1. input \in Inputs(subject) => InMatchesOr
  <2> SUFFICES ASSUME subject = "values", input \in Inputs(subject)
               PROVE  InIsOr(input[1], input[2], input[3])
    BY DEF InMatchesOr
  <2>1. input[1] \in SampleValues /\ input[2] \in SampleValues /\ input[3] \in SampleValues
    BY DEF Inputs
  <2> QED BY <2>1, InIsOrHolds, ValuesAssumption
<1> QED BY <1>1, InputGiven, PTL

\* WHERE takes a row for p, for NOT p or for p IS NULL, whatever p is made of;
\* AND, OR and NOT follow three-valued logic (Eval in src/src/api/db.cpp).
THEOREM LogicHasThreeValues == Spec => []ThreeValuedLogic
<1>1. input \in Inputs(subject) => ThreeValuedLogic
  <2> SUFFICES ASSUME subject = "predicates", input \in Inputs(subject)
               PROVE  ThreeValuedLogic
    BY DEF ThreeValuedLogic
  <2>1. PICK p, q, row : /\ p = input[1] /\ q = input[2] /\ row = input[3]
                         /\ p \in SamplePredicates /\ q \in SamplePredicates /\ row \in SampleRows
    BY DEF Inputs
  <2>2. Lattice(p, q, row) /\ DeMorgan(p, q, row)
    BY <2>1, LatticeHolds, DeMorganHolds
  <2>3. \A e \in {p, Node("and", <<p, q>>)} : Partition(e, row)
    BY <2>1, PartitionHolds
  <2> QED BY <2>1, <2>2, <2>3 DEF ThreeValuedLogic
<1> QED BY <1>1, InputGiven, PTL

-----------------------------------------------------------------------------
(***************************************************************************)
(* Snapshots.                                                              *)
(***************************************************************************)
\* From pos on, b is the code c, or as much of it as b has left.
Continues(b, pos, c) ==
  \A i \in 1..Len(c) : pos + i - 1 <= Len(b) => b[pos + i - 1] = c[i]

\* What is read where v was written as the code c: v, if the whole of c is there.
Outcome(b, pos, c, v) == IF pos + Len(c) - 1 <= Len(b) THEN Got(v, pos + Len(c)) ELSE Short

Code == Seq(Int)

Places == Nat \ {0}

LEMMA ReadResults ==
  /\ \A v, p : Got(v, p).ok /\ Got(v, p).val = v /\ Got(v, p).pos = p
  /\ ~Short.ok
BY DEF Got, Short

\* A code is made of parts.
LEMMA ContinuesInParts ==
  ASSUME NEW b \in Code, NEW pos \in Places, NEW c \in Code, NEW d \in Code,
         Continues(b, pos, c \o d)
  PROVE  /\ Continues(b, pos, c) /\ Continues(b, pos + Len(c), d)
         /\ Len(c \o d) = Len(c) + Len(d) /\ c \o d \in Code /\ pos + Len(c) \in Places
<1>1. PICK m \in Nat, n \in Nat : m = Len(c) /\ n = Len(d)
  BY DEF Code
<1>2. /\ c \o d \in Code /\ Len(c \o d) = m + n
      /\ \A i \in 1..m : (c \o d)[i] = c[i]
      /\ \A i \in 1..n : (c \o d)[m + i] = d[i]
  BY <1>1 DEF Code
<1>3. PICK l \in Nat : l = Len(b)
  BY DEF Code
<1>4. PICK p \in Nat : p = pos /\ p # 0
  BY DEF Places
<1>5. \A i \in 1..m + n : p + i - 1 <= l => b[p + i - 1] = (c \o d)[i]
  BY <1>2, <1>3, <1>4 DEF Continues
<1>6. \A i \in 1..m : p + i - 1 <= l => b[p + i - 1] = c[i]
  BY <1>2, <1>5
<1>7. ASSUME NEW i \in 1..n, (p + m) + i - 1 <= l
      PROVE  b[(p + m) + i - 1] = d[i]
  <2>1. m + i \in 1..m + n /\ p + (m + i) - 1 = (p + m) + i - 1
    OBVIOUS
  <2>2. b[p + (m + i) - 1] = (c \o d)[m + i]
    BY <1>5, <1>7, <2>1
  <2> QED BY <1>2, <2>1, <2>2
<1> QED BY <1>1, <1>2, <1>3, <1>4, <1>6, <1>7 DEF Continues, Places

LEMMA WidthFacts ==
  /\ Base \in Nat /\ 0 < Base /\ 2 * Half = Product(Base, Base) /\ Half \in Nat
  /\ 5 < Base
<1>1. PICK d \in Nat : d = Base /\ 0 < d /\ d % 2 = 0 /\ 5 < d
  BY WidthAssumption
<1>2. PICK h \in Nat : h = d \div 2 /\ d = 2 * h
  <2>1. d \div 2 \in Nat /\ d = 2 * (d \div 2)
    BY <1>1
  <2> QED BY <2>1
<1>3. PICK k \in Nat : k = h * d
  OBVIOUS
<1>4. d * d = 2 * k
  BY <1>2, <1>3
<1>5. (2 * k) \div 2 = k
  OBVIOUS
<1>6. Half = k
  BY <1>1, <1>4, <1>5 DEF Half
<1> QED BY <1>1, <1>4, <1>6 DEF Product

LEMMA U32Bytes ==
  ASSUME NEW n \in 0..2 * Half - 1
  PROVE  /\ U32(n) \in Code /\ Len(U32(n)) = 2
         /\ U32(n)[1] \in Nat /\ U32(n)[2] \in Nat
         /\ U32(n)[1] + Base * U32(n)[2] = n
<1>1. PICK d \in Nat : d = Base /\ 0 < d
  BY WidthFacts
<1>2. n \in Nat /\ n < Product(d, d)
  <2>1. PICK h \in Nat : h = Half
    BY WidthFacts
  <2> QED BY <1>1, <2>1, WidthFacts
<1>3. PICK q \in Nat, r \in 0..d - 1 : q = n \div d /\ r = n % d /\ n = Product(q, d) + r
  BY <1>1, <1>2, Divided
<1>4. q < d
  <2> SUFFICES ASSUME ~(q < d) PROVE FALSE
    OBVIOUS
  <2>1. q = d \/ d < q
    OBVIOUS
  <2>3. Product(q, d) \in Nat /\ Product(d, d) \in Nat
    BY ProductStep
  <2>2. Product(d, d) <= Product(q, d)
    <3>1. CASE q = d
      BY <2>3, <3>1
    <3>2. CASE d < q
      <4>1. Product(d, d) + d <= Product(q, d)
        BY <3>2, ProductGrows
      <4> QED BY <2>3, <4>1
    <3> QED BY <2>1, <3>1, <3>2
  <2> QED BY <1>2, <1>3, <2>2, <2>3
<1>5. q % d = q
  BY <1>4
<1>6. U32(n) = <<r, q>>
  BY <1>1, <1>3, <1>5 DEF U32
<1>7. <<r, q>> \in Code /\ Len(<<r, q>>) = 2 /\ <<r, q>>[1] = r /\ <<r, q>>[2] = q
  BY DEF Code
<1>8. r + d * q = n
  <2>1. Product(q, d) = d * q
    BY DEF Product
  <2>2. Product(q, d) \in Nat
    BY ProductStep
  <2> QED BY <1>3, <2>1, <2>2
<1> QED BY <1>1, <1>6, <1>7, <1>8

LEMMA U32Read ==
  ASSUME NEW b \in Code, NEW pos \in Places, NEW n \in 0..2 * Half - 1,
         Continues(b, pos, U32(n))
  PROVE  ReadU32(b, pos) = Outcome(b, pos, U32(n), n)
<1>1. Len(U32(n)) = 2
  BY U32Bytes
<1>2. PICK l \in Nat, p \in Nat : l = Len(b) /\ p = pos /\ p # 0
  BY DEF Code, Places
<1>3. CASE p + 1 <= l
  <2>1. b[p + 1 - 1] = U32(n)[1] /\ b[p + 2 - 1] = U32(n)[2]
    BY <1>1, <1>2, <1>3 DEF Continues
  <2>2. p + 1 - 1 = p /\ p + 2 - 1 = p + 1
    OBVIOUS
  <2>3. b[p] + Base * b[p + 1] = n
    BY <2>1, <2>2, U32Bytes
  <2>4. ~(p + 1 > l) /\ p + 2 - 1 <= l
    BY <1>3
  <2> QED BY <1>1, <1>2, <2>3, <2>4 DEF ReadU32, Outcome
<1>4. CASE ~(p + 1 <= l)
  <2>1. p + 1 > l /\ ~(p + 2 - 1 <= l)
    BY <1>4
  <2> QED BY <1>1, <1>2, <2>1 DEF ReadU32, Outcome
<1> QED BY <1>3, <1>4

LEMMA StringRead ==
  ASSUME NEW s \in Code, Len(s) < 2 * Half
  PROVE  /\ String(s) \in Code
         /\ \A b \in Code, pos \in Places :
              Continues(b, pos, String(s)) => ReadString(b, pos) = Outcome(b, pos, String(s), s)
<1>1. PICK n \in Nat : n = Len(s)
  BY DEF Code
<1>2. n \in 0..2 * Half - 1
  BY <1>1, WidthFacts
<1>3. PICK c \in Code : c = U32(n) /\ Len(c) = 2
  BY <1>2, U32Bytes
<1>4. String(s) = c \o s
  BY <1>1, <1>3 DEF String
<1>5. String(s) \in Code
  BY <1>4 DEF Code
<1>6. ASSUME NEW b \in Code, NEW pos \in Places, Continues(b, pos, String(s))
      PROVE  ReadString(b, pos) = Outcome(b, pos, String(s), s)
  <2>1. /\ Continues(b, pos, c) /\ Continues(b, pos + 2, s) /\ Len(String(s)) = 2 + n
    <3>1. Continues(b, pos, c \o s)
      BY <1>4, <1>6
    <3>2. /\ Continues(b, pos, c) /\ Continues(b, pos + Len(c), s)
          /\ Len(c \o s) = Len(c) + Len(s)
      <4>1. Continues(b, pos, c)
        BY <3>1, ContinuesInParts
      <4>2. Continues(b, pos + Len(c), s)
        BY <3>1, ContinuesInParts
      <4>3. Len(c \o s) = Len(c) + Len(s)
        BY <3>1, ContinuesInParts
      <4> QED BY <4>1, <4>2, <4>3
    <3> QED BY <1>1, <1>3, <1>4, <3>2
  <2>2. PICK l \in Nat, p \in Nat : l = Len(b) /\ p = pos /\ p # 0
    BY DEF Code, Places
  <2>3. PICK size : size = ReadU32(b, pos)
    OBVIOUS
  <2>4. size = IF p + 1 <= l THEN Got(n, p + 2) ELSE Short
    <3>1. size = Outcome(b, pos, c, n)
      BY <1>2, <1>3, <2>1, <2>3, U32Read
    <3>2. p + 2 - 1 <= l <=> p + 1 <= l
      OBVIOUS
    <3> QED BY <1>3, <2>2, <3>1, <3>2 DEF Outcome
  <2>5. CASE p + (2 + n) - 1 <= l
    <3>1. p + 1 <= l /\ ~(n > l - (p + 2) + 1)
      BY <2>5
    <3>2. size.ok /\ size.val = n /\ size.pos = p + 2
      BY <2>4, <3>1, ReadResults
    <3>3. SubSeq(b, p + 2, p + 2 + n - 1) = s
      <4>1. PICK f : f = SubSeq(b, p + 2, p + 2 + n - 1)
        OBVIOUS
      <4>2. f \in Code /\ Len(f) = n /\ \A i \in 1..n : f[i] = b[p + 2 + i - 1]
        BY <2>2, <2>5, <4>1 DEF Code
      <4>3. \A i \in 1..n : b[p + 2 + i - 1] = s[i]
        BY <1>1, <2>1, <2>2, <2>5 DEF Continues
      <4>4. \A i \in 1..n : f[i] = s[i]
        BY <4>2, <4>3
      <4>5. f = [i \in 1..n |-> f[i]] /\ s = [i \in 1..n |-> s[i]]
        BY <1>1, <4>2 DEF Code
      <4> QED BY <4>1, <4>4, <4>5
    <3>4. ReadString(b, pos) = Got(s, p + 2 + n)
      BY <2>2, <2>3, <3>1, <3>2, <3>3 DEF ReadString
    <3>5. p + (2 + n) = p + 2 + n
      OBVIOUS
    <3> QED BY <2>1, <2>2, <2>5, <3>4, <3>5 DEF Outcome
  <2>6. CASE ~(p + (2 + n) - 1 <= l)
    <3>1. ReadString(b, pos) = Short
      <4>1. CASE p + 1 <= l
        <5>1. size.ok /\ size.val = n /\ size.pos = p + 2
          BY <2>4, <4>1, ReadResults
        <5>2. n > l - (p + 2) + 1
          BY <2>6
        <5> QED BY <2>2, <2>3, <5>1, <5>2 DEF ReadString
      <4>2. CASE ~(p + 1 <= l)
        BY <2>3, <2>4, <4>2, ReadResults DEF ReadString
      <4> QED BY <4>1, <4>2
    <3> QED BY <2>1, <2>2, <2>6, <3>1 DEF Outcome
  <2> QED BY <2>5, <2>6
<1> QED BY <1>5, <1>6

\* Items that are read one after another.
ItemAt(f, first, read, i) == IF i = 0 THEN first ELSE ReadNext(f[i - 1], read)

ItemsTo(f, first, read, hi) == f = [i \in 0..hi |-> ItemAt(f, first, read, i)]

LEMMA ItemsExist ==
  ASSUME NEW first, NEW read, NEW hi \in Nat
  PROVE  \E f : ItemsTo(f, first, read, hi)
<1> DEFINE S == {n \in Nat : \E f : ItemsTo(f, first, read, n)}
<1>1. 0 \in S
  <2> DEFINE f == [n \in 0..0 |-> first]
  <2>1. \A i \in 0..0 : i = 0
    OBVIOUS
  <2>2. f = [i \in 0..0 |-> ItemAt(f, first, read, i)]
    BY <2>1 DEF ItemAt
  <2>3. ItemsTo(f, first, read, 0)
    BY <2>2 DEF ItemsTo
  <2> HIDE DEF f
  <2> QED BY <2>3
<1>2. ASSUME NEW n \in S PROVE n + 1 \in S
  <2>1. n \in Nat
    OBVIOUS
  <2>2. PICK f : ItemsTo(f, first, read, n)
    OBVIOUS
  <2> HIDE DEF S
  <2> DEFINE g == [k \in 0..n + 1 |-> IF k = n + 1 THEN ItemAt(f, first, read, n + 1) ELSE f[k]]
  <2>3. ASSUME NEW k \in 0..n + 1
        PROVE  g[k] = ItemAt(g, first, read, k)
    <3>1. k # 0 => k - 1 \in 0..n /\ k - 1 # n + 1 /\ k - 1 \in 0..n + 1
      BY <2>1
    <3>2. k # 0 => g[k - 1] = f[k - 1]
      BY <3>1
    <3>3. ItemAt(g, first, read, k) = ItemAt(f, first, read, k)
      BY <3>2 DEF ItemAt
    <3>4. CASE k = n + 1
      BY <3>3, <3>4
    <3>5. CASE k # n + 1
      <4>1. k \in 0..n
        BY <2>1, <3>5
      <4>2. g[k] = f[k]
        BY <3>5
      <4>3. f[k] = ItemAt(f, first, read, k)
        BY <2>2, <4>1 DEF ItemsTo
      <4> QED BY <3>3, <4>2, <4>3
    <3> QED BY <3>4, <3>5
  <2>4. g = [k \in 0..n + 1 |-> g[k]]
    OBVIOUS
  <2> HIDE DEF g
  <2>5. ItemsTo(g, first, read, n + 1)
    BY <2>3, <2>4 DEF ItemsTo
  <2> QED BY <2>1, <2>5 DEF S
<1>3. S = Nat
  <2>1. S \in SUBSET Nat
    OBVIOUS
  <2> HIDE DEF S
  <2> QED BY <1>1, <1>2, <2>1, Inductive
<1> QED BY <1>3

\* The first i of vals.
Taken(vals, i) == [j \in 1..i |-> vals[j]]

LEMMA OneMore ==
  ASSUME NEW vals, NEW i \in Nat
  PROVE  Append(Taken(vals, i), vals[i + 1]) = Taken(vals, i + 1)
<1> DEFINE E == {vals[j] : j \in 1..i + 1}
           s == [j \in 1..i |-> vals[j]]
<1>1. s \in Seq(E) /\ Len(s) = i /\ vals[i + 1] \in E
  <2>1. \A j \in 1..i : s[j] \in E
    OBVIOUS
  <2>2. s \in [1..i -> E]
    BY <2>1
  <2>3. i + 1 \in 1..i + 1
    OBVIOUS
  <2> HIDE DEF s
  <2> QED BY <2>2, <2>3, SMTT(30)
<1>2. \A j \in 1..i : s[j] = vals[j]
  OBVIOUS
<1> HIDE DEF s
<1>3. PICK t : t = Append(s, vals[i + 1])
  OBVIOUS
<1>4. t \in Seq(E) /\ Len(t) = i + 1 /\ t[i + 1] = vals[i + 1] /\ \A j \in 1..i : t[j] = s[j]
  BY <1>1, <1>3, AppendProperties, SMTT(30)
<1>5. t = [j \in 1..i + 1 |-> t[j]]
  BY <1>4
<1>6. \A j \in 1..i + 1 : t[j] = vals[j]
  <2>1. \A j \in 1..i + 1 : j \in 1..i \/ j = i + 1
    OBVIOUS
  <2> QED BY <1>2, <1>4, <2>1
<1>7. t = [j \in 1..i + 1 |-> vals[j]]
  BY <1>5, <1>6
<1> QED BY <1>3, <1>7 DEF s, Taken

\* What is read where the first i of vals were written as the code c, when only
\* the values whose numbers are allowed can be read.
OutcomeTo(b, pos, c, i, vals, allowed) ==
  IF 1..i \subseteq allowed THEN Outcome(b, pos, c, Taken(vals, i)) ELSE Short

\* read reads the i-th of vals, whose code is d, wherever it was written.
ReadsItem(read, b, d, i, vals, allowed) ==
  \A p \in Places : Continues(b, p, d) =>
    read[p] = IF i \in allowed THEN Outcome(b, p, d, vals[i]) ELSE Short

\* One more item is read behind i of them, which fill the code c.
LEMMA NextRead ==
  ASSUME NEW b \in Code, NEW pos \in Places, NEW c \in Code, NEW d \in Code, NEW read,
         NEW i \in Nat, NEW vals, NEW allowed,
         Continues(b, pos, c \o d), ReadsItem(read, b, d, i + 1, vals, allowed)
  PROVE  ReadNext(OutcomeTo(b, pos, c, i, vals, allowed), read)
           = OutcomeTo(b, pos, c \o d, i + 1, vals, allowed)
<1>0. PICK last : last = OutcomeTo(b, pos, c, i, vals, allowed)
  OBVIOUS
<1>1. PICK l \in Nat, m \in Nat, n \in Nat, p \in Nat :
        l = Len(b) /\ m = Len(c) /\ n = Len(d) /\ p = pos /\ p # 0
  BY DEF Code, Places
<1>2. PICK all : all = Taken(vals, i + 1)
  OBVIOUS
<1>3. Len(c \o d) = m + n
  BY <1>1, ContinuesInParts
<1>4. OutcomeTo(b, pos, c \o d, i + 1, vals, allowed)
        = IF 1..i + 1 \subseteq allowed /\ p + (m + n) - 1 <= l
          THEN Got(all, p + (m + n)) ELSE Short
  BY <1>1, <1>2, <1>3 DEF Outcome, OutcomeTo
<1>5. Continues(b, pos + Len(c), d)
  BY ContinuesInParts
<1>6. pos + Len(c) \in Places
  BY ContinuesInParts
<1>7. 1..i + 1 \subseteq allowed <=> (1..i \subseteq allowed /\ i + 1 \in allowed)
  <2>1. \A j \in 1..i + 1 : j \in 1..i \/ j = i + 1
    OBVIOUS
  <2>2. i + 1 \in 1..i + 1 /\ \A j \in 1..i : j \in 1..i + 1
    OBVIOUS
  <2> QED BY <2>1, <2>2
<1>8. CASE 1..i \subseteq allowed /\ p + m - 1 <= l
  <2>1. last = Got(Taken(vals, i), p + m)
    BY <1>0, <1>1, <1>8 DEF Outcome, OutcomeTo
  <2>2. last.ok /\ last.val = Taken(vals, i) /\ last.pos = p + m
    BY <2>1, ReadResults
  <2>3. PICK item : item = read[p + m]
    OBVIOUS
  <2>4. item = IF i + 1 \in allowed THEN Outcome(b, p + m, d, vals[i + 1]) ELSE Short
    BY <1>1, <1>5, <1>6, <2>3 DEF ReadsItem
  <2>5. CASE i + 1 \in allowed /\ (p + m) + n - 1 <= l
    <3>1. item = Got(vals[i + 1], (p + m) + n)
      BY <1>1, <2>4, <2>5 DEF Outcome
    <3>2. item.ok /\ item.val = vals[i + 1] /\ item.pos = (p + m) + n
      BY <3>1, ReadResults
    <3>3. ReadNext(last, read) = Got(Append(last.val, item.val), item.pos)
      BY <2>2, <2>3, <3>2 DEF ReadNext
    <3>4. Append(last.val, item.val) = all
      BY <1>2, <2>2, <3>2, OneMore
    <3>5. p + (m + n) = (p + m) + n /\ p + (m + n) - 1 <= l
      BY <2>5
    <3> QED BY <1>0, <1>4, <1>7, <1>8, <2>5, <3>2, <3>3, <3>4, <3>5
  <2>6. CASE ~(i + 1 \in allowed /\ (p + m) + n - 1 <= l)
    <3>1. item = Short
      BY <1>1, <2>4, <2>6 DEF Outcome
    <3>2. ReadNext(last, read) = Short
      <4>1. ~item.ok
        BY <3>1, ReadResults
      <4>2. ~read[last.pos].ok
        BY <2>2, <2>3, <4>1
      <4> QED BY <4>2 DEF ReadNext
    <3>3. ~(1..i + 1 \subseteq allowed) \/ ~(p + (m + n) - 1 <= l)
      BY <1>7, <2>6
    <3> QED BY <1>0, <1>4, <3>2, <3>3
  <2> QED BY <2>5, <2>6
<1>9. CASE ~(1..i \subseteq allowed /\ p + m - 1 <= l)
  <2>1. last = Short
    BY <1>0, <1>1, <1>9 DEF Outcome, OutcomeTo
  <2>2. ReadNext(last, read) = Short
    BY <2>1, ReadResults DEF ReadNext
  <2>3. ~(1..i + 1 \subseteq allowed) \/ ~(p + (m + n) - 1 <= l)
    BY <1>7, <1>9
  <2> QED BY <1>0, <1>4, <2>2, <2>3
<1> QED BY <1>8, <1>9

LEMMA CountedCode ==
  ASSUME NEW n \in 0..2 * Half - 1, NEW codes \in [1..n -> Code]
  PROVE  /\ n \in Nat /\ codes \in Seq(Seq(Int)) /\ Len(codes) = n
         /\ U32(n) \in Code /\ Len(U32(n)) = 2 /\ FlattenSeq(codes) \in Code
         /\ Counted(codes) = U32(n) \o FlattenSeq(codes) /\ Counted(codes) \in Code
<1>1. n \in Nat
  BY WidthFacts
<1>2. codes \in Seq(Seq(Int)) /\ Len(codes) = n
  BY <1>1 DEF Code
<1>3. U32(n) \in Code /\ Len(U32(n)) = 2
  BY U32Bytes
<1>4. FlattenSeq(codes) \in Code
  <2>1. PICK F : PrefixesOf(F, codes)
    BY <1>2, PrefixesExist
  <2> QED BY <1>1, <1>2, <2>1 DEF PrefixesOf, Code
<1>5. Counted(codes) = U32(n) \o FlattenSeq(codes)
  BY <1>2 DEF Counted
<1>6. \A c, d \in Code : c \o d \in Code
  BY ConcatProperties DEF Code
<1> QED BY <1>1, <1>2, <1>3, <1>4, <1>5, <1>6

ReadsItems(read, b, codes, n, vals, allowed) ==
  \A i \in 1..n : ReadsItem(read, b, codes[i], i, vals, allowed)

\* A count and the items behind it are read as they were written.
LEMMA CountedRead ==
  ASSUME NEW n \in 0..2 * Half - 1, NEW codes \in [1..n -> Code], NEW vals, NEW allowed,
         NEW b \in Code, NEW pos \in Places, NEW limit \in Nat, NEW read,
         Continues(b, pos, Counted(codes)),
         ReadsItems(read, b, codes, n, vals, allowed)
  PROVE  ReadCounted(b, pos, limit, read)
           = IF n <= limit THEN OutcomeTo(b, pos, Counted(codes), n, vals, allowed) ELSE Short
<1>1. PICK l \in Nat, p \in Nat : l = Len(b) /\ p = pos /\ p # 0 /\ n \in Nat
  BY CountedCode DEF Code, Places
<1>2. PICK F : PrefixesOf(F, codes)
  BY CountedCode, PrefixesExist
<1>3. PICK whole : whole = FlattenSeq(codes)
  OBVIOUS
<1>4. /\ whole \in Code /\ whole = F[n] /\ F[0] = <<>>
      /\ \A i \in 0..n : F[i] \in Code
      /\ \A i \in 0..n - 1 : F[i + 1] = F[i] \o codes[i + 1]
  BY <1>2, <1>3, CountedCode DEF PrefixesOf, Code
<1>5. /\ Continues(b, pos, U32(n))
      /\ Continues(b, p + 2, whole) /\ p + 2 \in Places
      /\ Len(Counted(codes)) = 2 + Len(whole)
  <2>1. U32(n) \in Code /\ Len(U32(n)) = 2 /\ Counted(codes) = U32(n) \o whole
    BY <1>3, CountedCode
  <2>2. Continues(b, pos, U32(n) \o whole)
    BY <2>1
  <2>3. Continues(b, pos, U32(n))
    BY <1>4, <2>1, <2>2, ContinuesInParts
  <2>4. Continues(b, pos + Len(U32(n)), whole)
    BY <1>4, <2>1, <2>2, ContinuesInParts
  <2>5. Len(U32(n) \o whole) = Len(U32(n)) + Len(whole)
    BY <1>4, <2>1, ConcatProperties DEF Code
  <2> QED BY <1>1, <2>1, <2>3, <2>4, <2>5 DEF Places
<1>6. ASSUME NEW i \in 0..n
      PROVE  Continues(b, p + 2, F[i]) /\ Len(F[i]) \in Nat /\ Len(F[i]) <= Len(whole)
  <2>1. Begins(F[i], whole)
    <3>1. i \in 0..Len(codes)
      BY CountedCode
    <3>2. codes \in Seq(Seq(Int))
      BY CountedCode
    <3> QED BY <1>2, <1>3, <3>1, <3>2, PrefixOfWhole
  <2>2. Len(F[i]) \in Nat /\ Len(whole) \in Nat
    BY <1>4 DEF Code
  <2>3. \A k \in 1..Len(F[i]) : k \in 1..Len(whole)
    BY <2>1, <2>2 DEF Begins
  <2> QED BY <1>5, <2>1, <2>2, <2>3 DEF Continues, Begins
<1>7. PICK count : count = ReadU32(b, pos)
  OBVIOUS
<1>8. count = IF p + 1 <= l THEN Got(n, p + 2) ELSE Short
  <2>1. count = Outcome(b, pos, U32(n), n)
    BY <1>5, <1>7, U32Read
  <2>2. Len(U32(n)) = 2 /\ (p + 2 - 1 <= l <=> p + 1 <= l)
    BY <1>1, CountedCode
  <2> QED BY <1>1, <2>1, <2>2 DEF Outcome
<1>9. Len(whole) \in Nat
  BY <1>4 DEF Code
<1>10. PICK w \in Nat : w = Len(whole)
  BY <1>9
<1>11. CASE ~(p + 1 <= l) \/ n > limit
  <2>1. ReadCounted(b, pos, limit, read) = Short
    <3>1. ~count.ok \/ count.val > limit
      <4>1. CASE ~(p + 1 <= l)
        BY <1>8, <4>1, ReadResults
      <4>2. CASE p + 1 <= l
        <5>1. count = Got(n, p + 2)
          BY <1>8, <4>2
        <5>2. count.val = n
          BY <5>1, ReadResults
        <5> QED BY <1>11, <4>2, <5>2
      <4> QED BY <4>1, <4>2
    <3> QED BY <1>7, <3>1 DEF ReadCounted
  <2>2. ~(n <= limit /\ p + (2 + w) - 1 <= l)
    BY <1>1, <1>11
  <2> QED BY <1>1, <1>5, <1>10, <2>1, <2>2 DEF Outcome, OutcomeTo
<1>12. CASE p + 1 <= l /\ n <= limit
  <2>1. count.ok /\ count.val = n /\ count.pos = p + 2
    BY <1>8, <1>12, ReadResults
  <2>2. PICK f : f = CHOOSE g : ItemsTo(g, Got(<<>>, p + 2), read, n)
    OBVIOUS
  <2>3. ReadCounted(b, pos, limit, read) = f[n]
    <3>1. ~(n > limit)
      BY <1>1, <1>12
    <3>2. f = CHOOSE g : g = [i \in 0..n |-> IF i = 0 THEN Got(<<>>, p + 2)
                                             ELSE ReadNext(g[i - 1], read)]
      BY <2>2 DEF ItemsTo, ItemAt
    <3> QED BY <1>7, <2>1, <3>1, <3>2 DEF ReadCounted
  <2>4. ItemsTo(f, Got(<<>>, p + 2), read, n)
    BY <1>1, <2>2, ItemsExist
  <2>5. \A i \in 0..n : f[i] = ItemAt(f, Got(<<>>, p + 2), read, i)
    BY <2>4 DEF ItemsTo
  <2> DEFINE Read(i) == OutcomeTo(b, p + 2, F[i], i, vals, allowed)
             S == {i \in Nat : i <= n => f[i] = Read(i)}
  <2>6. 0 \in S
    <3>1. f[0] = Got(<<>>, p + 2)
      <4>1. 0 \in 0..n
        BY <1>1
      <4> QED BY <2>5, <4>1 DEF ItemAt
    <3>2. Read(0) = Got(<<>>, p + 2)
      <4>1. Len(F[0]) = 0 /\ 1..0 = {}
        BY <1>4
      <4>2. (p + 2) + 0 - 1 <= l /\ (p + 2) + 0 = p + 2
        BY <1>12
      <4>3. 1..0 \subseteq allowed /\ Taken(vals, 0) = <<>>
        BY <4>1 DEF Taken
      <4> QED BY <1>1, <4>1, <4>2, <4>3 DEF Outcome, OutcomeTo
    <3> QED BY <3>1, <3>2
  <2>7. ASSUME NEW i \in S PROVE i + 1 \in S
    <3>1. i \in Nat
      OBVIOUS
    <3> SUFFICES ASSUME i + 1 <= n PROVE f[i + 1] = Read(i + 1)
      BY <3>1
    <3>2. i \in 0..n - 1 /\ i \in 0..n /\ i + 1 \in 0..n /\ i + 1 \in 1..n /\ i <= n
      BY <1>1, <3>1
    <3>3. f[i] = Read(i)
      BY <3>2
    <3>4. f[i + 1] = ReadNext(f[i], read)
      <4>1. i + 1 # 0 /\ (i + 1) - 1 = i
        BY <3>1
      <4> QED BY <2>5, <3>2, <4>1 DEF ItemAt
    <3>5. F[i + 1] = F[i] \o codes[i + 1] /\ F[i] \in Code /\ codes[i + 1] \in Code
      BY <1>4, <3>2
    <3>6. PICK c \in Code, d \in Code, q \in Places : c = F[i] /\ d = codes[i + 1] /\ q = p + 2
      BY <1>5, <3>5
    <3>7. Continues(b, q, c \o d)
      BY <1>6, <3>2, <3>5, <3>6
    <3>8. ReadsItem(read, b, d, i + 1, vals, allowed)
      BY <3>2, <3>6 DEF ReadsItems
    <3>9. ReadNext(OutcomeTo(b, q, c, i, vals, allowed), read)
            = OutcomeTo(b, q, c \o d, i + 1, vals, allowed)
      <4> HIDE DEF S
      <4> QED BY <3>1, <3>7, <3>8, NextRead
    <3> QED BY <3>3, <3>4, <3>5, <3>6, <3>9
  <2>8. S = Nat
    <3>1. S \in SUBSET Nat
      OBVIOUS
    <3> HIDE DEF S
    <3> QED BY <2>6, <2>7, <3>1, Inductive
  <2>9. f[n] = Read(n)
    <3>1. n \in S /\ n <= n
      <4> HIDE DEF S
      <4> QED BY <1>1, <2>8
    <3> QED BY <3>1
  <2>10. f[n] = OutcomeTo(b, p + 2, whole, n, vals, allowed)
    BY <1>4, <2>9
  <2>11. /\ (p + 2) + w - 1 <= l <=> p + (2 + w) - 1 <= l
         /\ (p + 2) + w = p + (2 + w)
    BY <1>1
  <2> QED BY <1>1, <1>5, <1>10, <1>12, <2>3, <2>10, <2>11 DEF Outcome, OutcomeTo
<1> QED BY <1>1, <1>11, <1>12


\* What is read behind a first part is what is read of the whole.
LEMMA OutcomeInParts ==
  ASSUME NEW b \in Code, NEW pos \in Places, NEW c \in Code, NEW d \in Code, NEW v
  PROVE  Outcome(b, pos, c \o d, v)
           = IF pos + Len(c) - 1 <= Len(b) THEN Outcome(b, pos + Len(c), d, v) ELSE Short
<1>1. PICK l \in Nat, m \in Nat, n \in Nat, p \in Nat :
        l = Len(b) /\ m = Len(c) /\ n = Len(d) /\ p = pos
  BY DEF Code, Places
<1>2. Len(c \o d) = m + n
  BY <1>1, ConcatProperties DEF Code
<1>3. Outcome(b, pos, c \o d, v) = IF p + (m + n) - 1 <= l THEN Got(v, p + (m + n)) ELSE Short
  BY <1>1, <1>2 DEF Outcome
<1>4. Outcome(b, pos + Len(c), d, v)
        = IF (p + m) + n - 1 <= l THEN Got(v, (p + m) + n) ELSE Short
  BY <1>1 DEF Outcome
<1>5. /\ p + (m + n) = (p + m) + n
      /\ p + (m + n) - 1 <= l => p + m - 1 <= l
  BY <1>1
<1> QED BY <1>1, <1>3, <1>4, <1>5

\* What is made of what was read.
LEMMA OutcomeMade ==
  ASSUME NEW b, NEW pos, NEW c, NEW v, NEW w
  PROVE  (IF Outcome(b, pos, c, v).ok THEN Got(w, Outcome(b, pos, c, v).pos) ELSE Short)
           = Outcome(b, pos, c, w)
<1>1. CASE pos + Len(c) - 1 <= Len(b)
  <2>1. Outcome(b, pos, c, v) = Got(v, pos + Len(c)) /\ Outcome(b, pos, c, w) = Got(w, pos + Len(c))
    BY <1>1 DEF Outcome
  <2> QED BY <2>1, ReadResults
<1>2. CASE ~(pos + Len(c) - 1 <= Len(b))
  <2>1. Outcome(b, pos, c, v) = Short /\ Outcome(b, pos, c, w) = Short
    BY <1>2 DEF Outcome
  <2> QED BY <2>1, ReadResults
<1> QED BY <1>1, <1>2

LEMMA OutcomeValue ==
  ASSUME NEW b, NEW pos, NEW c, NEW v, Outcome(b, pos, c, v).ok
  PROVE  Outcome(b, pos, c, v).val = v
BY ReadResults DEF Outcome

LEMMA ByteRead ==
  ASSUME NEW b \in Code, NEW pos \in Places, NEW t \in Int, Continues(b, pos, <<t>>)
  PROVE  ReadU8(b, pos) = Outcome(b, pos, <<t>>, t)
<1>1. PICK l \in Nat, p \in Nat : l = Len(b) /\ p = pos
  BY DEF Code, Places
<1>2. Len(<<t>>) = 1 /\ <<t>>[1] = t /\ 1 \in 1..1
  OBVIOUS
<1>3. p + 1 - 1 = p /\ (p > l <=> ~(p <= l))
  OBVIOUS
<1>4. p <= l => b[p] = t
  BY <1>1, <1>2, <1>3 DEF Continues
<1> QED BY <1>1, <1>2, <1>3, <1>4 DEF ReadU8, Outcome

\* Of a tag and what is behind it.
LEMMA TagRead ==
  ASSUME NEW b \in Code, NEW pos \in Places, NEW t \in Int, NEW d \in Code,
         Continues(b, pos, <<t>> \o d)
  PROVE  /\ Continues(b, pos + 1, d) /\ pos + 1 \in Places
         /\ ReadU8(b, pos) = IF pos <= Len(b) THEN Got(t, pos + 1) ELSE Short
         /\ \A v : Outcome(b, pos, <<t>> \o d, v)
                     = IF pos <= Len(b) THEN Outcome(b, pos + 1, d, v) ELSE Short
<1>1. PICK c \in Code : c = <<t>> /\ Len(c) = 1
  <2>1. <<t>> \in Seq(Int) /\ Len(<<t>>) = 1
    OBVIOUS
  <2> QED BY <2>1 DEF Code
<1>2. Continues(b, pos, c)
  BY <1>1, ContinuesInParts
<1>3. Continues(b, pos + Len(c), d)
  BY <1>1, ContinuesInParts
<1>4. pos + Len(c) \in Places
  BY <1>1, ContinuesInParts
<1>5. PICK l \in Nat, p \in Nat : l = Len(b) /\ p = pos
  BY DEF Code, Places
<1>6. p + 1 - 1 = p
  OBVIOUS
<1>7. ReadU8(b, pos) = IF pos <= Len(b) THEN Got(t, pos + 1) ELSE Short
  <2>1. ReadU8(b, pos) = Outcome(b, pos, c, t)
    BY <1>1, <1>2, ByteRead
  <2> QED BY <1>1, <1>5, <1>6, <2>1 DEF Outcome
<1>8. ASSUME NEW v
      PROVE  Outcome(b, pos, c \o d, v) = IF pos <= Len(b) THEN Outcome(b, pos + 1, d, v) ELSE Short
  <2>1. Outcome(b, pos, c \o d, v)
          = IF pos + Len(c) - 1 <= Len(b) THEN Outcome(b, pos + Len(c), d, v) ELSE Short
    BY OutcomeInParts
  <2> QED BY <1>1, <1>5, <1>6, <2>1
<1> QED BY <1>1, <1>3, <1>4, <1>7, <1>8

\* What is read behind the tag of each type.
LEMMA ReadByTag ==
  ASSUME NEW b, NEW pos, NEW t \in 0..5, NEW q, ReadU8(b, pos) = Got(t, q)
  PROVE  /\ t = 0 => ReadValue(b, pos) = Got([type |-> t, data |-> <<>>], q)
         /\ t = 1 => ReadValue(b, pos)
                       = IF ReadU8(b, q).ok /\ ReadU8(b, q).val <= 1
                         THEN Got([type |-> t, data |-> <<ReadU8(b, q).val>>], ReadU8(b, q).pos)
                         ELSE Short
         /\ t = 2 => ReadValue(b, pos)
                       = IF ReadU32(b, q).ok
                         THEN Got([type |-> t, data |-> <<Signed(ReadU32(b, q).val)>>],
                                  ReadU32(b, q).pos)
                         ELSE Short
         /\ t = 3 => ReadValue(b, pos)
                       = IF ReadU32(b, q).ok
                         THEN Got([type |-> t, data |-> <<ReadU32(b, q).val>>], ReadU32(b, q).pos)
                         ELSE Short
         /\ t \in {4, 5} => ReadValue(b, pos)
                       = IF ReadString(b, q).ok
                         THEN Got([type |-> t, data |-> ReadString(b, q).val], ReadString(b, q).pos)
                         ELSE Short
<1>1. PICK tag : tag = ReadU8(b, pos) /\ tag.ok /\ tag.val = t /\ tag.pos = q
  BY ReadResults
<1>2. CASE t = 0
  BY <1>1, <1>2 DEF ReadValue
<1>3. CASE t = 1
  BY <1>1, <1>3 DEF ReadValue
<1>4. CASE t = 2
  BY <1>1, <1>4 DEF ReadValue
<1>5. CASE t = 3
  BY <1>1, <1>5 DEF ReadValue
<1>6. CASE t \in {4, 5}
  <2>1. t # 0 /\ t # 1 /\ t # 2 /\ t # 3
    BY <1>6
  <2> QED BY <1>1, <1>6, <2>1 DEF ReadValue
<1> QED BY <1>2, <1>3, <1>4, <1>5, <1>6

\* What a value is written as behind its tag.
ValuePart(v) == CASE v.type = 2 -> U32(AsInteger(v) % (2 * Half))
                  [] v.type = 3 -> U32(v.data[1])
                  [] v.type \in {4, 5} -> String(v.data)
                  [] OTHER      -> v.data

LEMMA SignedBack ==
  ASSUME NEW n \in -Half..Half - 1
  PROVE  /\ n % (2 * Half) \in 0..2 * Half - 1 /\ Signed(n % (2 * Half)) = n
<1>1. PICK h \in Nat : h = Half /\ 0 < h
  BY HalfFacts
<1>2. CASE 0 <= n
  <2>1. n \in 0..2 * h - 1 /\ ~(n >= h)
    BY <1>1, <1>2
  <2>2. n % (2 * h) = n
    BY <1>1, <2>1
  <2> QED BY <1>1, <2>1, <2>2 DEF Signed
<1>3. CASE n < 0
  <2>1. n \in -h..-1
    BY <1>1, <1>3
  <2>2. PICK k \in Nat : k = 2 * h
    BY <1>1
  <2>3. n % k = n + k
    BY <1>1, <2>1, <2>2
  <2>4. n + k \in 0..2 * h - 1 /\ n + k >= h /\ (n + k) - 2 * h = n
    BY <1>1, <2>1, <2>2
  <2> QED BY <1>1, <2>2, <2>3, <2>4 DEF Signed
<1>4. n \in Int
  BY <1>1
<1> QED BY <1>2, <1>3, <1>4

\* What a value must be to be read back.
Written(v) ==
  /\ IsValue(v) /\ InRange(v) /\ Len(v.data) < 2 * Half

LEMMA ValuePartIsCode ==
  ASSUME NEW v, Written(v)
  PROVE  /\ v.type \in 0..5 /\ v = [type |-> v.type, data |-> v.data]
         /\ ValuePart(v) \in Code /\ ValueData(v) = <<v.type>> \o ValuePart(v)
         /\ v.type = 0 => v.data = <<>> /\ ValuePart(v) = v.data
         /\ v.type = 1 => v.data = <<v.data[1]>> /\ v.data[1] \in 0..1 /\ ValuePart(v) = v.data
         /\ v.type = 2 => /\ v.data = <<v.data[1]>> /\ v.data[1] \in -Half..Half - 1
                          /\ ValuePart(v) = U32(v.data[1] % (2 * Half))
         /\ v.type = 3 => /\ v.data = <<v.data[1]>> /\ v.data[1] \in 0..2 * Half - 1
                          /\ ValuePart(v) = U32(v.data[1])
         /\ v.type \in {4, 5} => v.data \in Code /\ ValuePart(v) = String(v.data)
<1>1. v.type \in 0..5 /\ v.data \in Code /\ v = [type |-> v.type, data |-> v.data]
  BY DEF Written, IsValue, InRange, Code
<1>2. ValueData(v) = <<v.type>> \o ValuePart(v)
  BY DEF ValueData, ValuePart
<1>3. v.type \in {1, 2, 3} => v.data = <<v.data[1]>>
  <2> SUFFICES ASSUME v.type \in {1, 2, 3} PROVE v.data = <<v.data[1]>>
    OBVIOUS
  <2>1. v.data \in Seq(Int) /\ Len(v.data) = 1
    BY DEF Written, IsValue
  <2> QED BY <2>1
<1>4. CASE v.type = 0
  BY <1>1, <1>2, <1>4 DEF Written, InRange, ValuePart
<1>5. CASE v.type = 1
  BY <1>1, <1>2, <1>3, <1>5 DEF Written, InRange, ValuePart
<1>6. CASE v.type = 2
  <2>1. v.data[1] \in -Half..Half - 1
    BY <1>6 DEF Written, InRange
  <2>2. ValuePart(v) = U32(v.data[1] % (2 * Half))
    BY <1>6 DEF ValuePart, AsInteger
  <2>3. U32(v.data[1] % (2 * Half)) \in Code
    BY <2>1, SignedBack, U32Bytes
  <2> QED BY <1>1, <1>2, <1>3, <1>6, <2>1, <2>2, <2>3
<1>7. CASE v.type = 3
  <2>1. v.data[1] \in 0..2 * Half - 1
    BY <1>7 DEF Written, InRange
  <2>2. ValuePart(v) = U32(v.data[1])
    BY <1>7 DEF ValuePart
  <2>3. U32(v.data[1]) \in Code
    BY <2>1, U32Bytes
  <2> QED BY <1>1, <1>2, <1>3, <1>7, <2>1, <2>2, <2>3
<1>8. CASE v.type \in {4, 5}
  <2>1. ValuePart(v) = String(v.data)
    BY <1>8 DEF ValuePart
  <2>2. String(v.data) \in Code
    BY <1>1, StringRead DEF Written
  <2>3. v.type # 0 /\ v.type # 1 /\ v.type # 2 /\ v.type # 3
    BY <1>8
  <2> QED BY <1>1, <1>2, <1>8, <2>1, <2>2, <2>3
<1> QED BY <1>1, <1>4, <1>5, <1>6, <1>7, <1>8

\* A value is read as it was written.
LEMMA ValueRead ==
  ASSUME NEW v, Written(v), NEW b \in Code, NEW pos \in Places, Continues(b, pos, ValueData(v))
  PROVE  ReadValue(b, pos) = Outcome(b, pos, ValueData(v), v)
<1>1. PICK t, d, s : t = v.type /\ d = ValuePart(v) /\ s = v.data
  OBVIOUS
<1>2. t \in 0..5 /\ t \in Int /\ d \in Code /\ v = [type |-> t, data |-> s]
  <2>1. t \in 0..5 /\ d \in Code
    BY <1>1, ValuePartIsCode
  <2>2. v = [type |-> t, data |-> s]
    BY <1>1, ValuePartIsCode
  <2> QED BY <2>1, <2>2
<1>3. ValueData(v) = <<t>> \o d
  BY <1>1, ValuePartIsCode
<1>4. Continues(b, pos, <<t>> \o d)
  BY <1>3
<1>5. PICK q \in Places : q = pos + 1 /\ Continues(b, q, d)
  BY <1>2, <1>4, TagRead
<1>6. ReadU8(b, pos) = IF pos <= Len(b) THEN Got(t, q) ELSE Short
  BY <1>2, <1>4, <1>5, TagRead
<1>7. Outcome(b, pos, <<t>> \o d, v) = IF pos <= Len(b) THEN Outcome(b, q, d, v) ELSE Short
  BY <1>2, <1>4, <1>5, TagRead
<1>8. CASE ~(pos <= Len(b))
  <2>1. ~ReadU8(b, pos).ok
    BY <1>6, <1>8, ReadResults
  <2>2. ReadValue(b, pos) = Short
    BY <2>1 DEF ReadValue
  <2> QED BY <1>3, <1>7, <1>8, <2>2
<1>9. CASE pos <= Len(b)
  <2>1. ReadU8(b, pos) = Got(t, q)
    BY <1>6, <1>9
  <2> SUFFICES ReadValue(b, pos) = Outcome(b, q, d, v)
    BY <1>3, <1>7, <1>9
  <2>2. CASE t = 0
    <3>1. ReadValue(b, pos) = Got([type |-> t, data |-> <<>>], q)
      BY <1>2, <2>1, <2>2, ReadByTag
    <3>2. s = <<>> /\ d = <<>>
      BY <1>1, <2>2, ValuePartIsCode
    <3>3. Outcome(b, q, d, v) = Got(v, q)
      <4>1. PICK l \in Nat, p \in Nat : l = Len(b) /\ p = pos
        BY DEF Code, Places
      <4>2. (p + 1) + 0 - 1 <= l /\ (p + 1) + 0 = p + 1
        BY <1>9, <4>1
      <4>3. Len(d) = 0
        BY <3>2
      <4> QED BY <1>5, <4>1, <4>2, <4>3 DEF Outcome
    <3> QED BY <1>2, <3>1, <3>2, <3>3
  <2>3. CASE t = 1
    <3>1. ReadValue(b, pos)
            = IF ReadU8(b, q).ok /\ ReadU8(b, q).val <= 1
              THEN Got([type |-> t, data |-> <<ReadU8(b, q).val>>], ReadU8(b, q).pos) ELSE Short
      BY <1>2, <2>1, <2>3, ReadByTag
    <3>2. PICK f \in 0..1 : s = <<f>> /\ d = <<f>>
      BY <1>1, <2>3, ValuePartIsCode
    <3>3. PICK r : r = Outcome(b, q, d, f)
      OBVIOUS
    <3>4. ReadU8(b, q) = r
      <4>1. Continues(b, q, <<f>>) /\ f \in Int
        BY <1>5, <3>2
      <4> QED BY <3>2, <3>3, <4>1, ByteRead
    <3>5. r.ok => r.val = f /\ f <= 1
      BY <3>3, OutcomeValue
    <3>6. (IF r.ok THEN Got(v, r.pos) ELSE Short) = Outcome(b, q, d, v)
      BY <3>3, OutcomeMade
    <3>7. CASE r.ok
      <4>1. r.val = f /\ r.val <= 1 /\ v = [type |-> t, data |-> <<r.val>>]
        BY <1>2, <3>2, <3>5, <3>7
      <4> QED BY <3>1, <3>4, <3>6, <3>7, <4>1
    <3>8. CASE ~r.ok
      BY <3>1, <3>4, <3>6, <3>8
    <3> QED BY <3>7, <3>8
  <2>4. CASE t = 2
    <3>1. ReadValue(b, pos)
            = IF ReadU32(b, q).ok
              THEN Got([type |-> t, data |-> <<Signed(ReadU32(b, q).val)>>], ReadU32(b, q).pos)
              ELSE Short
      BY <1>2, <2>1, <2>4, ReadByTag
    <3>2. PICK n \in -Half..Half - 1 : n = s[1] /\ s = <<n>> /\ d = U32(n % (2 * Half))
      BY <1>1, <2>4, ValuePartIsCode
    <3>3. PICK k \in 0..2 * Half - 1 : k = n % (2 * Half) /\ Signed(k) = n
      BY <3>2, SignedBack
    <3>4. PICK r : r = Outcome(b, q, d, k)
      OBVIOUS
    <3>5. ReadU32(b, q) = r
      BY <1>5, <3>2, <3>3, <3>4, U32Read
    <3>6. r.ok => r.val = k
      BY <3>4, OutcomeValue
    <3>7. (IF r.ok THEN Got(v, r.pos) ELSE Short) = Outcome(b, q, d, v)
      BY <3>4, OutcomeMade
    <3>8. r.ok => v = [type |-> t, data |-> <<Signed(r.val)>>]
      BY <1>2, <3>2, <3>3, <3>6
    <3> QED BY <3>1, <3>5, <3>7, <3>8
  <2>5. CASE t = 3
    <3>1. ReadValue(b, pos)
            = IF ReadU32(b, q).ok
              THEN Got([type |-> t, data |-> <<ReadU32(b, q).val>>], ReadU32(b, q).pos) ELSE Short
      BY <1>2, <2>1, <2>5, ReadByTag
    <3>2. PICK k \in 0..2 * Half - 1 : k = s[1] /\ s = <<k>> /\ d = U32(k)
      BY <1>1, <2>5, ValuePartIsCode
    <3>3. PICK r : r = Outcome(b, q, d, k)
      OBVIOUS
    <3>4. ReadU32(b, q) = r
      BY <1>5, <3>2, <3>3, U32Read
    <3>5. r.ok => v = [type |-> t, data |-> <<r.val>>]
      BY <1>2, <3>2, <3>3, OutcomeValue
    <3>6. (IF r.ok THEN Got(v, r.pos) ELSE Short) = Outcome(b, q, d, v)
      BY <3>3, OutcomeMade
    <3> QED BY <3>1, <3>4, <3>5, <3>6
  <2>6. CASE t \in {4, 5}
    <3>1. ReadValue(b, pos)
            = IF ReadString(b, q).ok
              THEN Got([type |-> t, data |-> ReadString(b, q).val], ReadString(b, q).pos) ELSE Short
      BY <1>2, <2>1, <2>6, ReadByTag
    <3>2. s \in Code /\ Len(s) < 2 * Half /\ d = String(s)
      BY <1>1, <2>6, ValuePartIsCode DEF Written
    <3>3. PICK r : r = Outcome(b, q, d, s)
      OBVIOUS
    <3>4. ReadString(b, q) = r
      BY <1>5, <3>2, <3>3, StringRead
    <3>5. r.ok => v = [type |-> t, data |-> r.val]
      BY <1>2, <3>3, OutcomeValue
    <3>6. (IF r.ok THEN Got(v, r.pos) ELSE Short) = Outcome(b, q, d, v)
      BY <3>3, OutcomeMade
    <3> QED BY <3>1, <3>4, <3>5, <3>6
  <2> QED BY <1>2, <2>2, <2>3, <2>4, <2>5, <2>6
<1> QED BY <1>8, <1>9

LEMMA ValueIsCode ==
  ASSUME NEW v, Written(v)
  PROVE  ValueData(v) \in Code
<1>1. v.type \in 0..5 /\ ValuePart(v) \in Code /\ ValueData(v) = <<v.type>> \o ValuePart(v)
  BY ValuePartIsCode
<1>2. PICK t \in Int, d \in Code : t = v.type /\ d = ValuePart(v)
  BY <1>1
<1>3. <<t>> \in Code
  BY DEF Code
<1>4. <<t>> \o d \in Code
  BY <1>3, ConcatProperties DEF Code
<1> QED BY <1>1, <1>2, <1>4

\* A column of a table that can be saved.
IsColumn(c) ==
  /\ c \in [name : Seq(Int), type : 1..5, nullable : BOOLEAN, primary : BOOLEAN, unique : BOOLEAN]
  /\ Len(c.name) < 2 * Half

Flags(c) == <<c.type, Flag(c.nullable), Flag(c.primary), Flag(c.unique)>>

LEMMA ColumnIsCode ==
  ASSUME NEW c, IsColumn(c)
  PROVE  /\ c.name \in Code /\ String(c.name) \in Code
         /\ Flags(c) \in Code /\ Len(Flags(c)) = 4
         /\ ColumnData(c) = String(c.name) \o Flags(c) /\ ColumnData(c) \in Code
<1>1. c.name \in Code /\ Len(c.name) < 2 * Half /\ c.type \in Int
  BY DEF IsColumn, Code
<1>2. String(c.name) \in Code
  BY <1>1, StringRead
<1>3. Flag(c.nullable) \in Int /\ Flag(c.primary) \in Int /\ Flag(c.unique) \in Int
  BY DEF Flag
<1>4. Flags(c) \in Code /\ Len(Flags(c)) = 4
  <2>1. PICK t \in Int, x \in Int, y \in Int, z \in Int :
          t = c.type /\ x = Flag(c.nullable) /\ y = Flag(c.primary) /\ z = Flag(c.unique)
    BY <1>1, <1>3
  <2>2. <<t, x, y, z>> \in Seq(Int) /\ Len(<<t, x, y, z>>) = 4
    OBVIOUS
  <2> QED BY <2>1, <2>2 DEF Flags, Code
<1>5. ColumnData(c) = String(c.name) \o Flags(c)
  BY DEF ColumnData, Flags
<1>6. ColumnData(c) \in Code
  BY <1>2, <1>4, <1>5, ConcatProperties DEF Code
<1> QED BY <1>1, <1>2, <1>4, <1>5, <1>6

LEMMA FlagBack == \A f \in BOOLEAN : (Flag(f) # 0) = f
BY DEF Flag

LEMMA ColumnRead ==
  ASSUME NEW c, IsColumn(c), NEW b \in Code, NEW pos \in Places, Continues(b, pos, ColumnData(c))
  PROVE  ReadColumn(b, pos) = Outcome(b, pos, ColumnData(c), c)
<1>1. PICK s \in Code, d \in Code, f \in Code :
        s = c.name /\ d = String(s) /\ f = Flags(c) /\ Len(f) = 4 /\ ColumnData(c) = d \o f
  BY ColumnIsCode
<1>2. Len(s) < 2 * Half
  BY <1>1 DEF IsColumn
<1>3. Continues(b, pos, d \o f)
  BY <1>1
<1>4. Continues(b, pos, d)
  BY <1>3, ContinuesInParts
<1>5. Continues(b, pos + Len(d), f)
  BY <1>3, ContinuesInParts
<1>6. PICK l \in Nat, p \in Nat, m \in Nat :
        l = Len(b) /\ p = pos /\ m = Len(d) /\ p # 0
  BY DEF Code, Places
<1>7. PICK r : r = ReadString(b, pos)
  OBVIOUS
<1>8. r = IF p + m - 1 <= l THEN Got(s, p + m) ELSE Short
  BY <1>1, <1>2, <1>4, <1>6, <1>7, StringRead DEF Outcome
<1>9. Outcome(b, pos, d \o f, c)
        = IF p + m - 1 <= l /\ (p + m) + 3 <= l THEN Got(c, (p + m) + 4) ELSE Short
  <2>1. Outcome(b, pos, d \o f, c)
          = IF p + m - 1 <= l THEN Outcome(b, p + m, f, c) ELSE Short
    BY <1>6, OutcomeInParts
  <2>2. (p + m) + 4 - 1 = (p + m) + 3
    OBVIOUS
  <2> QED BY <1>1, <1>6, <2>1, <2>2 DEF Outcome
<1>10. CASE ~(p + m - 1 <= l)
  <2>1. ~r.ok
    BY <1>8, <1>10, ReadResults
  <2> QED BY <1>1, <1>7, <1>9, <1>10, <2>1 DEF ReadColumn
<1>11. CASE p + m - 1 <= l /\ ~((p + m) + 3 <= l)
  <2>1. r.pos = p + m
    BY <1>8, <1>11, ReadResults
  <2>2. r.pos + 3 > l
    BY <1>11, <2>1
  <2> QED BY <1>1, <1>6, <1>7, <1>9, <1>11, <2>2 DEF ReadColumn
<1>12. CASE p + m - 1 <= l /\ (p + m) + 3 <= l
  <2>1. PICK q \in Nat : q = p + m
    OBVIOUS
  <2>2. r = Got(s, q)
    BY <1>8, <1>12, <2>1
  <2>3. r.ok /\ r.val = s /\ r.pos = q
    BY <2>2, ReadResults
  <2>4. b[q + 0] = f[1] /\ b[q + 1] = f[2] /\ b[q + 2] = f[3] /\ b[q + 3] = f[4]
    <3>1. \A i \in 1..4 : q + i - 1 <= l => b[q + i - 1] = f[i]
      BY <1>1, <1>5, <1>6, <2>1 DEF Continues
    <3>2. /\ q + 1 - 1 = q + 0 /\ q + 2 - 1 = q + 1 /\ q + 3 - 1 = q + 2 /\ q + 4 - 1 = q + 3
          /\ q + 0 <= l /\ q + 1 <= l /\ q + 2 <= l /\ q + 3 <= l
      BY <1>12, <2>1
    <3> QED BY <3>1, <3>2
  <2>5. /\ f[1] = c.type /\ f[2] = Flag(c.nullable) /\ f[3] = Flag(c.primary)
        /\ f[4] = Flag(c.unique)
    BY <1>1 DEF Flags
  <2>6. /\ c.nullable \in BOOLEAN /\ c.primary \in BOOLEAN /\ c.unique \in BOOLEAN
        /\ c.type \in 1..5
        /\ c = [name |-> c.name, type |-> c.type, nullable |-> c.nullable,
                primary |-> c.primary, unique |-> c.unique]
    BY DEF IsColumn
  <2>7. /\ (b[q + 1] # 0) = c.nullable /\ (b[q + 2] # 0) = c.primary
        /\ (b[q + 3] # 0) = c.unique
    BY <2>4, <2>5, <2>6, FlagBack
  <2>8. ~(r.pos + 3 > l) /\ b[r.pos + 0] \in 1..5
    BY <1>12, <2>1, <2>3, <2>4, <2>5, <2>6
  <2>9. ReadColumn(b, pos)
          = Got([name |-> s, type |-> b[q + 0], nullable |-> b[q + 1] # 0,
                 primary |-> b[q + 2] # 0, unique |-> b[q + 3] # 0], q + 4)
    BY <1>6, <1>7, <2>3, <2>8 DEF ReadColumn
  <2>10. ReadColumn(b, pos)
          = Got([name |-> c.name, type |-> c.type, nullable |-> c.nullable,
                 primary |-> c.primary, unique |-> c.unique], q + 4)
    BY <1>1, <2>4, <2>5, <2>7, <2>9
  <2> QED BY <1>1, <1>9, <1>12, <2>1, <2>6, <2>10
<1> QED BY <1>10, <1>11, <1>12

LEMMA TakenWhole ==
  ASSUME NEW n \in Nat, NEW s, s = [i \in 1..n |-> s[i]]
  PROVE  Taken(s, n) = s
BY DEF Taken

LEMMA AllAllowed ==
  ASSUME NEW b, NEW pos, NEW c, NEW n \in Nat, NEW s, s = [i \in 1..n |-> s[i]]
  PROVE  OutcomeTo(b, pos, c, n, s, 1..n) = Outcome(b, pos, c, s)
BY TakenWhole DEF OutcomeTo

\* A row of a table with n columns.
IsRow(row, n) ==
  /\ row = [i \in 1..n |-> row[i]]
  /\ Len(row) = n
  /\ \A i \in 1..n : Written(row[i])

RowCodes(row, n) == [i \in 1..n |-> ValueData(row[i])]

LEMMA RowIsCode ==
  ASSUME NEW n \in 0..2 * Half - 1, NEW row, IsRow(row, n)
  PROVE  /\ RowCodes(row, n) \in [1..n -> Code] /\ RowData(row) = Counted(RowCodes(row, n))
         /\ RowData(row) \in Code
<1>1. RowCodes(row, n) \in [1..n -> Code]
  BY ValueIsCode DEF IsRow, RowCodes
<1>2. RowData(row) = Counted(RowCodes(row, n))
  BY DEF RowData, RowCodes, IsRow
<1>3. Counted(RowCodes(row, n)) \in Code
  BY <1>1, CountedCode
<1> QED BY <1>1, <1>2, <1>3

LEMMA RowRead ==
  ASSUME NEW n \in 0..2 * Half - 1, NEW row, IsRow(row, n),
         NEW b \in Code, NEW pos \in Places, Continues(b, pos, RowData(row))
  PROVE  ReadRow(b, pos, n) = Outcome(b, pos, RowData(row), row)
<1>1. PICK codes \in [1..n -> Code] : codes = RowCodes(row, n) /\ RowData(row) = Counted(codes)
  BY RowIsCode
<1>2. n \in Nat
  BY WidthFacts
<1>3. PICK read : read = [p \in Nat |-> ReadValue(b, p)]
  OBVIOUS
<1>4. ASSUME NEW i \in 1..n
      PROVE  ReadsItem(read, b, codes[i], i, row, 1..n)
  <2>1. PICK v : v = row[i] /\ Written(v)
    BY DEF IsRow
  <2>2. codes[i] = ValueData(v)
    BY <1>1, <2>1 DEF RowCodes
  <2>3. ASSUME NEW p \in Places, Continues(b, p, ValueData(v))
        PROVE  read[p] = Outcome(b, p, ValueData(v), v)
    <3>1. p \in Nat
      BY DEF Places
    <3>2. read[p] = ReadValue(b, p)
      BY <1>3, <3>1
    <3> QED BY <2>1, <2>3, <3>2, ValueRead
  <2> QED BY <2>1, <2>2, <2>3 DEF ReadsItem
<1>5. Continues(b, pos, Counted(codes))
  BY <1>1
<1>6. ReadCounted(b, pos, n, read)
        = IF n <= n THEN OutcomeTo(b, pos, Counted(codes), n, row, 1..n) ELSE Short
  <2>1. ReadsItems(read, b, codes, n, row, 1..n)
    BY <1>4 DEF ReadsItems
  <2> QED BY <1>2, <1>5, <2>1, CountedRead
<1>7. OutcomeTo(b, pos, Counted(codes), n, row, 1..n) = Outcome(b, pos, Counted(codes), row)
  <2>1. row = [i \in 1..n |-> row[i]]
    BY DEF IsRow
  <2> QED BY <1>2, <2>1, AllAllowed
<1>8. ~(ReadU32(b, pos).ok /\ ReadU32(b, pos).val # n)
  <2>1. U32(n) \in Code /\ FlattenSeq(codes) \in Code
        /\ Counted(codes) = U32(n) \o FlattenSeq(codes)
    BY CountedCode
  <2>2. Continues(b, pos, U32(n) \o FlattenSeq(codes))
    BY <1>5, <2>1
  <2>3. Continues(b, pos, U32(n))
    BY <2>1, <2>2, ContinuesInParts
  <2>4. ReadU32(b, pos) = Outcome(b, pos, U32(n), n)
    BY <2>3, U32Read
  <2> QED BY <2>4, OutcomeValue
<1>9. ReadRow(b, pos, n) = ReadCounted(b, pos, n, read)
  BY <1>3, <1>8 DEF ReadRow
<1> QED BY <1>1, <1>2, <1>6, <1>7, <1>9

\* A table with m columns and n rows that can be saved.
IsTable(t, m, n) ==
  /\ t = [name |-> t.name, columns |-> t.columns, rows |-> t.rows]
  /\ t.name \in Code /\ Len(t.name) < 2 * Half
  /\ m \in 0..2 * Half - 1 /\ Len(t.columns) = m /\ t.columns = [i \in 1..m |-> t.columns[i]]
  /\ \A i \in 1..m : IsColumn(t.columns[i])
  /\ n \in 0..2 * Half - 1 /\ Len(t.rows) = n /\ t.rows = [i \in 1..n |-> t.rows[i]]
  /\ \A i \in 1..n : IsRow(t.rows[i], m)

LEMMA StorableIsTable ==
  ASSUME NEW t, Storable(t)
  PROVE  /\ IsTable(t, Len(t.columns), Len(t.rows))
         /\ Len(t.columns) \in Nat /\ Len(t.rows) \in Nat
<1>0. PICK Columns, Values :
        /\ Columns = [name : Seq(Int), type : 1..5, nullable : BOOLEAN, primary : BOOLEAN,
                       unique : BOOLEAN]
        /\ t.columns \in Seq(Columns) /\ t.rows \in Seq(Seq(Values))
  <2>1. t.columns \in Seq([name : Seq(Int), type : 1..5, nullable : BOOLEAN, primary : BOOLEAN,
                           unique : BOOLEAN])
    BY DEF Storable
  <2>2. t.rows \in Seq(Seq([type : 0..5, data : Seq(Int)]))
    BY DEF Storable
  <2> QED BY <2>1, <2>2
<1>1. PICK m \in Nat, n \in Nat : m = Len(t.columns) /\ n = Len(t.rows)
  BY <1>0
<1>2. m \in 0..2 * Half - 1 /\ n \in 0..2 * Half - 1
  BY <1>1, WidthFacts DEF Storable
<1>3. t.columns = [i \in 1..m |-> t.columns[i]]
  BY <1>1 DEF Storable
<1>4. ASSUME NEW i \in 1..m PROVE IsColumn(t.columns[i])
  <2>1. t.columns[i] \in Columns
    <3>1. PICK cols \in Seq(Columns) : cols = t.columns
      BY <1>0
    <3>2. i \in 1..Len(cols)
      BY <1>1, <3>1
    <3>3. cols[i] \in Columns
      BY <3>2
    <3> QED BY <3>1, <3>3
  <2>2. Len(t.columns[i].name) < 2 * Half
    BY <1>1 DEF Storable
  <2> QED BY <1>0, <2>1, <2>2 DEF IsColumn
<1>5. t.rows = [i \in 1..n |-> t.rows[i]]
  BY <1>1 DEF Storable
<1>6. ASSUME NEW i \in 1..n PROVE IsRow(t.rows[i], m)
  <2>1. PICK row : row = t.rows[i]
    OBVIOUS
  <2>2. row \in Seq([type : 0..5, data : Seq(Int)])
    BY <1>1, <2>1 DEF Storable
  <2>3. Len(row) = m
    BY <1>1, <2>1 DEF Storable
  <2>4. \A j \in 1..Len(row) : IsValue(row[j]) /\ InRange(row[j]) /\ Len(row[j].data) < 2 * Half
    BY <1>1, <2>1 DEF Storable
  <2>5. row = [j \in 1..m |-> row[j]]
    BY <2>2, <2>3
  <2>6. \A j \in 1..m : Written(row[j])
    BY <2>3, <2>4 DEF Written
  <2> QED BY <2>1, <2>3, <2>5, <2>6 DEF IsRow
<1>7. /\ t = [name |-> t.name, columns |-> t.columns, rows |-> t.rows]
      /\ t.name \in Code /\ Len(t.name) < 2 * Half
  BY DEF Storable, Code
<1> QED BY <1>1, <1>2, <1>3, <1>4, <1>5, <1>6, <1>7 DEF IsTable

ColumnCodes(t, m) == [i \in 1..m |-> ColumnData(t.columns[i])]

RowsCodes(t, n) == [i \in 1..n |-> RowData(t.rows[i])]

LEMMA TableIsCode ==
  ASSUME NEW t, NEW m, NEW n, IsTable(t, m, n)
  PROVE  /\ ColumnCodes(t, m) \in [1..m -> Code] /\ RowsCodes(t, n) \in [1..n -> Code]
         /\ String(t.name) \in Code
         /\ Counted(ColumnCodes(t, m)) \in Code /\ Counted(RowsCodes(t, n)) \in Code
         /\ TableData(t) = (String(t.name) \o Counted(ColumnCodes(t, m))) \o Counted(RowsCodes(t, n))
         /\ TableData(t) \in Code
<1>1. m \in 0..2 * Half - 1 /\ n \in 0..2 * Half - 1
  BY DEF IsTable
<1>2. ColumnCodes(t, m) \in [1..m -> Code]
  BY ColumnIsCode DEF IsTable, ColumnCodes
<1>3. RowsCodes(t, n) \in [1..n -> Code]
  <2>1. \A i \in 1..n : RowData(t.rows[i]) \in Code
    BY <1>1, RowIsCode DEF IsTable
  <2> QED BY <2>1 DEF RowsCodes
<1>4. String(t.name) \in Code
  BY StringRead DEF IsTable
<1>5. Counted(ColumnCodes(t, m)) \in Code
  BY <1>1, <1>2, CountedCode
<1>6. Counted(RowsCodes(t, n)) \in Code
  BY <1>1, <1>3, CountedCode
<1>7. TableData(t) = (String(t.name) \o Counted(ColumnCodes(t, m))) \o Counted(RowsCodes(t, n))
  <2>1. PICK c, r : c = Counted(ColumnCodes(t, m)) /\ r = Counted(RowsCodes(t, n))
    OBVIOUS
  <2>2. Len(t.columns) = m /\ Len(t.rows) = n
    BY DEF IsTable
  <2>3. TableData(t) = (String(t.name) \o c) \o r
    BY <2>1, <2>2 DEF TableData, ColumnCodes, RowsCodes
  <2> QED BY <2>1, <2>3
<1>8. \A c, d \in Code : c \o d \in Code
  BY ConcatProperties DEF Code
<1>9. TableData(t) \in Code
  BY <1>4, <1>5, <1>6, <1>7, <1>8
<1> QED BY <1>2, <1>3, <1>4, <1>5, <1>6, <1>7, <1>9

LEMMA ColumnsRead ==
  ASSUME NEW t, NEW m \in 0..2 * Half - 1, NEW n \in 0..2 * Half - 1, IsTable(t, m, n),
         NEW b \in Code, NEW pos \in Places,
         Continues(b, pos, Counted(ColumnCodes(t, m)))
  PROVE  ReadCounted(b, pos, MaxColumns, [p \in Nat |-> ReadColumn(b, p)])
           = IF m <= MaxColumns
             THEN Outcome(b, pos, Counted(ColumnCodes(t, m)), t.columns) ELSE Short
<1>1. m \in 0..2 * Half - 1 /\ m \in Nat /\ t.columns = [i \in 1..m |-> t.columns[i]]
  BY WidthFacts DEF IsTable
<1>2. PICK codes \in [1..m -> Code] : codes = ColumnCodes(t, m)
  BY TableIsCode
<1>3. PICK read : read = [p \in Nat |-> ReadColumn(b, p)]
  OBVIOUS
<1>4. PICK cols : cols = t.columns
  OBVIOUS
<1>5. ASSUME NEW i \in 1..m
      PROVE  ReadsItem(read, b, codes[i], i, cols, 1..m)
  <2>1. PICK c : c = cols[i] /\ IsColumn(c)
    BY <1>4 DEF IsTable
  <2>2. codes[i] = ColumnData(c)
    BY <1>2, <1>4, <2>1 DEF ColumnCodes
  <2>3. ASSUME NEW p \in Places, Continues(b, p, ColumnData(c))
        PROVE  read[p] = Outcome(b, p, ColumnData(c), c)
    <3>1. p \in Nat
      BY DEF Places
    <3>2. read[p] = ReadColumn(b, p)
      BY <1>3, <3>1
    <3> QED BY <2>1, <2>3, <3>2, ColumnRead
  <2> QED BY <2>1, <2>2, <2>3 DEF ReadsItem
<1>6. PICK limit \in Nat : limit = MaxColumns
  BY CodecAssumption
<1>7. Continues(b, pos, Counted(codes))
  BY <1>2
<1>8. ReadCounted(b, pos, limit, read)
        = IF m <= limit THEN OutcomeTo(b, pos, Counted(codes), m, cols, 1..m) ELSE Short
  <2>1. ReadsItems(read, b, codes, m, cols, 1..m)
    BY <1>5 DEF ReadsItems
  <2> QED BY <1>7, <2>1, CountedRead
<1>9. OutcomeTo(b, pos, Counted(codes), m, cols, 1..m) = Outcome(b, pos, Counted(codes), cols)
  BY <1>1, <1>4, AllAllowed
<1> QED BY <1>2, <1>3, <1>4, <1>6, <1>8, <1>9

LEMMA RowsRead ==
  ASSUME NEW t, NEW m \in 0..2 * Half - 1, NEW n \in 0..2 * Half - 1, IsTable(t, m, n),
         NEW b \in Code, NEW pos \in Places,
         Continues(b, pos, Counted(RowsCodes(t, n)))
  PROVE  ReadCounted(b, pos, MaxRows, [p \in Nat |-> ReadRow(b, p, m)])
           = IF n <= MaxRows
             THEN Outcome(b, pos, Counted(RowsCodes(t, n)), t.rows) ELSE Short
<1>1. /\ n \in 0..2 * Half - 1 /\ n \in Nat /\ t.rows = [i \in 1..n |-> t.rows[i]]
      /\ m \in 0..2 * Half - 1
  BY WidthFacts DEF IsTable
<1>2. PICK codes \in [1..n -> Code] : codes = RowsCodes(t, n)
  BY TableIsCode
<1>3. PICK read : read = [p \in Nat |-> ReadRow(b, p, m)]
  OBVIOUS
<1>4. PICK rows : rows = t.rows
  OBVIOUS
<1>5. ASSUME NEW i \in 1..n
      PROVE  ReadsItem(read, b, codes[i], i, rows, 1..n)
  <2>1. PICK row : row = rows[i] /\ IsRow(row, m)
    BY <1>4 DEF IsTable
  <2>2. codes[i] = RowData(row)
    BY <1>2, <1>4, <2>1 DEF RowsCodes
  <2>3. ASSUME NEW p \in Places, Continues(b, p, RowData(row))
        PROVE  read[p] = Outcome(b, p, RowData(row), row)
    <3>1. p \in Nat
      BY DEF Places
    <3>2. read[p] = ReadRow(b, p, m)
      BY <1>3, <3>1
    <3> QED BY <1>1, <2>1, <2>3, <3>2, RowRead
  <2> QED BY <2>1, <2>2, <2>3 DEF ReadsItem
<1>6. PICK limit \in Nat : limit = MaxRows
  BY CodecAssumption
<1>7. Continues(b, pos, Counted(codes))
  BY <1>2
<1>8. ReadCounted(b, pos, limit, read)
        = IF n <= limit THEN OutcomeTo(b, pos, Counted(codes), n, rows, 1..n) ELSE Short
  <2>1. ReadsItems(read, b, codes, n, rows, 1..n)
    BY <1>5 DEF ReadsItems
  <2> QED BY <1>7, <2>1, CountedRead
<1>9. OutcomeTo(b, pos, Counted(codes), n, rows, 1..n) = Outcome(b, pos, Counted(codes), rows)
  BY <1>1, <1>4, AllAllowed
<1> QED BY <1>2, <1>3, <1>4, <1>6, <1>8, <1>9

\* The tables that LoadTablesBytes accepts.
Loadable(t) == Len(t.columns) <= MaxColumns /\ Len(t.rows) <= MaxRows

\* A table is read as it was written, if it is within the limits.
LEMMA TableRead ==
  ASSUME NEW t, NEW m \in 0..2 * Half - 1, NEW n \in 0..2 * Half - 1, IsTable(t, m, n),
         NEW b \in Code, NEW pos \in Places, Continues(b, pos, TableData(t))
  PROVE  ReadTable(b, pos)
           = IF Loadable(t) THEN Outcome(b, pos, TableData(t), t) ELSE Short
<1>1. PICK s \in Code, c \in Code, r \in Code :
        /\ s = String(t.name) /\ c = Counted(ColumnCodes(t, m)) /\ r = Counted(RowsCodes(t, n))
        /\ TableData(t) = (s \o c) \o r
  BY TableIsCode
<1>2. PICK sc \in Code : sc = s \o c
  BY ConcatProperties DEF Code
<1>3. Continues(b, pos, sc \o r)
  BY <1>1, <1>2
<1>4. Continues(b, pos, s \o c)
  BY <1>2, <1>3, ContinuesInParts
<1>5. Continues(b, pos, s)
  BY <1>4, ContinuesInParts
<1>6. PICK p2 \in Places : p2 = pos + Len(s) /\ Continues(b, p2, c)
  BY <1>4, ContinuesInParts
<1>7. PICK p3 \in Places : p3 = pos + Len(sc) /\ Continues(b, p3, r)
  BY <1>3, ContinuesInParts
<1>8. p3 = p2 + Len(c)
  <2>1. Len(sc) = Len(s) + Len(c)
    BY <1>2, ConcatProperties DEF Code
  <2>2. PICK p \in Nat, i \in Nat, j \in Nat : p = pos /\ i = Len(s) /\ j = Len(c)
    <3>1. pos \in Nat /\ Len(s) \in Nat /\ Len(c) \in Nat
      BY DEF Code, Places
    <3> QED BY <3>1
  <2>3. p + (i + j) = (p + i) + j
    OBVIOUS
  <2> QED BY <1>6, <1>7, <2>1, <2>2, <2>3
<1>9. PICK name : name = ReadString(b, pos)
  OBVIOUS
<1>10. name = Outcome(b, pos, s, t.name)
  <2>1. t.name \in Code /\ Len(t.name) < 2 * Half
    BY DEF IsTable
  <2> QED BY <1>1, <1>5, <1>9, <2>1, StringRead
<1>11. PICK columns :
         columns = ReadCounted(b, name.pos, MaxColumns, [p \in Nat |-> ReadColumn(b, p)])
  OBVIOUS
<1>12. PICK rows :
         rows = ReadCounted(b, columns.pos, MaxRows,
                            [p \in Nat |-> ReadRow(b, p, Len(columns.val))])
  OBVIOUS
<1>13. ReadTable(b, pos)
         = IF ~name.ok \/ ~columns.ok \/ ~rows.ok THEN Short
           ELSE Got([name |-> name.val, columns |-> columns.val, rows |-> rows.val], rows.pos)
  BY <1>9, <1>11, <1>12 DEF ReadTable
<1>14. /\ Len(t.columns) = m /\ Len(t.rows) = n
       /\ t = [name |-> t.name, columns |-> t.columns, rows |-> t.rows]
  BY DEF IsTable
<1>15. Outcome(b, pos, TableData(t), t)
         = IF pos + Len(s) - 1 <= Len(b) /\ pos + Len(sc) - 1 <= Len(b)
           THEN Outcome(b, p3, r, t) ELSE Short
  <2>1. Outcome(b, pos, sc \o r, t)
          = IF pos + Len(sc) - 1 <= Len(b) THEN Outcome(b, p3, r, t) ELSE Short
    BY <1>7, OutcomeInParts
  <2>2. PICK p \in Nat, i \in Nat, j \in Nat, l \in Nat :
          p = pos /\ i = Len(s) /\ j = Len(c) /\ l = Len(b)
    <3>1. pos \in Nat /\ Len(s) \in Nat /\ Len(c) \in Nat /\ Len(b) \in Nat
      BY DEF Code, Places
    <3> QED BY <3>1
  <2>3. Len(sc) = i + j
    BY <1>2, <2>2, ConcatProperties DEF Code
  <2>4. p + (i + j) - 1 <= l => p + i - 1 <= l
    OBVIOUS
  <2> QED BY <1>1, <1>2, <2>1, <2>2, <2>3, <2>4
<1>16. CASE ~(pos + Len(s) - 1 <= Len(b))
  <2>1. ~name.ok
    BY <1>10, <1>16, ReadResults DEF Outcome
  <2> QED BY <1>13, <1>15, <1>16, <2>1
<1>17. CASE pos + Len(s) - 1 <= Len(b)
  <2>1. name = Got(t.name, p2)
    BY <1>6, <1>10, <1>17 DEF Outcome
  <2>2. name.ok /\ name.val = t.name /\ name.pos = p2
    BY <2>1, ReadResults
  <2>3. columns = IF m <= MaxColumns THEN Outcome(b, p2, c, t.columns) ELSE Short
    BY <1>1, <1>6, <1>11, <2>2, ColumnsRead
  <2>4. pos + Len(sc) - 1 <= Len(b) <=> p2 + Len(c) - 1 <= Len(b)
    BY <1>7, <1>8
  <2>5. CASE ~(m <= MaxColumns /\ pos + Len(sc) - 1 <= Len(b))
    <3>1. columns = Short
      BY <2>3, <2>4, <2>5 DEF Outcome
    <3>2. ~columns.ok
      BY <3>1, ReadResults
    <3> QED BY <1>13, <1>14, <1>15, <2>5, <3>2 DEF Loadable
  <2>6. CASE m <= MaxColumns /\ pos + Len(sc) - 1 <= Len(b)
    <3>1. columns = Got(t.columns, p3)
      BY <1>8, <2>3, <2>4, <2>6 DEF Outcome
    <3>2. columns.ok /\ columns.val = t.columns /\ columns.pos = p3
      BY <3>1, ReadResults
    <3>3. Len(columns.val) = m
      BY <1>14, <3>2
    <3>4. rows = ReadCounted(b, p3, MaxRows, [p \in Nat |-> ReadRow(b, p, m)])
      BY <1>12, <3>2, <3>3
    <3>5. rows = IF n <= MaxRows THEN Outcome(b, p3, r, t.rows) ELSE Short
      BY <1>1, <1>7, <3>4, RowsRead
    <3>6. CASE ~(n <= MaxRows)
      <4>1. ~rows.ok
        BY <3>5, <3>6, ReadResults
      <4> QED BY <1>13, <1>14, <3>6, <4>1 DEF Loadable
    <3>7. CASE n <= MaxRows
      <4>1. rows = Outcome(b, p3, r, t.rows)
        BY <3>5, <3>7
      <4>2. rows.ok => rows.val = t.rows
        BY <4>1, OutcomeValue
      <4>3. (IF rows.ok THEN Got(t, rows.pos) ELSE Short) = Outcome(b, p3, r, t)
        BY <4>1, OutcomeMade
      <4>4. ReadTable(b, pos) = Outcome(b, p3, r, t)
        <5>1. CASE rows.ok
          <6>1. [name |-> name.val, columns |-> columns.val, rows |-> rows.val] = t
            BY <1>14, <2>2, <3>2, <4>2, <5>1
          <6> QED BY <1>13, <2>2, <3>2, <4>3, <5>1, <6>1
        <5>2. CASE ~rows.ok
          BY <1>13, <4>3, <5>2
        <5> QED BY <5>1, <5>2
      <4> QED BY <1>14, <1>15, <1>17, <2>6, <3>7, <4>4 DEF Loadable
    <3> QED BY <3>6, <3>7
  <2> QED BY <2>5, <2>6
<1> QED BY <1>16, <1>17

LEMMA StorableRead ==
  ASSUME NEW t, Storable(t)
  PROVE  /\ TableData(t) \in Code
         /\ \A b \in Code, pos \in Places : Continues(b, pos, TableData(t)) =>
              ReadTable(b, pos) = IF Loadable(t) THEN Outcome(b, pos, TableData(t), t) ELSE Short
<1>1. PICK m, n : IsTable(t, m, n)
  BY StorableIsTable
<1>2. m \in 0..2 * Half - 1 /\ n \in 0..2 * Half - 1
  BY <1>1 DEF IsTable
<1>3. TableData(t) \in Code
  BY <1>1, TableIsCode
<1>4. ASSUME NEW b \in Code, NEW pos \in Places, Continues(b, pos, TableData(t))
      PROVE  ReadTable(b, pos) = IF Loadable(t) THEN Outcome(b, pos, TableData(t), t) ELSE Short
  BY <1>1, <1>2, <1>4, TableRead
<1> QED BY <1>3, <1>4

\* n tables that can be saved.
IsSnapshot(tables, n) ==
  /\ n \in 0..2 * Half - 1 /\ Len(tables) = n /\ tables = [i \in 1..n |-> tables[i]]
  /\ \A i \in 1..n : Storable(tables[i])

TableCodes(tables, n) == [i \in 1..n |-> TableData(tables[i])]

LEMMA SnapshotIsCode ==
  ASSUME NEW tables, NEW n, IsSnapshot(tables, n)
  PROVE  /\ Magic \in Code /\ Len(Magic) < 2 * Half /\ String(Magic) \in Code
         /\ TableCodes(tables, n) \in [1..n -> Code] /\ Counted(TableCodes(tables, n)) \in Code
         /\ SerializeTables(tables) = String(Magic) \o Counted(TableCodes(tables, n))
         /\ SerializeTables(tables) \in Code
<1>1. Magic \in Code /\ Len(Magic) < 2 * Half
  BY CodecAssumption DEF Code
<1>2. String(Magic) \in Code
  BY <1>1, StringRead
<1>3. TableCodes(tables, n) \in [1..n -> Code]
  <2>1. \A i \in 1..n : TableData(tables[i]) \in Code
    BY StorableRead DEF IsSnapshot
  <2> QED BY <2>1 DEF TableCodes
<1>4. Counted(TableCodes(tables, n)) \in Code
  BY <1>3, CountedCode DEF IsSnapshot
<1>5. SerializeTables(tables) = String(Magic) \o Counted(TableCodes(tables, n))
  BY DEF SerializeTables, TableCodes, IsSnapshot
<1>6. SerializeTables(tables) \in Code
  BY <1>2, <1>4, <1>5, ConcatProperties DEF Code
<1> QED BY <1>1, <1>2, <1>3, <1>4, <1>5, <1>6

\* What is read of bytes that follow a snapshot, or end within it.
LEMMA LoadsBack ==
  ASSUME NEW tables, NEW n \in 0..2 * Half - 1, IsSnapshot(tables, n), NEW b \in Code,
         Continues(b, 1, SerializeTables(tables))
  PROVE  LoadTablesBytes(b)
           = IF WithinLimits(tables) /\ Len(b) = Len(SerializeTables(tables))
             THEN Got(tables, 0) ELSE Short
<1>1. PICK s \in Code, codes \in [1..n -> Code], d \in Code, whole \in Code :
        /\ s = String(Magic) /\ codes = TableCodes(tables, n) /\ d = Counted(codes)
        /\ whole = SerializeTables(tables) /\ whole = s \o d
  BY SnapshotIsCode
<1>2. 1 \in Places /\ n \in Nat
  BY WidthFacts DEF Places
<1>3. Continues(b, 1, s \o d)
  BY <1>1
<1>4. Continues(b, 1, s)
  BY <1>2, <1>3, ContinuesInParts
<1>5. PICK q \in Places : q = 1 + Len(s) /\ Continues(b, q, d)
  BY <1>2, <1>3, ContinuesInParts
<1>6. PICK l \in Nat, i \in Nat, j \in Nat : l = Len(b) /\ i = Len(s) /\ j = Len(d)
  <2>1. Len(b) \in Nat /\ Len(s) \in Nat /\ Len(d) \in Nat
    BY DEF Code
  <2> QED BY <2>1
<1>7. Len(whole) = i + j
  BY <1>1, <1>6, ConcatProperties DEF Code
<1>8. PICK magic : magic = ReadString(b, 1)
  OBVIOUS
<1>9. magic = IF i <= l THEN Got(Magic, q) ELSE Short
  <2>1. magic = Outcome(b, 1, s, Magic)
    BY <1>1, <1>2, <1>4, <1>8, StringRead, SnapshotIsCode
  <2>2. 1 + i - 1 = i
    OBVIOUS
  <2> QED BY <1>5, <1>6, <2>1, <2>2 DEF Outcome
<1>10. PICK read : read = [p \in Nat |-> ReadTable(b, p)]
  OBVIOUS
<1>11. PICK all : all = ReadCounted(b, magic.pos, MaxTables, read)
  OBVIOUS
<1>12. LoadTablesBytes(b)
         = IF ~magic.ok \/ magic.val # Magic THEN Short
           ELSE IF ~all.ok \/ all.pos # Len(b) + 1 THEN Short ELSE Got(all.val, 0)
  BY <1>8, <1>10, <1>11 DEF LoadTablesBytes
<1>13. PICK allowed : allowed = {k \in 1..n : Loadable(tables[k])}
  OBVIOUS
<1>14. PICK limit \in Nat : limit = MaxTables
  BY CodecAssumption
<1>15. WithinLimits(tables) <=> (n <= limit /\ 1..n \subseteq allowed)
  BY <1>13, <1>14 DEF WithinLimits, Loadable, IsSnapshot
<1>16. ReadsItems(read, b, codes, n, tables, allowed)
  <2> SUFFICES ASSUME NEW k \in 1..n PROVE ReadsItem(read, b, codes[k], k, tables, allowed)
    BY DEF ReadsItems
  <2>1. PICK t : t = tables[k] /\ Storable(t)
    BY DEF IsSnapshot
  <2>2. codes[k] = TableData(t)
    BY <1>1, <2>1 DEF TableCodes
  <2>3. k \in allowed <=> Loadable(t)
    BY <1>13, <2>1
  <2>4. ASSUME NEW p \in Places, Continues(b, p, TableData(t))
        PROVE  read[p] = IF k \in allowed THEN Outcome(b, p, TableData(t), t) ELSE Short
    <3>1. p \in Nat
      BY DEF Places
    <3>2. read[p] = ReadTable(b, p)
      BY <1>10, <3>1
    <3>3. ReadTable(b, p) = IF Loadable(t) THEN Outcome(b, p, TableData(t), t) ELSE Short
      BY <2>1, <2>4, StorableRead
    <3> QED BY <2>3, <3>2, <3>3
  <2> QED BY <2>1, <2>2, <2>4 DEF ReadsItem
<1>17. CASE ~(i <= l)
  <2>1. ~magic.ok
    BY <1>9, <1>17, ReadResults
  <2>2. l # i + j
    BY <1>17
  <2> QED BY <1>1, <1>6, <1>7, <1>12, <2>1, <2>2
<1>18. CASE i <= l
  <2>1. magic = Got(Magic, q)
    BY <1>9, <1>18
  <2>2. magic.ok /\ magic.val = Magic /\ magic.pos = q
    BY <2>1, ReadResults
  <2>3. all = IF n <= limit THEN OutcomeTo(b, q, d, n, tables, allowed) ELSE Short
    <3>1. all = ReadCounted(b, q, limit, read)
      BY <1>11, <1>14, <2>2
    <3>2. Continues(b, q, Counted(codes))
      BY <1>1, <1>5
    <3>3. ReadCounted(b, q, limit, read)
            = IF n <= limit THEN OutcomeTo(b, q, Counted(codes), n, tables, allowed) ELSE Short
      BY <1>16, <3>2, CountedRead
    <3> QED BY <1>1, <3>1, <3>3
  <2>4. Taken(tables, n) = tables
    BY <1>2, TakenWhole DEF IsSnapshot
  <2>5. all = IF WithinLimits(tables) THEN Outcome(b, q, d, tables) ELSE Short
    BY <1>15, <2>3, <2>4 DEF OutcomeTo
  <2>6. CASE ~(WithinLimits(tables) /\ l = i + j)
    <3>1. ~all.ok \/ all.pos # Len(b) + 1
      <4>1. CASE ~WithinLimits(tables)
        BY <2>5, <4>1, ReadResults
      <4>2. CASE WithinLimits(tables) /\ l # i + j
        <5>1. all.ok => all.pos = (1 + i) + j
          BY <1>5, <1>6, <2>5, <4>2, ReadResults DEF Outcome
        <5>2. (1 + i) + j # l + 1
          BY <4>2
        <5> QED BY <1>6, <5>1, <5>2
      <4> QED BY <2>6, <4>1, <4>2
    <3> QED BY <1>1, <1>6, <1>7, <1>12, <2>2, <2>6, <3>1
  <2>7. CASE WithinLimits(tables) /\ l = i + j
    <3>1. (1 + i) + j - 1 <= l /\ (1 + i) + j = l + 1
      BY <2>7
    <3>2. all = Got(tables, l + 1)
      BY <1>5, <1>6, <2>5, <2>7, <3>1 DEF Outcome
    <3>3. all.ok /\ all.val = tables /\ all.pos = Len(b) + 1
      BY <1>6, <3>2, ReadResults
    <3> QED BY <1>1, <1>6, <1>7, <1>12, <2>2, <2>7, <3>3
  <2> QED BY <2>6, <2>7
<1> QED BY <1>17, <1>18

\* The whole, a beginning of it, and one byte more all follow a code.
LEMMA BytesContinue ==
  ASSUME NEW c \in Code
  PROVE  /\ Continues(c, 1, c)
         /\ \A k \in 0..Len(c) : /\ SubSeq(c, 1, k) \in Code /\ Len(SubSeq(c, 1, k)) = k
                                 /\ Continues(SubSeq(c, 1, k), 1, c)
         /\ Append(c, 0) \in Code /\ Len(Append(c, 0)) = Len(c) + 1
         /\ Continues(Append(c, 0), 1, c)
<1>1. PICK l \in Nat : l = Len(c)
  BY DEF Code
<1>2. \A i \in 1..l : 1 + i - 1 = i
  OBVIOUS
<1>3. Continues(c, 1, c)
  BY <1>1, <1>2 DEF Continues
<1>4. ASSUME NEW k \in 0..l
      PROVE  /\ SubSeq(c, 1, k) \in Code /\ Len(SubSeq(c, 1, k)) = k
             /\ Continues(SubSeq(c, 1, k), 1, c)
  <2>1. PICK f : f = SubSeq(c, 1, k)
    OBVIOUS
  <2>2. f \in Seq(Int) /\ Len(f) = k /\ \A i \in 1..k : f[i] = c[i]
    BY <1>1, <2>1 DEF Code
  <2>3. \A i \in 1..l : i <= k => i \in 1..k
    OBVIOUS
  <2>4. Continues(f, 1, c)
    BY <1>1, <1>2, <2>2, <2>3 DEF Continues
  <2> QED BY <2>1, <2>2, <2>4 DEF Code
<1>5. /\ Append(c, 0) \in Code /\ Len(Append(c, 0)) = Len(c) + 1
      /\ Continues(Append(c, 0), 1, c)
  <2>1. PICK f : f = Append(c, 0)
    OBVIOUS
  <2>2. f \in Seq(Int) /\ Len(f) = l + 1 /\ \A i \in 1..l : f[i] = c[i]
    BY <1>1, <2>1, AppendProperties DEF Code
  <2>3. Continues(f, 1, c)
    BY <1>1, <1>2, <2>2 DEF Continues
  <2> QED BY <1>1, <2>1, <2>2, <2>3 DEF Code
<1> QED BY <1>1, <1>3, <1>4, <1>5

LEMMA SnapshotsRead ==
  ASSUME NEW tables \in SampleTables
  PROVE  SnapshotReads(tables)
<1>1. PICK n \in 0..2 * Half - 1 : IsSnapshot(tables, n)
  <2>1. PICK n : n = Len(tables)
    OBVIOUS
  <2>2. /\ n \in 0..2 * Half - 1 /\ tables = [i \in 1..n |-> tables[i]]
        /\ \A i \in 1..n : Storable(tables[i])
    BY <2>1, TablesAssumption
  <2> QED BY <2>1, <2>2 DEF IsSnapshot
<1>2. PICK bytes \in Code : bytes = SerializeTables(tables)
  BY <1>1, SnapshotIsCode
<1>3. \A b \in Code : Continues(b, 1, bytes) =>
        LoadTablesBytes(b) = IF WithinLimits(tables) /\ Len(b) = Len(bytes)
                             THEN Got(tables, 0) ELSE Short
  BY <1>1, <1>2, LoadsBack
<1>4. WithinLimits(tables) => LoadTablesBytes(bytes).ok
  BY <1>3, BytesContinue, ReadResults
<1>5. ASSUME NEW k \in 0..Len(bytes), LoadTablesBytes(SubSeq(bytes, 1, k)).ok
      PROVE  k = Len(bytes) /\ LoadTablesBytes(SubSeq(bytes, 1, k)).val = tables
  <2>1. PICK b \in Code : b = SubSeq(bytes, 1, k) /\ Len(b) = k /\ Continues(b, 1, bytes)
    BY BytesContinue
  <2> QED BY <1>3, <1>5, <2>1, ReadResults
<1>6. ~LoadTablesBytes(Append(bytes, 0)).ok
  <2>1. PICK b \in Code : b = Append(bytes, 0) /\ Len(b) = Len(bytes) + 1 /\ Continues(b, 1, bytes)
    BY BytesContinue
  <2>2. Len(b) # Len(bytes)
    <3>1. Len(bytes) \in Nat
      BY DEF Code
    <3> QED BY <2>1, <3>1
  <2> QED BY <1>3, <2>1, <2>2, ReadResults
<1> QED BY <1>2, <1>4, <1>5, <1>6 DEF SnapshotReads

\* Tables that are saved and loaded come back as they were, within the limits
\* of loading; bytes that were cut anywhere, or have one behind them, are
\* refused (SerializeTables and LoadTablesBytes in src/src/api/db.cpp).
THEOREM SnapshotsAreReadBack == Spec => []SnapshotRoundTrip
<1>1. input \in Inputs(subject) => SnapshotRoundTrip
  <2> SUFFICES ASSUME subject = "snapshots", input \in Inputs(subject)
               PROVE  SnapshotReads(input)
    BY DEF SnapshotRoundTrip
  <2>1. input \in SampleTables
    BY DEF Inputs
  <2> QED BY <2>1, SnapshotsRead
<1> QED BY <1>1, InputGiven, PTL
=============================================================================
