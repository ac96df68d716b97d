---------------------------- MODULE LRUKReplacer ----------------------------
(***************************************************************************)
(* The LRU-K replacer (src/src/buffer/lruk_replacer.cpp): it keeps the     *)
(* last K access times of each frame and evicts by them.  Every operation  *)
(* holds mutex_, so each is one step.                                      *)
(***************************************************************************)
EXTENDS Integers, Sequences, FiniteSets

CONSTANTS Frames, K, Capacity,
          MaxClock   \* bound on the accesses

VARIABLES accesses,   \* accesses of entries_, a function on the frames present
          evictable,  \* the frames whose entry is evictable
          clock       \* clock_

\* History: all accesses since the frame was last evicted or removed, and
\* whether an access was ignored because the replacer was full.
VARIABLES history, ignored

vars == <<accesses, evictable, clock, history, ignored>>

Init ==
  /\ accesses = <<>> /\ evictable = {} /\ clock = 0
  /\ history = [f \in Frames |-> <<>>] /\ ignored = FALSE

Known == DOMAIN accesses

Recent(s) == IF Len(s) > K THEN Tail(s) ELSE s

\* entries_[f].accesses is s from now on.
Holding(f, s) == [g \in Known \cup {f} |-> IF g = f THEN s ELSE accesses[g]]

\* Mutant: the newest access time is dropped instead of the oldest.
TouchDropsNewest(f) ==
  LET times == IF f \in Known THEN accesses[f] ELSE <<>> IN
  /\ clock < MaxClock /\ clock' = clock + 1
  /\ accesses' = Holding(f, IF Len(times) = K THEN times ELSE Append(times, clock'))
  /\ history' = [history EXCEPT ![f] = Append(@, clock')]

\* accesses.push_back(++clock_), and pop_front beyond K.
Touch(f) ==
  LET times == IF f \in Known THEN accesses[f] ELSE <<>> IN
  /\ clock < MaxClock /\ clock' = clock + 1
  /\ accesses' = Holding(f, Recent(Append(times, clock')))
  /\ history' = [history EXCEPT ![f] = Append(@, clock')]

RecordAccess(f) ==
  IF Cardinality(Known) >= Capacity /\ f \notin Known
  THEN ignored' = TRUE /\ UNCHANGED <<accesses, evictable, clock, history>>
  ELSE Touch(f) /\ UNCHANGED <<evictable, ignored>>

\* An unknown frame gets an entry, even if the replacer is full.
SetEvictable(f, on) ==
  /\ IF f \in Known THEN UNCHANGED <<accesses, clock, history>> ELSE Touch(f)
  /\ evictable' = IF on THEN evictable \cup {f} ELSE evictable \ {f}
  /\ UNCHANGED ignored

Remove(f) ==
  /\ accesses' = [g \in Known \ {f} |-> accesses[g]]
  /\ evictable' = evictable \ {f}
  /\ history' = [history EXCEPT ![f] = <<>>]
  /\ UNCHANGED <<clock, ignored>>

\* Frames with fewer than K accesses go first, then the oldest K-th access.
Before(f, g) ==
  LET full(h) == Len(accesses[h]) >= K IN
  IF full(f) = full(g) THEN Head(accesses[f]) < Head(accesses[g]) ELSE full(g)

IsVictim(f) == f \in evictable /\ \A g \in evictable \ {f} : Before(f, g)

Evict == \E f \in evictable : IsVictim(f) /\ Remove(f)

Next ==
  \/ \E f \in Frames : \/ RecordAccess(f) \/ Remove(f)
                       \/ \E on \in BOOLEAN : SetEvictable(f, on)
  \/ Evict

-----------------------------------------------------------------------------
\* The frame that LRU-K evicts, by the whole history: one whose K-th access
\* back does not exist, with the oldest first access; or else the one whose
\* K-th access back is the oldest.
Distance(f) ==
  LET n == Len(history[f]) IN
  IF n < K THEN <<0, history[f][1]>> ELSE <<1, history[f][n - K + 1]>>

\* The K access times that the replacer keeps are enough to choose the right
\* victim, as long as it has not ignored an access.
EvictsByLruK ==
  \A f \in evictable :
    ~ignored => (IsVictim(f) <=>
      \A g \in evictable \ {f} :
        \/ Distance(f)[1] < Distance(g)[1]
        \/ Distance(f)[1] = Distance(g)[1] /\ Distance(f)[2] < Distance(g)[2])
=============================================================================
