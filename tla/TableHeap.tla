----------------------------- MODULE TableHeap ------------------------------
(***************************************************************************)
(* The table heap (src/src/table/table_heap.cpp): tuples under row         *)
(* addresses that are counted up, a page's slots first.  Every operation   *)
(* holds mutex_, so each is one step.                                      *)
(***************************************************************************)
EXTENDS Integers, Sequences

CONSTANTS Tuples,       \* the tuples, each with a column at least
          SlotsPerPage, \* values of slot_id_t, 2^16 in the code
          MaxInserts    \* bound on the tuples inserted

VARIABLES tuples,            \* tuples_, a function on the RIDs in use
          nextPage, nextSlot \* next_page_id_, next_slot_id_

\* History: what the callers stored last under each RID they were given and
\* have not deleted, and the RIDs given, in order.
VARIABLES stored, given

vars == <<tuples, nextPage, nextSlot, stored, given>>

Init ==
  /\ tuples = <<>> /\ nextPage = 1 /\ nextSlot = 0
  /\ stored = <<>> /\ given = <<>>

\* Mutant: the page stays the same when the slots are used up.
AdvanceInPage ==
  /\ nextSlot' = (nextSlot + 1) % SlotsPerPage
  /\ UNCHANGED nextPage

\* next_slot_id_++, and the next page when it has come round to 0.
Advance ==
  /\ nextSlot' = (nextSlot + 1) % SlotsPerPage
  /\ nextPage' = IF nextSlot' = 0 THEN nextPage + 1 ELSE nextPage

With(f, x, y) == [z \in DOMAIN f \cup {x} |-> IF z = x THEN y ELSE f[z]]

\* emplace leaves a tuple that is already there alone.
InsertTuple(t) ==
  LET rid == <<nextPage, nextSlot>> IN
  /\ Advance
  /\ tuples' = IF rid \in DOMAIN tuples THEN tuples ELSE With(tuples, rid, t)
  /\ stored' = With(stored, rid, t)
  /\ given' = Append(given, rid)

UpdateTuple(rid, t) ==
  /\ rid \in DOMAIN tuples
  /\ tuples' = [tuples EXCEPT ![rid] = t]
  /\ stored' = [stored EXCEPT ![rid] = t]
  /\ UNCHANGED <<nextPage, nextSlot, given>>

Without(f, x) == [y \in DOMAIN f \ {x} |-> f[y]]

MarkDelete(rid) ==
  /\ rid \in DOMAIN tuples
  /\ tuples' = Without(tuples, rid) /\ stored' = Without(stored, rid)
  /\ UNCHANGED <<nextPage, nextSlot, given>>

Next ==
  \/ Len(given) < MaxInserts /\ \E t \in Tuples : InsertTuple(t)
  \/ \E rid \in DOMAIN tuples : MarkDelete(rid) \/ \E t \in Tuples : UpdateTuple(rid, t)

-----------------------------------------------------------------------------
\* An address is given out once, for ever, across the end of a page and over
\* deleted tuples: an index entry that outlived its tuple never leads to
\* another one (src/src/common/types.h:29), and what was stored is found.
HeapFaithful ==
  /\ \A i, j \in 1..Len(given) : i # j => given[i] # given[j]
  /\ tuples = stored
=============================================================================
