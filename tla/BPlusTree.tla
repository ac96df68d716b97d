----------------------------- MODULE BPlusTree ------------------------------
(***************************************************************************)
(* The ordered index (src/src/index/b_plus_tree.cpp): from a key to the    *)
(* RIDs of its rows, in the order in which they were inserted.  Every      *)
(* operation holds mutex_, so each is one step.                            *)
(***************************************************************************)
EXTENDS Naturals, Sequences

CONSTANTS Keys, Rids,
          NoRid    \* an invalid RID: Remove then drops the whole key

VARIABLES unique,  \* unique_
          entries  \* entries_, a function on the keys present

\* History: the pairs that the calls have inserted and not removed, by the
\* arguments they passed, and whether Remove has been given a RID that is not
\* the one it removed.
VARIABLES pairs, misled

vars == <<unique, entries, pairs, misled>>

Init ==
  /\ unique \in BOOLEAN /\ entries = <<>>
  /\ pairs = {} /\ misled = FALSE

Values(key) == IF key \in DOMAIN entries THEN entries[key] ELSE <<>>

Listed(rids) == {rids[i] : i \in 1..Len(rids)}

\* Mutant: only the last RID of the key is looked at.
RefusesLast(key, rid) ==
  LET v == Values(key) IN v # <<>> /\ (unique \/ v[Len(v)] = rid)

\* A key that is there, in a unique index, or a pair that is there.
Refuses(key, rid) == (unique /\ Values(key) # <<>>) \/ rid \in Listed(Values(key))

With(key, rids) ==
  [k \in DOMAIN entries \cup {key} |-> IF k = key THEN rids ELSE entries[k]]

Insert(key, rid) ==
  /\ ~Refuses(key, rid)
  /\ entries' = With(key, Append(Values(key), rid))
  /\ pairs' = pairs \cup {<<key, rid>>}
  /\ UNCHANGED <<unique, misled>>

Without(key) == [k \in DOMAIN entries \ {key} |-> entries[k]]

\* std::remove: the list up to n without a RID.
Others(rids, rid) ==
  LET others[n \in 0..Len(rids)] ==
        IF n = 0 THEN <<>>
        ELSE IF rids[n] = rid THEN others[n - 1] ELSE Append(others[n - 1], rids[n])
  IN  others

\* In a unique index the RID is not looked at.
Remove(key, rid) ==
  /\ key \in DOMAIN entries
  /\ entries' =
       LET left == Others(entries[key], rid)[Len(entries[key])] IN
       IF unique \/ rid = NoRid \/ left = <<>> THEN Without(key)
       ELSE [entries EXCEPT ![key] = left]
  /\ pairs' = {p \in pairs : p[1] # key \/ (rid # NoRid /\ p[2] # rid)}
  /\ misled' = (misled \/ (unique /\ rid \notin {NoRid, entries[key][1]}))
  /\ UNCHANGED unique

Next ==
  \E key \in Keys :
    \/ \E rid \in Rids : Insert(key, rid)
    \/ \E rid \in Rids \cup {NoRid} : Remove(key, rid)

-----------------------------------------------------------------------------
\* The index holds exactly the pairs that its callers put there, each once and
\* under a key with no empty list (which is what Search, Range and size rely
\* on), as long as nobody removes, from a unique index, an entry that another
\* caller has replaced meanwhile.
IndexFaithful ==
  /\ \A key \in DOMAIN entries :
       /\ entries[key] # <<>>
       /\ \A i, j \in 1..Len(entries[key]) :
            entries[key][i] = entries[key][j] \/ unique => i = j
  /\ ~misled =>
       pairs = UNION {{<<key, rid>> : rid \in Listed(entries[key])} : key \in DOMAIN entries}
=============================================================================
