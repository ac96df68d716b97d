------------------------------ MODULE BufferPool ------------------------------
(***************************************************************************)
(* The buffer pool of src/src/buffer/buffer_pool_manager.cpp over the page *)
(* file of DiskManager.  Threads fetch pages and hold them through a       *)
(* PageGuard, create and delete pages, and flush; the process can die.     *)
(*                                                                         *)
(* What runs under BufferPoolManager::mutex_ is one step.  NewPage is not  *)
(* one: it allocates under the lock of the file, fetches under the lock of *)
(* the pool, and frees the page again when the fetch fails.  The ages of   *)
(* the frames are abstracted to `recency`, the order of their last use.    *)
(* Clients use only pages they have got from NewPage and not deleted.      *)
(***************************************************************************)
EXTENDS DiskManager

CONSTANTS Threads,      \* the client threads, each with at most one guard
          PoolSize,     \* the number of frames
          MaxCrashes    \* bound on the number of crashes

ASSUME PoolAssumption ==
  PoolSize \in Nat \ {0} /\ MaxCrashes \in Nat /\ IsFiniteSet(Threads)

VARIABLES frames,       \* frames_, without the ages
          page_table,   \* page_table_: the frame of a page, 0 if not cached
          recency,      \* the frames, the one used least recently first
          guard,        \* guard[t]: the PageGuard thread t holds
          pc,           \* pc[t]: where thread t is in NewPage
          fresh         \* fresh[t]: the page that NewPage has allocated

\* History variables, read by the properties (and by the clients' discipline).
VARIABLES owned,        \* pages given out by NewPage and not deleted since
          latest,       \* latest[p]: what was last written to page p
          crashes

poolVars == <<frames, page_table, recency>>
vars     == <<diskVars, poolVars, guard, pc, fresh, owned, latest, crashes>>

Frames  == 1..PoolSize
Frame   == [id : PageIds \cup {kInvalidPageId}, bytes : Bytes,
            pin_count : Nat, dirty : BOOLEAN]
Empty   == [id |-> kInvalidPageId, bytes |-> Unwritten,
            pin_count |-> 0, dirty |-> FALSE]
NoGuard == [page |-> kInvalidPageId, frame |-> 0, writable |-> FALSE]

TypeOK ==
  /\ DiskTypeOK
  /\ frames \in [Frames -> Frame]
  /\ page_table \in [PageIds -> 0..PoolSize]
  /\ recency \in [Frames -> Frames]
  /\ guard \in [Threads -> [page : PageIds \cup {kInvalidPageId},
                            frame : 0..PoolSize, writable : BOOLEAN]]
  /\ pc \in [Threads -> {"idle", "fetch", "undo"}]
  /\ fresh \in [Threads -> PageIds \cup {kInvalidPageId}]
  /\ owned \in SUBSET PageIds
  /\ latest \in [PageIds -> Vals \cup {"zero", "torn"}]
  /\ crashes \in 0..MaxCrashes

NoFrames == [f \in Frames |-> Empty]
NoTable  == [p \in PageIds |-> 0]
NoGuards == [t \in Threads |-> NoGuard]
AllIdle  == [t \in Threads |-> "idle"]

Init ==
  /\ DiskInit
  /\ frames = NoFrames /\ page_table = NoTable /\ recency = [i \in Frames |-> i]
  /\ guard = NoGuards /\ pc = AllIdle
  /\ fresh = [t \in Threads |-> kInvalidPageId]
  /\ owned = {}
  /\ latest = [p \in PageIds |-> "zero"]
  /\ crashes = 0

\* The pool is gone, and the threads with it.
PoolGone ==
  /\ frames' = NoFrames /\ page_table' = NoTable
  /\ recency' = [i \in Frames |-> i]
  /\ guard' = NoGuards /\ pc' = AllIdle
  /\ fresh' = [t \in Threads |-> kInvalidPageId]

-----------------------------------------------------------------------------
\* Frames.

\* f becomes the frame used last; the ones used after it move up.
Used(f) ==
  LET i == CHOOSE i \in Frames : recency[i] = f IN
  recency' = [j \in Frames |-> IF j < i THEN recency[j]
                               ELSE IF j < PoolSize THEN recency[j + 1] ELSE f]

\* Mutant: the least recently used page is evicted, pinned or not.
VictimPinned ==
  LET full == {i \in Frames : frames[recency[i]].id # kInvalidPageId}
  IN IF full # {} THEN recency[CHOOSE i \in full : \A j \in full : i <= j]
     ELSE CHOOSE f \in Frames : \A g \in Frames : f <= g

\* VictimLocked looks for a page to evict first, and only then for an empty
\* frame; 0 when every frame is pinned.
Victim ==
  LET unpinned == {f \in Frames : frames[f].pin_count = 0}
      full     == {i \in Frames : recency[i] \in unpinned
                                  /\ frames[recency[i]].id # kInvalidPageId}
  IN IF full # {} THEN recency[CHOOSE i \in full : \A j \in full : i <= j]
     ELSE IF unpinned # {} THEN CHOOSE f \in unpinned : \A g \in unpinned : f <= g
     ELSE 0

\* Mutant: a victim is dropped without looking at its dirty flag.
NotWrittenBack(f) == pages

\* The file once the page in frame f, if dirty, has been written to it.
WrittenBack(f) ==
  [p \in PageIds |-> IF frames[f].id = p /\ frames[f].dirty
                       THEN frames[f].bytes ELSE pages[p]]

\* page_table_ without the page in frame f, and with p in it instead.
Reassigned(f, p) ==
  [q \in PageIds |-> IF q = p THEN f
                     ELSE IF q = frames[f].id THEN 0 ELSE page_table[q]]

Guards(t, p, f, w) ==
  guard' = [guard EXCEPT ![t] = [page |-> p, frame |-> f, writable |-> w]]

\* FetchPage finds the page cached.
FetchHit(t, p, w) ==
  LET f == page_table[p] IN
  /\ f # 0
  /\ frames' = [frames EXCEPT ![f].pin_count = @ + 1]
  /\ Used(f)
  /\ Guards(t, p, f, w)
  /\ UNCHANGED <<diskVars, page_table>>

\* FetchPage writes a dirty victim back and reads the page into its frame.
FetchMiss(t, p, w) ==
  /\ page_table[p] = 0 /\ Victim # 0
  /\ Readable(WrittenBack(Victim), p)
  /\ pages' = WrittenBack(Victim)
  /\ frames' = [frames EXCEPT ![Victim] =
                  [id |-> p, bytes |-> pages'[p], pin_count |-> 1,
                   dirty |-> FALSE]]
  /\ page_table' = Reassigned(Victim, p)
  /\ Used(Victim)
  /\ Guards(t, p, Victim, w)
  /\ UNCHANGED <<header, is_open, page_count, free_list_head>>

\* FetchPage fails: every frame is pinned; the victim cannot be written back;
\* or it could, and the page cannot be read: then the frame is left empty.
FetchFails(p) ==
  /\ page_table[p] = 0
  /\ \/ Victim = 0 /\ UNCHANGED <<pages, frames, page_table>>
     \/ /\ WritesFail /\ Victim # 0 /\ frames[Victim].dirty
        /\ frames[Victim].id # kInvalidPageId
        /\ pages' \in FailedWrite(frames[Victim].id, frames[Victim].bytes)
        /\ UNCHANGED <<frames, page_table>>
     \/ /\ Victim # 0
        /\ WritesFail \/ ~Readable(WrittenBack(Victim), p)
        /\ pages' = WrittenBack(Victim)
        /\ frames' = [frames EXCEPT ![Victim] =
                        [Empty EXCEPT !.dirty = frames[Victim].dirty]]
        /\ page_table' = Reassigned(Victim, kInvalidPageId)
  /\ UNCHANGED <<header, is_open, page_count, free_list_head, recency, guard>>

-----------------------------------------------------------------------------
\* The client threads.

Idle(t) == is_open /\ pc[t] = "idle"
Unguarded(t) == Idle(t) /\ guard[t] = NoGuard

FetchPage(t, p, w) ==
  /\ Unguarded(t) /\ p \in owned
  /\ FetchHit(t, p, w) \/ FetchMiss(t, p, w) \/ FetchFails(p)
  /\ UNCHANGED <<pc, fresh, owned, latest, crashes>>

\* The client changes the page through a writable guard, without any lock.
WriteThrough(t, v) ==
  /\ Idle(t) /\ guard[t].writable
  /\ frames' = [frames EXCEPT ![guard[t].frame].bytes = Data(v)]
  /\ latest' = [latest EXCEPT ![guard[t].page] = v]
  /\ UNCHANGED <<diskVars, page_table, recency, guard, pc, fresh, owned, crashes>>

\* Mutant: the flag of the frame is overwritten by that of the guard.
ReleasedOverwrites(g) ==
  LET f == page_table[g.page] IN
  IF f = 0 THEN frames
  ELSE [frames EXCEPT ![f].pin_count = IF @ > 0 THEN @ - 1 ELSE 0,
                      ![f].dirty = g.writable]

\* Release: the frames after the guard g is dropped.
Released(g) ==
  LET f == page_table[g.page] IN
  IF f = 0 THEN frames
  ELSE [frames EXCEPT ![f].pin_count = IF @ > 0 THEN @ - 1 ELSE 0,
                      ![f].dirty = @ \/ g.writable]

Drop(t) ==
  /\ Idle(t) /\ guard[t] # NoGuard
  /\ frames' = Released(guard[t])
  /\ guard' = [guard EXCEPT ![t] = NoGuard]
  /\ UNCHANGED <<diskVars, page_table, recency, pc, fresh, owned, latest, crashes>>

\* NewPage allocates a page ...
NewPage(t) ==
  /\ Unguarded(t)
  /\ \/ /\ AllocatePage
        /\ pc' = [pc EXCEPT ![t] = "fetch"]
        /\ fresh' = [fresh EXCEPT ![t] = Allocated]
     \/ AllocatePageFails /\ UNCHANGED <<pc, fresh>>
  /\ UNCHANGED <<poolVars, guard, owned, latest, crashes>>

NewPageEnds(t) ==
  /\ pc' = [pc EXCEPT ![t] = "idle"]
  /\ fresh' = [fresh EXCEPT ![t] = kInvalidPageId]

\* ... fetches it ...
NewPageFetch(t) ==
  LET p == fresh[t] IN
  /\ is_open /\ pc[t] = "fetch"
  /\ \/ /\ FetchHit(t, p, TRUE) \/ FetchMiss(t, p, TRUE)
        /\ owned' = owned \cup {p}
        /\ latest' = [latest EXCEPT ![p] = "zero"]
        /\ NewPageEnds(t)
     \/ /\ FetchFails(p)
        /\ pc' = [pc EXCEPT ![t] = "undo"]
        /\ UNCHANGED <<fresh, owned, latest>>
  /\ UNCHANGED crashes

\* ... and gives it back if that fails, whatever FreePage returns.
NewPageUndo(t) ==
  /\ is_open /\ pc[t] = "undo"
  /\ FreePage(fresh[t]) \/ FreePageFails(fresh[t])
  /\ NewPageEnds(t)
  /\ UNCHANGED <<poolVars, guard, owned, latest, crashes>>

\* DeletePage refuses a pinned page; it drops a cached one, dirty or not.
Unpinned(p) == \A f \in Frames : page_table[p] = f => frames[f].pin_count = 0

DeletePage(t, p) ==
  /\ Idle(t) /\ p \in owned /\ Unpinned(p)
  /\ frames' = [f \in Frames |-> IF f = page_table[p] THEN Empty ELSE frames[f]]
  /\ page_table' = [page_table EXCEPT ![p] = 0]
  /\ FreePage(p) \/ FreePageFails(p)
  /\ owned' = owned \ {p}
  /\ UNCHANGED <<recency, guard, pc, fresh, latest, crashes>>

\* FlushPage writes the page, dirty or not.
FlushPage(t, p) ==
  LET f == page_table[p] IN
  /\ Idle(t) /\ p \in owned /\ f # 0
  /\ \/ /\ pages' = [pages EXCEPT ![p] = frames[f].bytes]
        /\ frames' = [frames EXCEPT ![f].dirty = FALSE]
     \/ /\ WritesFail
        /\ pages' \in FailedWrite(p, frames[f].bytes)
        /\ UNCHANGED frames
  /\ UNCHANGED <<header, is_open, page_count, free_list_head, page_table,
                 recency, guard, pc, fresh, owned, latest, crashes>>

\* FlushAllPages up to frame n: the dirty ones are written and become clean.
Flushed(n) == {f \in 1..n : frames[f].dirty /\ frames[f].id # kInvalidPageId}

FlushedPages(n) ==
  [p \in PageIds |-> IF page_table[p] \in Flushed(n)
                       THEN frames[page_table[p]].bytes ELSE pages[p]]

Cleaned(n) ==
  frames' = [f \in Frames |-> IF f \in Flushed(n)
                                THEN [frames[f] EXCEPT !.dirty = FALSE]
                                ELSE frames[f]]

\* What the file can hold when the write of frame n fails, after the others.
StoppedAt(n) ==
  {[FlushedPages(n - 1) EXCEPT ![frames[n].id] = file[frames[n].id]] :
     file \in FailedWrite(frames[n].id, frames[n].bytes)}

\* It stops at the first write that fails.
FlushAllPages(t) ==
  /\ Idle(t)
  /\ \/ pages' = FlushedPages(PoolSize) /\ Cleaned(PoolSize)
     \/ WritesFail /\ \E n \in Frames : n \in Flushed(n) /\ pages' \in StoppedAt(n) /\ Cleaned(n - 1)
  /\ UNCHANGED <<header, is_open, page_count, free_list_head, page_table,
                 recency, guard, pc, fresh, owned, latest, crashes>>

-----------------------------------------------------------------------------
\* The file is opened and a pool constructed.
Start ==
  /\ DiskOpen
  /\ UNCHANGED <<poolVars, guard, pc, fresh, owned, latest, crashes>>

\* The pool is destroyed, which flushes it as far as writes succeed and tells
\* nobody when one fails, and the file is closed.
Stop ==
  /\ guard = NoGuards /\ pc = AllIdle
  /\ DiskClose
  /\ \/ pages' = FlushedPages(PoolSize) /\ UNCHANGED latest
     \/ /\ WritesFail
        /\ \E n \in Frames : n \in Flushed(n) /\ pages' \in StoppedAt(n)
        /\ latest' = [p \in PageIds |-> pages'[p].data]
  /\ PoolGone
  /\ UNCHANGED <<owned, crashes>>

\* A process that dies takes its pool with it: the pages are what the file has.
Crash ==
  /\ crashes < MaxCrashes
  /\ crashes' = crashes + 1
  /\ \E leaving \in {{}} \cup {{p} : p \in {q \in owned : Unpinned(q)}} :
       DiskKill(leaving) /\ owned' = owned \ leaving
  /\ PoolGone
  /\ latest' = [p \in PageIds |-> pages'[p].data]

Next ==
  \/ Start \/ Stop \/ Crash
  \/ \E t \in Threads :
       \/ \E p \in PageIds, w \in BOOLEAN : FetchPage(t, p, w)
       \/ \E v \in Vals : WriteThrough(t, v)
       \/ Drop(t)
       \/ NewPage(t) \/ NewPageFetch(t) \/ NewPageUndo(t)
       \/ \E p \in PageIds : DeletePage(t, p) \/ FlushPage(t, p)
       \/ FlushAllPages(t)

Spec == Init /\ [][Next]_vars

-----------------------------------------------------------------------------
\* A guard protects its page: the frame it points to holds that page for as
\* long as the guard lives, whatever is evicted, deleted or fails meanwhile,
\* and every pin belongs to a guard (a pin that leaks would block the frame).
GuardStable ==
  /\ \A t \in Threads :
       guard[t] # NoGuard =>
         /\ guard[t].frame # 0
         /\ frames[guard[t].frame].id = guard[t].page
         /\ page_table[guard[t].page] = guard[t].frame
  /\ \A f \in Frames :
       frames[f].pin_count =
         Cardinality({t \in Threads : guard[t] # NoGuard /\ guard[t].frame = f})

\* A page read through the pool holds what was last written to it through any
\* guard, across eviction, write-back errors, flushes, deletion and
\* reallocation of other pages, and a shutdown whose writes succeed.
LatestKept ==
  \A p \in owned :
    latest[p] = IF page_table[p] = 0 THEN pages[p].data
                                     ELSE frames[page_table[p]].bytes.data

\* AllocatePage never hands out a page that is in use: neither the free list
\* in memory nor the one a restart would read from the header reaches one,
\* leaves the file or runs in a circle, even after a failed allocation or a
\* crash between the page write and the header write.
FreeListSound ==
  LET used == owned \cup {fresh[t] : t \in Threads} IN
  /\ ListSound(header.head, header.count, owned)
  /\ owned \subseteq 1..(header.count - 1)
  /\ is_open => ListSound(free_list_head, page_count, used)

=============================================================================
