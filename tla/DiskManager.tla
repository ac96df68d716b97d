----------------------------- MODULE DiskManager -----------------------------
(***************************************************************************)
(* The page file of src/src/disk/disk_manager.cpp: its pages, its header   *)
(* with the threaded list of free pages, and one operator per operation.   *)
(* BufferPool drives it.  Each operation runs under DiskManager::mutex_.   *)
(*                                                                         *)
(* The bytes of a page are abstracted to the link that a free page keeps   *)
(* at offset 16 and to its data; the checksum, to whether the data is      *)
(* "torn".  Page writes can fail; a header write fails as a whole or not   *)
(* at all; a failed write is reported by the call that made it.            *)
(***************************************************************************)
EXTENDS Integers, FiniteSets

CONSTANTS MaxPage,      \* bound: no page id beyond this one is allocated
          Vals,         \* what a client can store in a page
          WritesFail,   \* whether writes and reads of the file can fail
          TornWrites    \* whether a failed write can leave a torn page

ASSUME DiskAssumption ==
  MaxPage \in Nat \ {0} /\ WritesFail \in BOOLEAN /\ TornWrites \in BOOLEAN

VARIABLES pages,           \* the pages in the file
          header,          \* the header in the file
          is_open,         \* file_.is_open()
          page_count,
          free_list_head

diskVars == <<pages, header, is_open, page_count, free_list_head>>

kHeaderPageId  == 0
kInvalidPageId == MaxPage + 1

PageIds == 1..MaxPage
Links   == 0..kInvalidPageId

\* Bytes 16..19 of a page that is not free belong to its client: no link.
Bytes     == [link : Links, data : Vals \cup {"zero", "torn"}]
Data(v)   == [link |-> 0, data |-> v]
Free(n)   == [link |-> n, data |-> "zero"]
Unwritten == [link |-> 0, data |-> "torn"]
Fresh     == Free(kInvalidPageId)

Header(count, head) == [count |-> count, head |-> head]

DiskTypeOK ==
  /\ pages \in [PageIds -> Bytes]
  /\ header \in [count : 0..kInvalidPageId, head : Links]
  /\ is_open \in BOOLEAN
  /\ page_count \in 0..kInvalidPageId
  /\ free_list_head \in Links

\* An empty file, not opened yet.
DiskInit ==
  /\ pages = [p \in PageIds |-> Unwritten]
  /\ header = Header(0, kInvalidPageId)
  /\ is_open = FALSE
  /\ page_count = 0
  /\ free_list_head = kInvalidPageId

-----------------------------------------------------------------------------
\* Mutant: the header page is counted twice when a file is opened again.
DiskOpenOffByOne ==
  /\ ~is_open /\ is_open' = TRUE
  /\ IF header.count = 0
       THEN page_count' = 1 /\ free_list_head' = kInvalidPageId
       ELSE page_count' = header.count + 1 /\ free_list_head' = header.head
  /\ header' = Header(page_count', free_list_head')
  /\ UNCHANGED pages

\* Open: an empty file gets a header; otherwise the header is read.
DiskOpen ==
  /\ ~is_open /\ is_open' = TRUE
  /\ IF header.count = 0
       THEN page_count' = 1 /\ free_list_head' = kInvalidPageId
       ELSE page_count' = header.count /\ free_list_head' = header.head
  /\ header' = Header(page_count', free_list_head')
  /\ UNCHANGED pages

\* Close writes the header, and closes the file even if that fails.
DiskClose ==
  /\ is_open /\ is_open' = FALSE
  /\ header' \in {Header(page_count, free_list_head)}
                   \cup (IF WritesFail THEN {header} ELSE {})
  /\ UNCHANGED <<page_count, free_list_head>>

\* What the file can hold after a failed write of b to page p.
FailedWrite(p, b) ==
  {[pages EXCEPT ![p] = c] :
     c \in {pages[p]} \cup
           (IF TornWrites THEN {[link |-> n, data |-> "torn"] :
                                  n \in {pages[p].link, b.link}}
                          ELSE {})}

\* EnsurePageLocked, and the checksum that ReadPage verifies.
Readable(file, p) == p < page_count /\ file[p].data # "torn"

-----------------------------------------------------------------------------
\* The page AllocatePage takes: the first free one, or one past the end.
Allocated ==
  IF free_list_head # kInvalidPageId THEN free_list_head ELSE page_count

\* Mutant: a page taken from the free list stays its head.
TakeAllocatedKeepsHead ==
  /\ Allocated <= MaxPage
  /\ page_count' = IF free_list_head # kInvalidPageId
                     THEN page_count ELSE page_count + 1
  /\ UNCHANGED free_list_head

\* Its first part, which no later failure undoes.
TakeAllocated ==
  /\ Allocated <= MaxPage
  /\ IF free_list_head # kInvalidPageId
       THEN free_list_head' = pages[free_list_head].link /\ UNCHANGED page_count
       ELSE page_count' = page_count + 1 /\ UNCHANGED free_list_head

\* AllocatePage: the page is emptied before the header is written.
AllocatePage ==
  /\ is_open /\ TakeAllocated
  /\ pages' = [pages EXCEPT ![Allocated] = Fresh]
  /\ header' = Header(page_count', free_list_head')
  /\ UNCHANGED is_open

\* The page or the header cannot be written.
AllocatePageFails ==
  /\ WritesFail /\ is_open /\ TakeAllocated
  /\ pages' \in {[pages EXCEPT ![Allocated] = Fresh]}
                  \cup FailedWrite(Allocated, Fresh)
  /\ UNCHANGED <<header, is_open>>

\* FreePage: the page gets its link before it becomes the head of the list.
FreePage(p) ==
  /\ is_open
  /\ pages' = [pages EXCEPT ![p] = Free(free_list_head)]
  /\ free_list_head' = p
  /\ header' = Header(page_count, p)
  /\ UNCHANGED <<is_open, page_count>>

\* The page cannot be written, or the header cannot.
FreePageFails(p) ==
  /\ WritesFail /\ is_open
  /\ \/ /\ pages' \in FailedWrite(p, Free(free_list_head))
        /\ UNCHANGED free_list_head
     \/ /\ pages' = [pages EXCEPT ![p] = Free(free_list_head)]
        /\ free_list_head' = p
  /\ UNCHANGED <<header, is_open, page_count>>

-----------------------------------------------------------------------------
\* The environment: the process dies, possibly between the page write and the
\* header write of an AllocatePage, or of FreePage(p) for some p in leaving.
DiskKill(leaving) ==
  /\ is_open /\ is_open' = FALSE
  /\ \/ UNCHANGED pages
     \/ Allocated <= MaxPage /\ pages' = [pages EXCEPT ![Allocated] = Fresh]
     \/ \E p \in leaving : pages' = [pages EXCEPT ![p] = Free(free_list_head)]
  /\ page_count' = 0 /\ free_list_head' = kInvalidPageId
  /\ UNCHANGED header

-----------------------------------------------------------------------------
\* The pages of the free list that starts at head, in order.
FreeList(head) ==
  LET at[n \in 0..kInvalidPageId] ==
        IF n = 0 THEN head
        ELSE IF at[n - 1] \in PageIds THEN pages[at[n - 1]].link
        ELSE kInvalidPageId
  IN at

\* The list that starts at head ends, and has only pages below count on it,
\* none of them in use.
ListSound(head, count, used) ==
  LET at == FreeList(head) IN
  /\ at[kInvalidPageId] = kInvalidPageId
  /\ \A n \in 0..kInvalidPageId :
       at[n] # kInvalidPageId => at[n] \in 1..(count - 1) /\ at[n] \notin used

=============================================================================
