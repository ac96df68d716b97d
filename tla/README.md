# TupleStone in TLA+

TupleStone is an embedded SQL database in C++. A `Database` keeps all of its
tables in memory, saves them as one snapshot file, and writes every commit as a
full snapshot to a checksummed log beside it. This directory models the parts
that carry its guarantees, checks them with TLC on small instances, and proves
most of them with TLAPS for every instance.

## The system: inventory

| Component (source) | State | Operations | Modelled by |
|---|---|---|---|
| Write-ahead log, `src/src/wal/log_manager.*` | stream, `is_open`, `next_lsn_`, `durable_lsn_`, a mutex | `Open` (cuts a torn tail), `Append`, `Flush`, `Truncate`, `Close`, `ReadAll` | `LogManager`, `LogClients` |
| Snapshot persistence, `src/src/api/db.cpp` | `tables`, `path`, the file and its `.tmp`, `next_wal_txn`, `closed` | `Open`, `PersistCommittedTables`, `Checkpoint`, `Close`, the destructor, `RecoverCommittedTables`, `SaveTables`, `LoadTables` | `SnapshotStore` over `LogManager` |
| Connections and transactions, `src/src/api/db.cpp` | `tables`, `generation`; per connection `transaction_tables`, `transaction_generation`; per handle `finished` | SQL `BEGIN`/`COMMIT`/`ROLLBACK`, `Connection::Begin`, `Transaction::Commit`/`Rollback`, statements | `Transactions`, abstractly `SerialDatabase` |
| Snapshot format, `src/src/api/db.cpp` | none | `SerializeTables`, `LoadTablesBytes` | `SnapshotCodec` |
| SQL execution, `src/src/api/db.cpp` | rows of the tables | `INSERT`, `UPDATE`, `DELETE`, `SELECT`, `CREATE`, `DROP`, with constraints and the catalog tables | `SqlTable`; as whole effects in `Transactions` |
| Lexer, parser, expressions, `src/src/api/db.cpp` | position in the tokens, `closed_paren_` | `Tokenize`, `Parser`, `Eval` | `SqlParser`, `SqlOperators`, `Expressions`, `LikeMatch`; not `Tokenize` |
| Page file, `src/src/disk/*` | pages, header, `page_count_`, `free_list_head_`, a mutex | `Open`, `Close`, `AllocatePage`, `FreePage`, `ReadPage`, `WritePage`, `Sync` | `DiskManager` |
| Buffer pool, `src/src/buffer/buffer_pool_manager.*` | `frames_`, `page_table_`, `clock_`, a mutex; guards held by threads | `FetchPage`, `NewPage`, `DeletePage`, `FlushPage`, `FlushAllPages`, `PageGuard::Drop` | `BufferPool` over `DiskManager` |
| LRU-K replacer, `src/src/buffer/lruk_replacer.*` | access history | `RecordAccess`, `SetEvictable`, `Evict`, `Remove` | `LRUKReplacer` |
| MVCC manager, `src/src/txn/*` | `next_id_`, `active_`, `committed_` | `Begin`, `Commit`, `Abort`, `CurrentSnapshot` | `TransactionManager` |
| Index, `src/src/index/*` | ordered map from keys to RIDs | `Insert`, `Remove`, look-ups | `BPlusTree` |
| Table heap, `src/src/table/*` | tuples, the next RID | `InsertTuple`, `UpdateTuple`, `MarkDelete`, look-ups | `TableHeap` |
| Values, keys, `src/src/common/value.*` | none | `Compare`, `ToString`, `EncodeKey`, `DecodeKey` | `Values` |
| Catalog class, result sets, prepared statements, stand-alone front end, shell, logger, utilities | see below | | not modelled |

How they interact: a `Connection` runs a statement on the shared tables or, in a
transaction, on a private copy. A commit takes `Database::Impl::mutex`, installs
the copy and calls `PersistCommittedTables`, which appends BEGIN, UPDATE (the
whole snapshot) and COMMIT to the log, flushes and syncs it, and then replaces
the snapshot file by rename. `Open` loads the file, opens the log and replays the
last committed snapshot over it. The page file, buffer pool, MVCC manager, heap
and index form a second, separate storage stack which the SQL engine does not
call; only the buffer pool and the page file interact there. `ExecuteSql` parses
a statement as it executes it, evaluates its expressions row by row, and changes
the rows in place.

What is hard in this code, and therefore what the properties are about: a crash
between any two I/O calls, recovery included; I/O calls that fail half-way and
leave something behind; errors that come after the tables have already changed;
three levels of storage (stream buffer, operating system, stable storage) that
lose different things; statements outside transactions that use the shared
tables without the mutex; a generation counter that must tell a current copy from
a stale one; statements that stop at a row in the middle; a sort whose comparator
is no order; a log and a pool shared by threads that release a lock between two
halves of an operation; a free list threaded through pages that are reused.
`PROJECT.json` lists each of these as a hazard at its line.

Correctness, per component:

* log: what a successful `Flush` covered can be read back; LSNs increase;
* persistence: an acknowledged commit is in every later `Database`; an
  incomplete one is in none; recovery can be interrupted and repeated; there is
  always a whole snapshot at the path; a closed database keeps what it held; a
  database can be opened again after any crash (all of this as long as snapshots
  are within the limits of `LoadTablesBytes`);
* transactions: those that commit are serializable in commit order, and no
  acknowledged statement is overwritten;
* SQL: constraints hold at every moment, a statement changes the rows that
  `WHERE` selects and no others, a query returns them, and three truth values
  are kept apart; what is written as SQL or as a snapshot is read as it was meant
  or refused;
* pool and page file: a guard keeps its page, no write is lost to eviction, and
  no page in use is allocated again;
* the other storage classes: a snapshot does not change its mind, a row address
  is given out once, the index holds what was put there and keys sort as values
  do, the replacer evicts by LRU-K.

## Modules

* `LogManager` - the log. It lives in `buf` (the `std::fstream` buffer), `file`
  (what the OS has) and `stable` (what the last fsync put on disk); a kill loses
  `buf` and may leave any front part of it, torn at the end, in `file`; a power
  failure loses what is past `stable`. A record cut short is the pseudo-record
  `Torn`, at which `ReadRecords` stops, as the CRC check makes it. One operator
  per step: `Open`, `AppendRecord`, `FlushStream`, `SyncFile`, `Truncate`,
  `Close`, and an error path of each.
* `LogClients` - threads that share one log. `Flush` is two steps, because it
  releases `mutex_` before it calls `SyncFile`; `Truncate` keeps the mutex
  across its own. Stream writes that fail are left to `SnapshotStore`.
* `SnapshotStore` - a `Database` over its log. A snapshot is the set of
  transactions whose effects it holds. The operation in progress is `job`, its
  next step `pc`, and each step that touches a file is an action of its own, so
  that a crash can come between any two. What an error does is `Fail`: a failed
  `Open` destroys the half-built `Database`, whose destructor saves `tables`.
  `Unloadable` is the set of the snapshots over a limit of `LoadTablesBytes` (tables,
  columns, rows), of which the writer knows nothing: `Open` refuses a data file with
  one, and recovery a COMMIT record with one (`RecoverRefuses`).
  With the fault `late`, a `Checkpoint` or `Close` that tested `closed` in time
  gets the mutex only after another thread has closed the `Database`.
* `Transactions` - the connections. Table content is the sequence of statement
  effects; a statement that fails midway leaves a partial effect. What runs under
  the database mutex is one step. A statement outside a transaction is three:
  entering the tables and executing (unlocked), then persisting (locked). `raced`
  records that two unlocked accesses met, after which C++ promises nothing;
  `crashed`, that a null pointer was dereferenced, which ends the behaviour.
  `HandleDrop` is the move assignment that forgets a live transaction.
* `SerialDatabase` - the abstract specification: the statements of a transaction
  take effect together, on the database as it is at COMMIT.
  `Transactions` implements it (`SerialSpec`; mapping `db <- tables`,
  `running <- active`, `pending <- wrote`).
* `DiskManager` - the page file: header, pages, free list, failing writes.
* `BufferPool` - threads, frames and guards over `DiskManager`. `NewPage` is
  three steps, for its three locked sections. Frame ages are abstracted to their
  order. A client writes through a guard without any lock.
* `Values` - values, `Compare`, `operator==`, `ToString` and the index keys. The
  widths are constants: a miniature of two-byte numbers keeps sign bits, NaN, two
  zeros and the integers that are not exact as REAL.
* `SqlOperators` - what `Eval` makes of the values of the operands. `Error` stands
  for a status that was set: the callers give the statement up then.
* `Expressions` - `Eval` as a recursive operator on trees.
* `LikeMatch` - the loop of LIKE, one action per pass.
* `SqlParser` - the recursive descent over expressions, on tokens, with the flag
  `closed_paren_`. The reference is a printer with minimal parentheses;
  around NOT it sets those that the document or the code needs.
* `SnapshotCodec` - the bytes of a snapshot, written and read. The loops over
  tables, columns, rows and values are one recursive function (`ReadCounted`).
* `SqlTable` - `ExecuteSql` on the working tables of one connection: one action
  per row, so that a statement can fail between two. Statements are trees. An
  expression that cannot be parsed is `bad`; as in the code, one in `WHERE` is
  noticed at the first row only, unless an ORDER BY or a LIMIT follows. Columns
  have names, and two may have the same: `Find` gives the first. `Evaluate` is a
  parameter (the run passes `Eval`), which keeps this module free of recursive
  operators.
* `TransactionManager`, `TableHeap`, `BPlusTree`, `LRUKReplacer` - the storage
  classes. An operation under `mutex_` is one action; `CurrentSnapshot`, which
  does not take it, is three.
* `Libraries` - puts the parts that work by themselves into one specification;
  `subject` says which of them a behaviour is about, and the inputs of the pure
  functions are chosen initially. `Evaluate` is a parameter here as well.
* `PureFunctions` - the property of the parser, on the inputs that `Libraries`
  chooses, and `Eval`. They are apart because they are recursive operators, which
  must not reach `LibrariesProofs`.
* `MC*` - the constants, inputs and symmetries of the runs.
* `LogManagerProofs`, `LogClientsProofs`, `SnapshotStoreProofs`,
  `SerializabilityProofs`, `BufferPoolProofs`, `LibrariesProofs`,
  `SqlTableProofs` - the theorems, described below. `ValuesProofs` has the lemmas
  on values, keys and flattened sequences that the last two share.

Definitions introduced by the comment "Mutant" (`CutTailSkipped`,
`DuplicateBefore`, `BacktrackInPlace`) are wrong variants of the definition that
follows them. No specification uses them: each shows that some property fails
when the code has that bug.

`PROJECT.json` maps each definition to the lines it stands for.

## Runs

Passing:

| Run | Instance | What it shows |
|---|---|---|
| `LogClients` | 2 threads, LSNs up to 4, power failures, failing syncs, opens and truncations, any number of kills | `FlushedSurvive`, `LsnOrder` for every interleaving of the two halves of `Flush` with appends, other flushes, truncations and crashes |
| `StoreKill` | 3 transactions, 2 kills, failing syncs, saves, log opens and reads; snapshots within the load limits | `AckedSurvive`, `IncompleteIgnored`, `DataFileWhole`, `RecoveryMonotone`, and the inductive invariant `DurabilityInv` of the proof |
| `StoreWalOnly` | 2 transactions, 2 crashes, power failures; data files unreadable, cut short, or lost in a failed rename; no `Checkpoint`; snapshots within the load limits | the log alone carries every acknowledged commit, whatever happens to the data file |
| `StoreLogErrors` | 2 transactions, 1 crash; failing appends, flushes and truncations, snapshots too large for a record or over the load limits, tails that are not cut | `DataFileCurrent`: whatever the log goes through, the data file follows the tables |
| `StoreNoSync` | 2 transactions, 1 crash, `sync_on_commit` and `create_if_missing` off, any initial file, snapshots within the load limits, fairness | `CleanCloseDurable`, and `Reopens`: under the assumption on the limits (`Unloadable = {}`) no file that a crash left behind locks the application out |
| `TxnSerial` | 2 connections, 3 statements, generations up to 3, failing commits, SQL and handles mixed | `SerialSpec`, `AckedKept`, and the invariant `CopyInv` of the proof |
| `TxnAuto` | 2 connections, 4 statements outside transactions, failing commits | `AckedKept`, as long as no unlocked accesses overlap |
| `SqlTable` | a table of three columns and at most three rows, one with two columns of one name, the two catalog tables, 70 statements in any order | `ConstraintsHold` between any two steps, `StatementEffect`, `SelectExact`, `CountExact` |
| `Libraries` | 3 MVCC transactions and 5 snapshots; 5 tuples on pages of 2 slots; 2 keys and 2 RIDs; 3 frames, K = 2, capacity 2; all values and patterns of LIKE up to length 4; all triples of 25 values; pairs of 24 predicates on 16 rows; 29 snapshots, each cut everywhere; 1530 expressions | `SnapshotStable`, `XminSafe`, `HeapFaithful`, `IndexFaithful`, `EvictsByLruK`, `LikeCorrect`, `LikeEnds`, `KeyOrder`, `KeyRoundTrip`, `CompareOrders`, `InMatchesOr`, `ThreeValuedLogic`, `SnapshotRoundTrip`, `ParseRoundTrip` |
| `BufferPool` | 2 threads, 2 frames, 3 pages, 1 crash, any number of restarts, failing reads and writes | `GuardStable`, `LatestKept`, `FreeListSound` |

Disagreements between the code and what the repository says of it (each a run
whose one property TLC finds violated):

| Run | What the counterexample shows |
|---|---|
| `StorePower` | `Checkpoint` syncs the emptied log but not the data file it relies on: a power failure loses an acknowledged commit from both. |
| `TxnLost` | A COMMIT between the execution and the persisting of another connection's statement passes its generation check and installs a copy without the statement, which is acknowledged all the same. |

Further states of this kind which the models reach, listed under the hazards:

* persistence: an `Append` that fails part-way leaves a torn record, behind which
  a later commit is flushed, synced and acknowledged, and missing after a clean
  close and open (run `StoreKill` with `append` among the faults), although
  `src/src/wal/log_manager.cpp:68` says that no valid record can follow a torn
  one; `Open` refuses a file of an unknown format and the destructor of the
  half-built `Database` replaces it by empty tables; a short or unreadable data
  file followed by a checkpoint loses commits; a failed rename leaves no data
  file for a moment; the effects of a transaction whose commit failed before its
  COMMIT record are part of the next snapshot, or of the one a late `Close` saves.
  (What a statement outside a transaction changed before it failed has no record
  either, and a `Checkpoint` saves it; `SnapshotStore` knows only transactions whose
  commit starts.)
* transactions: two connections use the shared tables at once (`raced`); `Begin`,
  SQL `ROLLBACK` and `Transaction::Commit` dereference a null pointer (`crashed`);
* pool: with torn page writes, a failed `FlushPage` of a clean frame destroys the
  only good copy;
* limits: nothing but `LoadTablesBytes` knows its limits (100000 tables, 10000
  columns, 10^8 rows; db.cpp:231, 236, 255), so that the commit of a snapshot over
  them is acknowledged. While it is in the log, every `Open` replays it and returns
  Corruption (db.cpp:934), for ever, although `src/docs/design/06-wal.md:16` says
  that what is durable in the log is recovered; after a `Checkpoint`, the next
  `Open` refuses the file and saves empty tables over it, which the one after it
  accepts. With a snapshot in `Unloadable`, TLC finds `Reopens` and `AckedSurvive`
  violated by one transaction, without a fault or a crash;
* keys, against `src/ARCHITECTURE.md:352`: `-0.0` and `+0.0` have different keys,
  where the document has them encode identically, and a NaN with a sign comes before
  all numbers, where the document has NaN last. `KeyOrder` states and
  `KeysAreOrdered` proves where the keys are, which is the IEEE-754 total order that
  the document names before; `KeyRoundTrip` reads each of the zeros back;
* SQL, against `src/ARCHITECTURE.md` 6.1 and its grammar: `<` with NULL is an
  error of the statement and not UNKNOWN; `'1' = 1` is NULL and no type error;
  integers overflow without `OutOfRange`; `NOT a = b` is `(NOT a) = b`, where
  line 490 has NOT bind looser than a comparison (`ParseRoundTrip` sets parentheses
  wherever the two differ); a list of `IN` directly before another `)` is a syntax
  error;
* SQL otherwise: `IN` passes over a NULL candidate; `%` on REAL divides; `COUNT(*)`
  of a failing query counts all rows; `DISTINCT` takes NULL for `'NULL'`; `LIKE`
  takes a `%` in the value for the one of the pattern; integers beyond 2^53
  collide in a UNIQUE column; SELECT * shows the first of two columns of one name
  twice; the key of an empty text cannot be decoded.

Where a property leaves such a case out, its comment says so. Three of them thus
cover the rest of what their operation does, and not the hazard: `CountExact`
(without a failed query and LIMIT), `IndexFaithful` (as long as no caller removes an
entry that was replaced), `EvictsByLruK` (until an access was ignored).
`SelectExact` leaves OFFSET out.

### Bounds

Every bound is a constant: `Txns`, `MaxCrashes`, `MaxLsn`, `Stmts`,
`MaxGeneration`, `MaxPage`, `PoolSize`, `MaxRows`, `MaxTxn`, `MaxSnaps`,
`MaxInserts`, `MaxClock`, `MaxLen`, `MaxArgs`. Three transactions are what it takes for
recovery to choose between an older, the last and an incomplete snapshot; two
crashes, for one to interrupt the recovery of the other. Two transactions do
where only one log has to be told from one data file. Four LSNs hold two records
that were flushed, one that was not, and one behind a torn tail. Two connections
and three statements make a stale copy, a conflicting commit and a failed one;
what more of them would do is covered by the proofs. `MaxRows` = 3 rows are what
a sort needs to tell an order from none and a statement to fail before, at and
after a row that changed. Pages of two slots end twice within five tuples; four
characters hold two `%` and a partial match to go back from; the values lie at the
edges of their ranges and of a key group. Three pages over two
frames force evictions; two threads can pin every frame, race in `NewPage` and
meet on one page. One stored value differs from the zeroes of a new page: that is
all a lost write shows.

Transactions, threads and statements are interchangeable, so the safety runs use
symmetry; the runs with a liveness property do not. Deadlock is not checked in
`TxnSerial` and `TxnLost`, where a process that dereferenced a null pointer stops,
and in `Libraries`, where a pure function has no step and a loop ends.

### Fairness

`FairSpec` of `SnapshotStore` assumes `WF(Step)`: an operation that has started
goes on, since nothing in it waits for anything but the disk; and `WF(BeginOpen)`:
an application without a `Database` calls `Open` again. Nothing is assumed of
commits, checkpoints or crashes, and crashes are bounded. `Reopens` holds for a
reason worth knowing: a file that `Open` refuses is overwritten by the destructor
of the failed `Open`, so that the second attempt succeeds. A record in the log
that recovery refuses is not overwritten, which is why `Reopens` needs snapshots
within the limits. `Libraries` assumes `WF(LikeStep)`: a loop in one thread that
waits for nothing goes on.

## Proofs

All constants are arbitrary, subject only to the named `ASSUME`s of the modules
(which TLC evaluates in the runs): the sets of faults, transactions, connections,
threads, frames, pages, statements and values may be of any size, and bounds may
be any natural numbers. The hypotheses on faults leave out those under which the
code does not keep the promise; the section on the runs lists them. The inductive
invariants that TLC can evaluate were checked on the instances of the runs.

**The log** (`LogManagerProofs`, `LogClientsProofs`). Lemmas say what
`ReadRecords` returns (a front part of the log without torn records), and what
appending, cutting and truncating do to it. `FlushedSurvives`, `LsnsIncrease` and
`ClientTypes` prove `FlushedSurvive`, `LsnOrder` and `TypeOK` for any number of
threads, kills and power failures, under `ReadableLog`: `Open` can read the log
and find out its size. If it cannot, it leaves a torn tail, or a stream open on
records whose LSNs it does not know. The invariant `Inv` adds three facts to the
types: `Whole` (an open log has no torn record), `Ordered` (the LSNs of file and
buffer increase together and stay below `next_lsn`), and `Covered` (what was
flushed is readable in whichever of the contents a power failure leaves; what a
`Flush` between its two halves is about to promise is in the file).

**The data file** (`SnapshotStoreProofs`). `TypeCorrect`: the types, for every
fault and option. `FileStaysWhole` and `FileStaysCurrent` prove `DataFileWhole`
and `DataFileCurrent` under `AtomicSaves` (renames work, a save is not cut short
unnoticed, the power stays on) and every fault of the log. `SaveInv` says what
the temporary file and the data file hold between the steps of `SaveTables`,
`DataInv` that the data file has what no refused commit and no commit in progress
put into the tables.

**Durability** (`SnapshotStoreProofs`). `DurabilityInductive` and `Durability`: if
every commit is synced and the faults are among `SafeFaults` (failing syncs,
saves, truncations, log opens and reads, snapshots too large for a record, late
`Checkpoint` and `Close`; any number of kills), and if no snapshot is over the
limits of `LoadTablesBytes` (`InLimits`, without which TLC finds `AckedSurvive` violated),
then `[]DurabilityInv` and `[]AckedSurvive`. `AckedSurvive` alone is not
inductive: it says nothing of the moments at which there is no `Database`. The
strengthening `Kept(a)` says that at this step a kill followed by `Open` would
bring back the transactions in `a`: it quantifies over every part of the buffer
that a kill can leave in the file and computes what recovery makes of it. Beside
it stands `StoreInv`: `ControlInv` (which step belongs to which operation),
`LogInv` (only an open log has buffered records; only the last record of a log
that was not opened can be torn), `FileInv` (what the files hold at each step of a
save) and `CommitInv` (from its COMMIT record on, the log replays to the tables;
and apart from refused commits the log never replays to less than the tables
have). The lemmas `ReplayAppend` and `ReplayCommit` say what appending a record
does to recovery; then there is one lemma per action. The same `Kept`, with
another `a`, gives `RecoveryNeverGoesBack` (`a` is what the last `Open` returned;
an action property, with or without `sync_on_commit`) and `CloseKeeps` (`a` is
what the closed `Database` held; the power may fail, too, but then the promise
ends); these two assume `InLimits` as well. `OnlyLoggedRecovered` proves
`IncompleteIgnored` under `CommitsAreLogged`: no fault by which a refused commit
stays in the tables and gets into the next snapshot. Power failures and torn tails
are allowed. `LoggedInv` says that transaction ids are not given twice to records
that can be read together, so that no COMMIT record completes the UPDATE of
another transaction.

**Transactions** (`SerializabilityProofs`). `TransactionTypes`: the types, for
all connections. `CopyCurrent`, `Serializable` and `NoLostCommit`: without
statements outside of transactions (`AutoConns = {}`), which `TxnLost` shows to be
needed, a copy of the current generation was made from the current tables
(`CopyInv`, inductive together with the types); therefore each COMMIT that passes
the check is a `Commit` step of `SerialDatabase` and every other step an abstract
step or a stutter; therefore no acknowledged statement is lost.

**Buffer pool and page file** (`BufferPoolProofs`). `PoolTypes`, `GuardsProtect`
and `FreeListsSound` prove `TypeOK`, `GuardStable` and `FreeListSound` for every
fault, torn writes included. The invariants are `Mapped` (the page table and the
frames agree), `FreshApart` (the page that a `NewPage` between its locks has
allocated is nobody else's) and `ListsApart`: the list from the head in memory and
the one from the header each stay in a set of pages that are not in use, and
descend in some order on it, so that neither runs in a circle. That order is what
a write to a page of one list leaves intact in the other. `LatestIsKept` adds
`CleanFrames` (a frame that is not dirty equals its page in the file) and
`FreshEmpty`, under the hypothesis `~TornWrites`.

**The other storage classes, LIKE and Compare** (`LibrariesProofs`).
`SnapshotsAreStable` and `XminIsSafe` rest on `TxnInv`: what each of the three
unlocked reads of `CurrentSnapshot` still says about the manager when the next
one is made, and that a transaction below `xmax` which a snapshot does not list is
over for good. `AddressesAreFresh` rests on `HeapInv` (every address given out is
before the next one), `IndexIsFaithful` on `IndexInv` (each list has no
duplicate and is not empty, and the pairs are those of the lists), `LruKIsExact`
on `LrukInv` (the times kept are the last K of the history). `LikeIsCorrect`
needs `LikeInv`: a match of the whole pattern exists exactly if one exists from
where the loop is or from the place it would go back to. Its reference, `Places`,
gives the places of the value from which each rest of the pattern matches.
`CompareIsAnOrder` rests on the order of sequences (`LessTotal`,
`LessTransitive`) and on rounding being monotone where it matters. The
assumptions are that the page size and K are positive, that `%` is no character of
the value (the code takes it for the wildcard there), and that the sample values
are values of their width (`ValuesAssumption`).

**Index keys** (`ValuesProofs`, `LibrariesProofs`). `KeysAreOrdered` and
`KeysAreReadBack` prove `KeyOrder` and `KeyRoundTrip` for bytes, groups and texts
of any size. A byte of a key is taken for the place `r` of a group `g`: quotients
and remainders by the parameter `Group + 1` are not linear, so that `Product` is
kept opaque and a few lemmas say what they need of it (`QuotientUnique`,
`QuotientOrder`). Two keys are compared by `Below`: somewhere the first has the
smaller byte and nowhere before a greater one. That implies `Less`, survives a
common beginning, and is turned round by the complement of a descending key, which
`Less` is not (a key that begins another comes first either way); this is where
the pair of texts that `KeysFollow` leaves out of the descending keys (`Prefixed`)
gets in. `KeyOrdering` is the order that memcmp must give: what `Compare` says
and, where `Compare` finds two values equal or cannot compare them, the order of
the numbers (`RealOrder`: NaN with a sign, the numbers with -0.0 before +0.0, NaN
without a sign). It is a total order on the values of a type (`KeyOrdering` is
"eq" only for a value and itself), so that no pair is left out of the ascending
keys. Texts in order have keys in order (`EscapedBelow`): either they
differ in a byte, or the shorter one ends in a group whose marker is smaller. A
key is read back (`KeysAreRead`) since the marker of the last group only is a
count, and a key that was cut has a last group that is not whole, or one that says
that more follow.

**Snapshots** (`LibrariesProofs`). `SnapshotsAreReadBack` proves
`SnapshotRoundTrip` for any tables whose counts and lengths fit into a U32
(`TablesAssumption`: the writer cuts what is longer, as a string of 4 GB) and for
bytes of any width. The lemmas all say the same of one part of the format: where
the bytes follow its code as far as they go (`Continues`), reading gives what was
written if the whole code is there, and is refused otherwise (`Outcome`). This
covers the whole snapshot, each of its beginnings and a longer one at once, and is
passed on from a part to what follows it (`OutcomeInParts`). `CountedRead` is the
induction over a list: which of its items may be read is a parameter (`allowed`),
since a table beyond the limits is refused while the tables before it are not.

**Three-valued logic and IN** (`LibrariesProofs`). `LogicHasThreeValues` proves
`ThreeValuedLogic` for every `Evaluate` that gives a value or an error and applies
AND, OR, NOT and IS NULL to the values of their operands (`PredicatesAssumption`,
which TLC evaluates with `Eval`; what the predicates themselves are made of is
free). `InIsAChainOfOr` proves `InMatchesOr` for all values.

**SQL statements** (`SqlTableProofs`). `ConstraintsAlwaysHold` proves
`ConstraintsHold` for every schema, every set of statements and every `Evaluate`,
between any two row steps. `SqlInv` adds to the constraints that rows are
sequences of the length of the schema, that DELETE has kept different rows of its
table (`Kept`), and that table names come from CREATE statements. The catalog
tables carry a key and a UNIQUE column themselves, which `RefreshCatalog` fills
without `ValidateRow`: that its rows satisfy them needs distinct numbers and names
(`InOrderFacts`), and that the numbers are exact as REAL, since `operator==`
compares INTEGERs as REALs. `StatementAssumption` therefore bounds the number of
tables by `Mantissa` (2^53 in the code). `StatementsAreExact` proves
`StatementEffect`, which compares the tables between two statements with what one
evaluation over all rows gives, and is not inductive: it says nothing of a
statement half-way. `EffectInv` does. It says which rows the loop has dealt with
so far (`Inserted`, `Updated`, `Deleted`: the rows before `at` are as the
statement wants them, the others as they were), that the other tables are as
before the statement, that no expression of a row dealt with gave an error
(`ErrorFree`: also not one whose column a later assignment of the same SET
writes), and that a statement that succeeded has gone through all of its rows.
`CountsAreExact` proves `CountExact` from `CountInv`: `FilterRow` has put into
`buffer` the rows that satisfy WHERE, `SortRows` permutes them and keeps their
number, and each row of the output counts once. It assumes that a COUNT(*) has no
list of expressions, since `ExecuteSql` makes a SELECT * of it (db.cpp:1076; a
query that has the text `count(*)` elsewhere, say in a literal, is left out), and
that what `Evaluate` gives for an error is no value. `SelectsAreExact` proves
`SelectExact`. `SelectInv` follows the statement: while rows are put out, `buffer`
is a sorted permutation of the rows that satisfy WHERE (`Sortings`), the result is
the projection (by the first column of each name, `FirstNamed`) of rows picked
from it in its order (`PickedBy`: all that were reached, or with DISTINCT one for
each key in `seen`), and LIMIT has not been passed; so a row that is missing at
the end comes behind every row of the result. Rows with one DISTINCT key look the
same (`KeysTellApart`: where no value shows a zero byte, the key can be cut into
its values again), and the rows that look the same and are not are what
`SelectExact` leaves out (`Mistakable`: NULL and `'NULL'`). That the comparator is
an order on rows whose keys can be compared rests on the lemmas about `Compare`.
The tables must hold values (`ValuesInv`, `FittingInv`), so that the theorem has
the hypothesis `EvaluatesToValues`: an expression gives a value or sets the
status, on any row. `Eval` does so, a column or a parameter that is not there
being an error; TLC cannot check it, since the rows are infinitely many.

Induction: the library's induction theorems take an operator as a parameter and
cannot be used, but a set of naturals that has 0 and every successor is all of
them (`Inductive`, from well-foundedness of `<`), and that is enough to show that
a recursive function exists and what it computes. The places of LIKE,
`std::remove`, the lists of a snapshot, the order of table names, SET and the rows
that satisfy WHERE are treated in this way.

Only model-checked:

* liveness (`Reopens`, `LikeEnds`), which needs fairness;
* `ParseRoundTrip`: `SqlParser` uses recursive operators, which the prover does not
  handle; for the same reason that `Eval` satisfies `PredicatesAssumption` is
  checked on the samples only;
* faults outside of the hypotheses above, as far as the properties survive them,
  and statements outside of transactions.

## Not modelled

* `SnapshotStore` and `Transactions` treat snapshots and tables as sets and
  sequences of effects; rows are in `SqlTable`, bytes in `SnapshotCodec`. The
  three are not composed: `SqlTable` is one connection, whose tables are either
  the copy of a transaction or used alone.
* `AckedKept` says nothing once unlocked accesses have met (`raced`).
* `Tokenize`, numeric literals, LENGTH, UPPER and LOWER: character processing.
  ORDER BY with several expressions, `EXPLAIN`, the index DDL that is refused,
  output schemas, and `tuplestone_indexes`, which is always empty.
* REAL operands of arithmetic that are infinite or NaN.
* Page file: `Open` of a file whose header is refused, torn header writes, stream
  errors that surface only at a later seek or flush, and `Sync`. In `BufferPool`
  the clients use only pages that they got from `NewPage` and have not deleted,
  and do not repeat a `DeletePage` that failed; the run has no torn page writes.
  After a shutdown that could not write everything, `LatestKept` starts anew from
  what the file has.
* `UnpinPage`, which nothing calls; moved guards.
* `Catalog`, a map under a mutex that nothing uses; result sets and prepared
  statements, sequential objects of one connection; the stand-alone front end,
  shell, logger and utilities, without state of interest; `FaultDiskManager`, a
  test double whose faults are choices of `DiskManager`.

## Plan

1. Done: the log, the snapshot store, transactions, the pool over its file, with
durability and serializability proved. 2. Done: SQL on rows, values and keys,
expressions, parser, LIKE, the snapshot format, the storage classes, late `Close`
and dropped handles. 3. Done: proofs of the remaining safety invariants of the
log, the store, the pool, the storage classes, LIKE, the index keys, three-valued
logic and the snapshot format, and of the constraints, effects, counts and results
of SQL statements. 4. Later: `DiskManager` with the refused `Open` and buffered
stream writes.
