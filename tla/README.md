# A TLA+ verification of stingdb

stingdb is a small relational database server in C++20: a TCP front end on a
thread pool, two executors, a buffer pool over an asynchronous disk manager, a
slotted page layout, and a transaction manager with epochs and a write-ahead
log buffer. Beside these it contains parts that no statement reaches yet: a B+
tree, the memo of an optimizer, an arena allocator and column vectors. This
directory holds TLA+ models of those parts, the TLC runs that check them on
small instances and TLAPS proofs of the properties that matter most. Paths below are relative to the root of the repository.

## 1. The system

| Component | State | Operations | Talks to |
|---|---|---|---|
| `DiskManager` (`src/storage/disk`) | the file, the io_uring ring, `next_page_id_` | `ReadPage`, `WritePageAsync`, `RetrieveAsyncCompletions`, `AllocatePage` | the kernel |
| `Page` (`src/storage/page`) | bytes, id, pin count, dirty flag, a reader-writer latch only the B+ tree takes | accessors | |
| `BufferPoolManager` (`src/storage/buffer_pool`) | `page_table_`, `free_list_`, `lru_replacer_`, the frames, `latch_` | `FetchPage`, `NewPage`, `UnpinPage`, `FlushPage`, `FlushAllPages`, (`DeletePage` does nothing) | `DiskManager`, under `latch_` |
| `SlottedPage` (`src/storage/table`) | header, slot array, tuples of one page | `Init`, `InsertTuple`, `GetTuple`, `MarkDelete`, `SetLSN` | a pinned `Page` |
| `LogManager`, `LogRecord` (`src/transaction`) | two log buffers, their offsets, `next_lsn_` | `AppendLogRecord`, `Flush` | (the write itself is a comment) |
| `EpochManager` | `global_epoch_`, a ring of reader counters | `EnterEpoch`, `ExitEpoch`, `AdvanceEpoch`, `GetOldestActiveEpoch` | |
| `Transaction`, `TransactionManager` | state, read epoch, write set; the map of transactions | `Begin`, `Commit`, `Abort` | log and epochs |
| `CatalogManager`, `TableInfo`, `Schema`, `Binder` | table names, `first_page_id_`, column offsets | `CreateTable`, `GetTable`, `UpdateFirstPageId` | |
| `InsertExecutor`, `SeqScanExecutor` | position in the table | `Init`, `Next` | catalog, pool, slotted page, log |
| `Connection`, `Server`, `main` | a socket and one statement at a time | accept, read handler, answer | everything above |
| `BPlusTree` (`src/storage/index`) | `root_page_id_`; the latches and pins of a search | `FindLeafPage` under `Insert` and `FindValue` | pool, page latches |
| `Memo`, `Rule`s, `Optimizer` (`src/sql/planner`) | groups, the map from hashes to expressions | `InsertExpression`, `Match`, `Transform` | |
| `ArenaAllocator` (`src/common/memory`) | chunks, `current_offset_` | `Allocate`, `Reset` | |
| `TupleBatch`, `FlatVector` (`src/execution`) | columns, sizes, null masks | `AddColumn`, `Resize`, `SetNull`, `SetNumRows`, `Reset` | |
| `FilterExecutor`, lexer and parser | | no body, or a body that is a comment | |

The server runs one `io_context` on N threads (`src/network/server.h`). A
connection handles one statement at a time, but handlers of different
connections run at the same time. What keeps them apart is one mutex per
manager: `latch_` of the pool, `latch_` of the log, the catalog's and the
transaction map's mutexes, and atomics in the epoch manager. Page contents and
`TableInfo::first_page_id_` are protected by nothing.

What is hard in this code:

* a frame of the pool passes between two lists, the page table and its callers,
  with an I/O wait and several exceptions in the middle;
* writes are submitted with a *pointer* to the frame, so what reaches the disk
  depends on when the kernel looks and what the frame holds by then;
* commits of several workers share two log buffers, and the latch is dropped
  between the swap and the flush;
* executors read and write page headers in many unlatched steps;
* 16-bit arithmetic in the slotted page, padding in the arena, words of a mask;
* a page latch belongs to a frame, so it is only as good as the pin beside it;
* the memo tells expressions apart by a hash;
* nothing about page ids, the catalog or the log survives a restart.

`PROJECT.json` lists these as hazards, each at its line.

## 2. Modules

| Module | Models | Kind |
|---|---|---|
| `DiskManager` | the disk manager; the kernel's side of io_uring (external) | state and operators |
| `BufferPool` | the buffer pool over `DiskManager`, and its callers' pins | specification |
| `PageStore` | what the pool promises: pages that only their writers change | abstract specification |
| `SlottedPage` | one page | specification |
| `EpochManager`, `LogManager` | the two parts of a transaction | state and operators |
| `Transactions` | `TransactionManager` over both, driven by workers | specification, composes |
| `Sessions`, `Schema` | connections, binder, catalog, executors, the page they share; length of a row | specification |
| `BPlusTree` | searches of indexes over a small pool | specification |
| `Memo`, `GroupHash` | the memo and its rules; `ComputeHash` bit by bit | specification, operators |
| `ArenaAllocator`, `ColumnBatch` | the allocator; `TupleBatch` and `FlatVector` | specifications |
| `MCParts` | the specifications that share no state, side by side | for TLC |
| other `MC*` | model values, symmetry | for TLC |
| `BufferPoolProofs`, `BufferPoolServerProofs`, `SlottedPageProofs`, `TransactionsProofs`, `SessionsProofs`, `BPlusTreeProofs`, `MemoProofs`, `QueryMemoryProofs` | | theorems |

### BufferPool

Each public method holds `latch_` throughout, so a call is one step, except
where other parties must be able to move while it runs: between submitting a
victim's write and seeing a completion (`op.pc = "spin"`), before the page is
read in (`"load"`), and between the pages of `FlushAllPages` (`"flush"`). `op`
records the call that holds `latch_`. `FetchPage` is `FetchHit`, or
`TakeFreeFrame` / `EvictClean` / `EvictDirty`, then `AwaitWrite`, then
`LoadPage`; `NewPage` shares everything but the end. The error paths are
`EvictThrows` (`io_uring_get_sqe` returns null), `LoadFails` (`pread` fails)
and `WriteFails` (a completion with `res < 0`, which the code only logs). A
call that returns `nullptr` or `false` changes nothing and is no step.

`held` is the callers' side: each thread has at most one page at a time, as
both executors do, and modifies it without `latch_` (`ModifyPage`), with or
without `SetDirty`. A writer unpins with `is_dirty = true`, a reader with
`false`; this is what `InsertExecutor` and `SeqScanExecutor` do.

Page contents are members of `Data`. A ring entry names the frame, not its
contents, and `WriteCompletes` takes the bytes the frame has at that moment,
in any order with other writes. `RingEntries` bounds the entries that are
submitted or completed and not yet reaped; with none left `WritePageAsync`
throws. In the code the ring has 256 submission entries and the kernel bounds
unreaped completions; the model merges the two limits. A write is atomic: torn
pages are not modelled.

The next-state relation comes in several sizes. `ServerNext` is what the
executors do over a disk that works. `ApiNext` adds flushes, and the failing
reads and writes that the executors' calls can meet as well; `RestartSpec` adds
restarts to `ServerNext`. A read that fails loses the frame it was to fill, so
`OomOnlyWhenAllPinned` is a statement about `ServerNext` only.

The result of `io_uring_submit` is ignored in the code. An entry the kernel did
not take is, in the model, one that never completes, which every specification
without fairness allows; only `LatchReleased` assumes that it was taken.

### SlottedPage

Slots are a sequence of offset and size; a byte of the tuple area is the number
of the tuple whose `memcpy` wrote it last. All 16-bit expressions of
`InsertTuple` are taken modulo `UINT16`, and the comparison is of ints, as in
C++. The page LSN is in `Sessions`. `InsertTuple` takes every size of
`TupleSizes`: `SlottedPage_wrap` gives it all sizes below `UINT16`, `Parts` and
the proofs those for which `size + SLOT_SIZE` does not wrap.

### Transactions

`Begin` is five steps (id, load of the epoch, count, log record, map), `Commit`
four (record, swap, rest of `Flush`, state and epoch), `Abort` two. The write of
the flush buffer is a comment in the code; at that place the code sets
`flush_size_ = 0` with the remark that the buffer is flushed. `flushed` holds
the records for which that has been said, that is, the records the disk would
have if the commented write were there. A record keeps the offset `at` at which
`AppendLogRecord` serialised it, so that the proofs can speak of the bytes of
the buffer; every record fits an empty buffer (`LogAssumption`; 20 and 287 of
16384 bytes in the code). `AdvanceEpoch`, `Abort` and
`GetOldestActiveEpoch` have no caller in the server; the model calls the first
two freely and leaves out the third, which only reads. Every `Commit` and `Abort` is
called once per transaction, so their tests of the state never return early.

### Sessions

The server accepts a connection, then its read handler runs statement by
statement; a read or an answer that fails closes the connection, a statement
the handler does not know is answered with an error. The pool appears as
the page store it implements and a transaction as a begin and an end, since
`BufferPool` and `Transactions` cover their insides. Every access to
`first_page_id_` and to the page is a step. `SlottedPage::Init` is one step: the
zero page before it already shows readers everything a half-done `Init` could.

A page is one array of cells, which its header, its slots and its tuples share,
as they share its bytes in the code: an insert with a stale header may copy its
tuple over slots, or write its slot into a tuple. A cell holds one field (LSN,
tuple count, free space pointer, offset or size of a slot), a tuple covers
`TUPLE_SIZE` cells and is all zeros, which is what `InsertExecutor` stores. A
tuple that starts in the middle of a field would clear part of it; the model
clears it whole or not at all. Either way the field's value can only fall, which
is all the properties depend on.

`NewPage` and `FetchPage` may throw (`PoolThrows`), which the handler catches and
answers with the transaction left active. Frames are never exhausted here: the
pool has 4096 of them and a handler pins one page, so the unchecked `nullptr`
of `NewPage` is left out. The length of a row comes from `Schema`, whose
offsets are a recursive function over the columns.

### BPlusTree

`FindLeafPage` under several threads that call `Insert` and `FindValue` on
several trees. The latch is in the frame (`readers`), as it is in `Page`; frames,
pins, the page table and whether a frame is on one of the lists stand in for
`BufferPool`. Fetching, latching, testing, unlatching and unpinning are steps of
their own. `FetchPage` finds the page, takes a frame, returns `nullptr` (which
the caller dereferences: the search stays there) or throws. An exception at the
root (`RootThrows`) leaves the search with nothing; one below the root
(`NextThrows`) leaves the parent latched and pinned, as the context does not
know of it yet, and `abandoned` counts these. The search inside a node is a
comment in the code: the child is always `INVALID_PAGE_ID`, a page of zeroes,
which the model keeps, so such a descent ends only in an exception or a
`nullptr`. A tree has no state beyond its root because the code's `Insert`
stores nothing; roots have any type, as `BPlusTreeNode::Init` or zeroed memory
left them.

### Memo

An expression is its operator and its child groups, as in the code, which stores
not even the table of a `LOGICAL_GET`: scans of two tables are one expression.
`InsertExpression` is one action in two cases. `Optimize`, its only caller, is a
comment that names two functions nobody has written, so the calls are external
and as general as that comment allows: a planner that inserts plans bottom-up
(`InsertPlan`), and the two registered rules applied to any expression in any
order, with the result put into the expression's own group (`ApplyRule`).
`GroupHash` computes the code's 64-bit hash exactly, in two limbs, and `MCMemo`
hands it to `Memo` as the constant `Hash`.

### ArenaAllocator and ColumnBatch

Chunks and blocks are ranges of heap addresses. `operator new[]` may give a
chunk any of `BaseAddresses`, all multiples of `NewAlign`, that keeps it apart
from the live chunks, so that one may begin where another ends. Blocks are
remembered from one `Reset` to the next. A request larger than a chunk gets the
start of a new chunk and runs past its end, into memory the arena does not own;
`OwnEnd` cuts such a block at the end of its chunk, and the properties say so.

A null mask is a sequence of words and a word the set of its bits; `nulls`
remembers what callers asked for. `SetNull` does not test its index in the code;
a write past the mask is undefined, so the model calls it only for rows that
have a word (`HasWord`).

## 3. Runs

Passing runs:

| Run | Instance | Shows |
|---|---|---|
| `BufferPool_server` | 3 threads, 2 frames, 3 pages, 2 contents, 2 ring entries | no lost frame, evictions wait for their write, `ImplementsPageStore`, and `latch_` is always released |
| `BufferPool_api` | 2 threads, 2 frames, 3 pages, 1 content, 2 ring entries | types, pins and lists, under the server's calls and with flushes and all failures (`ApiNext` contains `ServerNext`) |
| `Sessions_concurrent` | 2 connections, 4 statements, a page of 11 cells, rows of 2 | pins, transactions, scans and slots under races; every statement ends |
| `Parts` | see below | each part that shares no state with the others |

`Parts` runs six specifications one at a time, the others being as they were
made, which gives each its own state space:

| Part | Instance | Shows |
|---|---|---|
| `SlottedPage` | 16-byte page, 5-bit arithmetic, every size for which `size + SLOT_SIZE` fits 5 bits, and one that does not fit them at all | tuples inside the page, intact, RIDs stable |
| `Transactions` | 2 workers, 2 transactions, a log buffer of 4 units (an INSERT takes 2), 2 epoch counters for 3 epochs | epoch counters, log buffer, write sets, nothing committed left in the buffer |
| `BPlusTree` | 2 threads, 2 frames, 3 trees, one of them empty, roots of every type, 4 calls | latches balanced, latched pages stay, leaf searches end |
| `Memo` | 4 groups, `GET`, `FILTER`, `JOIN` and hash join, the real hash | each expression once, acyclic, groups equivalent |
| `ArenaAllocator` | chunks of 6 bytes at 2, 8 or 12, requests of 1, 3 and 7 aligned to 1 and 2 | blocks disjoint, owned, aligned |
| `ColumnBatch` | words of 2 bits, capacities 1 and 3, sizes to 3, 2 columns | null masks cover and read back |

Runs that end in a counterexample, each against a statement of the repository
(quoted in `PROJECT.json` under `findings`):

| Run | What TLC finds |
|---|---|
| `BufferPool_flush_race` | after a `FlushPage`, an eviction mistakes the old completion for its own and reuses the frame with the write in flight |
| `BufferPool_restart` | after a restart `NewPage` hands out ids whose pages exist |
| `Transactions_overlap` | of two overlapping commits one is committed and not flushed |
| `Sessions_insert_race` | the first INSERT publishes its page before initialising it; a second one finds no room there, stores nothing and is answered with success |
| `SlottedPage_wrap` | a size near `UINT16` wraps the sum with `SLOT_SIZE`, passes the free space test and leaves the page |
| `BPlusTree_leak` | a finished search keeps its leaf pinned |
| `Memo_collision` | over a plan of 23 groups, the joins of groups (4, 23) and (9, 23) have one hash, and the second is answered with the group of the first |
| `ArenaAllocator_overaligned` | a block that starts a chunk is aligned only as far as `operator new[]` aligns |

`Memo_collision` takes only some of the planner's steps (`ChainSpec`: a chain of
filters, then joins), since all of them are too many at 23 groups.

Seen while modelling, and listed among the hazards without a run of their own:
`FlushAllPages` returns with writes in flight, since its `while (... < 0)` never
loops; a `ReadPage` that throws takes its frame out of the pool for good
(`LoadFails`), and below the root of a tree also leaves the parent latched
(`NextThrows`); a `FetchPage` of an id that `NewPage` hands out later puts one
page in two frames; one worker is enough to lose log records once the log buffer
fills, since the swapped-out half is swapped over before anyone flushes it;
`GetOldestActiveEpoch` returns the newest epoch with a reader; equivalent
expressions that were planned apart stay in two groups; over some forty INSERTs
a tuple copied with a stale header can overwrite slots below `tuple_count`; an
INSERT into the full page is answered with success; the LSN on a page, which
nothing reads, can go back when two INSERTs overlap; a second `Commit` of a
transaction, which no caller makes, would leave its epoch twice.

**Bounds.** Two frames and three pages make every fetch beyond the second evict;
a third thread lets one page have two holders while another is being loaded.
Two ring entries let one stale completion coexist with a write in flight, and
let the ring fill. Three transactions are not needed for any log property: a
commit overlaps at most one other per worker. In `Sessions` a page has room for
two rows and nothing more, so one behaviour has creation, races, the last insert,
the full page, and a third insert whose stale count lets it copy its tuple over
the second slot (in the code this takes some forty INSERTs). In `BPlusTree` two
frames are fewer than the pages in use, so searches evict and run out of frames; four calls let
leaked pins add up. Four groups are enough for a join of a join and a filter in
either order; the hash has no collision there, which is why `Memo_collision`
exists. Two chunks let blocks live in a chunk that is no longer the last, and
those at 2 and 8 touch; the request of 7 is larger than a chunk. In `Parts` no
alignment exceeds that of chunks; `ArenaAllocator_overaligned` adds one that does.
`MaxStatements`, `MaxSearches`, `MaxTxns`, `MaxEpoch` and `MaxPages` are bounds
of the models; they appear in guards. Behaviours of all models but the pool's end
when their calls are used up, so those runs set `CHECK_DEADLOCK FALSE`; the
pool's runs check for deadlock.

**Symmetry.** Threads, frames and connections are interchangeable, which
`BufferPool_api` and the counterexample runs of `BufferPool` and `Sessions` use.
The runs with a liveness property use no symmetry.

**Fairness.** `FairServerSpec`: the thread that holds `latch_` keeps running
(weak fairness of `Continue`) and io_uring completes each submitted write (weak
fairness of `WriteCompletes` per entry), which supposes that `io_uring_submit`
accepted it. Nothing forces an executor to call.
`Sessions!FairSpec`: a handler that has begun runs on (weak fairness per
connection); clients need not send anything. `MCParts!Spec`: a thread inside
`FindLeafPage` runs on; nobody has to call. All are what an operating system
scheduler gives a runnable thread.

## 4. Proofs

All theorems hold for every value of the constants that satisfies the `ASSUME`s
of the modules.

`BufferPoolProofs` (`ApiSpec`, so with flushes, failing reads and writes and a
full ring): `TypeCorrect`, `PinsCorrect` (`PinnedPagesStay`) and `ListsCorrect`
(`ListsHoldUnusedFrames`). The lemma `ServerIsApi`
carries them over to `ServerSpec`.

The properties are not inductive alone: that an evicted frame has no holder
follows from where the frame was a step earlier. The invariant `Inv` says where
every frame is. `TableInv`: a page in the table is in the frame with its id and
has been handed out (so `NewPage` never meets its own id in the table).
`HeldInv`, `CountInv`: a pin is on a mapped frame, and pin counts count holders.
`ListInv`: both lists are free of repetitions, free frames are unmapped, frames
in the replacer are mapped and have no holder. `OpInv`: the call that holds
`latch_` owns a frame that is in no list and has no holder, mapped while it
spins and unmapped while it loads, and the page it loads is in no frame. The
proof has one lemma per action, over lemmas on lists and on cardinalities.

`BufferPoolServerProofs` (`ServerSpec`, the calls the executors make): `OomCorrect`
(`OomOnlyWhenAllPinned`), `EvictionWaitsCorrect` (`EvictionWaits`) and the
refinement `PoolImplementsPageStore` (`ImplementsPageStore`). They need a second
invariant, `ServerInv`, which flushes would break, as `BufferPool_flush_race`
shows, and failing reads too, as they lose a frame. `RingInv`: the ring is
empty, except that during an eviction it holds the victim's write and nothing
else, and once that is done the disk has the victim's bytes; so whichever
completion ends the wait is the right one. `FramesInv`: every frame is in a list,
held, or in the hands of the call that has `latch_`. `CleanInv`: a clean page
with no writer is on the disk as it is in its frame, so evicting it changes
nothing; `NewInv` says that the caller of `NewPage`, whose page is clean and on
no disk, is a writer. In the refinement `FetchHit` and `LoadPage` are `Open`,
`NewPage` is `Create`, `UnpinPage` is `Close`, `ModifyPage` is `Modify`, and all
other steps are invisible.

`SlottedPageProofs` (`PageSpec`): `InPageCorrect`, `IntactCorrect`,
`RidsCorrect`, from the invariant `Layout`: the slot array ends at or below the
free space pointer, live tuples lie between that pointer and the end of the page,
and their bytes are their own. They assume `SizesFit`: every inserted size
satisfies `size + SLOT_SIZE < UINT16`. Without it the 16-bit sum
wraps and `TuplesInPage` is false, as `SlottedPage_wrap` shows.

`TransactionsProofs` (`TxnSpec`; any number of workers, transactions, inserts and
epochs, any ring of epoch counters, any log buffer that holds one record):
`TypeCorrect`, `EpochCountersBalance` (`EpochsCounted`), `LogBufferPacked`
(`LogBufferIsRun`), `WriteSetsDisjoint` (`WriteSetsOwn`) and
`CommitEmptiesBuffer` (`CommittedLeftBuffer`). `Inv` adds to
them what ties a worker to its transaction. `WorkersApart`, `WorkersActive`: no
two workers share one, and it is active until its worker lets go of it.
`WorkersEntered`, `EpochsPast`: the step of `Begin` a worker is in tells whether
its epoch has been counted, and no one reads in an epoch to come. `BufferOwned`:
a record in the log buffer belongs to a transaction whose worker, if it still
has one, has not come past its swap; this is why a commit finds none of its
records left, whichever worker's swap took them.

`SessionsProofs` (`Spec`; finitely many connections, any number of statements,
any page that holds one row, any list of column lengths): `TypeCorrect`,
`PinsReturned` (`PinsBalanced`), `TransactionsTracked` (`ActiveTransactions`),
`ScansCountRows` (`ScanCountsRows`) and `TuplesAlwaysReadable`
(`TuplesReadable`). The last two are not inductive: an insert stores a count and
an offset that it read several steps earlier, which others may have changed
since. `Inv` therefore speaks of what handlers carry as well as of what is on
the page.

* `SessionOK`, `TableInv`, `TxnInv`: what a handler has at hand, by where it is
  in its statement; each is in a transaction of its own. An insert past the free
  space test has a tuple above the header and inside the page, and a slot below
  `MaxSlots`, however stale the header it read. `IssuedInv`: a page costs a
  statement, so page ids suffice.
* `FreshInv`: a page published before its `Init` is zero until then, and nobody
  else has found room in it (its free space is 0), so `Init` destroys no row.
* `CountInv`: every count of rows that is on a page or in someone's hand is
  covered by inserts past their own slot. A stale count only makes it smaller.
* `SlotsInside` (in `Typed`): every slot there is room for, counted or not,
  holds an offset and a size that stay in the page. A tuple laid over it only
  lowers them, and a slot laid over a tuple brings a pair of its own; the header
  is out of reach of both.

Racing inserts may still lose a row (`Sessions_insert_race`), and a slot may
name a row whose bytes another one has overwritten: these theorems say what
holds all the same.

`BPlusTreeProofs` (`TreeSpec`; finitely many threads, any number of frames, trees
and searches): `TypeCorrect`, `LatchesCounted` (`LatchesBalanced`) and
`LatchedPages` (`LatchedPagesStay`). In `Inv`, `HandsInv` says which of a
search's two hands is full at each step of `FindLeafPage`; `HeldInv` that the
frame a hand is on still has the page it was fetched for; `PoolInv` that no page
is in two frames; `FoundInv` that a root somebody found stays in the pool, as
its pin is never given back; `PinsInv` that a frame's pins are its hands, the
leaves found in it and the searches that an exception tore away from it, and
that a frame on a list has none. The proof of each step is about one set gaining
or losing one element.

`MemoProofs` (`MemoSpec`; any number of groups, any operators of the planner and any
order of plans and rules): `TypeCorrect`, `StoredOnce` (`EachExpressionOnce`),
`Acyclic` (`MemoIsDag`) and `SameResult` (`GroupsEquivalent`) hold for every
hash, with or without collisions: a collision makes `InsertExpression` drop an
expression, never file it in a wrong group. What it breaks is the answer
(`Memo_collision`). `Inv` adds `Filed`: `expr_map` files an expression under its
own hash.

`QueryMemoryProofs` (`ArenaSpec` and `BatchSpec`, which share nothing). For the
allocator: `ArenaTypeCorrect`, `DisjointCorrect` (`BlocksDisjoint`),
`InChunkCorrect` (`BlocksInChunk`) and `AlignedCorrect` (`BlocksAligned`), for
every chunk size, every set of sizes and alignments and every place of the
chunks. The strengthening `BlocksPlaced` says that every block lies in a chunk,
and in the last one ends at or before `current_offset_`, where the next one
starts; `ChunksApart`, that chunks do not overlap, is what `operator new[]`
gives. `AlignedCorrect` has the hypothesis that every alignment asked for divides
`NewAlign`, without which `ArenaAllocator_overaligned` refutes it; it rests on
lemmas about remainders (`PaddingAligns`, `ModTransitive`). For
vectors: `MaskLongEnough` (`MaskCoversCapacity`) and `NullsKept`
(`NullsReadBack`), for every capacity and word size. `BatchInv` fixes the length
of every mask by its capacity and says of every row the mask reaches, within the
vector's size or not, that its bit is what was said last: a row that one `Resize`
cut off may come back with the next.

Every invariant and every `[][A]_vars` property of the passing runs, and the
refinement, are stated by a theorem. Only model-checked are the liveness properties
(`LatchReleased`, `StatementsAnswered`, `LeafSearchesEnd`: fairness is out of the
prover's reach), what the fold `ComputeHash` computes, and the eight runs that
end in a counterexample.

## 5. Not modelled

`FilterExecutor::Next` answers true for every batch of its child and fills in
nothing: its predicate is a comment. The lexer and the parser are declarations
without an implementation, and `Optimizer::Optimize` is a comment. Logging to
the console, the bytes on sockets, the text of requests and answers, alignment
for `O_DIRECT`, exclusive page latches (nobody takes one) and recovery (there is
none) are left out. `Transaction::isolation_level_` and the commit epoch are
never read. Left out of modelled parts: the values in vectors, a batch made with
null columns, tree node fields other than the type (nothing calls them),
`Schema::GetColIdx`, `EpochManager::GetOldestActiveEpoch`, a `std::bad_alloc`
anywhere.

## 6. Plan

Done: the storage core (`DiskManager`, `BufferPool`, `PageStore`,
`SlottedPage`), the transaction layer, the sessions, and the parts no statement
reaches (`BPlusTree`, `Memo`, `ArenaAllocator`, `ColumnBatch`), with the theorems
above.

Left, in this order:

1. shared lemmas on cardinalities and on `%`, which several proof modules state
   for themselves, in one place, and shorter proofs in `SessionsProofs`;
2. facts about the model's operators that the theorems do not need but a reader
   of the code would ask for, such as that the ids `NewPage` hands out never
   repeat between restarts;
3. `Sessions` over a bounded pool, so that exhaustion reaches the executors.
