----------------------------- MODULE BufferPool -----------------------------
(***************************************************************************)
(* The BufferPoolManager of stingdb over its DiskManager.                  *)
(*                                                                         *)
(* Every public method holds latch_ from its first line to its return, so  *)
(* a call is one step, except where it has to let the kernel or another    *)
(* thread move on: waiting for a victim's write, and reading the page in.  *)
(* `op' is the call that holds latch_ between such steps.  Threads use the *)
(* pages they have pinned without latch_, in steps of their own.           *)
(***************************************************************************)
EXTENDS DiskManager, SequencesExt

CONSTANTS
  Threads,   \* worker threads of the server's io_context
  NoThread

ASSUME FramesAssumption == IsFiniteSet(Frames)
ASSUME ThreadsAssumption == IsFiniteSet(Threads) /\ NoThread \notin Threads

VARIABLES
  page_table,    \* page_table_
  free_list,     \* free_list_
  lru_replacer,  \* lru_replacer_: most recently unpinned first
  data,          \* Page::data_, per frame
  page_id,       \* Page::page_id_
  pin_count,     \* Page::pin_count_
  is_dirty,      \* Page::is_dirty_
  op,            \* the call that holds latch_
  held           \* the page each thread got from FetchPage or NewPage

frameVars == <<data, page_id, pin_count, is_dirty>>
listVars == <<free_list, lru_replacer>>
vars == <<diskVars, page_table, listVars, frameVars, op, held>>

Idle == [pc |-> "idle", kind |-> "none", thread |-> NoThread,
         page |-> NoPage, frame |-> NoFrame, writer |-> FALSE, todo |-> {}]
NoPin == [page |-> NoPage, frame |-> NoFrame, writer |-> FALSE]
Pin(p, f, w) == [page |-> p, frame |-> f, writer |-> w]

\* What a caller asks for.  A writer will modify the page and unpin it with
\* is_dirty = true (InsertExecutor); a reader does neither (SeqScanExecutor).
FetchCall(p, w) == [kind |-> "fetch", page |-> p, writer |-> w]
NewCall == [kind |-> "new", page |-> NoPage, writer |-> TRUE]

Working(pc, t, c, f) ==
  [pc |-> pc, kind |-> c.kind, thread |-> t,
   page |-> c.page, frame |-> f, writer |-> c.writer, todo |-> {}]

TypeOK ==
  /\ DiskTypeOK
  /\ page_table \in [PageIds -> Frames \cup {NoFrame}]
  /\ free_list \in Seq(Frames)
  /\ lru_replacer \in Seq(Frames)
  /\ data \in [Frames -> Data]
  /\ page_id \in [Frames -> PageIds \cup {NoPage}]
  /\ pin_count \in [Frames -> Nat]
  /\ is_dirty \in [Frames -> BOOLEAN]
  /\ op \in [pc : {"idle", "spin", "load", "flush"},
             kind : {"none", "fetch", "new"},
             thread : Threads \cup {NoThread},
             page : PageIds \cup {NoPage},
             frame : Frames \cup {NoFrame},
             writer : BOOLEAN,
             todo : SUBSET PageIds]
  /\ held \in [Threads -> [page : PageIds \cup {NoPage},
                           frame : Frames \cup {NoFrame},
                           writer : BOOLEAN]]

\* The constructor: every frame is free.  Frames are interchangeable, so the
\* order of the list is any one.
PoolInit ==
  /\ page_table = [p \in PageIds |-> NoFrame]
  /\ free_list \in SetToSeqs(Frames)
  /\ lru_replacer = << >>
  /\ data = [f \in Frames |-> Zero]
  /\ page_id = [f \in Frames |-> NoPage]
  /\ pin_count = [f \in Frames |-> 0]
  /\ is_dirty = [f \in Frames |-> FALSE]
  /\ op = Idle
  /\ held = [t \in Threads |-> NoPin]

Init ==
  /\ DiskInit
  /\ PoolInit

Latched == op.pc # "idle"
CanCall(t) == ~Latched /\ held[t] = NoPin
-----------------------------------------------------------------------------
(***************************************************************************)
(* FetchPage and NewPage.                                                  *)
(***************************************************************************)

\* pin_count_.fetch_add of a hit, and lru_replacer_.remove: the list without
\* the frame, which is in it at most once (ListsHoldUnusedFrames).
Mutant_PinForgotten(previous) == previous
Pinned(previous) == previous + 1
Mutant_StillEvictable(f) == lru_replacer
NotEvictable(f) == RemoveFirst(lru_replacer, f)

\* FetchPage of a page that is in the pool.
FetchHit(t, p, w) ==
  /\ CanCall(t)
  /\ page_table[p] # NoFrame
  /\ LET f == page_table[p] IN
       /\ pin_count' = [pin_count EXCEPT ![f] = Pinned(@)]
       /\ lru_replacer' = NotEvictable(f)
       /\ held' = [held EXCEPT ![t] = Pin(p, f, w)]
  /\ UNCHANGED <<diskVars, page_table, free_list, data, page_id, is_dirty, op>>

\* A call that needs a frame: a fetch of a page not in the pool, or NewPage.
NeedsFrame(t, c) ==
  /\ CanCall(t)
  /\ \/ c.kind = "fetch" /\ page_table[c.page] = NoFrame
     \/ c.kind = "new" /\ next_page_id < MaxPages

\* The frame comes from the front of the free list.
TakeFreeFrame(t, c) ==
  /\ NeedsFrame(t, c)
  /\ free_list # << >>
  /\ LET f == Head(free_list) IN
       /\ op' = Working("load", t, c, f)
       /\ data' = [data EXCEPT ![f] = Zero]
  /\ free_list' = Tail(free_list)
  /\ UNCHANGED <<diskVars, page_table, lru_replacer, page_id, pin_count,
                 is_dirty, held>>

\* No frame is free: the victim is the least recently unpinned page.  With
\* both lists empty the call returns nullptr and changes nothing.
HasVictim == free_list = << >> /\ lru_replacer # << >>
Victim == Last(lru_replacer)

\* page_table_.erase of the victim and ResetMemory of its frame.
Erase(f) ==
  /\ page_table' = [page_table EXCEPT ![page_id[f]] = NoFrame]
  /\ data' = [data EXCEPT ![f] = Zero]

EvictClean(t, c) ==
  /\ NeedsFrame(t, c)
  /\ HasVictim
  /\ ~is_dirty[Victim]
  /\ Erase(Victim)
  /\ op' = Working("load", t, c, Victim)
  /\ lru_replacer' = Front(lru_replacer)
  /\ UNCHANGED <<diskVars, free_list, page_id, pin_count, is_dirty, held>>

\* WritePageAsync of the victim.
Mutant_NothingSubmitted == UNCHANGED ring
SubmitVictim == WritePageAsync(page_id[Victim], Victim)

EvictDirty(t, c) ==
  /\ NeedsFrame(t, c)
  /\ HasVictim
  /\ is_dirty[Victim]
  /\ ~RingFull
  /\ SubmitVictim
  /\ op' = Working("spin", t, c, Victim)
  /\ lru_replacer' = Front(lru_replacer)
  /\ UNCHANGED <<disk, next_page_id, page_table, free_list, frameVars, held>>

\* WritePageAsync throws: the call is over, its victim already off the list.
EvictThrows(t, c) ==
  /\ NeedsFrame(t, c)
  /\ HasVictim
  /\ is_dirty[Victim]
  /\ RingFull
  /\ lru_replacer' = Front(lru_replacer)
  /\ UNCHANGED <<diskVars, page_table, free_list, frameVars, op, held>>

\* while (RetrieveAsyncCompletions() == 0) {}: any completion ends the wait.
Mutant_NoWait == TRUE
WaitIsOver == Completions # {}

AwaitWrite ==
  /\ op.pc = "spin"
  /\ WaitIsOver
  /\ RetrieveAsyncCompletions
  /\ Erase(op.frame)
  /\ op' = [op EXCEPT !.pc = "load"]
  /\ UNCHANGED <<disk, next_page_id, listVars, page_id, pin_count, is_dirty,
                 held>>

\* The end of both methods: metadata, page table, pin_count 1.
Install(p, contents) ==
  LET f == op.frame IN
    /\ data' = [data EXCEPT ![f] = contents]
    /\ page_id' = [page_id EXCEPT ![f] = p]
    /\ pin_count' = [pin_count EXCEPT ![f] = 1]
    /\ is_dirty' = [is_dirty EXCEPT ![f] = FALSE]
    /\ page_table' = [page_table EXCEPT ![p] = f]
    /\ held' = [held EXCEPT ![op.thread] = Pin(p, f, op.writer)]
    /\ op' = Idle

LoadPage ==
  /\ op.pc = "load" /\ op.kind = "fetch"
  /\ Install(op.page, ReadPage(op.page))
  /\ UNCHANGED <<diskVars, listVars>>

\* pread fails and ReadPage throws out of FetchPage.
LoadFails ==
  /\ op.pc = "load" /\ op.kind = "fetch"
  /\ op' = Idle
  /\ UNCHANGED <<diskVars, page_table, listVars, frameVars, held>>

NewPage ==
  /\ op.pc = "load" /\ op.kind = "new"
  /\ AllocatePage
  /\ Install(next_page_id, Zero)
  /\ UNCHANGED <<disk, ring, listVars>>
-----------------------------------------------------------------------------
(***************************************************************************)
(* UnpinPage, and what a thread does with a page it has pinned.            *)
(***************************************************************************)
\* Whether the unpinned page is dirty now, and whether it may be evicted.
Mutant_LastUnpinDecides(f, w) == w
DirtyAfterUnpin(f, w) == is_dirty[f] \/ w
Mutant_OneTooFew(previous) == previous = 0
Mutant_EveryUnpin(previous) == previous >= 1
BecomesCandidate(previous) == previous = 1

UnpinPage(t) ==
  LET p == held[t].page
      f == page_table[p]
  IN
  /\ ~Latched
  /\ held[t] # NoPin
  /\ held' = [held EXCEPT ![t] = NoPin]
  /\ \/ /\ f # NoFrame
        /\ is_dirty' = [is_dirty EXCEPT ![f] = DirtyAfterUnpin(f, held[t].writer)]
        /\ pin_count' = [pin_count EXCEPT ![f] = @ - 1]
        /\ lru_replacer' = IF BecomesCandidate(pin_count[f])
                           THEN <<f>> \o lru_replacer
                           ELSE lru_replacer
     \/ /\ f = NoFrame          \* return false
        /\ UNCHANGED <<is_dirty, pin_count, lru_replacer>>
  /\ UNCHANGED <<diskVars, page_table, free_list, data, page_id, op>>

\* A writer changes the bytes.  InsertTuple and MarkDelete also SetDirty;
\* SlottedPage::Init and SetLSN do not and rely on the later UnpinPage.
ModifyPage(t, d, sets_dirty) ==
  LET f == held[t].frame IN
  /\ held[t].writer
  /\ data' = [data EXCEPT ![f] = d]
  /\ is_dirty' = [is_dirty EXCEPT ![f] = @ \/ sets_dirty]
  /\ UNCHANGED <<diskVars, page_table, listVars, page_id, pin_count, op, held>>
-----------------------------------------------------------------------------
(***************************************************************************)
(* FlushPage and FlushAllPages.  DeletePage returns false and does nothing.*)
(***************************************************************************)

\* A clean page, or one not in the pool, is left alone; with a full ring
\* WritePageAsync throws before SetDirty(false).
FlushPage(p) ==
  LET f == page_table[p] IN
  /\ ~Latched
  /\ f # NoFrame /\ is_dirty[f]
  /\ ~RingFull
  /\ WritePageAsync(p, f)
  /\ is_dirty' = [is_dirty EXCEPT ![f] = FALSE]
  /\ UNCHANGED <<disk, next_page_id, page_table, listVars, data, page_id,
                 pin_count, op, held>>


\* FlushAllPages walks page_table_ in the hash map's order.
FlushAllPages ==
  /\ ~Latched
  /\ op' = [Idle EXCEPT !.pc = "flush", !.todo = {p \in PageIds : page_table[p] # NoFrame}]
  /\ UNCHANGED <<diskVars, page_table, listVars, frameVars, held>>

\* One entry of the walk.  A full ring ends the call with an exception.
FlushNext(p) ==
  LET f == page_table[p] IN
  /\ op.pc = "flush" /\ p \in op.todo
  /\ \/ /\ is_dirty[f] /\ ~RingFull
        /\ WritePageAsync(p, f)
        /\ is_dirty' = [is_dirty EXCEPT ![f] = FALSE]
        /\ op' = [op EXCEPT !.todo = @ \ {p}]
     \/ /\ is_dirty[f] /\ RingFull
        /\ op' = Idle
        /\ UNCHANGED <<ring, is_dirty>>
     \/ /\ ~is_dirty[f]
        /\ op' = [op EXCEPT !.todo = @ \ {p}]
        /\ UNCHANGED <<ring, is_dirty>>
  /\ UNCHANGED <<disk, next_page_id, page_table, listVars, data, page_id,
                 pin_count, held>>

\* while (RetrieveAsyncCompletions() < 0) {}: one call, never repeated.
FlushAllReturns ==
  /\ op.pc = "flush" /\ op.todo = {}
  /\ RetrieveAsyncCompletions
  /\ op' = Idle
  /\ UNCHANGED <<disk, next_page_id, page_table, listVars, frameVars, held>>
-----------------------------------------------------------------------------
(***************************************************************************)
(* The environment: the kernel, and the death of the process.              *)
(***************************************************************************)
WriteCompletes(i) ==
  /\ KernelWrites(i, data)
  /\ UNCHANGED <<page_table, listVars, frameVars, op, held>>

WriteFails(i) ==
  /\ KernelFails(i)
  /\ UNCHANGED <<page_table, listVars, frameVars, op, held>>

\* The process is killed and started again on the same file.
Restart ==
  /\ ring' = [i \in Entries |-> FreeEntry]
  /\ next_page_id' = 0
  /\ page_table' = [p \in PageIds |-> NoFrame]
  /\ free_list' \in SetToSeqs(Frames)
  /\ lru_replacer' = << >>
  /\ data' = [f \in Frames |-> Zero]
  /\ page_id' = [f \in Frames |-> NoPage]
  /\ pin_count' = [f \in Frames |-> 0]
  /\ is_dirty' = [f \in Frames |-> FALSE]
  /\ op' = Idle
  /\ held' = [t \in Threads |-> NoPin]
  /\ UNCHANGED disk
-----------------------------------------------------------------------------
(***************************************************************************)
(* Next-state relations, by who drives the pool.                           *)
(***************************************************************************)
Evict(t, c) == EvictClean(t, c) \/ EvictDirty(t, c) \/ EvictThrows(t, c)
GetFrame(t, c) == TakeFreeFrame(t, c) \/ Evict(t, c)

\* FetchPage of p by thread t.
Fetch(t, p, w) == FetchHit(t, p, w) \/ GetFrame(t, FetchCall(p, w))

\* Steps of a call that has started.
Continue == AwaitWrite \/ LoadPage \/ NewPage

\* Executors fetch pages that NewPage has handed out (Table::first_page_id).
Executors ==
  \E t \in Threads :
    \/ \E p \in PageIds, w \in BOOLEAN : p < next_page_id /\ Fetch(t, p, w)
    \/ GetFrame(t, NewCall)
    \/ UnpinPage(t)
    \/ \E d \in Data, b \in BOOLEAN : ModifyPage(t, d, b)

\* What the executors do over a disk that works.  Their calls can meet LoadFails
\* and WriteFails too; those are in ApiNext.
ServerNext ==
  \/ Executors
  \/ Continue
  \/ \E i \in Entries : WriteCompletes(i)

\* The whole interface, with the failures the code has branches for.
ApiNext ==
  \/ ServerNext
  \/ \E p \in PageIds : FlushPage(p) \/ FlushNext(p)
  \/ FlushAllPages
  \/ FlushAllReturns
  \/ LoadFails
  \/ \E i \in Entries : WriteFails(i)

ServerSpec == Init /\ [][ServerNext]_vars
ApiSpec == Init /\ [][ApiNext]_vars

\* The thread that holds latch_ runs until it returns, and io_uring completes
\* every submitted write, which io_uring_submit must have accepted: the code does
\* not look at its result.  Nothing makes an executor call again.
Progress == WF_vars(Continue) /\ \A i \in Entries : WF_vars(WriteCompletes(i))
FairServerSpec == ServerSpec /\ Progress

\* A new database file, and restarts.
RestartSpec ==
  /\ Init /\ disk = [p \in PageIds |-> Zero]
  /\ [][ServerNext \/ Restart]_vars
-----------------------------------------------------------------------------
(***************************************************************************)
(* Properties.                                                             *)
(***************************************************************************)
Holders(f) == {t \in Threads : held[t].frame = f}
Mapped(f) == \E p \in PageIds : page_table[p] = f
Listed(f) == f \in ToSet(free_list) \/ f \in ToSet(lru_replacer)

\* A page stays in the frame its holders were given, under its own id, until
\* each of them has unpinned it, and pin_count_ counts exactly them: no
\* eviction, load or flush of another thread takes the frame away, and the
\* assertion of UnpinPage (previous_pin_count > 0) cannot fail.
PinnedPagesStay ==
  /\ \A t \in Threads : held[t] # NoPin =>
       /\ page_table[held[t].page] = held[t].frame
       /\ page_id[held[t].frame] = held[t].page
  /\ \A f \in Frames : pin_count[f] = Cardinality(Holders(f))

\* The lists FetchPage and NewPage take frames from hold only frames nobody
\* uses, each once: a free frame holds no page, a frame of lru_replacer_ holds
\* an unpinned page, and no page is in two frames.
ListsHoldUnusedFrames ==
  /\ IsInjective(free_list) /\ IsInjective(lru_replacer)
  /\ ToSet(free_list) \cap ToSet(lru_replacer) = {}
  /\ \A f \in ToSet(free_list) : pin_count[f] = 0 /\ ~Mapped(f)
  /\ \A f \in ToSet(lru_replacer) : pin_count[f] = 0 /\ Mapped(f)
  /\ \A p \in PageIds : page_table[p] # NoFrame => page_id[page_table[p]] = p

\* FetchPage and NewPage return nullptr only when every frame is pinned by a
\* running query, as the comment at that return says: no frame is lost between
\* the lists, the page table and a caller.  This holds while no read fails: an
\* exception of ReadPage loses the frame it was to fill (LoadFails).
OomOnlyWhenAllPinned ==
  ~Latched /\ free_list = << >> /\ lru_replacer = << >>
    => \A f \in Frames : pin_count[f] > 0

\* The wait of an eviction is for the victim's own write: once FetchPage or
\* NewPage goes on to reuse the frame, no write of the victim is in flight.
EvictionWaits ==
  [][op.pc = "spin" /\ op'.pc # "spin" => ~InFlight(page_id[op.frame])']_vars

\* NewPage makes a page that did not exist: the id it hands out has nothing
\* stored on the disk under it.
NewPageIsNew ==
  [][\A t \in Threads :
       op.thread = t /\ op.kind = "new" /\ held[t] = NoPin /\ held'[t] # NoPin
         => disk[held'[t].page] = Zero]_vars

\* Every call that takes latch_ gives it back: the spin of an eviction ends, if
\* the kernel has accepted the victim's write (Progress).
LatchReleased == Latched ~> ~Latched

\* Whatever the pool evicts, writes back and reads again, its callers see a
\* store of pages that only their own modifications change (PageStore).
Content ==
  [p \in PageIds |-> IF page_table[p] = NoFrame THEN disk[p] ELSE data[page_table[p]]]

Opened == [t \in Threads |-> [page |-> held[t].page, writer |-> held[t].writer]]

Store == INSTANCE PageStore WITH
  content <- Content, open <- Opened, created <- next_page_id

ImplementsPageStore == Store!Spec

=============================================================================
