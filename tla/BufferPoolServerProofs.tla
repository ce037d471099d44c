----------------------- MODULE BufferPoolServerProofs -----------------------
(***************************************************************************)
(* Proofs about the pool as the server's executors use it (ServerSpec): no *)
(* frame is lost, an eviction waits for its own write, and the pool is the *)
(* page store PageStore describes.                                         *)
(***************************************************************************)
EXTENDS BufferPoolProofs
-----------------------------------------------------------------------------
(***************************************************************************)
(* The invariant.  Nothing but the eviction under way has a write in the   *)
(* ring, so the completion it waits for is its own.                        *)
(***************************************************************************)

\* Entry i is the only one in use, by the write of the victim: not yet done,
\* or done and the disk has what the frame holds.
VictimWrite(i) ==
  /\ \/ ring[i] = Submitted(page_id[op.frame], op.frame)
     \/ ring[i] = DoneEntry /\ disk[page_id[op.frame]] = data[op.frame]
  /\ \A j \in Entries : j # i => ring[j] = FreeEntry

RingInv ==
  /\ op.pc # "flush"
  /\ op.pc # "spin" => \A i \in Entries : ring[i] = FreeEntry
  /\ op.pc = "spin" => \E i \in Entries : VictimWrite(i)

\* Every frame is in a list, held by a thread, or in the hands of the call
\* that has latch_.
Busy(f) == op.pc \in {"spin", "load"} /\ op.frame = f
FramesInv == \A f \in Frames : Listed(f) \/ Holders(f) # {} \/ Busy(f)

\* A page that is clean, and that nobody may still change, is on the disk as
\* it is in its frame.
NoWriter(f) == \A t \in Holders(f) : ~held[t].writer
CleanInv ==
  \A p \in PageIds :
    page_table[p] # NoFrame /\ ~is_dirty[page_table[p]] /\ NoWriter(page_table[p])
      => disk[p] = data[page_table[p]]

\* The caller of NewPage will write the page.
NewInv == op.kind = "new" => op.writer

ServerInv == RingInv /\ FramesInv /\ CleanInv /\ NewInv

\* The invariant holds when the server starts: all frames are in the free list.
LEMMA ServerInitInv == Init => ServerInv
  <1> SUFFICES ASSUME Init PROVE ServerInv
    OBVIOUS
  <1> USE DEF Init, PoolInit, DiskInit
  <1>1. \A f \in Frames : f \in ToSet(free_list)
    <2> DEFINE D == 1 .. Cardinality(Frames)
    <2>1. Cardinality(Frames) \in Nat
      BY FramesAssumption, FS_CardinalityType
    <2>2. IsFiniteSet(D) /\ Cardinality(D) = Cardinality(Frames)
      BY <2>1, FS_Interval
    <2>3. free_list \in Injection(D, Frames)
      BY DEF SetToSeqs, Injection, IsInjective
    <2>4. free_list \in Surjection(D, Frames)
      BY <2>2, <2>3, FramesAssumption, FS_Injection
    <2>5. DOMAIN free_list = D
      BY <2>3 DEF Injection
    <2> QED
      BY <2>4, <2>5 DEF Surjection, ToSet
  <1>2. FramesInv
    BY <1>1 DEF FramesInv, Listed
  <1>3. RingInv /\ NewInv /\ CleanInv
    BY DEF RingInv, NewInv, CleanInv, Idle
  <1> QED
    BY <1>2, <1>3 DEF ServerInv

\* What FetchPage of a page in the pool does to its frame.
LEMMA HitFacts ==
  ASSUME Inv, NEW t \in Threads, NEW p \in PageIds, NEW w \in BOOLEAN, FetchHit(t, p, w)
  PROVE  /\ page_table[p] \in Frames /\ held[t] = NoPin /\ op = Idle
         /\ ToSet(lru_replacer') = ToSet(lru_replacer) \ {page_table[p]}
         /\ held' = [held EXCEPT ![t] = Pin(p, page_table[p], w)]
         /\ \A g \in Frames :
              Holders(g)' = IF g = page_table[p] THEN Holders(g) \cup {t} ELSE Holders(g)
  <1> DEFINE f == page_table[p]
  <1>1. f \in Frames /\ held[t] = NoPin /\ op = Idle
    BY DEF FetchHit, CanCall, Latched, Inv, TypeOK, OpInv
  <1>2. ToSet(lru_replacer') = ToSet(lru_replacer) \ {f}
    BY RemoveFacts DEF FetchHit, NotEvictable, Inv, TypeOK, ListInv
  <1>3. held' = [held EXCEPT ![t] = Pin(p, f, w)]
    BY DEF FetchHit
  <1>4. \A g \in Frames : Holders(g)' = IF g = f THEN Holders(g) \cup {t} ELSE Holders(g)
    BY <1>1, <1>3, NoFrameAssumption DEF Holders, Pin, NoPin, Inv, TypeOK
  <1> QED
    BY <1>1, <1>2, <1>3, <1>4

\* FetchPage of a page in the pool.
LEMMA FetchHitServer ==
  ASSUME Inv, ServerInv, NEW t \in Threads, NEW p \in PageIds, NEW w \in BOOLEAN,
         FetchHit(t, p, w)
  PROVE  ServerInv'
  <1>1. RingInv' /\ NewInv'
    BY DEF FetchHit, ServerInv, RingInv, NewInv, VictimWrite, diskVars
  <1>2. FramesInv'
    BY HitFacts DEF FetchHit, ServerInv, FramesInv, Listed, Busy
  <1>3. \A g \in Frames : NoWriter(g)' => NoWriter(g)
    <2>1. \A g \in Frames : t \notin Holders(g)
      BY HitFacts, HoldersFacts DEF Inv
    <2>2. \A u \in Threads : u # t => held'[u] = held[u]
      BY HitFacts DEF Inv, TypeOK
    <2> QED
      BY <2>1, <2>2, HitFacts DEF NoWriter, Holders
  <1>4. CleanInv'
    BY <1>3 DEF FetchHit, ServerInv, CleanInv, diskVars, Inv, TypeOK
  <1> QED
    BY <1>1, <1>2, <1>4 DEF ServerInv

\* FetchPage or NewPage takes a free frame.
LEMMA TakeFreeServer ==
  ASSUME Inv, ServerInv, NEW t \in Threads, NEW c, ValidCall(c), TakeFreeFrame(t, c)
  PROVE  ServerInv'
  <1>1. PICK f \in Frames : f = Head(free_list)
    BY TailFacts DEF TakeFreeFrame, Inv, TypeOK, ListInv
  <1>2. /\ f \in ToSet(free_list) /\ ~Mapped(f)
        /\ ToSet(free_list') = ToSet(free_list) \ {f}
    BY <1>1, TailFacts DEF TakeFreeFrame, Inv, TypeOK, ListInv
  <1>3. op = Idle /\ op' = Working("load", t, c, f) /\ data' = [data EXCEPT ![f] = Zero]
    BY <1>1 DEF TakeFreeFrame, NeedsFrame, CanCall, Latched, Inv, OpInv
  <1>4. op'.pc = "load" /\ op'.frame = f /\ (op'.kind = "new" => op'.writer)
    BY <1>3 DEF Working, ValidCall, FetchCall, NewCall
  <1>5. RingInv' /\ NewInv'
    BY <1>3, <1>4 DEF TakeFreeFrame, ServerInv, RingInv, NewInv, diskVars, Idle
  <1>6. FramesInv'
    BY <1>2, <1>3, <1>4
       DEF TakeFreeFrame, ServerInv, FramesInv, Listed, Busy, Holders, Idle
  <1>7. CleanInv'
    BY <1>2, <1>3
       DEF TakeFreeFrame, ServerInv, CleanInv, NoWriter, Holders, Mapped, diskVars, Inv, TypeOK
  <1> QED
    BY <1>5, <1>6, <1>7 DEF ServerInv

\* Erasing frame f leaves every other page as it was.
LEMMA EraseClean ==
  ASSUME Inv, CleanInv, NEW f \in Frames, Mapped(f), Holders(f) = {}, Erase(f),
         UNCHANGED <<held, is_dirty, disk>>
  PROVE  CleanInv'
  <1>1. /\ ~Mapped(f)'
        /\ \A p \in PageIds : page_table'[p] # NoFrame => page_table'[p] = page_table[p]
        /\ page_table' \in [PageIds -> Frames \cup {NoFrame}]
    BY EraseFacts
  <1>2. \A g \in Frames : g # f => data'[g] = data[g]
    BY DEF Erase, Inv, TypeOK
  <1> QED
    BY <1>1, <1>2 DEF CleanInv, NoWriter, Holders, Mapped

\* FetchPage or NewPage evicts a clean page.
LEMMA EvictCleanServer ==
  ASSUME Inv, ServerInv, NEW t \in Threads, NEW c, ValidCall(c), EvictClean(t, c)
  PROVE  ServerInv'
  <1>1. PICK f \in Frames : f = Victim
    BY VictimFacts DEF EvictClean
  <1>2. /\ Mapped(f) /\ Holders(f) = {}
        /\ ToSet(lru_replacer') = ToSet(lru_replacer) \ {f}
    BY <1>1, VictimFacts DEF EvictClean
  <1>3. op = Idle /\ op' = Working("load", t, c, f) /\ Erase(f)
    BY <1>1 DEF EvictClean, NeedsFrame, CanCall, Latched, Inv, OpInv
  <1>4. op'.pc = "load" /\ op'.frame = f /\ (op'.kind = "new" => op'.writer)
    BY <1>3 DEF Working, ValidCall, FetchCall, NewCall
  <1>5. RingInv' /\ NewInv'
    BY <1>3, <1>4 DEF EvictClean, ServerInv, RingInv, NewInv, diskVars, Idle
  <1>6. FramesInv'
    BY <1>2, <1>3, <1>4
       DEF EvictClean, ServerInv, FramesInv, Listed, Busy, Holders, Idle
  <1>7. CleanInv'
    BY <1>2, <1>3, EraseClean DEF EvictClean, ServerInv, diskVars
  <1> QED
    BY <1>5, <1>6, <1>7 DEF ServerInv

\* FetchPage or NewPage submits the write of a dirty victim: the ring was
\* empty, so this write is alone in it.
LEMMA EvictDirtyServer ==
  ASSUME Inv, ServerInv, NEW t \in Threads, NEW c, ValidCall(c), EvictDirty(t, c)
  PROVE  ServerInv'
  <1>1. PICK f \in Frames : f = Victim
    BY VictimFacts DEF EvictDirty
  <1>2. ToSet(lru_replacer') = ToSet(lru_replacer) \ {f}
    BY <1>1, VictimFacts DEF EvictDirty
  <1>3. op = Idle /\ op' = Working("spin", t, c, f)
    BY <1>1 DEF EvictDirty, NeedsFrame, CanCall, Latched, Inv, OpInv
  <1>4. op'.pc = "spin" /\ op'.frame = f /\ (op'.kind = "new" => op'.writer)
    BY <1>3 DEF Working, ValidCall, FetchCall, NewCall
  <1>5. PICK i \in Entries : ring' = [ring EXCEPT ![i] = Submitted(page_id[f], f)]
    <2>1. NextEntry \in Entries
      BY DEF EvictDirty, RingFull, NextEntry
    <2> QED
      BY <1>1, <2>1 DEF EvictDirty, SubmitVictim, WritePageAsync
  <1>6. \A j \in Entries : ring[j] = FreeEntry
    BY <1>3 DEF ServerInv, RingInv, Idle
  <1>7. VictimWrite(i)'
    BY <1>4, <1>5, <1>6 DEF EvictDirty, VictimWrite, frameVars, Inv, TypeOK, DiskTypeOK
  <1>8. RingInv' /\ NewInv'
    BY <1>4, <1>7 DEF RingInv, NewInv
  <1>9. FramesInv'
    BY <1>2, <1>3, <1>4 DEF EvictDirty, ServerInv, FramesInv, Listed, Busy, Holders, Idle
  <1>10. CleanInv'
    BY DEF EvictDirty, ServerInv, CleanInv, NoWriter, Holders, frameVars
  <1> QED
    BY <1>8, <1>9, <1>10 DEF ServerInv

\* In the server WritePageAsync never throws: the ring has room whenever
\* latch_ is free.
LEMMA NeverThrows ==
  ASSUME Inv, ServerInv, NEW t \in Threads, NEW c
  PROVE  ~EvictThrows(t, c)
  <1> SUFFICES ASSUME EvictThrows(t, c) PROVE FALSE
    OBVIOUS
  <1>1. op = Idle /\ RingFull
    BY DEF EvictThrows, NeedsFrame, CanCall, Latched, Inv, OpInv
  <1>2. 1 \in Entries
    BY RingEntriesAssumption DEF Entries
  <1> QED
    BY <1>1, <1>2 DEF ServerInv, RingInv, RingFull, FreeEntry, Idle

\* When the wait ends the victim's write has been done, and the ring is empty.
LEMMA AwaitFacts ==
  ASSUME Inv, ServerInv, AwaitWrite
  PROVE  /\ disk[page_id[op.frame]] = data[op.frame]
         /\ \A i \in Entries : ring'[i] = FreeEntry
  <1>1. PICK i \in Entries : VictimWrite(i)
    BY DEF AwaitWrite, ServerInv, RingInv
  <1>2. PICK k \in Entries : ring[k].state = "done"
    BY DEF AwaitWrite, WaitIsOver, Completions
  <1>3. k = i /\ ring[i] = DoneEntry /\ disk[page_id[op.frame]] = data[op.frame]
    BY <1>1, <1>2 DEF VictimWrite, FreeEntry, Submitted
  <1>4. \A j \in Entries : ring'[j] = FreeEntry
    BY <1>1, <1>2, <1>3 DEF AwaitWrite, RetrieveAsyncCompletions, Completions, VictimWrite
  <1> QED
    BY <1>3, <1>4

\* The wait for the victim ends and its page is erased.
LEMMA AwaitWriteServer ==
  ASSUME Inv, ServerInv, AwaitWrite
  PROVE  ServerInv'
  <1>1. PICK f \in Frames : f = op.frame
    BY DEF AwaitWrite, Inv, OpInv, Taken
  <1>2. Mapped(f) /\ Holders(f) = {} /\ Erase(f)
    BY <1>1 DEF AwaitWrite, Inv, OpInv, Taken
  <1>3. op' = [op EXCEPT !.pc = "load"] /\ op.pc = "spin"
    BY DEF AwaitWrite
  <1>4. op'.pc = "load" /\ op'.frame = op.frame /\ op'.kind = op.kind /\ op'.writer = op.writer
    BY <1>3 DEF Inv, TypeOK
  <1>5. RingInv' /\ NewInv'
    BY <1>4, AwaitFacts DEF ServerInv, RingInv, NewInv
  <1>6. FramesInv'
    BY <1>3, <1>4 DEF AwaitWrite, ServerInv, FramesInv, Listed, Busy, Holders, listVars
  <1>7. CleanInv'
    BY <1>2, EraseClean DEF AwaitWrite, ServerInv
  <1> QED
    BY <1>5, <1>6, <1>7 DEF ServerInv

\* The end of FetchPage and NewPage.  Either the frame holds what the disk
\* has, or its new holder is a writer.
LEMMA InstallServer ==
  ASSUME Inv, ServerInv, op.pc = "load", NEW p \in PageIds, NEW d \in Data, Install(p, d),
         d = disk[p] \/ op.writer,
         UNCHANGED <<disk, ring, listVars>>
  PROVE  ServerInv'
  <1>1. PICK f \in Frames, t \in Threads : f = op.frame /\ t = op.thread
    BY DEF Inv, OpInv, Taken
  <1>2. ~Mapped(f) /\ held[t] = NoPin
    BY <1>1 DEF Inv, OpInv
  <1>3. /\ data' = [data EXCEPT ![f] = d]
        /\ is_dirty' = [is_dirty EXCEPT ![f] = FALSE]
        /\ page_table' = [page_table EXCEPT ![p] = f]
        /\ held' = [held EXCEPT ![t] = Pin(p, f, op.writer)]
        /\ op' = Idle
    BY <1>1 DEF Install
  <1>4. /\ \A u \in Threads : u # t => held'[u] = held[u]
        /\ held'[t].frame = f /\ held'[t].writer = op.writer /\ held[t].frame = NoFrame
    BY <1>2, <1>3 DEF Pin, NoPin, Inv, TypeOK
  <1>5. t \in Holders(f)' /\ \A g \in Frames : g # f => Holders(g)' = Holders(g)
    BY <1>4, NoFrameAssumption DEF Holders
  <1>6. RingInv' /\ NewInv'
    BY <1>3 DEF ServerInv, RingInv, NewInv, Idle
  <1>7. FramesInv'
    BY <1>1, <1>5 DEF ServerInv, FramesInv, Listed, Busy, listVars
  <1>8. CleanInv'
    <2> SUFFICES ASSUME NEW q \in PageIds, NEW g, g = page_table'[q], g # NoFrame,
                        ~is_dirty'[g], NoWriter(g)'
                 PROVE  disk'[q] = data'[g]
      BY DEF CleanInv
    <2>1. CASE q = p
      <3>1. g = f /\ data'[f] = d
        BY <1>3, <2>1 DEF Inv, TypeOK
      <3>2. ~op.writer
        BY <1>4, <1>5, <3>1 DEF NoWriter
      <3> QED
        BY <2>1, <3>1, <3>2
    <2>2. CASE q # p
      <3>1. g = page_table[q] /\ g \in Frames /\ g # f
        BY <1>2, <1>3, <2>2 DEF Inv, TypeOK, Mapped
      <3>2. NoWriter(g)
        <4> SUFFICES ASSUME NEW u \in Holders(g) PROVE ~held[u].writer
          BY DEF NoWriter
        <4>1. u \in Threads /\ u # t
          BY <1>4, <3>1, NoFrameAssumption DEF Holders
        <4> QED
          BY <1>4, <1>5, <3>1, <4>1 DEF NoWriter
      <3> QED
        BY <1>3, <3>1, <3>2 DEF ServerInv, CleanInv, Inv, TypeOK
    <2> QED
      BY <2>1, <2>2
  <1> QED
    BY <1>6, <1>7, <1>8 DEF ServerInv

\* FetchPage installs what it has read from the disk.
LEMMA LoadPageServer ==
  ASSUME Inv, ServerInv, LoadPage
  PROVE  ServerInv'
  <1>1. PICK p \in PageIds, d \in Data : p = op.page /\ d = disk[p]
    BY DEF LoadPage, Inv, OpInv, TypeOK, DiskTypeOK
  <1>2. Install(p, d)
    BY <1>1 DEF LoadPage, ReadPage, Install
  <1> QED
    BY <1>1, <1>2, InstallServer DEF LoadPage, diskVars

\* NewPage installs an empty page, whose caller is a writer.
LEMMA NewPageServer ==
  ASSUME Inv, ServerInv, NewPage
  PROVE  ServerInv'
  <1>1. PICK p \in PageIds : p = next_page_id
    BY MaxPagesAssumption DEF NewPage, Inv, OpInv, TypeOK, DiskTypeOK, PageIds
  <1>2. Install(p, Zero) /\ op.writer
    BY <1>1 DEF NewPage, Install, ServerInv, NewInv
  <1> QED
    BY <1>1, <1>2, ZeroAssumption, InstallServer DEF NewPage

\* What UnpinPage does: the thread's page is in the pool, in its frame.
LEMMA UnpinFacts ==
  ASSUME Inv, NEW t \in Threads, UnpinPage(t)
  PROVE  \E f \in Frames :
           /\ f = held[t].frame /\ page_table[held[t].page] = f
           /\ held[t].page \in PageIds
           /\ op = Idle
           /\ held' = [held EXCEPT ![t] = NoPin]
           /\ is_dirty' = [is_dirty EXCEPT ![f] = @ \/ held[t].writer]
           /\ pin_count[f] = 1 => ToSet(lru_replacer') = ToSet(lru_replacer) \cup {f}
           /\ pin_count[f] # 1 => lru_replacer' = lru_replacer
           /\ Holders(f)' = Holders(f) \ {t}
           /\ \A g \in Frames : g # f => Holders(g)' = Holders(g)
  <1>1. PICK f \in Frames : f = held[t].frame
    BY DEF UnpinPage, Inv, HeldInv
  <1>2. f = page_table[held[t].page] /\ held[t].page \in PageIds /\ f # NoFrame
    BY <1>1, NoFrameAssumption DEF UnpinPage, Inv, HeldInv
  <1>3. /\ op = Idle
        /\ held' = [held EXCEPT ![t] = NoPin]
        /\ is_dirty' = [is_dirty EXCEPT ![f] = @ \/ held[t].writer]
        /\ lru_replacer' = IF pin_count[f] = 1 THEN <<f>> \o lru_replacer ELSE lru_replacer
    BY <1>2 DEF UnpinPage, Latched, Inv, OpInv, DirtyAfterUnpin, BecomesCandidate
  <1>4. t \in Holders(f)
    BY <1>1 DEF Holders
  <1>5. f \notin ToSet(lru_replacer)
    BY <1>4 DEF Inv, ListInv
  <1>6. pin_count[f] = 1 => ToSet(lru_replacer') = ToSet(lru_replacer) \cup {f}
    BY <1>3, <1>5, PushFacts DEF Inv, TypeOK, ListInv
  <1>7. \A g \in Frames : Holders(g)' = IF g = f THEN Holders(g) \ {t} ELSE Holders(g)
    BY <1>1, <1>3, NoFrameAssumption DEF Holders, NoPin, Inv, TypeOK
  <1> QED
    BY <1>1, <1>2, <1>3, <1>6, <1>7

\* UnpinPage: the last holder puts the frame into the replacer, and a writer
\* leaves the page dirty.
LEMMA UnpinPageServer ==
  ASSUME Inv, ServerInv, NEW t \in Threads, UnpinPage(t)
  PROVE  ServerInv'
  <1>1. PICK f \in Frames :
           /\ f = held[t].frame /\ page_table[held[t].page] = f
           /\ held[t].page \in PageIds
           /\ op = Idle
           /\ held' = [held EXCEPT ![t] = NoPin]
           /\ is_dirty' = [is_dirty EXCEPT ![f] = @ \/ held[t].writer]
           /\ pin_count[f] = 1 => ToSet(lru_replacer') = ToSet(lru_replacer) \cup {f}
           /\ pin_count[f] # 1 => lru_replacer' = lru_replacer
           /\ Holders(f)' = Holders(f) \ {t}
           /\ \A g \in Frames : g # f => Holders(g)' = Holders(g)
    BY UnpinFacts
  <1>2. UNCHANGED <<disk, ring, page_table, free_list, data, op>>
    BY DEF UnpinPage, diskVars
  <1>3. RingInv' /\ NewInv'
    BY <1>1, <1>2 DEF ServerInv, RingInv, NewInv, Idle
  <1>4. Listed(f)' \/ Holders(f)' # {}
    <2>1. CASE pin_count[f] = 1
      BY <1>1, <2>1 DEF Listed
    <2>2. CASE pin_count[f] # 1
      <3>1. Holders(f) # {t}
        BY <2>2, FS_Singleton DEF Inv, CountInv
      <3>2. t \in Holders(f)
        BY <1>1 DEF Holders
      <3> QED
        BY <1>1, <3>1, <3>2
    <2> QED
      BY <2>1, <2>2
  <1>5. FramesInv'
    <2> SUFFICES ASSUME NEW g \in Frames, g # f
                 PROVE  Listed(g)' \/ Holders(g)' # {} \/ Busy(g)'
      BY <1>4 DEF FramesInv
    <2>1. Listed(g) \/ Holders(g) # {}
      BY <1>1 DEF ServerInv, FramesInv, Busy, Idle
    <2> QED
      BY <1>1, <1>2, <2>1 DEF Listed
  <1>6. CleanInv'
    <2> SUFFICES ASSUME NEW q \in PageIds, NEW g, g = page_table[q], g # NoFrame,
                        ~is_dirty'[g], NoWriter(g)'
                 PROVE  disk[q] = data[g]
      BY <1>2 DEF CleanInv
    <2>1. g \in Frames
      BY DEF Inv, TypeOK
    <2>2. \A u \in Threads : u # t => held'[u] = held[u]
      BY <1>1 DEF Inv, TypeOK
    <2>3. CASE g = f
      <3>1. ~is_dirty[f] /\ ~held[t].writer
        BY <1>1, <2>3 DEF Inv, TypeOK
      <3>2. NoWriter(f)
        BY <1>1, <2>2, <2>3, <3>1 DEF NoWriter, Holders
      <3> QED
        BY <2>3, <3>1, <3>2 DEF ServerInv, CleanInv
    <2>4. CASE g # f
      <3>1. ~is_dirty[g]
        BY <1>1, <2>1, <2>4 DEF Inv, TypeOK
      <3>2. NoWriter(g)
        BY <1>1, <2>1, <2>2, <2>4 DEF NoWriter, Holders
      <3> QED
        BY <3>1, <3>2 DEF ServerInv, CleanInv
    <2> QED
      BY <2>3, <2>4
  <1> QED
    BY <1>3, <1>5, <1>6 DEF ServerInv

\* A writer holds the page it changes, which is therefore nobody's victim.
LEMMA ModifyFacts ==
  ASSUME Inv, NEW t \in Threads, held[t].writer
  PROVE  /\ held[t].page \in PageIds /\ held[t].frame \in Frames
         /\ page_table[held[t].page] = held[t].frame
         /\ t \in Holders(held[t].frame)
         /\ op.pc \in {"spin", "load"} => op.frame # held[t].frame
  <1>1. held[t] # NoPin
    BY DEF NoPin
  <1>2. t \in Holders(held[t].frame)
    BY DEF Holders
  <1> QED
    BY <1>1, <1>2 DEF Inv, HeldInv, OpInv, Taken

\* A writer changes the page it holds.
LEMMA ModifyPageServer ==
  ASSUME Inv, ServerInv, NEW t \in Threads, NEW d \in Data, NEW b \in BOOLEAN,
         ModifyPage(t, d, b)
  PROVE  ServerInv'
  <1>1. held[t].writer
    BY DEF ModifyPage
  <1>0. PICK f \in Frames : f = held[t].frame
    BY <1>1, ModifyFacts
  <1>2. /\ f \in Frames /\ t \in Holders(f)
        /\ op.pc \in {"spin", "load"} => op.frame # f
    BY <1>0, <1>1, ModifyFacts
  <1>3. /\ \A g \in Frames : g # f => data'[g] = data[g] /\ is_dirty'[g] = is_dirty[g]
        /\ UNCHANGED <<disk, ring, page_table, free_list, lru_replacer, page_id, op, held>>
    BY <1>0 DEF ModifyPage, diskVars, listVars, Inv, TypeOK
  <1>4. RingInv'
    <2>1. CASE op.pc = "spin"
      <3>1. op.frame \in Frames /\ op.frame # f
        BY <1>2, <2>1 DEF Inv, OpInv, Taken
      <3> QED
        BY <1>3, <2>1, <3>1 DEF ServerInv, RingInv, VictimWrite
    <2>2. CASE op.pc # "spin"
      BY <1>3, <2>2 DEF ServerInv, RingInv
    <2> QED
      BY <2>1, <2>2
  <1>5. FramesInv' /\ NewInv'
    BY <1>3 DEF ServerInv, FramesInv, NewInv, Listed, Busy, Holders
  <1>6. ~NoWriter(f)' /\ \A g \in Frames : NoWriter(g)' <=> NoWriter(g)
    BY <1>1, <1>2, <1>3 DEF NoWriter, Holders
  <1>7. CleanInv'
    <2> SUFFICES ASSUME NEW q \in PageIds, NEW g, g = page_table[q], g # NoFrame,
                        ~is_dirty'[g], NoWriter(g)'
                 PROVE  disk[q] = data'[g]
      BY <1>3 DEF CleanInv
    <2>1. g \in Frames /\ g # f
      BY <1>6 DEF Inv, TypeOK
    <2> QED
      BY <1>3, <1>6, <2>1 DEF ServerInv, CleanInv
  <1> QED
    BY <1>4, <1>5, <1>7 DEF ServerInv

\* Only the victim of the eviction under way can be written by the kernel,
\* and it is still in the page table.
LEMMA WriteFacts ==
  ASSUME Inv, ServerInv, NEW i \in Entries, WriteCompletes(i)
  PROVE  /\ op.pc = "spin" /\ op.frame \in Frames
         /\ VictimWrite(i) /\ ring[i] = Submitted(page_id[op.frame], op.frame)
         /\ page_id[op.frame] \in PageIds
         /\ page_table[page_id[op.frame]] = op.frame
         /\ disk' = [disk EXCEPT ![page_id[op.frame]] = data[op.frame]]
  <1>1. ring[i].state = "submitted"
    BY DEF WriteCompletes, KernelWrites
  <1>2. op.pc = "spin"
    BY <1>1 DEF ServerInv, RingInv, FreeEntry
  <1>3. PICK k \in Entries : VictimWrite(k)
    BY <1>2 DEF ServerInv, RingInv
  <1>4. k = i /\ ring[i] = Submitted(page_id[op.frame], op.frame)
    BY <1>1, <1>3 DEF VictimWrite, FreeEntry, DoneEntry
  <1>5. op.frame \in Frames /\ Mapped(op.frame)
    BY <1>2 DEF Inv, OpInv, Taken
  <1>6. page_id[op.frame] \in PageIds /\ page_table[page_id[op.frame]] = op.frame
    BY <1>5, NoFrameAssumption DEF Mapped, Inv, TableInv
  <1>7. disk' = [disk EXCEPT ![page_id[op.frame]] = data[op.frame]]
    BY <1>4 DEF WriteCompletes, KernelWrites, Submitted
  <1> QED
    BY <1>2, <1>3, <1>4, <1>5, <1>6, <1>7

\* The kernel writes the victim.
LEMMA WriteServer ==
  ASSUME Inv, ServerInv, NEW i \in Entries, WriteCompletes(i)
  PROVE  ServerInv'
  <1>1. /\ ring' = [ring EXCEPT ![i] = DoneEntry]
        /\ UNCHANGED <<page_table, free_list, lru_replacer, data, page_id, is_dirty, op, held>>
    BY DEF WriteCompletes, KernelWrites, listVars, frameVars
  <1>2. disk'[page_id[op.frame]] = data[op.frame]
    BY WriteFacts DEF Inv, TypeOK, DiskTypeOK
  <1>3. VictimWrite(i)'
    BY <1>1, <1>2, WriteFacts DEF VictimWrite, Inv, TypeOK, DiskTypeOK
  <1>4. RingInv'
    BY <1>1, <1>3, WriteFacts DEF RingInv
  <1>5. FramesInv' /\ NewInv'
    BY <1>1 DEF ServerInv, FramesInv, NewInv, Listed, Busy, Holders
  <1>6. CleanInv'
    BY <1>1, WriteFacts
       DEF ServerInv, CleanInv, NoWriter, Holders, Inv, TypeOK, DiskTypeOK
  <1> QED
    BY <1>4, <1>5, <1>6 DEF ServerInv

\* ServerInv is preserved by every step of the server.
LEMMA ServerNextInv ==
  ASSUME Inv, ServerInv, [ServerNext]_vars
  PROVE  ServerInv'
  <1>1. ASSUME NEW t \in Threads, NEW c, ValidCall(c), GetFrame(t, c)
        PROVE  ServerInv'
    BY <1>1, TakeFreeServer, EvictCleanServer, EvictDirtyServer, NeverThrows
       DEF GetFrame, Evict
  <1>2. CASE Executors
    <2>1. PICK t \in Threads :
            \/ \E p \in PageIds, w \in BOOLEAN : p < next_page_id /\ Fetch(t, p, w)
            \/ GetFrame(t, NewCall)
            \/ UnpinPage(t)
            \/ \E d \in Data, b \in BOOLEAN : ModifyPage(t, d, b)
      BY <1>2 DEF Executors
    <2>2. ASSUME NEW p \in PageIds, NEW w \in BOOLEAN, p < next_page_id, Fetch(t, p, w)
          PROVE  ServerInv'
      <3>1. ValidCall(FetchCall(p, w))
        BY <2>2 DEF ValidCall
      <3> QED
        BY <1>1, <2>2, <3>1, FetchHitServer DEF Fetch
    <2>3. ValidCall(NewCall)
      BY DEF ValidCall
    <2> QED
      BY <1>1, <2>1, <2>2, <2>3, UnpinPageServer, ModifyPageServer
  <1>3. CASE Continue
    BY <1>3, AwaitWriteServer, LoadPageServer, NewPageServer DEF Continue
  <1>4. CASE \E i \in Entries : WriteCompletes(i)
    BY <1>4, WriteServer
  <1>5. CASE UNCHANGED vars
    BY <1>5 DEF vars, diskVars, listVars, frameVars, ServerInv, RingInv, VictimWrite,
         FramesInv, CleanInv, NewInv, Listed, Holders, Busy, NoWriter
  <1> QED
    BY <1>2, <1>3, <1>4, <1>5 DEF ServerNext
-----------------------------------------------------------------------------
(***************************************************************************)
(* What follows from it.                                                   *)
(***************************************************************************)

\* Both invariants hold in every state of the server.
THEOREM ServerInvCorrect == ServerSpec => [](Inv /\ ServerInv)
  <1>1. Inv /\ ServerInv /\ [ServerNext]_vars => ServerInv'
    BY ServerNextInv
  <1>2. ServerSpec => []Inv
    BY ServerIsApi, InvCorrect
  <1> QED
    BY <1>1, <1>2, ServerInitInv, PTL DEF ServerSpec

\* FetchPage and NewPage return nullptr only when every frame is pinned: no
\* frame is lost, for any number of frames and threads.
THEOREM OomCorrect == ServerSpec => []OomOnlyWhenAllPinned
  <1>1. Inv /\ ServerInv => OomOnlyWhenAllPinned
    <2> SUFFICES ASSUME Inv, ServerInv, ~Latched, free_list = << >>, lru_replacer = << >>,
                        NEW f \in Frames
                 PROVE  pin_count[f] > 0
      BY DEF OomOnlyWhenAllPinned
    <2>1. ~Listed(f)
      BY DEF Listed, ToSet
    <2>2. Holders(f) # {}
      BY <2>1 DEF ServerInv, FramesInv, Busy, Latched
    <2>3. Cardinality(Holders(f)) # 0
      BY <2>2, HoldersFacts, FS_EmptySet DEF Inv
    <2> QED
      BY <2>3, HoldersFacts DEF Inv, CountInv
  <1> QED
    BY <1>1, ServerInvCorrect, PTL

\* The wait of an eviction ends with its own write: the ring holds no other.
THEOREM EvictionWaitsCorrect == ServerSpec => EvictionWaits
  <1>1. ASSUME Inv, ServerInv, [ServerNext]_vars, op.pc = "spin", op'.pc # "spin"
        PROVE  ~InFlight(page_id[op.frame])'
    <2>1. AwaitWrite
      BY <1>1 DEF ServerNext, Executors, Fetch, FetchHit, GetFrame, TakeFreeFrame, Evict,
           EvictClean, EvictDirty, EvictThrows, NeedsFrame, CanCall, Latched, UnpinPage,
           ModifyPage, Continue, LoadPage, NewPage, WriteCompletes, vars
    <2>2. \A i \in Entries : ring'[i] = FreeEntry
      BY <1>1, <2>1, AwaitFacts
    <2> QED
      BY <2>2 DEF InFlight, FreeEntry
  <1>2. Inv /\ ServerInv /\ [ServerNext]_vars =>
          [op.pc = "spin" /\ op'.pc # "spin" => ~InFlight(page_id[op.frame])']_vars
    BY <1>1
  <1> QED
    BY <1>2, ServerInvCorrect, PTL DEF ServerSpec, EvictionWaits
-----------------------------------------------------------------------------
(***************************************************************************)
(* The refinement: a step of the server is a step of PageStore, or leaves  *)
(* its callers' view of the pages alone.                                   *)
(***************************************************************************)

\* Moving pages between frames and disk is invisible.
LEMMA Invisible ==
  ASSUME Content' = Content, UNCHANGED <<held, next_page_id>>
  PROVE  UNCHANGED Store!storeVars
  BY DEF Store!storeVars, Opened

\* Erasing a page that is on the disk as it is in its frame.
LEMMA EraseContent ==
  ASSUME Inv, NEW f \in Frames, Mapped(f), Erase(f), disk' = disk,
         disk[page_id[f]] = data[f]
  PROVE  Content' = Content
  <1>1. PICK p \in PageIds : page_table[p] = f
    BY DEF Mapped
  <1>2. page_id[f] = p /\ \A q \in PageIds : page_table[q] = f => q = p
    BY <1>1, NoFrameAssumption DEF Inv, TableInv
  <1>3. /\ \A q \in PageIds : page_table'[q] = IF q = p THEN NoFrame ELSE page_table[q]
        /\ \A g \in Frames : g # f => data'[g] = data[g]
    BY <1>2 DEF Erase, Inv, TypeOK
  <1>4. \A q \in PageIds : page_table[q] \in Frames \cup {NoFrame}
    BY DEF Inv, TypeOK
  <1>5. \A q \in PageIds :
          (IF page_table'[q] = NoFrame THEN disk'[q] ELSE data'[page_table'[q]])
            = (IF page_table[q] = NoFrame THEN disk[q] ELSE data[page_table[q]])
    BY <1>1, <1>2, <1>3, <1>4, NoFrameAssumption
  <1> QED
    BY <1>5 DEF Content

\* Getting a frame for a page is invisible.
LEMMA GetFrameInvisible ==
  ASSUME Inv, ServerInv, NEW t \in Threads, NEW c, ValidCall(c), GetFrame(t, c)
  PROVE  UNCHANGED Store!storeVars
  <1>1. CASE TakeFreeFrame(t, c)
    <2>1. PICK f \in Frames : f = Head(free_list) /\ f \in ToSet(free_list)
      BY <1>1, TailFacts DEF TakeFreeFrame, Inv, TypeOK, ListInv
    <2>2. ~Mapped(f) /\ data' = [data EXCEPT ![f] = Zero]
      BY <1>1, <2>1 DEF TakeFreeFrame, Inv, ListInv
    <2>3. UNCHANGED <<page_table, disk, held, next_page_id>>
      BY <1>1 DEF TakeFreeFrame, diskVars
    <2>4. \A q \in PageIds : page_table[q] # NoFrame => data'[page_table[q]] = data[page_table[q]]
      BY <2>2 DEF Mapped, Inv, TypeOK
    <2>5. Content' = Content
      BY <2>3, <2>4 DEF Content
    <2> QED
      BY <2>3, <2>5, Invisible
  <1>2. CASE EvictClean(t, c)
    <2>1. PICK f \in Frames : f = Victim
      BY <1>2, VictimFacts DEF EvictClean
    <2>2. /\ Mapped(f) /\ Holders(f) = {} /\ page_id[f] \in PageIds
          /\ page_table[page_id[f]] = f
      BY <1>2, <2>1, VictimFacts DEF EvictClean
    <2>3. Erase(f) /\ ~is_dirty[f] /\ UNCHANGED <<disk, held, next_page_id>>
      BY <1>2, <2>1 DEF EvictClean, diskVars
    <2>4. disk[page_id[f]] = data[f]
      BY <2>2, <2>3, NoFrameAssumption DEF ServerInv, CleanInv, NoWriter
    <2> QED
      BY <2>2, <2>3, <2>4, EraseContent, Invisible
  <1>3. CASE EvictDirty(t, c)
    <2>1. UNCHANGED <<page_table, data, disk, held, next_page_id>>
      BY <1>3 DEF EvictDirty, frameVars
    <2> QED
      BY <2>1, Invisible DEF Content
  <1> QED
    BY <1>1, <1>2, <1>3, NeverThrows DEF GetFrame, Evict

\* The wait for a victim ends: the page leaves the pool as it is on the disk.
LEMMA AwaitInvisible ==
  ASSUME Inv, ServerInv, AwaitWrite
  PROVE  UNCHANGED Store!storeVars
  <1>1. PICK f \in Frames : f = op.frame
    BY DEF AwaitWrite, Inv, OpInv, Taken
  <1>2. Mapped(f) /\ Erase(f) /\ UNCHANGED <<disk, held, next_page_id>>
    BY <1>1 DEF AwaitWrite, Inv, OpInv
  <1>3. disk[page_id[f]] = data[f]
    BY <1>1, AwaitFacts
  <1> QED
    BY <1>2, <1>3, EraseContent, Invisible

\* The kernel writes a page that callers still see in its frame.
LEMMA WriteInvisible ==
  ASSUME Inv, ServerInv, NEW i \in Entries, WriteCompletes(i)
  PROVE  UNCHANGED Store!storeVars
  <1>1. UNCHANGED <<page_table, data, held, next_page_id>>
    BY DEF WriteCompletes, KernelWrites, frameVars
  <1>2. \A q \in PageIds : page_table[q] = NoFrame => disk'[q] = disk[q]
    BY WriteFacts, NoFrameAssumption DEF Inv, TypeOK, DiskTypeOK
  <1>3. Content' = Content
    BY <1>1, <1>2 DEF Content
  <1> QED
    BY <1>1, <1>3, Invisible

\* A thread that gets page p opens it.
LEMMA OpenedFacts ==
  ASSUME Inv, NEW t \in Threads, held[t] = NoPin, NEW p \in PageIds, NEW f \in Frames,
         NEW w \in BOOLEAN,
         held' = [held EXCEPT ![t] = Pin(p, f, w)]
  PROVE  /\ Opened[t] = Store!Closed
         /\ Opened' = [Opened EXCEPT ![t] = [page |-> p, writer |-> w]]
  <1>1. \A u \in Threads : /\ held'[u].page = IF u = t THEN p ELSE held[u].page
                           /\ held'[u].writer = IF u = t THEN w ELSE held[u].writer
    BY DEF Pin, Inv, TypeOK
  <1>2. Opened' = [Opened EXCEPT ![t] = [page |-> p, writer |-> w]]
    BY <1>1 DEF Opened
  <1>3. Opened[t] = Store!Closed
    <2>1. held[t].page = NoPage /\ held[t].writer = FALSE
      BY DEF NoPin
    <2>2. Opened[t] = [page |-> held[t].page, writer |-> held[t].writer]
      BY DEF Opened
    <2> QED
      BY <2>1, <2>2 DEF Store!Closed
  <1> QED
    BY <1>2, <1>3

\* FetchPage of a page in the pool opens it.
LEMMA FetchHitOpens ==
  ASSUME Inv, NEW t \in Threads, NEW p \in PageIds, NEW w \in BOOLEAN, p < next_page_id,
         FetchHit(t, p, w)
  PROVE  Store!Next
  <1>1. Opened[t] = Store!Closed /\ Opened' = [Opened EXCEPT ![t] = [page |-> p, writer |-> w]]
    BY HitFacts, OpenedFacts
  <1>2. Content' = Content /\ next_page_id' = next_page_id
    BY DEF FetchHit, Content, diskVars
  <1>3. Store!Open(t, p, w)
    BY <1>1, <1>2 DEF Store!Open
  <1> QED
    BY <1>3 DEF Store!Next, Store!Ids, PageIds

\* The page the call's frame gets, as its callers see it.
LEMMA InstallContent ==
  ASSUME Inv, op.pc = "load", NEW p \in PageIds, NEW d \in Data, Install(p, d), disk' = disk
  PROVE  Content' = [Content EXCEPT ![p] = d]
  <1>1. PICK f \in Frames : f = op.frame
    BY DEF Inv, OpInv, Taken
  <1>2. ~Mapped(f)
    BY <1>1 DEF Inv, OpInv
  <1>3. /\ \A q \in PageIds : page_table'[q] = IF q = p THEN f ELSE page_table[q]
        /\ \A g \in Frames : data'[g] = IF g = f THEN d ELSE data[g]
    BY <1>1 DEF Install, Inv, TypeOK
  <1>4. \A q \in PageIds : page_table[q] \in Frames \cup {NoFrame} /\ page_table[q] # f
    BY <1>2 DEF Mapped, Inv, TypeOK
  <1>5. \A q \in PageIds :
          (IF page_table'[q] = NoFrame THEN disk'[q] ELSE data'[page_table'[q]])
            = IF q = p THEN d
              ELSE IF page_table[q] = NoFrame THEN disk[q] ELSE data[page_table[q]]
    BY <1>3, <1>4, NoFrameAssumption
  <1> QED
    BY <1>5 DEF Content

\* FetchPage ends: the page is opened with the contents it had on the disk.
LEMMA LoadPageOpens ==
  ASSUME Inv, LoadPage
  PROVE  Store!Next
  <1>1. PICK p \in PageIds, d \in Data, t \in Threads, f \in Frames, w \in BOOLEAN :
          /\ p = op.page /\ d = disk[p] /\ t = op.thread /\ f = op.frame /\ w = op.writer
          /\ page_table[p] = NoFrame /\ p < next_page_id /\ held[t] = NoPin
    BY DEF LoadPage, Inv, OpInv, Taken, TypeOK, DiskTypeOK
  <1>2. Install(p, d) /\ UNCHANGED <<disk, next_page_id>> /\ op.pc = "load"
    BY <1>1 DEF LoadPage, ReadPage, Install, diskVars
  <1>3. Content' = [Content EXCEPT ![p] = d]
    BY <1>2, InstallContent
  <1>4. Content[p] = d
    BY <1>1 DEF Content
  <1>5. Content' = Content
    BY <1>3, <1>4 DEF Content
  <1>6. held' = [held EXCEPT ![t] = Pin(p, f, w)]
    BY <1>1, <1>2 DEF Install
  <1>7. Opened[t] = Store!Closed /\ Opened' = [Opened EXCEPT ![t] = [page |-> p, writer |-> w]]
    BY <1>1, <1>6, OpenedFacts
  <1>8. Store!Open(t, p, w)
    BY <1>1, <1>2, <1>5, <1>7 DEF Store!Open
  <1> QED
    BY <1>8 DEF Store!Next, Store!Ids, PageIds

\* NewPage ends: a page of zeros is created.
LEMMA NewPageCreates ==
  ASSUME Inv, ServerInv, NewPage
  PROVE  Store!Next
  <1>1. PICK p \in PageIds, t \in Threads, f \in Frames :
          /\ p = next_page_id /\ t = op.thread /\ f = op.frame /\ held[t] = NoPin
          /\ next_page_id < MaxPages
    BY MaxPagesAssumption DEF NewPage, Inv, OpInv, Taken, TypeOK, DiskTypeOK, PageIds
  <1>2. /\ Install(p, Zero) /\ disk' = disk /\ op.pc = "load" /\ op.writer = TRUE
        /\ next_page_id' = next_page_id + 1
    BY <1>1 DEF NewPage, AllocatePage, Install, ServerInv, NewInv, Inv, TypeOK
  <1>3. Content' = [Content EXCEPT ![next_page_id] = Zero]
    BY <1>1, <1>2, ZeroAssumption, InstallContent
  <1>4. held' = [held EXCEPT ![t] = Pin(p, f, TRUE)]
    BY <1>1, <1>2 DEF Install
  <1>5. Opened[t] = Store!Closed /\ Opened' = [Opened EXCEPT ![t] = [page |-> p, writer |-> TRUE]]
    BY <1>1, <1>4, OpenedFacts
  <1>6. Store!Create(t)
    BY <1>1, <1>2, <1>3, <1>5 DEF Store!Create
  <1> QED
    BY <1>6 DEF Store!Next

\* UnpinPage closes the page.
LEMMA UnpinCloses ==
  ASSUME Inv, NEW t \in Threads, UnpinPage(t)
  PROVE  Store!Next
  <1>1. held' = [held EXCEPT ![t] = NoPin] /\ held[t].page \in PageIds
    BY UnpinFacts
  <1>2. UNCHANGED <<page_table, data, disk, next_page_id>>
    BY DEF UnpinPage, diskVars
  <1>3. Opened[t] # Store!Closed
    BY <1>1, NoPageAssumption DEF Opened, Store!Closed
  <1>4. Opened' = [Opened EXCEPT ![t] = Store!Closed]
    BY <1>1 DEF Opened, Store!Closed, NoPin, Inv, TypeOK
  <1>5. Store!Close(t)
    BY <1>2, <1>3, <1>4 DEF Store!Close, Content
  <1> QED
    BY <1>5 DEF Store!Next

\* A writer's change is a change of the page it has open, and of no other.
LEMMA ModifyModifies ==
  ASSUME Inv, NEW t \in Threads, NEW d \in Data, NEW b \in BOOLEAN, ModifyPage(t, d, b)
  PROVE  Store!Next
  <1>1. held[t].writer
    BY DEF ModifyPage
  <1>2. PICK p \in PageIds, f \in Frames :
          p = held[t].page /\ f = held[t].frame /\ page_table[p] = f
    BY <1>1, ModifyFacts
  <1>3. /\ \A g \in Frames : data'[g] = IF g = f THEN d ELSE data[g]
        /\ UNCHANGED <<page_table, disk, next_page_id, held>>
    BY <1>2 DEF ModifyPage, diskVars, Inv, TypeOK
  <1>4. \A q \in PageIds : page_table[q] \in Frames \cup {NoFrame}
                           /\ (page_table[q] = f => q = p)
    BY <1>2, NoFrameAssumption DEF Inv, TypeOK, TableInv
  <1>5. \A q \in PageIds :
          (IF page_table'[q] = NoFrame THEN disk'[q] ELSE data'[page_table'[q]])
            = IF q = p THEN d
              ELSE IF page_table[q] = NoFrame THEN disk[q] ELSE data[page_table[q]]
    BY <1>2, <1>3, <1>4, NoFrameAssumption
  <1>6. Content' = [Content EXCEPT ![p] = d]
    BY <1>5 DEF Content
  <1>7. Opened[t].writer /\ Opened[t].page = p /\ Opened' = Opened
    BY <1>1, <1>2, <1>3 DEF Opened
  <1>8. Store!Modify(t, d)
    BY <1>3, <1>6, <1>7 DEF Store!Modify
  <1> QED
    BY <1>8 DEF Store!Next

\* Every step of the server is a step of the page store, or invisible.
LEMMA StepRefines ==
  ASSUME Inv, ServerInv, [ServerNext]_vars
  PROVE  [Store!Next]_(Store!storeVars)
  <1>1. CASE Executors
    <2>1. PICK t \in Threads :
            \/ \E p \in PageIds, w \in BOOLEAN : p < next_page_id /\ Fetch(t, p, w)
            \/ GetFrame(t, NewCall)
            \/ UnpinPage(t)
            \/ \E d \in Data, b \in BOOLEAN : ModifyPage(t, d, b)
      BY <1>1 DEF Executors
    <2>2. ASSUME NEW p \in PageIds, NEW w \in BOOLEAN, p < next_page_id, Fetch(t, p, w)
          PROVE  [Store!Next]_(Store!storeVars)
      <3>1. ValidCall(FetchCall(p, w))
        BY <2>2 DEF ValidCall
      <3> QED
        BY <2>2, <3>1, FetchHitOpens, GetFrameInvisible DEF Fetch
    <2>3. ValidCall(NewCall)
      BY DEF ValidCall
    <2> QED
      BY <2>1, <2>2, <2>3, GetFrameInvisible, UnpinCloses, ModifyModifies
  <1>2. CASE Continue
    BY <1>2, AwaitInvisible, LoadPageOpens, NewPageCreates DEF Continue
  <1>3. CASE \E i \in Entries : WriteCompletes(i)
    BY <1>3, WriteInvisible
  <1>4. CASE UNCHANGED vars
    <2>1. UNCHANGED <<page_table, data, disk, next_page_id, held>>
      BY <1>4 DEF vars, diskVars, frameVars
    <2> QED
      BY <2>1, Invisible DEF Content
  <1> QED
    BY <1>1, <1>2, <1>3, <1>4 DEF ServerNext

\* The pool starts as a page store with no page created.
LEMMA InitRefines == Init => Store!Init
  <1> SUFFICES ASSUME Init PROVE Store!Init
    OBVIOUS
  <1>1. Content \in [PageIds -> Data]
    BY DEF Init, PoolInit, DiskInit, Content
  <1>2. Opened = [t \in Threads |-> Store!Closed]
    BY DEF Init, PoolInit, Opened, Store!Closed, NoPin
  <1> QED
    BY <1>1, <1>2 DEF Init, DiskInit, Store!Init, Store!Ids, PageIds

\* However it evicts, writes back and reads again, the pool is to its callers
\* a store of pages that only their own modifications change: no update is
\* lost and no page shows another's contents.
THEOREM PoolImplementsPageStore == ServerSpec => ImplementsPageStore
  <1>1. Inv /\ ServerInv /\ [ServerNext]_vars => [Store!Next]_(Store!storeVars)
    BY StepRefines
  <1> QED
    BY <1>1, InitRefines, ServerInvCorrect, PTL DEF ServerSpec, ImplementsPageStore, Store!Spec
=============================================================================
