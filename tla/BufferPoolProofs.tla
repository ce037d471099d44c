-------------------------- MODULE BufferPoolProofs --------------------------
(***************************************************************************)
(* Proofs about BufferPool, for every number of threads, frames, pages and *)
(* ring entries.                                                           *)
(***************************************************************************)
EXTENDS BufferPool, SequenceTheorems, FiniteSetTheorems, TLAPS
-----------------------------------------------------------------------------
(***************************************************************************)
(* The lists: what the operations on them do to their elements.            *)
(***************************************************************************)

\* Popping the front (free_list_.pop_front) removes exactly the head.
LEMMA TailFacts ==
  ASSUME NEW S, NEW s \in Seq(S), s # << >>, IsInjective(s)
  PROVE  /\ Tail(s) \in Seq(S) /\ IsInjective(Tail(s))
         /\ Head(s) \in S /\ Head(s) \in ToSet(s)
         /\ ToSet(Tail(s)) = ToSet(s) \ {Head(s)}
  <1>1. Len(s) \in Nat \ {0} /\ DOMAIN s = 1 .. Len(s) /\ Head(s) = s[1]
    BY EmptySeq, LenProperties
  <1>2. /\ Tail(s) \in Seq(S) /\ Len(Tail(s)) = Len(s) - 1 /\ Head(s) \in S
        /\ \A i \in 1 .. Len(Tail(s)) : Tail(s)[i] = s[i + 1]
    BY HeadTailProperties
  <1>3. DOMAIN Tail(s) = 1 .. Len(s) - 1
    BY <1>2, LenProperties
  <1>4. IsInjective(Tail(s))
    BY <1>1, <1>2, <1>3 DEF IsInjective
  <1>5. \A x \in ToSet(s) \ {Head(s)} : x \in ToSet(Tail(s))
    <2> SUFFICES ASSUME NEW i \in 1 .. Len(s), s[i] # s[1]
                 PROVE  s[i] \in ToSet(Tail(s))
      BY <1>1 DEF ToSet
    <2>1. i - 1 \in DOMAIN Tail(s) /\ Tail(s)[i - 1] = s[i]
      BY <1>1, <1>2, <1>3
    <2> QED
      BY <2>1 DEF ToSet
  <1>6. \A x \in ToSet(Tail(s)) : x \in ToSet(s) \ {Head(s)}
    <2> SUFFICES ASSUME NEW i \in 1 .. Len(s) - 1
                 PROVE  Tail(s)[i] \in ToSet(s) /\ Tail(s)[i] # s[1]
      BY <1>1, <1>3 DEF ToSet
    <2>1. Tail(s)[i] = s[i + 1] /\ i + 1 \in DOMAIN s /\ 1 \in DOMAIN s /\ i + 1 # 1
      BY <1>1, <1>2
    <2> QED
      BY <2>1 DEF ToSet, IsInjective
  <1>7. Head(s) \in ToSet(s)
    BY <1>1 DEF ToSet
  <1> QED
    BY <1>2, <1>4, <1>5, <1>6, <1>7

\* Popping the back (lru_replacer_.pop_back) removes exactly the last.
LEMMA FrontFacts ==
  ASSUME NEW S, NEW s \in Seq(S), s # << >>, IsInjective(s)
  PROVE  /\ Front(s) \in Seq(S) /\ IsInjective(Front(s))
         /\ Last(s) \in S /\ Last(s) \in ToSet(s)
         /\ ToSet(Front(s)) = ToSet(s) \ {Last(s)}
  <1>1. Len(s) \in Nat \ {0} /\ DOMAIN s = 1 .. Len(s)
    BY EmptySeq, LenProperties
  <1>2. \A i \in 1 .. Len(s) - 1 : s[i] \in S
    BY <1>1, ElementOfSeq
  <1>3. /\ Front(s) \in Seq(S) /\ Len(Front(s)) = Len(s) - 1
        /\ \A i \in 1 .. Len(s) - 1 : Front(s)[i] = s[i]
    BY <1>1, <1>2, SubSeqProperties DEF Front
  <1>4. DOMAIN Front(s) = 1 .. Len(s) - 1
    BY <1>3, LenProperties
  <1>5. IsInjective(Front(s))
    BY <1>1, <1>3, <1>4 DEF IsInjective
  <1>6. Last(s) \in S /\ Last(s) \in ToSet(s)
    BY <1>1, ElementOfSeq DEF Last, ToSet
  <1>7. ToSet(Front(s)) = ToSet(s) \ {Last(s)}
    BY <1>1, <1>3, <1>4 DEF ToSet, Last, IsInjective
  <1> QED
    BY <1>3, <1>5, <1>6, <1>7

\* Pushing a frame that is not in the list (lru_replacer_.push_front).
LEMMA PushFacts ==
  ASSUME NEW S, NEW s \in Seq(S), NEW e \in S, e \notin ToSet(s), IsInjective(s)
  PROVE  /\ <<e>> \o s \in Seq(S) /\ IsInjective(<<e>> \o s)
         /\ ToSet(<<e>> \o s) = ToSet(s) \cup {e}
  <1> DEFINE r == <<e>> \o s
  <1>1. Len(s) \in Nat /\ DOMAIN s = 1 .. Len(s)
    BY LenProperties
  <1>2. <<e>> \in Seq(S) /\ Len(<<e>>) = 1 /\ <<e>>[1] = e
    OBVIOUS
  <1>3. /\ r \in Seq(S) /\ Len(r) = Len(s) + 1
        /\ \A i \in 1 .. Len(s) + 1 : r[i] = IF i <= 1 THEN <<e>>[i] ELSE s[i - 1]
    BY <1>1, <1>2, ConcatProperties
  <1>4. DOMAIN r = 1 .. Len(s) + 1
    BY <1>3, LenProperties
  <1>5. r[1] = e /\ \A i \in 2 .. Len(s) + 1 : r[i] = s[i - 1]
    BY <1>1, <1>2, <1>3
  <1> HIDE DEF r
  <1>6. IsInjective(r)
    <2> SUFFICES ASSUME NEW a \in 1 .. Len(s) + 1, NEW b \in 1 .. Len(s) + 1, r[a] = r[b]
                 PROVE  a = b
      BY <1>4 DEF IsInjective
    <2>1. \A i \in 2 .. Len(s) + 1 : i - 1 \in DOMAIN s /\ r[i] # e
      BY <1>1, <1>5 DEF ToSet
    <2>2. CASE a = 1
      BY <2>1, <2>2, <1>1, <1>5
    <2>3. CASE b = 1
      BY <2>1, <2>3, <1>1, <1>5
    <2>4. CASE a # 1 /\ b # 1
      BY <2>1, <2>4, <1>1, <1>5 DEF IsInjective
    <2> QED BY <2>2, <2>3, <2>4
  <1>7. \A x \in ToSet(r) : x \in ToSet(s) \cup {e}
    BY <1>1, <1>4, <1>5 DEF ToSet
  <1>8. \A x \in ToSet(s) : x \in ToSet(r)
    <2> SUFFICES ASSUME NEW i \in 1 .. Len(s) PROVE s[i] \in ToSet(r)
      BY <1>1 DEF ToSet
    <2>1. i + 1 \in DOMAIN r /\ r[i + 1] = s[i]
      BY <1>1, <1>4, <1>5
    <2> QED BY <2>1 DEF ToSet
  <1>9. e \in ToSet(r)
    BY <1>1, <1>4, <1>5 DEF ToSet
  <1> QED
    BY <1>3, <1>6, <1>7, <1>8, <1>9 DEF r

\* Removing a frame (lru_replacer_.remove) from a list without repetitions.
LEMMA RemoveFacts ==
  ASSUME NEW S, NEW s \in Seq(S), NEW e, IsInjective(s)
  PROVE  /\ RemoveFirst(s, e) \in Seq(S) /\ IsInjective(RemoveFirst(s, e))
         /\ ToSet(RemoveFirst(s, e)) = ToSet(s) \ {e}
  <1>1. Len(s) \in Nat /\ DOMAIN s = 1 .. Len(s)
    BY LenProperties
  <1>2. CASE \A i \in 1 .. Len(s) : s[i] # e
    BY <1>1, <1>2 DEF RemoveFirst, ToSet
  <1>3. CASE \E i \in 1 .. Len(s) : s[i] = e
    <2> DEFINE I == {i \in 1 .. Len(s) : s[i] = e}
    <2>1. PICK k \in 1 .. Len(s) : s[k] = e
      BY <1>3
    <2>2. I = {k}
      BY <2>1, <1>1 DEF IsInjective
    <2>3. Min(I) = k
      BY <2>1, <2>2 DEF Min
    <2>4. SelectInSeq(s, LAMBDA v : v = e) = k
      BY <2>2, <2>3 DEF SelectInSeq
    <2> DEFINE r == SubSeq(s, 1, k - 1) \o SubSeq(s, k + 1, Len(s))
    <2>5. RemoveFirst(s, e) = r
      BY <1>3, <2>4 DEF RemoveFirst, RemoveAt
    <2>6. \A i \in 1 .. Len(s) : s[i] \in S
      BY ElementOfSeq
    <2>7. /\ SubSeq(s, 1, k - 1) \in Seq(S) /\ Len(SubSeq(s, 1, k - 1)) = k - 1
          /\ \A i \in 1 .. k - 1 : SubSeq(s, 1, k - 1)[i] = s[i]
      BY <1>1, <2>6, SubSeqProperties
    <2>8. /\ SubSeq(s, k + 1, Len(s)) \in Seq(S) /\ Len(SubSeq(s, k + 1, Len(s))) = Len(s) - k
          /\ \A i \in 1 .. Len(s) - k : SubSeq(s, k + 1, Len(s))[i] = s[k + i]
      <3> DEFINE m == k + 1
      <3>1. m \in Int /\ Len(s) \in Int /\ \A i \in m .. Len(s) : s[i] \in S
        BY <1>1, <2>6
      <3> HIDE DEF m
      <3>2. /\ SubSeq(s, m, Len(s)) \in Seq(S)
            /\ Len(SubSeq(s, m, Len(s))) = IF m <= Len(s) THEN Len(s) - m + 1 ELSE 0
            /\ \A i \in 1 .. Len(s) - m + 1 : SubSeq(s, m, Len(s))[i] = s[m + i - 1]
        BY <3>1, SubSeqProperties
      <3>3. m = k + 1 /\ k \in 1 .. Len(s)
        BY <2>1 DEF m
      <3>4. \A i \in 1 .. Len(s) - k : SubSeq(s, m, Len(s))[i] = s[k + i]
        <4> SUFFICES ASSUME NEW i \in 1 .. Len(s) - k
                     PROVE  SubSeq(s, m, Len(s))[i] = s[k + i]
          OBVIOUS
        <4>1. i \in 1 .. Len(s) - m + 1 /\ m + i - 1 = k + i
          BY <1>1, <3>3
        <4> QED BY <3>2, <4>1
      <3>5. Len(SubSeq(s, m, Len(s))) = Len(s) - k
        <4>1. CASE m <= Len(s)
          <5>1. Len(SubSeq(s, m, Len(s))) = Len(s) - m + 1
            BY <3>2, <4>1
          <5>2. Len(s) - m + 1 = Len(s) - k
            BY <1>1, <3>3
          <5> QED BY <5>1, <5>2
        <4>2. CASE ~(m <= Len(s))
          <5>1. Len(SubSeq(s, m, Len(s))) = 0
            BY <3>2, <4>2
          <5>2. Len(s) - k = 0
            <6>1. k \in Nat /\ Len(s) \in Nat /\ k <= Len(s)
              BY <1>1, <3>3
            <6>2. ~(k + 1 <= Len(s))
              BY <3>3, <4>2
            <6> QED BY <6>1, <6>2
          <5> QED BY <5>1, <5>2
        <4> QED BY <4>1, <4>2
      <3> QED
        BY <3>2, <3>3, <3>4, <3>5
    <2>9. /\ r \in Seq(S) /\ Len(r) = Len(s) - 1
          /\ \A i \in 1 .. Len(s) - 1 : r[i] = IF i <= k - 1 THEN s[i] ELSE s[i + 1]
      <3> DEFINE a == SubSeq(s, 1, k - 1)
                 b == SubSeq(s, k + 1, Len(s))
      <3> HIDE DEF a, b
      <3>1. /\ a \o b \in Seq(S) /\ Len(a \o b) = Len(a) + Len(b)
            /\ \A i \in 1 .. Len(a) + Len(b) :
                 (a \o b)[i] = IF i <= Len(a) THEN a[i] ELSE b[i - Len(a)]
        BY <2>7, <2>8, ConcatProperties DEF a, b
      <3>2. Len(a) = k - 1 /\ Len(b) = Len(s) - k
        BY <2>7, <2>8 DEF a, b
      <3>3. \A i \in 1 .. k - 1 : a[i] = s[i]
        BY <2>7 DEF a
      <3>4. \A i \in k .. Len(s) - 1 : b[i - (k - 1)] = s[i + 1]
        <4> SUFFICES ASSUME NEW i \in k .. Len(s) - 1 PROVE b[i - (k - 1)] = s[i + 1]
          OBVIOUS
        <4>1. i - (k - 1) \in 1 .. Len(s) - k /\ k + (i - (k - 1)) = i + 1
          BY <1>1
        <4> QED
          BY <2>8, <4>1 DEF b
      <3>5. r = a \o b
        BY DEF a, b
      <3> HIDE DEF r
      <3>6. Len(a) + Len(b) = Len(s) - 1
        BY <1>1, <2>1, <3>2
      <3>7. ASSUME NEW i \in 1 .. Len(s) - 1
            PROVE  r[i] = IF i <= k - 1 THEN s[i] ELSE s[i + 1]
        <4>1. r[i] = IF i <= k - 1 THEN a[i] ELSE b[i - (k - 1)]
          BY <3>1, <3>2, <3>5, <3>6
        <4>2. CASE i <= k - 1
          BY <1>1, <2>1, <3>3, <4>1, <4>2
        <4>3. CASE ~(i <= k - 1)
          BY <1>1, <2>1, <3>4, <4>1, <4>3
        <4> QED BY <4>2, <4>3
      <3> QED
        BY <3>1, <3>5, <3>6, <3>7
    <2>10. DOMAIN r = 1 .. Len(s) - 1
      BY <2>9, LenProperties
    <2> HIDE DEF r
    <2>11. IsInjective(r)
      BY <1>1, <2>9, <2>10 DEF IsInjective
    <2>12. ASSUME NEW x \in ToSet(r) PROVE x \in ToSet(s) \ {e}
      <3>1. PICK i \in 1 .. Len(s) - 1 : x = r[i]
        BY <2>10 DEF ToSet
      <3>2. \E j \in 1 .. Len(s) : j # k /\ x = s[j]
        BY <1>1, <2>9, <3>1
      <3> QED
        BY <1>1, <2>1, <3>2 DEF ToSet, IsInjective
    <2>13. ASSUME NEW x \in ToSet(s), x # e PROVE x \in ToSet(r)
      <3>1. PICK j \in 1 .. Len(s) : x = s[j]
        BY <1>1 DEF ToSet
      <3>2. CASE j < k
        BY <1>1, <2>1, <2>9, <2>10, <3>1, <3>2 DEF ToSet
      <3>3. CASE j > k
        <4>1. j - 1 \in DOMAIN r /\ r[j - 1] = s[j]
          BY <1>1, <2>1, <2>9, <2>10, <3>3
        <4> QED BY <4>1, <3>1 DEF ToSet
      <3> QED
        BY <2>1, <2>13, <3>1, <3>2, <3>3
    <2> QED
      BY <2>5, <2>9, <2>11, <2>12, <2>13
  <1> QED
    BY <1>2, <1>3

\* The free list the constructor builds.
LEMMA FreshList ==
  ASSUME NEW s \in SetToSeqs(Frames)
  PROVE  s \in Seq(Frames) /\ IsInjective(s)
  <1>1. Cardinality(Frames) \in Nat
    BY FramesAssumption, FS_CardinalityType
  <1>2. s \in [1 .. Cardinality(Frames) -> Frames]
    BY DEF SetToSeqs
  <1>3. s \in Seq(Frames)
    BY <1>1, <1>2, SeqDef
  <1> QED
    BY <1>2, <1>3 DEF SetToSeqs, IsInjective
-----------------------------------------------------------------------------
(***************************************************************************)
(* The inductive invariant of the whole interface (ApiSpec).               *)
(***************************************************************************)

\* A page that is in the pool is in the frame that carries its id, and was
\* handed out by NewPage.
TableInv ==
  \A p \in PageIds : page_table[p] # NoFrame =>
    page_id[page_table[p]] = p /\ p < next_page_id

\* A thread's pin is on a page that is in the pool, in that frame.
HeldInv ==
  \A t \in Threads : held[t] # NoPin =>
    /\ held[t].page \in PageIds /\ held[t].frame \in Frames
    /\ page_table[held[t].page] = held[t].frame

CountInv == \A f \in Frames : pin_count[f] = Cardinality(Holders(f))

ListInv ==
  /\ IsInjective(free_list) /\ IsInjective(lru_replacer)
  /\ \A f \in ToSet(free_list) : ~Mapped(f)
  /\ \A f \in ToSet(lru_replacer) : Mapped(f) /\ Holders(f) = {}

\* The call that holds latch_ owns its frame: it is in neither list and
\* nobody holds it, and the page that will go there is in no frame.
Taken(f) == f \in Frames /\ ~Listed(f) /\ Holders(f) = {}

OpInv ==
  /\ op.pc = "idle" => op = Idle
  /\ op.pc \in {"spin", "load"} =>
       /\ Taken(op.frame)
       /\ op.thread \in Threads /\ held[op.thread] = NoPin
       /\ op.todo = {}
       /\ \/ /\ op.kind = "fetch" /\ op.page \in PageIds
             /\ op.page < next_page_id /\ page_table[op.page] = NoFrame
          \/ op.kind = "new" /\ next_page_id < MaxPages
  /\ op.pc = "spin" => Mapped(op.frame)
  /\ op.pc = "load" => ~Mapped(op.frame)
  /\ op.pc = "flush" => \A p \in op.todo : page_table[p] # NoFrame

Inv == TypeOK /\ TableInv /\ HeldInv /\ CountInv /\ ListInv /\ OpInv

\* The invariant holds when the server starts.
LEMMA InitInv == Init => Inv
  <1> SUFFICES ASSUME Init PROVE Inv
    OBVIOUS
  <1> USE DEF Init, PoolInit, DiskInit
  <1>1. free_list \in Seq(Frames) /\ IsInjective(free_list)
    BY FreshList
  <1>2. lru_replacer \in Seq(Frames) /\ IsInjective(lru_replacer) /\ ToSet(lru_replacer) = {}
    BY EmptySeq DEF IsInjective, ToSet
  <1>3. DiskTypeOK
    BY MaxPagesAssumption DEF DiskTypeOK, RingEntry
  <1>4. TypeOK
    BY <1>1, <1>2, <1>3, ZeroAssumption DEF TypeOK, Idle, NoPin
  <1>5. \A f \in Frames : Holders(f) = {} /\ ~Mapped(f)
    BY NoFrameAssumption DEF Holders, NoPin, Mapped
  <1>6. CountInv
    BY <1>5, FS_EmptySet DEF CountInv
  <1>7. ToSet(free_list) \subseteq Frames
    BY <1>1, ElementOfSeq, LenProperties DEF ToSet
  <1>8. ListInv
    BY <1>1, <1>2, <1>5, <1>7 DEF ListInv
  <1>9. TableInv /\ HeldInv /\ OpInv
    BY DEF TableInv, HeldInv, OpInv, Idle
  <1> QED
    BY <1>4, <1>6, <1>8, <1>9 DEF Inv

\* The elements of both lists are frames.
LEMMA ListsOfFrames ==
  ASSUME TypeOK
  PROVE  ToSet(free_list) \subseteq Frames /\ ToSet(lru_replacer) \subseteq Frames
  BY ElementOfSeq, LenProperties DEF TypeOK, ToSet

\* A thread holds at most one frame, and NoPin is on none.
LEMMA HoldersFacts ==
  ASSUME TypeOK, NEW f
  PROVE  /\ IsFiniteSet(Holders(f)) /\ Cardinality(Holders(f)) \in Nat
         /\ f \in Frames => \A t \in Holders(f) : held[t] # NoPin
  <1>1. IsFiniteSet(Holders(f))
    BY ThreadsAssumption, FS_Subset DEF Holders
  <1> QED
    BY <1>1, FS_CardinalityType, NoFrameAssumption DEF Holders, NoPin

\* What submitting a write does to the ring.
LEMMA SubmitType ==
  ASSUME DiskTypeOK, ~RingFull, NEW p \in PageIds, NEW f \in Frames, WritePageAsync(p, f)
  PROVE  ring' \in [Entries -> RingEntry]
  <1>1. NextEntry \in Entries
    BY DEF RingFull, NextEntry
  <1>2. Submitted(p, f) \in RingEntry
    BY DEF Submitted, RingEntry
  <1> QED
    BY <1>1, <1>2 DEF WritePageAsync, DiskTypeOK

\* Steps that leave the bookkeeping alone.
LEMMA BookkeepingUnchanged ==
  ASSUME Inv, TypeOK', UNCHANGED <<page_table, page_id, free_list, lru_replacer,
                                   pin_count, held, op, next_page_id>>
  PROVE  Inv'
  BY DEF Inv, TableInv, HeldInv, CountInv, ListInv, OpInv, Taken, Listed, Holders, Mapped

\* FetchPage of a page in the pool.
LEMMA FetchHitInv ==
  ASSUME Inv, NEW t \in Threads, NEW p \in PageIds, NEW w \in BOOLEAN, FetchHit(t, p, w)
  PROVE  Inv'
  <1> DEFINE f == page_table[p]
  <1>1. f \in Frames /\ f # NoFrame /\ ~Latched /\ held[t] = NoPin
    BY DEF FetchHit, CanCall, Inv, TypeOK
  <1>2. /\ lru_replacer' \in Seq(Frames) /\ IsInjective(lru_replacer')
        /\ ToSet(lru_replacer') = ToSet(lru_replacer) \ {f}
    BY RemoveFacts DEF FetchHit, NotEvictable, Inv, TypeOK, ListInv
  <1>3. \A g \in Frames : Holders(g)' = IF g = f THEN Holders(g) \cup {t} ELSE Holders(g)
    BY <1>1, NoFrameAssumption DEF FetchHit, Holders, Pin, NoPin, Inv, TypeOK
  <1>4. t \notin Holders(f)
    BY <1>1, HoldersFacts DEF Inv
  <1>5. Cardinality(Holders(f) \cup {t}) = Cardinality(Holders(f)) + 1
    BY <1>4, HoldersFacts, FS_AddElement DEF Inv
  <1>6. CountInv'
    BY <1>1, <1>3, <1>5 DEF FetchHit, Pinned, CountInv, Inv, TypeOK
  <1>7. Pin(p, f, w) \in [page : PageIds \cup {NoPage}, frame : Frames \cup {NoFrame},
                          writer : BOOLEAN]
    BY <1>1 DEF Pin
  <1>8. TypeOK'
    BY <1>1, <1>2, <1>7 DEF FetchHit, Pinned, Inv, TypeOK, DiskTypeOK, diskVars
  <1>9. TableInv' /\ OpInv'
    BY <1>1 DEF FetchHit, Inv, TableInv, OpInv, Latched, diskVars, Idle
  <1>10. HeldInv'
    BY <1>1, <1>7 DEF FetchHit, Inv, HeldInv, Pin, TypeOK
  <1>11. ListInv'
    BY <1>1, <1>2, <1>3, ListsOfFrames DEF FetchHit, Inv, ListInv, Mapped
  <1> QED
    BY <1>6, <1>8, <1>9, <1>10, <1>11 DEF Inv

\* The calls the executors make.
ValidCall(c) ==
  \/ \E p \in PageIds, w \in BOOLEAN : p < next_page_id /\ c = FetchCall(p, w)
  \/ c = NewCall

OpType == [pc : {"idle", "spin", "load", "flush"}, kind : {"none", "fetch", "new"},
           thread : Threads \cup {NoThread}, page : PageIds \cup {NoPage},
           frame : Frames \cup {NoFrame}, writer : BOOLEAN, todo : SUBSET PageIds]

\* A call that takes frame f, and what OpInv asks of its record.
LEMMA CallFacts ==
  ASSUME Inv, NEW t \in Threads, NEW c, ValidCall(c), NeedsFrame(t, c),
         NEW f \in Frames, NEW pc \in {"spin", "load"}
  PROVE  /\ op = Idle /\ op.pc = "idle" /\ held[t] = NoPin
         /\ Working(pc, t, c, f) \in OpType
         /\ Working(pc, t, c, f).pc = pc
         /\ Working(pc, t, c, f).thread = t
         /\ Working(pc, t, c, f).frame = f
         /\ Working(pc, t, c, f).todo = {}
         /\ \/ /\ Working(pc, t, c, f).kind = "fetch"
               /\ Working(pc, t, c, f).page \in PageIds
               /\ Working(pc, t, c, f).page < next_page_id
               /\ page_table[Working(pc, t, c, f).page] = NoFrame
            \/ Working(pc, t, c, f).kind = "new" /\ next_page_id < MaxPages
  <1>1. op.pc = "idle" /\ op = Idle /\ held[t] = NoPin
    BY DEF NeedsFrame, CanCall, Latched, Inv, OpInv
  <1>2. CASE c = NewCall
    BY <1>1, <1>2 DEF NewCall, Working, OpType, NeedsFrame
  <1>3. CASE \E p \in PageIds, w \in BOOLEAN : p < next_page_id /\ c = FetchCall(p, w)
    BY <1>1, <1>3 DEF FetchCall, Working, OpType, NeedsFrame
  <1> QED
    BY <1>2, <1>3 DEF ValidCall

\* FetchPage or NewPage takes a free frame.
LEMMA TakeFreeInv ==
  ASSUME Inv, NEW t \in Threads, NEW c, ValidCall(c), TakeFreeFrame(t, c)
  PROVE  Inv'
  <1>0. PICK f \in Frames : f = Head(free_list)
    BY TailFacts DEF TakeFreeFrame, Inv, TypeOK, ListInv
  <1>1. /\ free_list' \in Seq(Frames) /\ IsInjective(free_list')
        /\ f \in ToSet(free_list)
        /\ ToSet(free_list') = ToSet(free_list) \ {f}
    BY <1>0, TailFacts DEF TakeFreeFrame, Inv, TypeOK, ListInv
  <1>2. op' = Working("load", t, c, f) /\ data' = [data EXCEPT ![f] = Zero]
    BY <1>0 DEF TakeFreeFrame
  <1>3. NeedsFrame(t, c)
    BY DEF TakeFreeFrame
  <1>4. TypeOK'
    BY <1>1, <1>2, <1>3, CallFacts, ZeroAssumption
       DEF TakeFreeFrame, Inv, TypeOK, DiskTypeOK, diskVars, OpType
  <1>5. ~Mapped(f) /\ f \notin ToSet(lru_replacer)
    BY <1>1 DEF Inv, ListInv
  <1>6. Holders(f) = {}
    BY <1>1, <1>5, HoldersFacts DEF Inv, HeldInv, Mapped, Holders
  <1>7. Taken(f)' /\ ~Mapped(f)'
    BY <1>1, <1>5, <1>6 DEF TakeFreeFrame, Taken, Listed, Mapped, Holders
  <1>8. OpInv'
    BY <1>1, <1>2, <1>3, <1>7, CallFacts DEF TakeFreeFrame, OpInv, diskVars
  <1>9. TableInv' /\ HeldInv' /\ CountInv'
    BY DEF TakeFreeFrame, Inv, TableInv, HeldInv, CountInv, Holders, diskVars
  <1>10. ListInv'
    BY <1>1 DEF TakeFreeFrame, Inv, ListInv, Mapped, Holders
  <1> QED
    BY <1>4, <1>8, <1>9, <1>10 DEF Inv

\* The victim of an eviction: mapped under its id, unpinned, in no list once
\* it is popped.
LEMMA VictimFacts ==
  ASSUME Inv, HasVictim
  PROVE  /\ Victim \in Frames /\ Mapped(Victim) /\ Holders(Victim) = {}
         /\ Victim \in ToSet(lru_replacer)
         /\ page_id[Victim] \in PageIds /\ page_table[page_id[Victim]] = Victim
         /\ Victim \notin ToSet(free_list)
         /\ Front(lru_replacer) \in Seq(Frames) /\ IsInjective(Front(lru_replacer))
         /\ ToSet(Front(lru_replacer)) = ToSet(lru_replacer) \ {Victim}
  <1>1. /\ Victim \in Frames /\ Victim \in ToSet(lru_replacer)
        /\ Front(lru_replacer) \in Seq(Frames) /\ IsInjective(Front(lru_replacer))
        /\ ToSet(Front(lru_replacer)) = ToSet(lru_replacer) \ {Victim}
    BY FrontFacts DEF HasVictim, Victim, Inv, TypeOK, ListInv
  <1>2. Mapped(Victim) /\ Holders(Victim) = {}
    BY <1>1 DEF Inv, ListInv
  <1>3. PICK p \in PageIds : page_table[p] = Victim
    BY <1>2 DEF Mapped
  <1>4. page_id[Victim] = p
    BY <1>1, <1>3, NoFrameAssumption DEF Inv, TableInv
  <1>5. Victim \notin ToSet(free_list)
    BY <1>2 DEF Inv, ListInv
  <1> QED
    BY <1>1, <1>2, <1>3, <1>4, <1>5

\* Erasing an unpinned frame's page takes it, and only it, out of the table.
LEMMA EraseFacts ==
  ASSUME Inv, NEW f \in Frames, Mapped(f), Holders(f) = {}, Erase(f), held' = held
  PROVE  /\ page_table' \in [PageIds -> Frames \cup {NoFrame}]
         /\ data' \in [Frames -> Data]
         /\ \A p \in PageIds : page_table'[p] # NoFrame => page_table'[p] = page_table[p]
         /\ \A p \in PageIds : page_table[p] = NoFrame => page_table'[p] = NoFrame
         /\ ~Mapped(f)'
         /\ \A g \in Frames : g # f => (Mapped(g)' <=> Mapped(g))
         /\ HeldInv'
  <1>1. PICK p \in PageIds : page_table[p] = f
    BY DEF Mapped
  <1>2. page_id[f] = p /\ \A q \in PageIds : page_table[q] = f => q = p
    BY <1>1, NoFrameAssumption DEF Inv, TableInv
  <1>3. page_table' = [page_table EXCEPT ![p] = NoFrame] /\ data' = [data EXCEPT ![f] = Zero]
    BY <1>2 DEF Erase
  <1>4. \A q \in PageIds : page_table'[q] = IF q = p THEN NoFrame ELSE page_table[q]
    BY <1>3 DEF Inv, TypeOK
  <1>5. ~Mapped(f)' /\ \A g \in Frames : g # f => (Mapped(g)' <=> Mapped(g))
    BY <1>1, <1>2, <1>4, NoFrameAssumption DEF Mapped
  <1>6. HeldInv'
    BY <1>1, <1>4 DEF Inv, HeldInv, Holders
  <1>7. page_table' \in [PageIds -> Frames \cup {NoFrame}] /\ data' \in [Frames -> Data]
    BY <1>3, ZeroAssumption DEF Inv, TypeOK
  <1> QED
    BY <1>4, <1>5, <1>6, <1>7

\* FetchPage or NewPage evicts a clean page.
LEMMA EvictCleanInv ==
  ASSUME Inv, NEW t \in Threads, NEW c, ValidCall(c), EvictClean(t, c)
  PROVE  Inv'
  <1>1. HasVictim /\ NeedsFrame(t, c) /\ held' = held
    BY DEF EvictClean
  <1>0. PICK f \in Frames : f = Victim
    BY <1>1, VictimFacts
  <1>2. /\ f \in Frames /\ Mapped(f) /\ Holders(f) = {} /\ f \notin ToSet(free_list)
        /\ lru_replacer' \in Seq(Frames) /\ IsInjective(lru_replacer')
        /\ ToSet(lru_replacer') = ToSet(lru_replacer) \ {f}
    BY <1>0, <1>1, VictimFacts DEF EvictClean
  <1>3. Erase(f) /\ op' = Working("load", t, c, f)
    BY <1>0 DEF EvictClean
  <1>4. /\ page_table' \in [PageIds -> Frames \cup {NoFrame}] /\ data' \in [Frames -> Data]
        /\ \A p \in PageIds : page_table'[p] # NoFrame => page_table'[p] = page_table[p]
        /\ \A p \in PageIds : page_table[p] = NoFrame => page_table'[p] = NoFrame
        /\ ~Mapped(f)' /\ HeldInv'
        /\ \A g \in Frames : g # f => (Mapped(g)' <=> Mapped(g))
    BY <1>1, <1>2, <1>3, EraseFacts
  <1>5. TypeOK'
    BY <1>1, <1>2, <1>3, <1>4, CallFacts
       DEF EvictClean, Inv, TypeOK, DiskTypeOK, diskVars, OpType
  <1>6. Taken(f)'
    BY <1>1, <1>2 DEF EvictClean, Taken, Listed, Holders
  <1>7. OpInv'
    BY <1>1, <1>2, <1>3, <1>4, <1>6, CallFacts DEF EvictClean, OpInv, diskVars
  <1>8. TableInv' /\ CountInv'
    BY <1>4 DEF EvictClean, Inv, TableInv, CountInv, Holders, diskVars
  <1>9. ListInv'
    BY <1>1, <1>2, <1>4, ListsOfFrames DEF EvictClean, Inv, ListInv, Holders
  <1> QED
    BY <1>4, <1>5, <1>7, <1>8, <1>9 DEF Inv

\* FetchPage or NewPage submits the write of a dirty victim.
LEMMA EvictDirtyInv ==
  ASSUME Inv, NEW t \in Threads, NEW c, ValidCall(c), EvictDirty(t, c)
  PROVE  Inv'
  <1>1. HasVictim /\ NeedsFrame(t, c)
    BY DEF EvictDirty
  <1>0. PICK f \in Frames : f = Victim
    BY <1>1, VictimFacts
  <1>2. /\ f \in Frames /\ Mapped(f) /\ Holders(f) = {} /\ f \notin ToSet(free_list)
        /\ page_id[f] \in PageIds
        /\ lru_replacer' \in Seq(Frames) /\ IsInjective(lru_replacer')
        /\ ToSet(lru_replacer') = ToSet(lru_replacer) \ {f}
    BY <1>0, <1>1, VictimFacts DEF EvictDirty
  <1>3. ring' \in [Entries -> RingEntry]
    <2>1. PICK p \in PageIds : p = page_id[f]
      BY <1>2
    <2>2. WritePageAsync(p, f)
      BY <1>0, <2>1 DEF EvictDirty, SubmitVictim, WritePageAsync
    <2> QED
      BY <2>2, SubmitType DEF EvictDirty, Inv, TypeOK
  <1>4. op' = Working("spin", t, c, f)
    BY <1>0 DEF EvictDirty
  <1>5. TypeOK'
    BY <1>1, <1>2, <1>3, <1>4, CallFacts
       DEF EvictDirty, Inv, TypeOK, DiskTypeOK, OpType, frameVars
  <1>6. Taken(f)' /\ Mapped(f)'
    BY <1>2 DEF EvictDirty, Taken, Listed, Holders, Mapped
  <1>7. OpInv'
    BY <1>1, <1>2, <1>4, <1>6, CallFacts DEF EvictDirty, OpInv
  <1>8. TableInv' /\ CountInv' /\ HeldInv'
    BY DEF EvictDirty, Inv, TableInv, CountInv, HeldInv, Holders, frameVars
  <1>9. ListInv'
    BY <1>2 DEF EvictDirty, Inv, ListInv, Holders, Mapped
  <1> QED
    BY <1>5, <1>7, <1>8, <1>9 DEF Inv

\* WritePageAsync throws: the victim is off its list and nothing else changes.
LEMMA EvictThrowsInv ==
  ASSUME Inv, NEW t \in Threads, NEW c, ValidCall(c), EvictThrows(t, c)
  PROVE  Inv'
  <1>1. /\ lru_replacer' \in Seq(Frames) /\ IsInjective(lru_replacer')
        /\ ToSet(lru_replacer') \subseteq ToSet(lru_replacer)
    BY VictimFacts DEF EvictThrows
  <1>2. TypeOK'
    BY <1>1 DEF EvictThrows, Inv, TypeOK, DiskTypeOK, diskVars, frameVars
  <1>3. op.pc = "idle" /\ op = Idle
    BY DEF EvictThrows, NeedsFrame, CanCall, Latched, Inv, OpInv
  <1>4. OpInv'
    BY <1>3 DEF EvictThrows, OpInv, Idle
  <1>5. TableInv' /\ CountInv' /\ HeldInv'
    BY DEF EvictThrows, Inv, TableInv, CountInv, HeldInv, Holders, diskVars, frameVars
  <1>6. ListInv'
    BY <1>1 DEF EvictThrows, Inv, ListInv, Holders, Mapped
  <1> QED
    BY <1>2, <1>4, <1>5, <1>6 DEF Inv

\* The wait for the victim ends and its page is erased.
LEMMA AwaitWriteInv ==
  ASSUME Inv, AwaitWrite
  PROVE  Inv'
  <1>0. PICK f \in Frames : f = op.frame
    BY DEF AwaitWrite, Inv, OpInv, Taken
  <1>1. /\ op.pc = "spin" /\ Mapped(f) /\ Holders(f) = {} /\ ~Listed(f)
        /\ held' = held /\ Erase(f)
    BY <1>0 DEF AwaitWrite, Inv, OpInv, Taken
  <1>2. /\ page_table' \in [PageIds -> Frames \cup {NoFrame}] /\ data' \in [Frames -> Data]
        /\ \A p \in PageIds : page_table'[p] # NoFrame => page_table'[p] = page_table[p]
        /\ \A p \in PageIds : page_table[p] = NoFrame => page_table'[p] = NoFrame
        /\ ~Mapped(f)' /\ HeldInv'
        /\ \A g \in Frames : g # f => (Mapped(g)' <=> Mapped(g))
    BY <1>1, EraseFacts
  <1>3. ring' \in [Entries -> RingEntry]
    BY DEF AwaitWrite, RetrieveAsyncCompletions, RingEntry, Inv, TypeOK, DiskTypeOK
  <1>4. op' = [op EXCEPT !.pc = "load"] /\ op \in OpType
    BY DEF AwaitWrite, Inv, TypeOK, OpType
  <1>5. /\ op' \in OpType /\ op'.pc = "load" /\ op'.kind = op.kind /\ op'.thread = op.thread
        /\ op'.page = op.page /\ op'.frame = f /\ op'.todo = op.todo
    BY <1>0, <1>4 DEF OpType
  <1>6. TypeOK'
    BY <1>2, <1>3, <1>5 DEF AwaitWrite, Inv, TypeOK, DiskTypeOK, OpType, listVars
  <1>7. Taken(f)'
    BY <1>1 DEF AwaitWrite, Taken, Listed, Holders, listVars
  <1>8. OpInv'
    BY <1>1, <1>2, <1>5, <1>7 DEF AwaitWrite, Inv, OpInv
  <1>9. TableInv' /\ CountInv'
    BY <1>2 DEF AwaitWrite, Inv, TableInv, CountInv, Holders
  <1>10. ListInv'
    BY <1>1, <1>2, ListsOfFrames DEF AwaitWrite, Inv, ListInv, Listed, Holders, listVars
  <1> QED
    BY <1>2, <1>6, <1>8, <1>9, <1>10 DEF Inv
\* The end of FetchPage and NewPage: page p goes to the call's frame, and its
\* thread is the frame's only holder.
LEMMA InstallInv ==
  ASSUME Inv, op.pc = "load", NEW p \in PageIds, page_table[p] = NoFrame,
         NEW d \in Data, Install(p, d), p < next_page_id',
         next_page_id' \in 0 .. MaxPages, next_page_id <= next_page_id',
         UNCHANGED <<disk, ring, listVars>>
  PROVE  Inv'
  <1>0. PICK f \in Frames, t \in Threads : f = op.frame /\ t = op.thread
    BY DEF Inv, OpInv, Taken
  <1>1. Holders(f) = {} /\ ~Listed(f) /\ ~Mapped(f) /\ held[t] = NoPin
    BY <1>0 DEF Inv, OpInv, Taken
  <1>2. /\ data' = [data EXCEPT ![f] = d]
        /\ page_id' = [page_id EXCEPT ![f] = p]
        /\ pin_count' = [pin_count EXCEPT ![f] = 1]
        /\ is_dirty' = [is_dirty EXCEPT ![f] = FALSE]
        /\ page_table' = [page_table EXCEPT ![p] = f]
        /\ held' = [held EXCEPT ![t] = Pin(p, f, op.writer)]
        /\ op' = Idle
    BY <1>0 DEF Install
  <1>3. op.writer \in BOOLEAN
    BY DEF Inv, TypeOK
  <1>4. Pin(p, f, op.writer) \in [page : PageIds \cup {NoPage}, frame : Frames \cup {NoFrame},
                                   writer : BOOLEAN]
    BY <1>3 DEF Pin
  <1>5. /\ Pin(p, f, op.writer).frame = f /\ Pin(p, f, op.writer).page = p
    BY DEF Pin
  <1>6. op' \in OpType
    BY <1>2 DEF OpType, Idle
  <1>7. TypeOK'
    BY <1>2, <1>4, <1>6 DEF Inv, TypeOK, DiskTypeOK, OpType, listVars
  <1>8. \A g \in Frames : Holders(g)' = IF g = f THEN {t} ELSE Holders(g)
    <2>1. \A u \in Threads : held'[u].frame = IF u = t THEN f ELSE held[u].frame
      BY <1>2, <1>5 DEF Inv, TypeOK
    <2>2. held[t].frame = NoFrame
      BY <1>1 DEF NoPin
    <2> QED
      BY <1>1, <2>1, <2>2, NoFrameAssumption DEF Holders
  <1>9. \A g \in Frames : Mapped(g)' <=> (g = f \/ Mapped(g))
    <2>1. \A q \in PageIds : page_table'[q] = IF q = p THEN f ELSE page_table[q]
      BY <1>2 DEF Inv, TypeOK
    <2> QED
      BY <2>1, NoFrameAssumption DEF Mapped
  <1>10. CountInv'
    <2>1. Cardinality({t}) = 1
      BY FS_Singleton
    <2> QED
      BY <1>2, <1>8, <2>1 DEF Inv, TypeOK, CountInv
  <1>11. TableInv'
    <2> SUFFICES ASSUME NEW q \in PageIds, page_table'[q] # NoFrame
                 PROVE  page_id'[page_table'[q]] = q /\ q < next_page_id'
      BY DEF TableInv
    <2>1. CASE q = p
      BY <1>2, <2>1 DEF Inv, TypeOK
    <2>2. CASE q # p
      <3>1. /\ page_table'[q] = page_table[q] /\ page_table[q] \in Frames
            /\ page_table[q] # f /\ page_id[page_table[q]] = q /\ q < next_page_id
        BY <1>1, <1>2, <2>2 DEF Inv, TypeOK, TableInv, Mapped
      <3>2. q < next_page_id'
        BY <3>1 DEF Inv, TypeOK, DiskTypeOK, PageIds
      <3> QED
        BY <1>2, <3>1, <3>2 DEF Inv, TypeOK
    <2> QED
      BY <2>1, <2>2
  <1>12. HeldInv'
    <2> SUFFICES ASSUME NEW u \in Threads, held'[u] # NoPin
                 PROVE  /\ held'[u].page \in PageIds /\ held'[u].frame \in Frames
                        /\ page_table'[held'[u].page] = held'[u].frame
      BY DEF HeldInv
    <2>1. CASE u = t
      BY <1>2, <1>5, <2>1 DEF Inv, TypeOK
    <2>2. CASE u # t
      <3>1. held'[u] = held[u] /\ held[u].page # p
        BY <1>2, <2>2, NoFrameAssumption DEF Inv, TypeOK, HeldInv
      <3> QED
        BY <1>2, <3>1 DEF Inv, TypeOK, HeldInv
    <2> QED
      BY <2>1, <2>2
  <1>13. ListInv'
    BY <1>1, <1>8, <1>9, ListsOfFrames DEF Inv, ListInv, Listed, listVars
  <1>14. OpInv'
    BY <1>2 DEF OpInv, Idle
  <1> QED
    BY <1>7, <1>10, <1>11, <1>12, <1>13, <1>14 DEF Inv

\* FetchPage installs the page it has read.
LEMMA LoadPageInv ==
  ASSUME Inv, LoadPage
  PROVE  Inv'
  <1>1. /\ op.page \in PageIds /\ page_table[op.page] = NoFrame /\ op.page < next_page_id
    BY DEF LoadPage, Inv, OpInv
  <1>2. disk[op.page] \in Data /\ next_page_id \in 0 .. MaxPages
    BY <1>1 DEF Inv, TypeOK, DiskTypeOK
  <1>3. PICK p \in PageIds, d \in Data : p = op.page /\ d = disk[op.page]
    BY <1>1, <1>2
  <1>4. Install(p, d)
    BY <1>3 DEF LoadPage, ReadPage, Install
  <1> QED
    BY <1>1, <1>2, <1>3, <1>4, InstallInv DEF LoadPage, diskVars

\* NewPage installs an empty page under an id nobody has.
LEMMA NewPageInv ==
  ASSUME Inv, NewPage
  PROVE  Inv'
  <1>1. next_page_id < MaxPages /\ next_page_id \in Nat /\ MaxPages \in Nat
    BY MaxPagesAssumption DEF NewPage, Inv, OpInv, TypeOK, DiskTypeOK
  <1>2. PICK p \in PageIds : p = next_page_id
    BY <1>1 DEF PageIds
  <1>3. page_table[p] = NoFrame
    BY <1>1, <1>2 DEF Inv, TableInv
  <1>4. Install(p, Zero) /\ next_page_id' = next_page_id + 1
    BY <1>2 DEF NewPage, AllocatePage, Install
  <1> QED
    BY <1>1, <1>2, <1>3, <1>4, ZeroAssumption, InstallInv DEF NewPage

\* LoadFails and a flush that ends release latch_ and touch no page.
LEMMA ReleaseInv ==
  ASSUME Inv, op' = Idle, ring' \in [Entries -> RingEntry],
         UNCHANGED <<disk, next_page_id, page_table, listVars, frameVars, held>>
  PROVE  Inv'
  <1>1. op' \in OpType
    BY DEF OpType, Idle
  <1>2. TypeOK'
    BY <1>1 DEF Inv, TypeOK, DiskTypeOK, OpType, listVars, frameVars
  <1>3. OpInv'
    BY DEF OpInv, Idle
  <1>4. TableInv' /\ HeldInv' /\ CountInv' /\ ListInv'
    BY DEF Inv, TableInv, HeldInv, CountInv, ListInv, Holders, Mapped, listVars, frameVars
  <1> QED
    BY <1>2, <1>3, <1>4 DEF Inv

\* UnpinPage: one holder less, and a candidate once there is none.
LEMMA UnpinPageInv ==
  ASSUME Inv, NEW t \in Threads, UnpinPage(t)
  PROVE  Inv'
  <1>1. held[t] # NoPin /\ ~Latched /\ op = Idle
    BY DEF UnpinPage, Latched, Inv, OpInv
  <1>2. PICK f \in Frames : f = page_table[held[t].page] /\ f = held[t].frame
    BY <1>1 DEF Inv, HeldInv
  <1>3. PICK w \in BOOLEAN : w = held[t].writer
    BY DEF Inv, TypeOK
  <1>4. /\ held' = [held EXCEPT ![t] = NoPin]
        /\ is_dirty' = [is_dirty EXCEPT ![f] = DirtyAfterUnpin(f, w)]
        /\ pin_count' = [pin_count EXCEPT ![f] = @ - 1]
        /\ lru_replacer' = IF pin_count[f] = 1 THEN <<f>> \o lru_replacer ELSE lru_replacer
        /\ UNCHANGED <<diskVars, page_table, free_list, data, page_id, op>>
    BY <1>2, <1>3, NoFrameAssumption DEF UnpinPage, BecomesCandidate
  <1>5. \A g \in Frames : Holders(g)' = IF g = f THEN Holders(g) \ {t} ELSE Holders(g)
    <2>1. \A u \in Threads : held'[u] = IF u = t THEN NoPin ELSE held[u]
      BY <1>4 DEF Inv, TypeOK
    <2> QED
      BY <1>2, <2>1, NoFrameAssumption DEF Holders, NoPin
  <1>6. t \in Holders(f)
    BY <1>2 DEF Holders
  <1>7. /\ pin_count[f] = Cardinality(Holders(f)) /\ pin_count[f] \in Nat
        /\ Cardinality(Holders(f) \ {t}) = Cardinality(Holders(f)) - 1
        /\ Cardinality(Holders(f) \ {t}) \in Nat
    <2>1. IsFiniteSet(Holders(f))
      BY HoldersFacts DEF Inv
    <2>2. Cardinality(Holders(f) \ {t}) = Cardinality(Holders(f)) - 1
      BY <1>6, <2>1, FS_RemoveElement
    <2>3. Cardinality(Holders(f) \ {t}) \in Nat
      BY <1>6, <2>1, FS_RemoveElement, FS_CardinalityType
    <2> QED
      BY <2>2, <2>3 DEF Inv, CountInv, TypeOK
  <1>8. CountInv'
    BY <1>4, <1>5, <1>7 DEF Inv, CountInv, TypeOK
  <1>9. Mapped(f) /\ f \notin ToSet(lru_replacer)
    <2>1. held[t].page \in PageIds
      BY <1>1 DEF Inv, HeldInv
    <2> QED
      BY <1>2, <1>6, <2>1 DEF Inv, ListInv, Mapped
  <1>10. /\ lru_replacer' \in Seq(Frames) /\ IsInjective(lru_replacer')
         /\ ToSet(lru_replacer') = IF pin_count[f] = 1 THEN ToSet(lru_replacer) \cup {f}
                                    ELSE ToSet(lru_replacer)
    <2>1. lru_replacer \in Seq(Frames) /\ IsInjective(lru_replacer)
      BY DEF Inv, TypeOK, ListInv
    <2>2. /\ <<f>> \o lru_replacer \in Seq(Frames) /\ IsInjective(<<f>> \o lru_replacer)
          /\ ToSet(<<f>> \o lru_replacer) = ToSet(lru_replacer) \cup {f}
      BY <1>9, <2>1, PushFacts
    <2>3. CASE pin_count[f] = 1
      <3>1. lru_replacer' = <<f>> \o lru_replacer
        BY <1>4, <2>3
      <3> QED
        BY <2>2, <2>3, <3>1
    <2>4. CASE pin_count[f] # 1
      <3>1. lru_replacer' = lru_replacer
        BY <1>4, <2>4
      <3> QED
        BY <2>1, <2>4, <3>1
    <2> QED
      BY <2>3, <2>4
  <1>11. TypeOK'
    <2>1. DirtyAfterUnpin(f, w) \in BOOLEAN
      BY DEF DirtyAfterUnpin, Inv, TypeOK
    <2>2. NoPin \in [page : PageIds \cup {NoPage}, frame : Frames \cup {NoFrame},
                      writer : BOOLEAN]
      BY DEF NoPin
    <2>3. pin_count[f] - 1 \in Nat
      BY <1>7
    <2>4. is_dirty' \in [Frames -> BOOLEAN] /\ pin_count' \in [Frames -> Nat]
      BY <1>4, <2>1, <2>3 DEF Inv, TypeOK
    <2> QED
      BY <1>4, <1>10, <2>2, <2>4 DEF Inv, TypeOK, DiskTypeOK, diskVars
  <1>12. TableInv' /\ OpInv'
    BY <1>1, <1>4 DEF Inv, TableInv, OpInv, Idle, diskVars
  <1>13. HeldInv'
    BY <1>4 DEF Inv, TypeOK, HeldInv
  <1>14. ListInv'
    <2>1. pin_count[f] = 1 => Holders(f)' = {}
      <3>1. IsFiniteSet(Holders(f) \ {t})
        BY HoldersFacts, FS_Subset DEF Inv
      <3>2. pin_count[f] = 1 => Cardinality(Holders(f) \ {t}) = 0
        BY <1>7
      <3> QED
        BY <1>5, <3>1, <3>2, FS_EmptySet
    <2>2. \A g \in Frames : Mapped(g)' <=> Mapped(g)
      BY <1>4 DEF Mapped
    <2>3. \A g \in ToSet(lru_replacer) : Holders(g)' = {}
      BY <1>5, ListsOfFrames DEF Inv, ListInv
    <2>4. \A g \in ToSet(lru_replacer') : Mapped(g)' /\ Holders(g)' = {}
      BY <1>9, <1>10, <2>1, <2>2, <2>3, ListsOfFrames DEF Inv, ListInv
    <2>5. \A g \in ToSet(free_list') : ~Mapped(g)'
      BY <1>4, <2>2, ListsOfFrames DEF Inv, ListInv
    <2> QED
      BY <1>4, <1>10, <2>4, <2>5 DEF Inv, ListInv
  <1> QED
    BY <1>8, <1>11, <1>12, <1>13, <1>14 DEF Inv

\* A writer changes its page, with or without SetDirty.
LEMMA ModifyPageInv ==
  ASSUME Inv, NEW t \in Threads, NEW d \in Data, NEW b \in BOOLEAN, ModifyPage(t, d, b)
  PROVE  Inv'
  <1>1. TypeOK'
    BY DEF ModifyPage, Inv, TypeOK, DiskTypeOK, diskVars, listVars
  <1> QED
    BY <1>1, BookkeepingUnchanged DEF ModifyPage, diskVars, listVars

\* FlushPage submits a write and clears the dirty flag.
LEMMA FlushPageInv ==
  ASSUME Inv, NEW p \in PageIds, FlushPage(p)
  PROVE  Inv'
  <1>1. PICK f \in Frames : f = page_table[p]
    BY DEF FlushPage, Inv, TypeOK
  <1>2. ring' \in [Entries -> RingEntry]
    BY <1>1, SubmitType DEF FlushPage, Inv, TypeOK
  <1>3. TypeOK'
    BY <1>2 DEF FlushPage, Inv, TypeOK, DiskTypeOK, listVars
  <1> QED
    BY <1>3, BookkeepingUnchanged DEF FlushPage, listVars

\* FlushAllPages takes latch_ and starts its walk.
LEMMA FlushAllPagesInv ==
  ASSUME Inv, FlushAllPages
  PROVE  Inv'
  <1>1. PICK S \in SUBSET PageIds : S = {p \in PageIds : page_table[p] # NoFrame}
    OBVIOUS
  <1>2. op' = [Idle EXCEPT !.pc = "flush", !.todo = S]
    BY <1>1 DEF FlushAllPages
  <1>3. op' \in OpType /\ op'.pc = "flush" /\ op'.todo = S
    BY <1>2 DEF OpType, Idle
  <1>4. TypeOK'
    BY <1>3 DEF FlushAllPages, Inv, TypeOK, DiskTypeOK, OpType, diskVars, listVars, frameVars
  <1>5. OpInv'
    BY <1>1, <1>3 DEF FlushAllPages, OpInv
  <1>6. TableInv' /\ HeldInv' /\ CountInv' /\ ListInv'
    BY DEF FlushAllPages, Inv, TableInv, HeldInv, CountInv, ListInv, Holders, Mapped,
           diskVars, listVars, frameVars
  <1> QED
    BY <1>4, <1>5, <1>6 DEF Inv

\* One page of the walk: flushed, clean, or the exception of a full ring.
LEMMA FlushNextInv ==
  ASSUME Inv, NEW p \in PageIds, FlushNext(p)
  PROVE  Inv'
  <1>1. op.pc = "flush" /\ p \in op.todo /\ op \in OpType
    BY DEF FlushNext, Inv, TypeOK, OpType
  <1>2. PICK f \in Frames : f = page_table[p]
    BY <1>1 DEF Inv, OpInv, TypeOK
  <1>3. CASE op' = Idle /\ UNCHANGED <<ring, is_dirty>>
    <2>1. ring' \in [Entries -> RingEntry]
      BY <1>3 DEF Inv, TypeOK, DiskTypeOK
    <2> QED
      BY <1>3, <2>1, ReleaseInv DEF FlushNext, frameVars
  <1>4. CASE /\ op' = [op EXCEPT !.todo = @ \ {p}]
             /\ \/ UNCHANGED <<ring, is_dirty>>
                \/ /\ ~RingFull /\ WritePageAsync(p, f)
                   /\ is_dirty' = [is_dirty EXCEPT ![f] = FALSE]
    <2>1. ring' \in [Entries -> RingEntry]
      BY <1>4, SubmitType DEF Inv, TypeOK, DiskTypeOK
    <2>2. is_dirty' \in [Frames -> BOOLEAN]
      BY <1>4 DEF Inv, TypeOK
    <2>3. op' \in OpType /\ op'.pc = "flush" /\ op'.todo = op.todo \ {p}
      BY <1>1, <1>4 DEF OpType
    <2>4. TypeOK'
      BY <2>1, <2>2, <2>3 DEF FlushNext, Inv, TypeOK, DiskTypeOK, OpType, listVars
    <2>5. OpInv'
      BY <1>1, <2>3 DEF FlushNext, Inv, OpInv
    <2>6. TableInv' /\ HeldInv' /\ CountInv'
      BY DEF FlushNext, Inv, TableInv, HeldInv, CountInv, Holders
    <2>7. ListInv'
      BY DEF FlushNext, Inv, ListInv, Holders, Mapped, listVars
    <2> QED
      BY <2>4, <2>5, <2>6, <2>7 DEF Inv
  <1> QED
    BY <1>2, <1>3, <1>4 DEF FlushNext

\* The kernel completes or fails a write.
LEMMA KernelInv ==
  ASSUME Inv, NEW i \in Entries, WriteCompletes(i) \/ WriteFails(i)
  PROVE  Inv'
  <1>1. DoneEntry \in RingEntry
    BY DEF RingEntry
  <1>2. ring' \in [Entries -> RingEntry] /\ next_page_id' = next_page_id
    BY <1>1 DEF WriteCompletes, WriteFails, KernelWrites, KernelFails, Inv, TypeOK, DiskTypeOK
  <1>3. disk' \in [PageIds -> Data]
    <2>1. CASE WriteFails(i)
      BY <2>1 DEF WriteFails, KernelFails, Inv, TypeOK, DiskTypeOK
    <2>2. CASE WriteCompletes(i)
      <3>1. ring[i].page \in PageIds /\ ring[i].frame \in Frames
        <4>1. ring[i] \in RingEntry /\ ring[i].state = "submitted"
          BY <2>2 DEF WriteCompletes, KernelWrites, Inv, TypeOK, DiskTypeOK
        <4>2. ring[i] \in [state : {"submitted"}, page : PageIds, frame : Frames]
          BY <4>1 DEF RingEntry, FreeEntry, DoneEntry
        <4> QED
          BY <4>2
      <3> QED
        BY <2>2, <3>1 DEF WriteCompletes, KernelWrites, Inv, TypeOK, DiskTypeOK
    <2> QED
      BY <2>1, <2>2
  <1>4. TypeOK'
    BY <1>2, <1>3 DEF WriteCompletes, WriteFails, Inv, TypeOK, DiskTypeOK, listVars, frameVars
  <1> QED
    BY <1>2, <1>4, BookkeepingUnchanged DEF WriteCompletes, WriteFails, listVars, frameVars

\* FlushAllPages reaps once and returns.
LEMMA FlushAllReturnsInv ==
  ASSUME Inv, FlushAllReturns
  PROVE  Inv'
  <1>1. ring' \in [Entries -> RingEntry]
    BY DEF FlushAllReturns, RetrieveAsyncCompletions, RingEntry, Inv, TypeOK, DiskTypeOK
  <1> QED
    BY <1>1, ReleaseInv DEF FlushAllReturns

\* ReadPage throws out of FetchPage.
LEMMA LoadFailsInv ==
  ASSUME Inv, LoadFails
  PROVE  Inv'
  <1>1. ring' \in [Entries -> RingEntry]
    BY DEF LoadFails, diskVars, Inv, TypeOK, DiskTypeOK
  <1> QED
    BY <1>1, ReleaseInv DEF LoadFails, diskVars

\* Inv is preserved by every step of the interface, the failures included.
LEMMA NextInv ==
  ASSUME Inv, [ApiNext]_vars
  PROVE  Inv'
  <1>1. ASSUME NEW t \in Threads, NEW c, ValidCall(c), GetFrame(t, c)
        PROVE  Inv'
    BY <1>1, TakeFreeInv, EvictCleanInv, EvictDirtyInv, EvictThrowsInv DEF GetFrame, Evict
  <1>2. CASE Executors
    <2>1. PICK t \in Threads :
            \/ \E p \in PageIds, w \in BOOLEAN : p < next_page_id /\ Fetch(t, p, w)
            \/ GetFrame(t, NewCall)
            \/ UnpinPage(t)
            \/ \E d \in Data, b \in BOOLEAN : ModifyPage(t, d, b)
      BY <1>2 DEF Executors
    <2>2. ASSUME NEW p \in PageIds, NEW w \in BOOLEAN, p < next_page_id, Fetch(t, p, w)
          PROVE  Inv'
      <3>1. ValidCall(FetchCall(p, w))
        BY <2>2 DEF ValidCall
      <3> QED
        BY <1>1, <2>2, <3>1, FetchHitInv DEF Fetch
    <2>3. ValidCall(NewCall)
      BY DEF ValidCall
    <2> QED
      BY <1>1, <2>1, <2>2, <2>3, UnpinPageInv, ModifyPageInv
  <1>3. CASE Continue
    BY <1>3, AwaitWriteInv, LoadPageInv, NewPageInv DEF Continue
  <1>4. CASE \E i \in Entries : WriteCompletes(i) \/ WriteFails(i)
    BY <1>4, KernelInv
  <1>5. CASE \E p \in PageIds : FlushPage(p) \/ FlushNext(p)
    BY <1>5, FlushPageInv, FlushNextInv
  <1>6. CASE FlushAllPages \/ FlushAllReturns \/ LoadFails
    BY <1>6, FlushAllPagesInv, FlushAllReturnsInv, LoadFailsInv
  <1>7. CASE UNCHANGED vars
    <2>1. TypeOK'
      BY <1>7 DEF vars, diskVars, listVars, frameVars, Inv, TypeOK, DiskTypeOK
    <2> QED
      BY <1>7, <2>1, BookkeepingUnchanged DEF vars, diskVars, listVars, frameVars
  <1> QED
    BY <1>2, <1>3, <1>4, <1>5, <1>6, <1>7 DEF ApiNext, ServerNext

\* What the invariant says about pins and about the lists.
LEMMA InvImplies ==
  ASSUME Inv
  PROVE  TypeOK /\ PinnedPagesStay /\ ListsHoldUnusedFrames
  <1>1. PinnedPagesStay
    BY NoFrameAssumption DEF Inv, HeldInv, TableInv, CountInv, PinnedPagesStay
  <1>2. \A f \in ToSet(lru_replacer) : pin_count[f] = 0 /\ Mapped(f)
    BY ListsOfFrames, FS_EmptySet DEF Inv, ListInv, CountInv
  <1>3. \A f \in ToSet(free_list) : pin_count[f] = 0 /\ ~Mapped(f)
    <2> SUFFICES ASSUME NEW f \in ToSet(free_list)
                 PROVE  pin_count[f] = 0 /\ ~Mapped(f)
      OBVIOUS
    <2>1. f \in Frames /\ ~Mapped(f)
      BY ListsOfFrames DEF Inv, ListInv
    <2>2. Holders(f) = {}
      BY <2>1, HoldersFacts DEF Inv, HeldInv, Mapped, Holders
    <2> QED
      BY <2>1, <2>2, FS_EmptySet DEF Inv, CountInv
  <1>4. ToSet(free_list) \cap ToSet(lru_replacer) = {}
    BY <1>2, <1>3
  <1>5. ListsHoldUnusedFrames
    BY <1>2, <1>3, <1>4 DEF Inv, ListInv, TableInv, ListsHoldUnusedFrames
  <1> QED
    BY <1>1, <1>5 DEF Inv

\* The invariant holds in every state the interface can reach, whatever
\* reads and writes fail and whoever calls FlushPage or FlushAllPages.
THEOREM InvCorrect == ApiSpec => []Inv
  <1>1. Inv /\ [ApiNext]_vars => Inv'
    BY NextInv
  <1> QED
    BY <1>1, InitInv, PTL DEF ApiSpec

\* Every state of the pool is well typed: no pin count goes negative and no
\* list ever holds anything but frames.
THEOREM TypeCorrect == ApiSpec => []TypeOK
  <1>1. Inv => TypeOK
    BY InvImplies
  <1> QED
    BY <1>1, InvCorrect, PTL

\* A pinned page stays where its holders were told it is, and pin_count_
\* counts exactly its holders, so the assertion of UnpinPage cannot fail.
THEOREM PinsCorrect == ApiSpec => []PinnedPagesStay
  <1>1. Inv => PinnedPagesStay
    BY InvImplies
  <1> QED
    BY <1>1, InvCorrect, PTL

\* FetchPage and NewPage never take a frame somebody uses.
THEOREM ListsCorrect == ApiSpec => []ListsHoldUnusedFrames
  <1>1. Inv => ListsHoldUnusedFrames
    BY InvImplies
  <1> QED
    BY <1>1, InvCorrect, PTL

\* The server only makes some of the calls of the interface.
LEMMA ServerIsApi == ServerSpec => ApiSpec
  <1>1. [ServerNext]_vars => [ApiNext]_vars
    BY DEF ApiNext
  <1> QED
    BY <1>1, PTL DEF ServerSpec, ApiSpec
=============================================================================
