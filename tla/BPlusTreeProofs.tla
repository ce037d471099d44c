-------------------------- MODULE BPlusTreeProofs --------------------------
(***************************************************************************)
(* Proofs about BPlusTree, for every number of threads, frames, trees and  *)
(* searches.                                                               *)
(***************************************************************************)
EXTENDS BPlusTree, FiniteSetTheorems, TLAPS
-----------------------------------------------------------------------------
(***************************************************************************)
(* The inductive invariant.                                                *)
(***************************************************************************)

\* A page is in one frame at most, and INVALID_PAGE_ID reads as no leaf.
PoolInv ==
  /\ node_type[InvalidPage] = "INVALID"
  /\ \A f, g \in Frames :
       frame[f].mapped /\ frame[g].mapped /\ frame[f].page = frame[g].page => f = g

\* Which hands are full, by where in FindLeafPage a thread is.
HandsInv ==
  \A t \in Callers :
    LET s == search[t] IN
    /\ s.pc = "idle" => s.tree = InvalidPage
    /\ s.pc # "idle" => s.tree \in Roots
    /\ s.pc \in {"idle", "root"} => s.current = NoFrame
    /\ s.pc \notin {"idle", "root", "nullptr"} => s.current \in Frames
    /\ s.pc \in {"lock_next", "unlock", "unpin"} => s.next \in Frames
    /\ s.pc \notin {"lock_next", "unlock", "unpin"} => s.next = NoFrame

\* What a hand is on stays what was fetched: in the current hand the root or
\* the page below, in the next one the page below.
HeldInv ==
  \A t \in Callers :
    LET s == search[t] IN
    /\ s.current # NoFrame => /\ frame[s.current].mapped
                              /\ frame[s.current].page \in {s.tree, InvalidPage}
    /\ s.next # NoFrame => frame[s.next].mapped /\ frame[s.next].page = InvalidPage
    /\ s.pc = "return" => frame[s.current].page = s.tree

\* A root somebody found is pinned for good, so it is still in the pool; and
\* no more searches are found or running than have begun.
FoundInv ==
  \A i \in Roots :
    /\ found[i] > 0 => InPool(i) # {}
    /\ found[i] + Cardinality({t \in Callers : search[t].tree = i}) <= begun

\* What a found root keeps pinned for good.
Kept(f) == IF frame[f].mapped /\ frame[f].page \in Roots THEN found[frame[f].page] ELSE 0

\* A frame's pins are those of the searches that stand on it, of the leaves
\* found in it and of the searches torn away from it; FetchPage may take it
\* only when there are none.
PinsInv ==
  \A f \in Frames :
    /\ frame[f].pins = Cardinality(Pinning(f)) + Kept(f) + abandoned[f]
    /\ frame[f].listed => frame[f].pins = 0

Inv ==
  /\ TreeTypeOK /\ PoolInv /\ HandsInv /\ HeldInv /\ FoundInv
  /\ LatchesBalanced /\ PinsInv

FrameType == [page : Pages, mapped : BOOLEAN, listed : BOOLEAN, pins : Nat, readers : Nat]
SearchType ==
  [pc : {"idle", "root", "lock_root", "test", "lock_next", "unlock", "unpin",
         "return", "nullptr"},
   tree : Pages, current : Frames \cup {NoFrame}, next : Frames \cup {NoFrame}]

LEMMA Types ==
  ASSUME TreeTypeOK
  PROVE  /\ frame \in [Frames -> FrameType] /\ search \in [Callers -> SearchType]
         /\ node_type \in [Pages -> NodeTypes]
         /\ begun \in 0 .. MaxSearches /\ found \in [Roots -> 0 .. MaxSearches]
         /\ abandoned \in [Frames -> Nat]
  BY DEF TreeTypeOK, FrameType, SearchType

LEMMA TypesNext ==
  ASSUME (frame \in [Frames -> FrameType])', (search \in [Callers -> SearchType])',
         (node_type \in [Pages -> NodeTypes])',
         (begun \in 0 .. MaxSearches)', (found \in [Roots -> 0 .. MaxSearches])',
         (abandoned \in [Frames -> Nat])'
  PROVE  TreeTypeOK'
  BY DEF TreeTypeOK, FrameType, SearchType
-----------------------------------------------------------------------------
(***************************************************************************)
(* The hands that are on a frame.                                          *)
(***************************************************************************)

\* Whether the latch of the page in a hand is taken.
Latched(t, h) ==
  IF h = "current" THEN search[t].pc \notin {"lock_root", "unpin"} ELSE search[t].pc # "lock_next"

LEMMA Members ==
  ASSUME NEW f, NEW t \in Callers, NEW h \in Hands
  PROVE  /\ <<t, h>> \in Pinning(f) <=> search[t][h] = f
         /\ <<t, h>> \in Latching(f) <=> search[t][h] = f /\ Latched(t, h)
         /\ <<t, h>> \in Pinning(f)' <=> search'[t][h] = f
         /\ <<t, h>> \in Latching(f)' <=> search'[t][h] = f /\ Latched(t, h)'
  BY DEF Pinning, Latching, Latched

LEMMA Pairs ==
  ASSUME NEW f
  PROVE  /\ Pinning(f) \subseteq Callers \X Hands /\ Latching(f) \subseteq Pinning(f)
         /\ Pinning(f)' \subseteq Callers \X Hands /\ Latching(f)' \subseteq Pinning(f)'
  BY DEF Pinning, Latching

LEMMA HandsFinite ==
  ASSUME NEW f
  PROVE  /\ IsFiniteSet(Pinning(f)) /\ Cardinality(Pinning(f)) \in Nat
         /\ IsFiniteSet(Latching(f)) /\ Cardinality(Latching(f)) \in Nat
  <1>1. IsFiniteSet({"current"}) /\ IsFiniteSet({"current"} \cup {"next"})
    BY FS_Singleton, FS_AddElement
  <1>2. {"current"} \cup {"next"} = Hands
    BY DEF Hands
  <1>3. IsFiniteSet(Callers \X Hands)
    BY <1>1, <1>2, TreeAssumption, FS_Product
  <1>4. Pinning(f) \in SUBSET (Callers \X Hands) /\ Latching(f) \in SUBSET (Callers \X Hands)
    BY Pairs
  <1> QED
    BY <1>3, <1>4, FS_Subset, FS_CardinalityType

LEMMA SamePairs ==
  ASSUME NEW A \in SUBSET (Callers \X Hands), NEW B \in SUBSET (Callers \X Hands),
         \A u \in Callers, h \in Hands : <<u, h>> \in B <=> <<u, h>> \in A
  PROVE  B = A
  <1>1. \A x \in Callers \X Hands : \E u \in Callers, h \in Hands : x = <<u, h>>
    OBVIOUS
  <1> QED
    BY <1>1

LEMMA PairCount ==
  ASSUME NEW A \in SUBSET (Callers \X Hands), NEW B \in SUBSET (Callers \X Hands), IsFiniteSet(A),
         NEW t \in Callers, NEW k \in Hands,
         \A u \in Callers, h \in Hands : u # t \/ h # k => (<<u, h>> \in B <=> <<u, h>> \in A)
  PROVE  /\ (<<t, k>> \in B <=> <<t, k>> \in A) => B = A
         /\ <<t, k>> \in B /\ <<t, k>> \notin A => Cardinality(B) = Cardinality(A) + 1
         /\ <<t, k>> \notin B /\ <<t, k>> \in A => Cardinality(B) = Cardinality(A) - 1
  <1>1. \A x \in Callers \X Hands : x # <<t, k>> => (x \in B <=> x \in A)
    <2> SUFFICES ASSUME NEW x \in Callers \X Hands, x # <<t, k>> PROVE x \in B <=> x \in A
      OBVIOUS
    <2>1. PICK u \in Callers, h \in Hands : x = <<u, h>>
      OBVIOUS
    <2> QED
      BY <2>1
  <1>2. (<<t, k>> \in B <=> <<t, k>> \in A) => B = A
    BY <1>1
  <1>3. ASSUME <<t, k>> \in B, <<t, k>> \notin A PROVE Cardinality(B) = Cardinality(A) + 1
    <2>1. B = A \cup {<<t, k>>}
      BY <1>1, <1>3
    <2> QED
      BY <1>3, <2>1, FS_AddElement
  <1>4. ASSUME <<t, k>> \notin B, <<t, k>> \in A PROVE Cardinality(B) = Cardinality(A) - 1
    <2>1. B = A \ {<<t, k>>}
      BY <1>1, <1>4
    <2>2. Cardinality(A \ {<<t, k>>}) = Cardinality(A) - 1
      BY <1>4, FS_RemoveElement
    <2> QED
      BY <2>1, <2>2
  <1> QED
    BY <1>2, <1>3, <1>4

\* A step of thread t leaves everybody else's hands alone; when it also
\* leaves t's other hand alone, the pins on a frame go by hand k.
LEMMA PinningStep ==
  ASSUME NEW t \in Callers, \A u \in Callers \ {t} : search'[u] = search[u],
         NEW k \in Hands, NEW g,
         \A h \in Hands \ {k} : search'[t][h] = g <=> search[t][h] = g
  PROVE  /\ (search'[t][k] = g <=> search[t][k] = g) => Pinning(g)' = Pinning(g)
         /\ search'[t][k] = g /\ search[t][k] # g
              => Cardinality(Pinning(g)') = Cardinality(Pinning(g)) + 1
         /\ search'[t][k] # g /\ search[t][k] = g
              => Cardinality(Pinning(g)') = Cardinality(Pinning(g)) - 1
  <1>1. PICK A \in SUBSET (Callers \X Hands), B \in SUBSET (Callers \X Hands) :
          A = Pinning(g) /\ B = Pinning(g)' /\ IsFiniteSet(A)
    BY Pairs, HandsFinite
  <1>2. \A u \in Callers, h \in Hands : /\ <<u, h>> \in A <=> search[u][h] = g
                                        /\ <<u, h>> \in B <=> search'[u][h] = g
    BY <1>1, Members
  <1>3. \A u \in Callers, h \in Hands : u # t \/ h # k => (<<u, h>> \in B <=> <<u, h>> \in A)
    BY <1>2
  <1>4. /\ (<<t, k>> \in B <=> <<t, k>> \in A) => B = A
        /\ <<t, k>> \in B /\ <<t, k>> \notin A => Cardinality(B) = Cardinality(A) + 1
        /\ <<t, k>> \notin B /\ <<t, k>> \in A => Cardinality(B) = Cardinality(A) - 1
    BY <1>1, <1>3, PairCount
  <1> QED
    BY <1>1, <1>2, <1>4

\* The same of the latches.
LEMMA LatchingStep ==
  ASSUME NEW t \in Callers, \A u \in Callers \ {t} : search'[u] = search[u],
         NEW k \in Hands, NEW g,
         \A h \in Hands \ {k} : search'[t][h] = g /\ Latched(t, h)' <=> search[t][h] = g /\ Latched(t, h)
  PROVE  /\ (search'[t][k] = g /\ Latched(t, k)' <=> search[t][k] = g /\ Latched(t, k))
              => Latching(g)' = Latching(g)
         /\ search'[t][k] = g /\ Latched(t, k)' /\ ~(search[t][k] = g /\ Latched(t, k))
              => Cardinality(Latching(g)') = Cardinality(Latching(g)) + 1
         /\ search[t][k] = g /\ Latched(t, k) /\ ~(search'[t][k] = g /\ Latched(t, k)')
              => Cardinality(Latching(g)') = Cardinality(Latching(g)) - 1
  <1>1. PICK A \in SUBSET (Callers \X Hands), B \in SUBSET (Callers \X Hands) :
          A = Latching(g) /\ B = Latching(g)' /\ IsFiniteSet(A)
    BY Pairs, HandsFinite
  <1>2. \A u \in Callers, h \in Hands : /\ <<u, h>> \in A <=> search[u][h] = g /\ Latched(u, h)
                                        /\ <<u, h>> \in B <=> search'[u][h] = g /\ Latched(u, h)'
    BY <1>1, Members
  <1>3. \A u \in Callers \ {t}, h \in Hands : Latched(u, h)' <=> Latched(u, h)
    BY DEF Latched
  <1>4. \A u \in Callers, h \in Hands : u # t \/ h # k => (<<u, h>> \in B <=> <<u, h>> \in A)
    BY <1>2, <1>3
  <1>5. /\ (<<t, k>> \in B <=> <<t, k>> \in A) => B = A
        /\ <<t, k>> \in B /\ <<t, k>> \notin A => Cardinality(B) = Cardinality(A) + 1
        /\ <<t, k>> \notin B /\ <<t, k>> \in A => Cardinality(B) = Cardinality(A) - 1
    BY <1>1, <1>4, PairCount
  <1> QED
    BY <1>1, <1>2, <1>5

Running(i) == {t \in Callers : search[t].tree = i}

LEMMA RunningFinite == \A i : IsFiniteSet(Running(i)) /\ Cardinality(Running(i)) \in Nat
  <1>1. \A i : Running(i) \in SUBSET Callers
    BY DEF Running
  <1> QED
    BY <1>1, TreeAssumption, FS_Subset, FS_CardinalityType

LEMMA PinsOf ==
  ASSUME Inv, NEW f \in Frames
  PROVE  /\ frame[f].pins = Cardinality(Pinning(f)) + Kept(f) + abandoned[f] /\ Kept(f) \in Nat /\ abandoned[f] \in Nat
         /\ frame[f].readers = Cardinality(Latching(f)) + abandoned[f]
         /\ Cardinality(Pinning(f)) \in Nat /\ Cardinality(Latching(f)) \in Nat
         /\ frame[f] \in FrameType /\ (frame[f].listed => frame[f].pins = 0)
  BY Types, HandsFinite, TreeAssumption DEF Inv, PinsInv, LatchesBalanced, Kept

LEMMA RunningBound ==
  ASSUME Inv, NEW i \in Roots
  PROVE  /\ found[i] > 0 => InPool(i) # {}
         /\ found[i] + Cardinality(Running(i)) <= begun
         /\ found[i] \in Nat /\ Cardinality(Running(i)) \in Nat /\ IsFiniteSet(Running(i))
  <1>1. found[i] \in Nat /\ Cardinality(Running(i)) \in Nat /\ IsFiniteSet(Running(i))
    BY Types, RunningFinite, TreeAssumption DEF Inv
  <1>2. /\ found[i] > 0 => InPool(i) # {}
        /\ found[i] + Cardinality(Running(i)) <= begun
    BY DEF Inv, FoundInv, Running
  <1> QED
    BY <1>1, <1>2

LEMMA InitInv == TreeInit => Inv
  <1> SUFFICES ASSUME TreeInit PROVE Inv
    OBVIOUS
  <1>1. InvalidPage \in Pages /\ InvalidPage \notin Roots
    BY TreeAssumption DEF Pages, Roots
  <1>2. TreeTypeOK
    BY <1>1, TreeAssumption DEF TreeInit, Idle, TreeTypeOK
  <1>3. /\ node_type[InvalidPage] = "INVALID"
        /\ begun = 0 /\ (\A i \in Roots : found[i] = 0) /\ \A f \in Frames : abandoned[f] = 0
    BY DEF TreeInit
  <1>4. \A f \in Frames : ~frame[f].mapped /\ frame[f].pins = 0 /\ frame[f].readers = 0
    BY DEF TreeInit
  <1>5. \A t \in Callers : /\ search[t].pc = "idle" /\ search[t].tree = InvalidPage
                           /\ search[t].current = NoFrame /\ search[t].next = NoFrame
    BY DEF TreeInit, Idle
  <1>6. \A f \in Frames : Pinning(f) = {} /\ Latching(f) = {}
    <2>1. \A f \in Frames : \A t \in Callers, h \in Hands : <<t, h>> \notin Pinning(f)
      <3>1. \A t \in Callers, h \in Hands : search[t][h] = NoFrame
        BY <1>5 DEF Hands
      <3> SUFFICES ASSUME NEW f \in Frames, NEW t \in Callers, NEW h \in Hands
                   PROVE  <<t, h>> \notin Pinning(f)
        OBVIOUS
      <3>2. search[t][h] # f
        BY <3>1, TreeAssumption
      <3> QED
        BY <3>2, Members
    <2>2. \A f \in Frames : Pinning(f) = {}
      <3> SUFFICES ASSUME NEW f \in Frames, NEW x \in Pinning(f) PROVE FALSE
        OBVIOUS
      <3>1. PICK t \in Callers, h \in Hands : x = <<t, h>>
        BY Pairs
      <3> QED
        BY <2>1, <3>1
    <2> QED
      BY <2>2, Pairs
  <1>7. LatchesBalanced /\ PinsInv
    <2>1. \A f \in Frames : Cardinality(Pinning(f)) = 0 /\ Cardinality(Latching(f)) = 0
      BY <1>6, FS_EmptySet
    <2> QED
      BY <1>3, <1>4, <2>1 DEF LatchesBalanced, PinsInv, Kept
  <1>8. PoolInv /\ HandsInv /\ HeldInv
    <2>1. PoolInv
      BY <1>3, <1>4 DEF PoolInv
    <2>2. HandsInv
      BY <1>5 DEF HandsInv
    <2>3. HeldInv
      BY <1>5 DEF HeldInv
    <2> QED
      BY <2>1, <2>2, <2>3
  <1>9. FoundInv
    <2>1. \A i \in Roots : Running(i) = {}
      BY <1>1, <1>5 DEF Running
    <2>2. \A i \in Roots : Cardinality(Running(i)) = 0
      BY <2>1, FS_EmptySet
    <2>3. \A i \in Roots : /\ found[i] > 0 => InPool(i) # {}
                           /\ found[i] + Cardinality(Running(i)) <= begun
      BY <1>3, <2>2
    <2> QED
      BY <2>3 DEF FoundInv, Running
  <1> QED
    BY <1>2, <1>7, <1>8, <1>9 DEF Inv

\* A call on a tree without a root.
LEMMA CallOnEmptyInv ==
  ASSUME Inv, NEW t \in Callers, NEW tree \in Trees, CallOnEmpty(t, tree)
  PROVE  Inv'
  <1>1. /\ begun' = begun + 1 /\ begun < MaxSearches /\ begun \in 0 .. MaxSearches
        /\ UNCHANGED <<node_type, frame, search, found, abandoned>>
    BY Types DEF CallOnEmpty, Inv
  <1>2. TreeTypeOK'
    BY <1>1, TreeAssumption DEF Inv, TreeTypeOK
  <1>3. FoundInv'
    <2> SUFFICES ASSUME NEW i \in Roots
                 PROVE  /\ found[i] > 0 => InPool(i) # {}
                        /\ found[i] + Cardinality(Running(i)) <= begun + 1
      BY <1>1 DEF FoundInv, InPool, Running
    <2>1. found[i] \in Nat /\ Cardinality(Running(i)) \in Nat
      BY Types, RunningFinite, TreeAssumption DEF Inv
    <2>2. found[i] > 0 => InPool(i) # {}
      BY DEF Inv, FoundInv
    <2>3. found[i] + Cardinality(Running(i)) <= begun
      BY DEF Inv, FoundInv, Running
    <2> QED
      BY <1>1, <2>1, <2>2, <2>3
  <1>4. PoolInv' /\ HandsInv' /\ HeldInv'
    BY <1>1 DEF Inv, PoolInv, HandsInv, HeldInv
  <1>5. LatchesBalanced' /\ PinsInv'
    BY <1>1 DEF Inv, LatchesBalanced, PinsInv, Kept, Latching, Pinning
  <1> QED
    BY <1>2, <1>3, <1>4, <1>5 DEF Inv

\* A step that leaves the trees of the searches and the pages of the frames
\* alone owes FoundInv nothing.
LEMMA FoundKept ==
  ASSUME FoundInv, UNCHANGED <<found, begun>>,
         \A t \in Callers : search'[t].tree = search[t].tree,
         \A f \in Frames : frame'[f].page = frame[f].page /\ frame'[f].mapped = frame[f].mapped
  PROVE  FoundInv'
  <1>1. \A i \in Roots : Running(i)' = Running(i) /\ InPool(i)' = InPool(i)
    BY DEF Running, InPool
  <1> QED
    BY <1>1 DEF FoundInv, Running

\* A search begins.
LEMMA CallInv ==
  ASSUME Inv, NEW t \in Callers, NEW tree \in Trees, Call(t, tree)
  PROVE  Inv'
  <1>1. /\ begun' = begun + 1 /\ begun < MaxSearches /\ begun \in 0 .. MaxSearches
        /\ search[t].pc = "idle" /\ search \in [Callers -> SearchType]
        /\ search' = [search EXCEPT ![t] = [Idle EXCEPT !.pc = "root", !.tree = tree]]
        /\ UNCHANGED <<node_type, frame, found, abandoned>>
    BY Types DEF Call, Inv, SearchAt
  <1>2. tree \in Roots /\ tree \in Pages
    BY DEF Call, Root, Roots, Pages
  <1>3. /\ search' \in [Callers -> SearchType]
        /\ search'[t].pc = "root" /\ search'[t].tree = tree
        /\ search'[t].current = NoFrame /\ search'[t].next = NoFrame
        /\ \A u \in Callers \ {t} : search'[u] = search[u]
    BY <1>1, <1>2 DEF Idle, SearchType
  <1>4. search[t].tree = InvalidPage /\ search[t].current = NoFrame /\ search[t].next = NoFrame
    BY <1>1 DEF Inv, HandsInv
  <1>5. TreeTypeOK'
    BY <1>1, <1>3, Types, TypesNext, TreeAssumption DEF Inv
  <1>6. \A f \in Frames : Pinning(f)' = Pinning(f) /\ Latching(f)' = Latching(f)
    <2> SUFFICES ASSUME NEW f \in Frames
                 PROVE  Pinning(f)' = Pinning(f) /\ Latching(f)' = Latching(f)
      OBVIOUS
    <2>1. f # NoFrame
      BY TreeAssumption
    <2>2. \A h \in Hands : search[t][h] # f /\ search'[t][h] # f
      BY <1>3, <1>4, <2>1 DEF Hands
    <2>3. Pinning(f)' = Pinning(f)
      BY <1>3, <2>2, PinningStep DEF Hands
    <2>4. Latching(f)' = Latching(f)
      BY <1>3, <2>2, LatchingStep DEF Hands
    <2> QED
      BY <2>3, <2>4
  <1>7. LatchesBalanced' /\ PinsInv'
    BY <1>1, <1>6 DEF Inv, LatchesBalanced, PinsInv, Kept
  <1>8. PoolInv' /\ HandsInv' /\ HeldInv'
    BY <1>1, <1>2, <1>3 DEF Inv, PoolInv, HandsInv, HeldInv
  <1>9. FoundInv'
    <2> SUFFICES ASSUME NEW i \in Roots
                 PROVE  /\ found[i] > 0 => InPool(i) # {}
                        /\ found[i] + Cardinality(Running(i)') <= begun + 1
      BY <1>1 DEF FoundInv, InPool, Running
    <2>1. /\ found[i] \in Nat /\ Cardinality(Running(i)) \in Nat /\ IsFiniteSet(Running(i))
      BY Types, RunningFinite, TreeAssumption DEF Inv
    <2>2. /\ found[i] > 0 => InPool(i) # {}
          /\ found[i] + Cardinality(Running(i)) <= begun
      BY DEF Inv, FoundInv, Running
    <2>3. Running(i)' = IF i = tree THEN Running(i) \cup {t} ELSE Running(i)
      BY <1>2, <1>3, <1>4, TreeAssumption DEF Running, Roots
    <2>4. Cardinality(Running(i)') \in Nat /\ Cardinality(Running(i)') <= Cardinality(Running(i)) + 1
      <3>1. CASE i = tree
        <4>1. Running(i)' = Running(i) \cup {t}
          BY <2>3, <3>1
        <4>2. Cardinality(Running(i) \cup {t}) = IF t \in Running(i) THEN Cardinality(Running(i))
                                                 ELSE Cardinality(Running(i)) + 1
          BY <2>1, FS_AddElement
        <4> QED
          BY <2>1, <4>1, <4>2
      <3>2. CASE i # tree
        BY <2>1, <2>3, <3>2
      <3> QED
        BY <3>1, <3>2
    <2> QED
      BY <1>1, <2>1, <2>2, <2>4
  <1> QED
    BY <1>5, <1>7, <1>8, <1>9 DEF Inv

\* A step that moves thread t on and changes at most one frame's pins or
\* readers: what is left to check are the counts.
LEMMA MoveInv ==
  ASSUME Inv, NEW t \in Callers, NEW s \in SearchType, search' = [search EXCEPT ![t] = s],
         s.tree = search[t].tree, s.pc # "idle", search[t].pc # "idle",
         UNCHANGED <<node_type, begun, found, abandoned>>,
         frame' \in [Frames -> FrameType],
         \A f \in Frames : frame'[f].page = frame[f].page /\ frame'[f].mapped = frame[f].mapped,
         s.pc \notin {"root", "nullptr"} => s.current \in Frames,
         s.pc = "root" => s.current = NoFrame,
         IF s.pc \in {"lock_next", "unlock", "unpin"} THEN s.next \in Frames ELSE s.next = NoFrame,
         s.current # NoFrame => /\ frame[s.current].mapped
                                /\ frame[s.current].page \in {s.tree, InvalidPage},
         s.next # NoFrame => frame[s.next].mapped /\ frame[s.next].page = InvalidPage,
         s.pc = "return" => frame[s.current].page = s.tree,
         \A f \in Frames : /\ frame'[f].readers = Cardinality(Latching(f)') + abandoned[f]
                           /\ frame'[f].pins = Cardinality(Pinning(f)') + Kept(f) + abandoned[f]
                           /\ frame'[f].listed => frame'[f].pins = 0
  PROVE  Inv'
  <1>1. search \in [Callers -> SearchType] /\ frame \in [Frames -> FrameType]
    BY Types DEF Inv
  <1>2. /\ search' \in [Callers -> SearchType] /\ search'[t] = s
        /\ \A u \in Callers \ {t} : search'[u] = search[u]
    BY <1>1
  <1>3. TreeTypeOK'
    BY <1>2, Types, TypesNext DEF Inv
  <1>4. PoolInv'
    BY DEF Inv, PoolInv
  <1>5. HandsInv'
    BY <1>2 DEF Inv, HandsInv
  <1>6. HeldInv'
    <2>1. ASSUME NEW u \in Callers
          PROVE  LET r == search'[u] IN
                 /\ r.current # NoFrame => /\ frame'[r.current].mapped
                                           /\ frame'[r.current].page \in {r.tree, InvalidPage}
                 /\ r.next # NoFrame => frame'[r.next].mapped /\ frame'[r.next].page = InvalidPage
                 /\ r.pc = "return" => frame'[r.current].page = r.tree
      <3>1. /\ search'[u].current \in Frames \cup {NoFrame} /\ search'[u].next \in Frames \cup {NoFrame}
            /\ search'[u].pc = "return" => search'[u].current \in Frames
        BY <1>2, <1>5 DEF SearchType, HandsInv
      <3>2. CASE u = t
        BY <1>2, <3>1, <3>2
      <3>3. CASE u # t
        BY <1>2, <3>1, <3>3 DEF Inv, HeldInv
      <3> QED
        BY <3>2, <3>3
    <2> QED
      BY <2>1 DEF HeldInv
  <1>7. FoundInv'
    <2>1. \A u \in Callers : search'[u].tree = search[u].tree
      BY <1>2
    <2> QED
      BY <2>1, FoundKept DEF Inv
  <1>8. LatchesBalanced'
    BY DEF LatchesBalanced
  <1>9. PinsInv'
    <2>1. \A f \in Frames : Kept(f)' = Kept(f)
      BY DEF Kept
    <2> QED
      BY <2>1 DEF PinsInv, Kept
  <1> QED
    BY <1>3, <1>4, <1>5, <1>6, <1>7, <1>8, <1>9 DEF Inv

\* What Inv says of the searching thread.
LEMMA HandsAt ==
  ASSUME Inv, NEW t \in Callers
  PROVE  /\ search \in [Callers -> SearchType] /\ search[t] \in SearchType
         /\ frame \in [Frames -> FrameType]
         /\ search[t].pc # "idle" => search[t].tree \in Roots /\ search[t].tree # InvalidPage
         /\ search[t].pc \in {"idle", "root"} => search[t].current = NoFrame
         /\ search[t].pc \notin {"idle", "root", "nullptr"} => search[t].current \in Frames
         /\ search[t].pc \in {"lock_next", "unlock", "unpin"} => search[t].next \in Frames
         /\ search[t].pc \notin {"lock_next", "unlock", "unpin"} => search[t].next = NoFrame
         /\ search[t].current # NoFrame => /\ frame[search[t].current].mapped
                                           /\ frame[search[t].current].page \in {search[t].tree, InvalidPage}
         /\ search[t].next # NoFrame => /\ frame[search[t].next].mapped
                                        /\ frame[search[t].next].page = InvalidPage
         /\ search[t].pc = "return" => frame[search[t].current].page = search[t].tree
  <1>1. /\ search \in [Callers -> SearchType] /\ search[t] \in SearchType
        /\ frame \in [Frames -> FrameType]
    BY Types DEF Inv
  <1>2. search[t].tree \in Roots => search[t].tree # InvalidPage
    BY TreeAssumption DEF Roots
  <1> QED
    BY <1>1, <1>2 DEF Inv, HandsInv, HeldInv

\* Steps that only move the pc, or take or release the latch of what is in
\* hand k.
LEMMA LatchInv ==
  ASSUME Inv, NEW t \in Callers, NEW k \in Hands, NEW pc, NEW d \in {-1, 0, 1}, NEW f \in Frames,
         [search[t] EXCEPT !.pc = pc] \in SearchType, SearchGoto(t, pc),
         UNCHANGED <<node_type, begun, found, abandoned>>, search[t][k] = f,
         frame' = [frame EXCEPT ![f].readers = @ + d],
         \/ search[t].pc = "lock_root" /\ pc = "test" /\ k = "current" /\ d = 1
         \/ search[t].pc = "lock_next" /\ pc = "unlock" /\ k = "next" /\ d = 1
         \/ search[t].pc = "unlock" /\ pc = "unpin" /\ k = "current" /\ d = -1
         \/ search[t].pc = "test" /\ pc = "return" /\ k = "current" /\ d = 0,
         pc = "return" => frame[f].page = search[t].tree
  PROVE  Inv'
  <1> DEFINE s == [search[t] EXCEPT !.pc = pc]
  <1>1. /\ search \in [Callers -> SearchType] /\ search[t] \in SearchType
        /\ frame \in [Frames -> FrameType]
    BY HandsAt
  <1>2. /\ search' = [search EXCEPT ![t] = s] /\ s \in SearchType
        /\ s.pc = pc /\ s.tree = search[t].tree /\ s.current = search[t].current /\ s.next = search[t].next
    BY <1>1 DEF SearchGoto, SearchType
  <1>3. search'[t] = s /\ \A u \in Callers \ {t} : search'[u] = search[u]
    BY <1>1, <1>2
  <1>4. \A h \in Hands : search'[t][h] = search[t][h]
    BY <1>2, <1>3 DEF Hands
  <1>5. \A g \in Frames : Pinning(g)' = Pinning(g)
    BY <1>3, <1>4, PinningStep
  <1>6. \A h \in Hands \ {k} : search[t][h] # NoFrame => (Latched(t, h)' <=> Latched(t, h))
    BY <1>2, <1>3, HandsAt DEF Latched, Hands
  <1>7. /\ d = 1 => Latched(t, k)' /\ ~Latched(t, k)
        /\ d = -1 => Latched(t, k) /\ ~Latched(t, k)'
        /\ d = 0 => (Latched(t, k)' <=> Latched(t, k))
    <2>1. search'[t].pc = pc
      BY <1>2, <1>3
    <2>2. CASE d = 1
      BY <2>1, <2>2 DEF Latched
    <2>3. CASE d = -1
      BY <2>1, <2>3 DEF Latched
    <2>4. CASE d = 0
      BY <2>1, <2>4 DEF Latched
    <2> QED
      BY <2>2, <2>3, <2>4
  <1>8. ASSUME NEW g \in Frames
        PROVE  Cardinality(Latching(g)') = IF g = f THEN Cardinality(Latching(g)) + d
                                           ELSE Cardinality(Latching(g))
    <2>1. \A h \in Hands \ {k} : search'[t][h] = g /\ Latched(t, h)' <=> search[t][h] = g /\ Latched(t, h)
      BY <1>4, <1>6, TreeAssumption
    <2>2. CASE g # f
      BY <1>3, <1>4, <2>1, <2>2, LatchingStep
    <2>3. CASE g = f
      <3>1. CASE d = 1
        BY <1>3, <1>4, <1>7, <2>1, <2>3, <3>1, LatchingStep
      <3>2. CASE d = -1
        <4>1. Cardinality(Latching(g)') = Cardinality(Latching(g)) - 1 /\ Cardinality(Latching(g)) \in Nat
          BY <1>3, <1>4, <1>7, <2>1, <2>3, <3>2, LatchingStep, HandsFinite
        <4> QED
          BY <2>3, <3>2, <4>1
      <3>3. CASE d = 0
        <4>1. Latching(g)' = Latching(g) /\ Cardinality(Latching(g)) \in Nat
          BY <1>3, <1>4, <1>7, <2>1, <2>3, <3>3, LatchingStep, HandsFinite
        <4> QED
          BY <2>3, <3>3, <4>1
      <3> QED
        BY <3>1, <3>2, <3>3
    <2> QED
      BY <2>2, <2>3
  <1>9. \A g \in Frames : /\ frame'[g].page = frame[g].page /\ frame'[g].mapped = frame[g].mapped
                          /\ frame'[g].pins = frame[g].pins /\ frame'[g].listed = frame[g].listed
                          /\ frame'[g].readers = IF g = f THEN frame[g].readers + d ELSE frame[g].readers
    BY <1>1 DEF FrameType
  <1>10. \A g \in Frames : /\ frame'[g].readers = Cardinality(Latching(g)') + abandoned[g]
                           /\ frame'[g].pins = Cardinality(Pinning(g)') + Kept(g) + abandoned[g]
                           /\ frame'[g].listed => frame'[g].pins = 0
    BY <1>5, <1>8, <1>9, PinsOf
  <1>11. \A g \in Frames : Cardinality(Latching(g)') \in Nat
    <2>1. d = -1 => Cardinality(Latching(f)) # 0
      <3> SUFFICES ASSUME d = -1 PROVE Latching(f) # {}
        BY HandsFinite, FS_EmptySet
      <3> QED
        BY <1>7, Members
    <2> QED
      BY <1>8, <2>1, PinsOf
  <1>12. frame' \in [Frames -> FrameType]
    <2>1. frame'[f].readers \in Nat /\ frame'[f].readers = frame[f].readers + d
      BY <1>9, <1>10, <1>11, PinsOf
    <2> QED
      BY <1>1, <2>1 DEF FrameType
  <1>13. /\ s.pc \notin {"root", "nullptr", "idle"} /\ s.current \in Frames
         /\ IF s.pc \in {"lock_next", "unlock", "unpin"} THEN s.next \in Frames ELSE s.next = NoFrame
         /\ s.pc = "return" => s.current = f
         /\ search[t].pc # "idle"
    BY <1>2, HandsAt
  <1>14. /\ frame[s.current].mapped /\ frame[s.current].page \in {s.tree, InvalidPage}
         /\ s.next # NoFrame => frame[s.next].mapped /\ frame[s.next].page = InvalidPage
         /\ s.pc = "return" => frame[s.current].page = s.tree
    BY <1>2, <1>13, HandsAt, TreeAssumption
  <1> HIDE DEF s
  <1> QED
    BY <1>2, <1>9, <1>10, <1>12, <1>13, <1>14, MoveInv

\* One hand of a thread comes off a frame and its other hand takes it over.
LEMMA PairSwap ==
  ASSUME NEW A \in SUBSET (Callers \X Hands), NEW B \in SUBSET (Callers \X Hands), IsFiniteSet(A),
         NEW t \in Callers,
         \A u \in Callers \ {t}, h \in Hands : <<u, h>> \in B <=> <<u, h>> \in A,
         <<t, "next">> \in A, <<t, "current">> \notin A,
         <<t, "next">> \notin B, <<t, "current">> \in B
  PROVE  Cardinality(B) = Cardinality(A)
  <1>1. PICK M : M = A \ {<<t, "next">>}
    OBVIOUS
  <1>2. M \in SUBSET (Callers \X Hands) /\ IsFiniteSet(M) /\ Cardinality(M) = Cardinality(A) - 1
    BY <1>1, FS_RemoveElement
  <1>3. \A u \in Callers, h \in Hands : u # t \/ h # "current" => (<<u, h>> \in B <=> <<u, h>> \in M)
    <2> SUFFICES ASSUME NEW u \in Callers, NEW h \in Hands, u # t \/ h # "current"
                 PROVE  <<u, h>> \in B <=> <<u, h>> \in M
      OBVIOUS
    <2>1. CASE u # t
      BY <1>1, <2>1
    <2>2. CASE u = t
      BY <1>1, <2>2 DEF Hands
    <2> QED
      BY <2>1, <2>2
  <1>4. "current" \in Hands /\ <<t, "current">> \notin M
    BY <1>1 DEF Hands
  <1>5. Cardinality(B) = Cardinality(M) + 1
    BY <1>2, <1>3, <1>4, PairCount
  <1> QED
    BY <1>2, <1>5, FS_CardinalityType

\* Unpinning the parent and stepping down.
LEMMA StepInv ==
  ASSUME Inv, NEW t \in Callers, SearchAt(t, "unpin"), UnpinPage(search[t].current), Step(t),
         UNCHANGED <<node_type, begun, found, abandoned>>
  PROVE  Inv'
  <1>1. PICK c \in Frames, n \in Frames : c = search[t].current /\ n = search[t].next
    BY HandsAt DEF SearchAt
  <1> DEFINE s == [pc |-> "test", tree |-> search[t].tree, current |-> n, next |-> NoFrame]
  <1>2. /\ search \in [Callers -> SearchType] /\ search[t] \in SearchType /\ search[t].pc = "unpin"
        /\ frame \in [Frames -> FrameType] /\ NoFrame \notin Frames
    BY HandsAt, TreeAssumption DEF SearchAt
  <1>3. s \in SearchType
    BY <1>2 DEF SearchType
  <1>4. search' = [search EXCEPT ![t] = s]
    BY <1>1, <1>2 DEF Step, SearchType
  <1>5. search'[t] = s /\ \A u \in Callers \ {t} : search'[u] = search[u]
    BY <1>2, <1>4
  <1>6. /\ search[t]["current"] = c /\ search[t]["next"] = n
        /\ search'[t]["current"] = n /\ search'[t]["next"] = NoFrame
        /\ search'[t].pc = "test" /\ search'[t].current = n /\ search'[t].next = NoFrame
    BY <1>1, <1>5
  <1>7. /\ Latched(t, "next") /\ ~Latched(t, "current")
        /\ Latched(t, "next")' /\ Latched(t, "current")'
    BY <1>2, <1>6 DEF Latched
  <1>8. PICK last \in BOOLEAN :
          /\ last = (frame[c].pins = 1)
          /\ frame' = [frame EXCEPT ![c].pins = @ - 1, ![c].listed = last]
    BY <1>1 DEF UnpinPage
  <1>9. "current" \in Hands /\ "next" \in Hands /\ \A h \in Hands : h = "current" \/ h = "next"
    BY DEF Hands
  <1> HIDE DEF s
  <1>10. ASSUME NEW g \in Frames
         PROVE  /\ Pinning(g) \in SUBSET (Callers \X Hands) /\ Pinning(g)' \in SUBSET (Callers \X Hands)
                /\ Latching(g) \in SUBSET (Callers \X Hands) /\ Latching(g)' \in SUBSET (Callers \X Hands)
                /\ IsFiniteSet(Pinning(g)) /\ IsFiniteSet(Latching(g))
                /\ Cardinality(Pinning(g)) \in Nat
                /\ \A u \in Callers \ {t}, h \in Hands :
                     /\ <<u, h>> \in Pinning(g)' <=> <<u, h>> \in Pinning(g)
                     /\ <<u, h>> \in Latching(g)' <=> <<u, h>> \in Latching(g)
                /\ <<t, "current">> \in Pinning(g) <=> c = g
                /\ <<t, "next">> \in Pinning(g) <=> n = g
                /\ <<t, "current">> \in Pinning(g)' <=> n = g
                /\ <<t, "next">> \notin Pinning(g)'
                /\ <<t, "current">> \notin Latching(g)
                /\ <<t, "next">> \in Latching(g) <=> n = g
                /\ <<t, "current">> \in Latching(g)' <=> n = g
                /\ <<t, "next">> \notin Latching(g)'
    <2>1. \A u \in Callers \ {t}, h \in Hands :
            /\ <<u, h>> \in Pinning(g)' <=> <<u, h>> \in Pinning(g)
            /\ <<u, h>> \in Latching(g)' <=> <<u, h>> \in Latching(g)
      BY <1>5, Members DEF Latched
    <2>2. /\ <<t, "current">> \in Pinning(g) <=> c = g
          /\ <<t, "current">> \in Pinning(g)' <=> n = g
          /\ <<t, "current">> \notin Latching(g)
          /\ <<t, "current">> \in Latching(g)' <=> n = g
      BY <1>6, <1>7, <1>9, Members
    <2>3. /\ <<t, "next">> \in Pinning(g) <=> n = g
          /\ <<t, "next">> \notin Pinning(g)'
          /\ <<t, "next">> \in Latching(g) <=> n = g
          /\ <<t, "next">> \notin Latching(g)'
      <3>1. search'[t]["next"] # g
        BY <1>2, <1>6
      <3>2. "next" \in Hands /\ Latched(t, "next") /\ search[t]["next"] = n
        BY <1>6, <1>7, <1>9
      <3> QED
        BY <3>1, <3>2, Members
    <2>4. /\ Pinning(g) \in SUBSET (Callers \X Hands) /\ Pinning(g)' \in SUBSET (Callers \X Hands)
          /\ Latching(g) \in SUBSET (Callers \X Hands) /\ Latching(g)' \in SUBSET (Callers \X Hands)
      BY Pairs
    <2>5. /\ IsFiniteSet(Pinning(g)) /\ IsFiniteSet(Latching(g)) /\ Cardinality(Pinning(g)) \in Nat
      BY HandsFinite
    <2> QED
      BY <2>1, <2>2, <2>3, <2>4, <2>5
  <1>11. ASSUME NEW g \in Frames PROVE Cardinality(Latching(g)') = Cardinality(Latching(g))
    <2>1. CASE g = n
      BY <1>10, <2>1, PairSwap
    <2>2. CASE g # n
      <3>1. \A u \in Callers, h \in Hands : <<u, h>> \in Latching(g)' <=> <<u, h>> \in Latching(g)
        BY <1>9, <1>10, <2>2
      <3>2. Latching(g)' = Latching(g)
        BY <1>10, <3>1, SamePairs
      <3> QED
        BY <3>2
    <2> QED
      BY <2>1, <2>2
  <1>12. ASSUME NEW g \in Frames
         PROVE  Cardinality(Pinning(g)') = IF g = c THEN Cardinality(Pinning(g)) - 1
                                           ELSE Cardinality(Pinning(g))
    <2>1. CASE g = n /\ g # c
      <3>1. Cardinality(Pinning(g)') = Cardinality(Pinning(g))
        BY <1>10, <2>1, PairSwap
      <3> QED
        BY <2>1, <3>1
    <2>2. CASE g = n /\ g = c
      <3>1. \A u \in Callers, h \in Hands : u # t \/ h # "next" =>
              (<<u, h>> \in Pinning(g)' <=> <<u, h>> \in Pinning(g))
        BY <1>9, <1>10, <2>2
      <3>2. <<t, "next">> \notin Pinning(g)' /\ <<t, "next">> \in Pinning(g)
        BY <1>10, <2>2
      <3>3. Cardinality(Pinning(g)') = Cardinality(Pinning(g)) - 1
        BY <1>9, <1>10, <3>1, <3>2, PairCount
      <3> QED
        BY <2>2, <3>3
    <2>3. CASE g # n /\ g = c
      <3>1. \A u \in Callers, h \in Hands : u # t \/ h # "current" =>
              (<<u, h>> \in Pinning(g)' <=> <<u, h>> \in Pinning(g))
        BY <1>9, <1>10, <2>3
      <3>2. <<t, "current">> \notin Pinning(g)' /\ <<t, "current">> \in Pinning(g)
        BY <1>10, <2>3
      <3>3. Cardinality(Pinning(g)') = Cardinality(Pinning(g)) - 1
        BY <1>9, <1>10, <3>1, <3>2, PairCount
      <3> QED
        BY <2>3, <3>3
    <2>4. CASE g # n /\ g # c
      <3>1. \A u \in Callers, h \in Hands : <<u, h>> \in Pinning(g)' <=> <<u, h>> \in Pinning(g)
        BY <1>9, <1>10, <2>4
      <3>2. Pinning(g)' = Pinning(g)
        BY <1>10, <3>1, SamePairs
      <3> QED
        BY <2>4, <3>2
    <2> QED
      BY <2>1, <2>2, <2>3, <2>4
  <1>13. \A g \in Frames : /\ frame'[g].page = frame[g].page /\ frame'[g].mapped = frame[g].mapped
                           /\ frame'[g].readers = frame[g].readers
                           /\ frame'[g].pins = IF g = c THEN frame[g].pins - 1 ELSE frame[g].pins
                           /\ frame'[g].listed = IF g = c THEN last ELSE frame[g].listed
    BY <1>2, <1>8 DEF FrameType
  <1>14. Cardinality(Pinning(c)) # 0
    BY <1>10, FS_EmptySet
  <1>15. \A g \in Frames : /\ frame'[g].readers = Cardinality(Latching(g)') + abandoned[g]
                           /\ frame'[g].pins = Cardinality(Pinning(g)') + Kept(g) + abandoned[g]
                           /\ frame'[g].listed => frame'[g].pins = 0
    <2> SUFFICES ASSUME NEW g \in Frames
                 PROVE  /\ frame'[g].readers = Cardinality(Latching(g)') + abandoned[g]
                        /\ frame'[g].pins = Cardinality(Pinning(g)') + Kept(g) + abandoned[g]
                        /\ frame'[g].listed => frame'[g].pins = 0
      OBVIOUS
    <2>1. /\ frame[g].pins = Cardinality(Pinning(g)) + Kept(g) + abandoned[g] /\ Kept(g) \in Nat /\ abandoned[g] \in Nat
          /\ frame[g].readers = Cardinality(Latching(g)) + abandoned[g] /\ Cardinality(Pinning(g)) \in Nat
          /\ frame[g].listed => frame[g].pins = 0
      BY PinsOf
    <2>2. g = c /\ last => frame[g].pins = 1
      BY <1>8
    <2>3. CASE g = c
      BY <1>11, <1>12, <1>13, <2>1, <2>2, <2>3
    <2>4. CASE g # c
      BY <1>11, <1>12, <1>13, <2>1, <2>4
    <2> QED
      BY <2>3, <2>4
  <1>16. frame' \in [Frames -> FrameType]
    <2>1. frame[c].pins - 1 \in Nat
      BY <1>14, PinsOf
    <2>2. PICK p \in Nat : p = frame[c].pins - 1
      BY <2>1
    <2>3. frame' = [frame EXCEPT ![c].pins = p, ![c].listed = last]
      BY <1>8, <2>2
    <2> QED
      BY <1>2, <2>3 DEF FrameType
  <1>17. /\ s.tree = search[t].tree /\ s.pc = "test" /\ s.current = n /\ s.next = NoFrame
         /\ frame[n].mapped /\ frame[n].page = InvalidPage
    BY <1>1, <1>2, HandsAt DEF s
  <1> QED
    BY <1>2, <1>3, <1>4, <1>13, <1>15, <1>16, <1>17, MoveInv

\* The search returns: the latch is given back, the pin on the leaf is not.
LEMMA ReturnInv == ASSUME Inv, NEW t \in Callers, Return(t) PROVE Inv'
  <1>1. /\ search \in [Callers -> SearchType] /\ search[t] \in SearchType /\ search[t].pc = "return"
        /\ frame \in [Frames -> FrameType] /\ NoFrame \notin Frames
        /\ begun \in 0 .. MaxSearches /\ found \in [Roots -> 0 .. MaxSearches] /\ MaxSearches \in Nat
    BY HandsAt, Types, TreeAssumption DEF Inv, Return, SearchAt
  <1>2. PICK f \in Frames, tree \in Roots : f = search[t].current /\ tree = search[t].tree
    BY <1>1, HandsAt
  <1>3. /\ frame[f].mapped /\ frame[f].page = tree /\ search[t].next = NoFrame
    BY <1>1, <1>2, HandsAt
  <1>4. /\ frame' = [frame EXCEPT ![f].readers = @ - 1]
        /\ found' = [found EXCEPT ![tree] = @ + 1]
        /\ search' = [search EXCEPT ![t] = Idle]
        /\ UNCHANGED <<node_type, begun, abandoned>>
    BY <1>2 DEF Return, RUnlock
  <1>5. Idle \in SearchType
    BY DEF Idle, SearchType, Pages
  <1>6. /\ search' \in [Callers -> SearchType] /\ search'[t] = Idle
        /\ \A u \in Callers \ {t} : search'[u] = search[u]
    BY <1>1, <1>4, <1>5
  <1>7. /\ search[t]["current"] = f /\ search[t]["next"] = NoFrame
        /\ search'[t]["current"] = NoFrame /\ search'[t]["next"] = NoFrame
        /\ search'[t].tree = InvalidPage /\ search'[t].pc = "idle"
        /\ search'[t].current = NoFrame /\ search'[t].next = NoFrame
    BY <1>2, <1>3, <1>6 DEF Idle
  <1>8. "current" \in Hands /\ \A h \in Hands \ {"current"} : h = "next"
    BY DEF Hands
  <1>9. ASSUME NEW g \in Frames
        PROVE  /\ Cardinality(Pinning(g)') = IF g = f THEN Cardinality(Pinning(g)) - 1
                                             ELSE Cardinality(Pinning(g))
               /\ Cardinality(Latching(g)') = IF g = f THEN Cardinality(Latching(g)) - 1
                                              ELSE Cardinality(Latching(g))
    <2>1. g # NoFrame /\ \A h \in Hands \ {"current"} : search'[t][h] # g /\ search[t][h] # g
      BY <1>1, <1>7, <1>8
    <2>2. Latched(t, "current")
      BY <1>1 DEF Latched
    <2>3. CASE g = f
      <3>1. search'[t]["current"] # g /\ search[t]["current"] = g
        BY <1>7, <2>1, <2>3
      <3>2. Cardinality(Pinning(g)') = Cardinality(Pinning(g)) - 1
        BY <1>6, <1>8, <2>1, <3>1, PinningStep
      <3>3. Cardinality(Latching(g)') = Cardinality(Latching(g)) - 1
        BY <1>6, <1>8, <2>1, <2>2, <3>1, LatchingStep
      <3> QED
        BY <2>3, <3>2, <3>3
    <2>4. CASE g # f
      <3>1. search'[t]["current"] # g /\ search[t]["current"] # g
        BY <1>7, <2>1, <2>4
      <3>2. Pinning(g)' = Pinning(g)
        BY <1>6, <1>8, <2>1, <3>1, PinningStep
      <3>3. Latching(g)' = Latching(g)
        BY <1>6, <1>8, <2>1, <3>1, LatchingStep
      <3> QED
        BY <2>4, <3>2, <3>3
    <2> QED
      BY <2>3, <2>4
  <1>10. \A g \in Frames : /\ frame'[g].page = frame[g].page /\ frame'[g].mapped = frame[g].mapped
                           /\ frame'[g].pins = frame[g].pins /\ frame'[g].listed = frame[g].listed
                           /\ frame'[g].readers = IF g = f THEN frame[g].readers - 1 ELSE frame[g].readers
    BY <1>1, <1>4 DEF FrameType
  <1>11. Cardinality(Latching(f)) # 0
    <2>1. <<t, "current">> \in Latching(f)
      BY <1>1, <1>7, <1>8, Members DEF Latched
    <2> QED
      BY <2>1, HandsFinite, FS_EmptySet
  <1>12. \A i \in Roots : found'[i] = IF i = tree THEN found[i] + 1 ELSE found[i]
    BY <1>1, <1>4
  <1>13. \A g \in Frames : Kept(g)' = IF g = f THEN Kept(g) + 1 ELSE Kept(g)
    <2> SUFFICES ASSUME NEW g \in Frames PROVE Kept(g)' = IF g = f THEN Kept(g) + 1 ELSE Kept(g)
      OBVIOUS
    <2>1. CASE g = f
      BY <1>3, <1>10, <1>12, <2>1 DEF Kept
    <2>2. CASE g # f
      <3>1. frame[g].mapped => frame[g].page # tree
        BY <1>3, <2>2 DEF Inv, PoolInv
      <3> QED
        BY <1>10, <1>12, <2>2, <3>1 DEF Kept
    <2> QED
      BY <2>1, <2>2
  <1>14. \A g \in Frames : /\ frame'[g].readers = Cardinality(Latching(g)') + abandoned[g]
                           /\ frame'[g].pins = Cardinality(Pinning(g)') + Kept(g)' + abandoned[g]
    <2> SUFFICES ASSUME NEW g \in Frames
                 PROVE  /\ frame'[g].readers = Cardinality(Latching(g)') + abandoned[g]
                        /\ frame'[g].pins = Cardinality(Pinning(g)') + Kept(g)' + abandoned[g]
      OBVIOUS
    <2>1. /\ frame[g].pins = Cardinality(Pinning(g)) + Kept(g) + abandoned[g] /\ Kept(g) \in Nat /\ abandoned[g] \in Nat
          /\ frame[g].readers = Cardinality(Latching(g)) + abandoned[g] /\ Cardinality(Pinning(g)) \in Nat
          /\ Cardinality(Latching(g)) \in Nat
      BY PinsOf
    <2> QED
      BY <1>9, <1>10, <1>13, <2>1
  <1>15. LatchesBalanced' /\ PinsInv'
    BY <1>4, <1>10, <1>14, PinsOf DEF LatchesBalanced, PinsInv
  <1>16. frame' \in [Frames -> FrameType]
    <2>1. frame[f].readers - 1 \in Nat
      BY <1>11, PinsOf
    <2> QED
      BY <1>1, <1>4, <2>1 DEF FrameType
  <1>17. FoundInv'
    <2> SUFFICES ASSUME NEW i \in Roots
                 PROVE  /\ found'[i] > 0 => InPool(i)' # {}
                        /\ found'[i] + Cardinality(Running(i)') <= begun
      BY <1>4 DEF FoundInv, Running
    <2>1. InPool(i)' = InPool(i)
      BY <1>10 DEF InPool
    <2>2. /\ found[i] > 0 => InPool(i) # {}
          /\ found[i] + Cardinality(Running(i)) <= begun
          /\ found[i] \in Nat /\ Cardinality(Running(i)) \in Nat /\ IsFiniteSet(Running(i))
      BY RunningBound
    <2>3. CASE i = tree
      <3>1. f \in InPool(i)
        BY <1>3, <2>3 DEF InPool
      <3>2. Running(i)' = Running(i) \ {t} /\ t \in Running(i)
        BY <1>2, <1>6, <1>7, <2>3, TreeAssumption DEF Running, Roots
      <3>3. Cardinality(Running(i) \ {t}) = Cardinality(Running(i)) - 1
        BY <2>2, <3>2, FS_RemoveElement
      <3> QED
        BY <1>1, <1>12, <2>1, <2>2, <2>3, <3>1, <3>2, <3>3
    <2>4. CASE i # tree
      <3>1. Running(i)' = Running(i)
        BY <1>2, <1>6, <1>7, <2>4, TreeAssumption DEF Running, Roots
      <3> QED
        BY <1>12, <2>1, <2>2, <2>4, <3>1
    <2> QED
      BY <2>3, <2>4
  <1>18. TreeTypeOK'
    <2>1. found[tree] + 1 \in 0 .. MaxSearches
      <3>1. /\ found[tree] + Cardinality(Running(tree)) <= begun /\ found[tree] \in Nat
            /\ Cardinality(Running(tree)) \in Nat /\ IsFiniteSet(Running(tree))
        BY RunningBound
      <3>2. Cardinality(Running(tree)) # 0
        BY <1>2, <3>1, FS_EmptySet DEF Running
      <3> QED
        BY <1>1, <3>1, <3>2
    <2>2. found' \in [Roots -> 0 .. MaxSearches]
      BY <1>1, <1>4, <2>1
    <2>3. (node_type \in [Pages -> NodeTypes])' /\ (begun \in 0 .. MaxSearches)' /\ (abandoned \in [Frames -> Nat])'
      BY <1>1, <1>4, Types DEF Inv
    <2> QED
      BY <1>6, <1>16, <2>2, <2>3, TypesNext
  <1>19. PoolInv'
    BY <1>4, <1>10 DEF Inv, PoolInv
  <1>20. HandsInv'
    BY <1>6, <1>7 DEF Inv, HandsInv
  <1>21. HeldInv'
    <2> SUFFICES ASSUME NEW u \in Callers
                 PROVE  LET r == search'[u] IN
                        /\ r.current # NoFrame => /\ frame'[r.current].mapped
                                                  /\ frame'[r.current].page \in {r.tree, InvalidPage}
                        /\ r.next # NoFrame => frame'[r.next].mapped /\ frame'[r.next].page = InvalidPage
                        /\ r.pc = "return" => frame'[r.current].page = r.tree
      BY DEF HeldInv
    <2>1. CASE u = t
      BY <1>7, <2>1
    <2>2. CASE u # t
      <3>1. /\ search[u].current \in Frames \cup {NoFrame} /\ search[u].next \in Frames \cup {NoFrame}
            /\ search[u].pc = "return" => search[u].current \in Frames
        BY <1>1 DEF SearchType, Inv, HandsInv
      <3>2. /\ search[u].current # NoFrame => /\ frame[search[u].current].mapped
                                              /\ frame[search[u].current].page \in {search[u].tree, InvalidPage}
            /\ search[u].next # NoFrame => frame[search[u].next].mapped /\ frame[search[u].next].page = InvalidPage
            /\ search[u].pc = "return" => frame[search[u].current].page = search[u].tree
        BY HandsAt
      <3> QED
        BY <1>6, <1>10, <2>2, <3>1, <3>2
    <2> QED
      BY <2>1, <2>2
  <1> QED
    BY <1>15, <1>17, <1>18, <1>19, <1>20, <1>21 DEF Inv

\* What FetchPage puts in hand k, of the root page or of the page below.
Fetching(t, page, k, pc) ==
  \/ page = search[t].tree /\ k = "current" /\ pc = "lock_root" /\ search[t].pc = "root"
  \/ page = InvalidPage /\ k = "next" /\ pc = "lock_next" /\ search[t].pc = "test"

Takes(t, k, f, pc) == search' = [search EXCEPT ![t][k] = f, ![t].pc = pc]

\* The searching thread after it got frame f.
LEMMA FetchedHand ==
  ASSUME Inv, NEW t \in Callers, NEW page, NEW k \in Hands, NEW pc, Fetching(t, page, k, pc),
         NEW f \in Frames, Takes(t, k, f, pc)
  PROVE  \E s \in SearchType :
           /\ search' = [search EXCEPT ![t] = s] /\ s.tree = search[t].tree /\ s.pc = pc
           /\ k = "current" => s.current = f /\ s.next = NoFrame
           /\ k = "next" => s.current = search[t].current /\ s.next = f
  <1>1. /\ search \in [Callers -> SearchType] /\ search[t] \in SearchType /\ NoFrame \notin Frames
        /\ search[t].next = NoFrame
        /\ k = "current" => search[t].current = NoFrame
        /\ k = "next" => search[t].current \in Frames
    BY HandsAt, TreeAssumption DEF Fetching
  <1>2. CASE k = "current"
    <2> DEFINE r == [search[t] EXCEPT !.current = f, !.pc = pc]
    <2>1. r \in SearchType /\ r.tree = search[t].tree /\ r.pc = pc /\ r.current = f /\ r.next = NoFrame
      BY <1>1, <1>2 DEF SearchType, Fetching
    <2>2. search' = [search EXCEPT ![t] = r]
      BY <1>1, <1>2 DEF SearchType, Takes
    <2> QED
      BY <1>2, <2>1, <2>2
  <1>3. CASE k = "next"
    <2> DEFINE r == [search[t] EXCEPT !.next = f, !.pc = pc]
    <2>1. /\ r \in SearchType /\ r.tree = search[t].tree /\ r.pc = pc
          /\ r.current = search[t].current /\ r.next = f
      BY <1>1, <1>3 DEF SearchType, Fetching
    <2>2. search' = [search EXCEPT ![t] = r]
      BY <1>1, <1>3 DEF SearchType, Takes
    <2> QED
      BY <1>3, <2>1, <2>2
  <1> QED
    BY <1>2, <1>3 DEF Hands

\* Its pins and latches.
LEMMA FetchedCounts ==
  ASSUME Inv, NEW t \in Callers, NEW page, NEW k \in Hands, NEW pc, Fetching(t, page, k, pc),
         NEW f \in Frames, Takes(t, k, f, pc)
  PROVE  \A g \in Frames : /\ Cardinality(Latching(g)') = Cardinality(Latching(g))
                           /\ Cardinality(Pinning(g)') =
                                IF g = f THEN Cardinality(Pinning(g)) + 1 ELSE Cardinality(Pinning(g))
  <1>1. /\ search \in [Callers -> SearchType] /\ search[t] \in SearchType /\ NoFrame \notin Frames
        /\ search[t].next = NoFrame
        /\ k = "current" => search[t].current = NoFrame
        /\ k = "next" => search[t].current \in Frames
    BY HandsAt, TreeAssumption DEF Fetching
  <1>2. PICK r \in SearchType :
          /\ search' = [search EXCEPT ![t] = r] /\ r.tree = search[t].tree /\ r.pc = pc
          /\ k = "current" => r.current = f /\ r.next = NoFrame
          /\ k = "next" => r.current = search[t].current /\ r.next = f
    BY FetchedHand
  <1>3. search'[t] = r /\ \A u \in Callers \ {t} : search'[u] = search[u]
    BY <1>1, <1>2
  <1>4. /\ search'[t][k] = f /\ search[t][k] = NoFrame
        /\ \A h \in Hands \ {k} : search'[t][h] = search[t][h]
    <2>1. CASE k = "current"
      BY <1>1, <1>2, <1>3, <2>1 DEF Hands
    <2>2. CASE k = "next"
      BY <1>1, <1>2, <1>3, <2>2 DEF Hands
    <2> QED
      BY <2>1, <2>2 DEF Hands
  <1>5. /\ ~Latched(t, k)'
        /\ \A h \in Hands \ {k} : search[t][h] # NoFrame => (Latched(t, h)' <=> Latched(t, h))
    <2>1. search'[t].pc = pc
      BY <1>2, <1>3
    <2>2. CASE k = "current"
      BY <1>1, <2>1, <2>2 DEF Latched, Hands, Fetching
    <2>3. CASE k = "next"
      BY <2>1, <2>3 DEF Latched, Hands, Fetching
    <2> QED
      BY <2>2, <2>3 DEF Hands
  <1>6. ASSUME NEW g \in Frames PROVE Latching(g)' = Latching(g)
    <2>1. g # NoFrame /\ search[t][k] # g
      BY <1>1, <1>4
    <2>2. \A h \in Hands \ {k} : search'[t][h] = g /\ Latched(t, h)' <=> search[t][h] = g /\ Latched(t, h)
      BY <1>4, <1>5, <2>1
    <2> QED
      BY <1>3, <1>5, <2>1, <2>2, LatchingStep
  <1>7. ASSUME NEW g \in Frames \ {f} PROVE Pinning(g)' = Pinning(g)
    <2>1. search[t][k] # g /\ search'[t][k] # g
      BY <1>1, <1>4
    <2>2. \A h \in Hands \ {k} : search'[t][h] = g <=> search[t][h] = g
      BY <1>4
    <2> QED
      BY <1>3, <2>1, <2>2, PinningStep
  <1>8. Cardinality(Pinning(f)') = Cardinality(Pinning(f)) + 1
    <2>1. search[t][k] # f /\ search'[t][k] = f
      BY <1>1, <1>4
    <2>2. \A h \in Hands \ {k} : search'[t][h] = f <=> search[t][h] = f
      BY <1>4
    <2> QED
      BY <1>3, <2>1, <2>2, PinningStep
  <1>9. \A g \in Frames : Cardinality(Pinning(g)') =
          IF g = f THEN Cardinality(Pinning(g)) + 1 ELSE Cardinality(Pinning(g))
    BY <1>7, <1>8
  <1> QED
    BY <1>6, <1>9

\* FetchPage of a page in the pool.
LEMMA FetchHitInv ==
  ASSUME Inv, NEW t \in Callers, NEW page, NEW k \in Hands, NEW pc, Fetching(t, page, k, pc),
         NEW f \in Frames, f \in InPool(page), frame' = [frame EXCEPT ![f].listed = FALSE, ![f].pins = @ + 1],
         Takes(t, k, f, pc), UNCHANGED <<node_type, begun, found, abandoned>>
  PROVE  Inv'
  <1>1. f \in Frames /\ frame[f].mapped /\ frame[f].page = page /\ frame \in [Frames -> FrameType]
    BY HandsAt DEF InPool
  <1>2. /\ k = "next" => search[t].current \in Frames
        /\ \A g \in Frames : /\ Cardinality(Latching(g)') = Cardinality(Latching(g))
                             /\ Cardinality(Pinning(g)') =
                                  IF g = f THEN Cardinality(Pinning(g)) + 1 ELSE Cardinality(Pinning(g))
    <2>1. k = "next" => search[t].current \in Frames
      BY HandsAt DEF Fetching
    <2> QED
      BY <2>1, FetchedCounts
  <1>3. PICK s \in SearchType :
          /\ search' = [search EXCEPT ![t] = s] /\ s.tree = search[t].tree /\ s.pc = pc
          /\ k = "current" => s.current = f /\ s.next = NoFrame
          /\ k = "next" => s.current = search[t].current /\ s.next = f
    BY <1>1, FetchedHand
  <1>4. /\ frame' \in [Frames -> FrameType]
        /\ \A g \in Frames : /\ frame'[g].page = frame[g].page /\ frame'[g].mapped = frame[g].mapped
                             /\ frame'[g].readers = frame[g].readers
                             /\ frame'[g].pins = IF g = f THEN frame[g].pins + 1 ELSE frame[g].pins
                             /\ frame'[g].listed = IF g = f THEN FALSE ELSE frame[g].listed
    BY <1>1 DEF FrameType
  <1>5. \A g \in Frames : /\ frame'[g].readers = Cardinality(Latching(g)') + abandoned[g]
                          /\ frame'[g].pins = Cardinality(Pinning(g)') + Kept(g) + abandoned[g]
                          /\ frame'[g].listed => frame'[g].pins = 0
    <2> SUFFICES ASSUME NEW g \in Frames
                 PROVE  /\ frame'[g].readers = Cardinality(Latching(g)') + abandoned[g]
                        /\ frame'[g].pins = Cardinality(Pinning(g)') + Kept(g) + abandoned[g]
                        /\ frame'[g].listed => frame'[g].pins = 0
      OBVIOUS
    <2>1. /\ frame[g].pins = Cardinality(Pinning(g)) + Kept(g) + abandoned[g] /\ Kept(g) \in Nat /\ abandoned[g] \in Nat
          /\ frame[g].readers = Cardinality(Latching(g)) + abandoned[g] /\ Cardinality(Pinning(g)) \in Nat
          /\ frame[g].listed => frame[g].pins = 0
      BY PinsOf
    <2>2. CASE g = f
      BY <1>2, <1>4, <2>1, <2>2
    <2>3. CASE g # f
      BY <1>2, <1>4, <2>1, <2>3
    <2> QED
      BY <2>2, <2>3
  <1>6. /\ s.pc \in {"lock_root", "lock_next"} /\ search[t].pc # "idle" /\ s.current \in Frames
        /\ IF s.pc = "lock_next" THEN s.next \in Frames ELSE s.next = NoFrame
    BY <1>1, <1>2, <1>3 DEF Fetching, Hands
  <1>7. /\ frame[s.current].mapped /\ frame[s.current].page \in {s.tree, InvalidPage}
        /\ s.next # NoFrame => frame[s.next].mapped /\ frame[s.next].page = InvalidPage
    <2>1. CASE k = "current"
      BY <1>1, <1>3, <2>1 DEF Fetching
    <2>2. CASE k = "next"
      BY <1>1, <1>2, <1>3, <2>2, HandsAt, TreeAssumption DEF Fetching
    <2> QED
      BY <2>1, <2>2 DEF Hands
  <1> QED
    BY <1>3, <1>4, <1>5, <1>6, <1>7, MoveInv

\* Nobody stands on a frame that may be evicted.
LEMMA TakeableFree ==
  ASSUME Inv, NEW f \in Takeable
  PROVE  /\ f \in Frames /\ Cardinality(Pinning(f)) = 0 /\ Cardinality(Latching(f)) = 0
         /\ Kept(f) = 0 /\ abandoned[f] = 0 /\ frame[f].readers = 0 /\ frame[f].pins = 0
         /\ \A u \in Callers : search[u].current # f /\ search[u].next # f
  <1>1. f \in Frames /\ frame[f].pins = 0
    BY PinsOf DEF Takeable
  <1>2. /\ frame[f].pins = Cardinality(Pinning(f)) + Kept(f) + abandoned[f] /\ Kept(f) \in Nat /\ abandoned[f] \in Nat
        /\ frame[f].readers = Cardinality(Latching(f)) + abandoned[f]
        /\ Cardinality(Pinning(f)) \in Nat /\ Cardinality(Latching(f)) \in Nat
    BY <1>1, PinsOf
  <1>3. Cardinality(Pinning(f)) = 0 /\ Kept(f) = 0 /\ abandoned[f] = 0
    BY <1>1, <1>2
  <1>4. Pinning(f) = {}
    BY <1>3, HandsFinite, FS_EmptySet
  <1>5. Latching(f) = {} /\ Cardinality(Latching(f)) = 0
    BY <1>4, Pairs, FS_EmptySet
  <1>6. \A u \in Callers, h \in Hands : search[u][h] # f
    BY <1>4, Members
  <1>7. \A u \in Callers : search[u]["current"] # f /\ search[u]["next"] # f
    BY <1>6 DEF Hands
  <1> QED
    BY <1>1, <1>2, <1>3, <1>5, <1>7

\* FetchPage of a page that takes the place of another.
LEMMA FetchEvictInv ==
  ASSUME Inv, NEW t \in Callers, NEW page, NEW k \in Hands, NEW pc, Fetching(t, page, k, pc),
         NEW f \in Frames, f \in Takeable, InPool(page) = {},
         frame' = [frame EXCEPT ![f] = [@ EXCEPT !.page = page, !.mapped = TRUE, !.listed = FALSE, !.pins = 1]],
         Takes(t, k, f, pc), UNCHANGED <<node_type, begun, found, abandoned>>
  PROVE  Inv'
  <1>1. /\ search \in [Callers -> SearchType] /\ search[t] \in SearchType /\ NoFrame \notin Frames
        /\ frame \in [Frames -> FrameType] /\ page \in Pages
        /\ search[t].tree \in Roots /\ search[t].pc # "idle"
        /\ k = "current" => page = search[t].tree /\ pc = "lock_root"
        /\ k = "next" => page = InvalidPage /\ pc = "lock_next" /\ search[t].current \in Frames
    BY HandsAt, TreeAssumption DEF Fetching, Pages
  <1>2. PICK s \in SearchType :
          /\ search' = [search EXCEPT ![t] = s] /\ s.tree = search[t].tree /\ s.pc = pc
          /\ k = "current" => s.current = f /\ s.next = NoFrame
          /\ k = "next" => s.current = search[t].current /\ s.next = f
    BY FetchedHand
  <1>3. /\ search' \in [Callers -> SearchType] /\ search'[t] = s
        /\ \A u \in Callers \ {t} : search'[u] = search[u]
    BY <1>1, <1>2
  <1>4. /\ Cardinality(Pinning(f)) = 0 /\ Cardinality(Latching(f)) = 0 /\ Kept(f) = 0
        /\ abandoned[f] = 0 /\ frame[f].readers = 0
        /\ \A u \in Callers : search[u].current # f /\ search[u].next # f
    BY TakeableFree
  <1>5. /\ frame' \in [Frames -> FrameType]
        /\ frame'[f].page = page /\ frame'[f].mapped /\ frame'[f].pins = 1 /\ frame'[f].readers = 0
        /\ ~frame'[f].listed
        /\ \A g \in Frames \ {f} : frame'[g] = frame[g]
    BY <1>1, <1>4 DEF FrameType
  <1>6. page \in Roots => found[page] = 0
    BY RunningBound
  <1>7. /\ Kept(f)' = 0 /\ \A g \in Frames \ {f} : Kept(g)' = Kept(g)
    BY <1>5, <1>6 DEF Kept
  <1>8. \A g \in Frames : /\ frame'[g].readers = Cardinality(Latching(g)') + abandoned[g]
                          /\ frame'[g].pins = Cardinality(Pinning(g)') + Kept(g)' + abandoned[g]
    <2> SUFFICES ASSUME NEW g \in Frames
                 PROVE  /\ frame'[g].readers = Cardinality(Latching(g)') + abandoned[g]
                        /\ frame'[g].pins = Cardinality(Pinning(g)') + Kept(g)' + abandoned[g]
      OBVIOUS
    <2>1. /\ Cardinality(Latching(g)') = Cardinality(Latching(g))
          /\ Cardinality(Pinning(g)') =
               IF g = f THEN Cardinality(Pinning(g)) + 1 ELSE Cardinality(Pinning(g))
      BY FetchedCounts
    <2>2. CASE g = f
      BY <1>4, <1>5, <1>7, <2>1, <2>2
    <2>3. CASE g # f
      BY <1>5, <1>7, <2>1, <2>3, PinsOf
    <2> QED
      BY <2>2, <2>3
  <1>9. LatchesBalanced' /\ PinsInv'
    BY <1>5, <1>8, PinsOf DEF LatchesBalanced, PinsInv
  <1>10. TreeTypeOK'
    BY <1>3, <1>5, Types, TypesNext DEF Inv
  <1>11. PoolInv'
    <2>1. \A g \in Frames : frame[g].mapped => frame[g].page # page
      BY DEF InPool
    <2>2. /\ node_type[InvalidPage] = "INVALID"
          /\ \A g, h \in Frames :
               frame[g].mapped /\ frame[h].mapped /\ frame[g].page = frame[h].page => g = h
      BY DEF Inv, PoolInv
    <2>3. \A g, h \in Frames :
            frame'[g].mapped /\ frame'[h].mapped /\ frame'[g].page = frame'[h].page => g = h
      BY <1>5, <2>1, <2>2
    <2> QED
      BY <2>2, <2>3 DEF PoolInv
  <1>12. HandsInv'
    <2> SUFFICES ASSUME NEW u \in Callers
                 PROVE  LET r == search'[u] IN
                        /\ r.pc = "idle" => r.tree = InvalidPage
                        /\ r.pc # "idle" => r.tree \in Roots
                        /\ r.pc \in {"idle", "root"} => r.current = NoFrame
                        /\ r.pc \notin {"idle", "root", "nullptr"} => r.current \in Frames
                        /\ r.pc \in {"lock_next", "unlock", "unpin"} => r.next \in Frames
                        /\ r.pc \notin {"lock_next", "unlock", "unpin"} => r.next = NoFrame
      BY DEF HandsInv
    <2>1. CASE u = t
      BY <1>1, <1>2, <1>3, <2>1 DEF Hands
    <2>2. CASE u # t
      BY <1>3, <2>2 DEF Inv, HandsInv
    <2> QED
      BY <2>1, <2>2
  <1>13. HeldInv'
    <2> SUFFICES ASSUME NEW u \in Callers
                 PROVE  LET r == search'[u] IN
                        /\ r.current # NoFrame => /\ frame'[r.current].mapped
                                                  /\ frame'[r.current].page \in {r.tree, InvalidPage}
                        /\ r.next # NoFrame => frame'[r.next].mapped /\ frame'[r.next].page = InvalidPage
                        /\ r.pc = "return" => frame'[r.current].page = r.tree
      BY DEF HeldInv
    <2>1. CASE u = t
      <3>1. CASE k = "current"
        BY <1>1, <1>2, <1>3, <1>5, <2>1, <3>1
      <3>2. CASE k = "next"
        <4>1. /\ frame'[search[t].current] = frame[search[t].current]
              /\ frame[search[t].current].mapped
              /\ frame[search[t].current].page \in {search[t].tree, InvalidPage}
          <5>1. search[t].current \in Frames \ {f} /\ search[t].current # NoFrame
            BY <1>1, <1>4, <3>2
          <5> QED
            BY <1>5, <5>1, HandsAt
        <4> QED
          BY <1>1, <1>2, <1>3, <1>5, <2>1, <3>2, <4>1
      <3> QED
        BY <3>1, <3>2 DEF Hands
    <2>2. CASE u # t
      <3>1. /\ search[u].current \in Frames \cup {NoFrame} /\ search[u].next \in Frames \cup {NoFrame}
            /\ search[u].pc = "return" => search[u].current \in Frames
            /\ search[u].current # f /\ search[u].next # f
        BY <1>1, <1>4 DEF SearchType, Inv, HandsInv
      <3>2. /\ search[u].current # NoFrame => frame'[search[u].current] = frame[search[u].current]
            /\ search[u].next # NoFrame => frame'[search[u].next] = frame[search[u].next]
            /\ search[u].pc = "return" => frame'[search[u].current] = frame[search[u].current]
        BY <1>5, <3>1
      <3>3. /\ search[u].current # NoFrame => /\ frame[search[u].current].mapped
                                              /\ frame[search[u].current].page \in {search[u].tree, InvalidPage}
            /\ search[u].next # NoFrame => frame[search[u].next].mapped /\ frame[search[u].next].page = InvalidPage
            /\ search[u].pc = "return" => frame[search[u].current].page = search[u].tree
        BY HandsAt
      <3> QED
        BY <1>3, <2>2, <3>2, <3>3
    <2> QED
      BY <2>1, <2>2
  <1>14. FoundInv'
    <2> SUFFICES ASSUME NEW i \in Roots
                 PROVE  /\ found[i] > 0 => InPool(i)' # {}
                        /\ found[i] + Cardinality(Running(i)') <= begun
      BY DEF FoundInv, Running
    <2>1. /\ found[i] > 0 => InPool(i) # {}
          /\ found[i] + Cardinality(Running(i)) <= begun
          /\ found[i] \in Nat
      BY RunningBound
    <2>2. Running(i)' = Running(i)
      BY <1>2, <1>3 DEF Running
    <2>3. ASSUME found[i] > 0 PROVE InPool(i)' # {}
      <3>1. PICK g \in Frames : frame[g].mapped /\ frame[g].page = i
        BY <2>1, <2>3 DEF InPool
      <3>2. Kept(g) = found[i]
        BY <3>1 DEF Kept
      <3>3. g # f
        BY <1>4, <2>3, <3>2
      <3>4. g \in InPool(i)'
        BY <1>5, <3>1, <3>3 DEF InPool
      <3> QED
        BY <3>4
    <2> QED
      BY <2>1, <2>2, <2>3
  <1> QED
    BY <1>9, <1>10, <1>11, <1>12, <1>13, <1>14 DEF Inv

\* FetchPage when every frame is pinned: the search stops on a nullptr.
LEMMA FetchNullInv ==
  ASSUME Inv, NEW t \in Callers, search[t].pc \in {"root", "test"}, SearchGoto(t, "nullptr"),
         UNCHANGED <<node_type, frame, begun, found, abandoned>>
  PROVE  Inv'
  <1> DEFINE s == [search[t] EXCEPT !.pc = "nullptr"]
  <1>1. /\ search \in [Callers -> SearchType] /\ search[t] \in SearchType /\ search[t].next = NoFrame
        /\ frame \in [Frames -> FrameType]
    BY HandsAt
  <1>2. /\ search' = [search EXCEPT ![t] = s] /\ s \in SearchType /\ s.pc = "nullptr"
        /\ s.tree = search[t].tree /\ s.current = search[t].current /\ s.next = search[t].next
    BY <1>1 DEF SearchGoto, SearchType
  <1>3. search'[t] = s /\ \A u \in Callers \ {t} : search'[u] = search[u]
    BY <1>1, <1>2
  <1>4. \A h \in Hands : search'[t][h] = search[t][h] /\ (Latched(t, h)' <=> Latched(t, h))
    BY <1>2, <1>3 DEF Hands, Latched
  <1>5. "current" \in Hands
    BY DEF Hands
  <1>6. \A g \in Frames : Pinning(g)' = Pinning(g)
    BY <1>3, <1>4, <1>5, PinningStep
  <1>7. \A g \in Frames : Latching(g)' = Latching(g)
    BY <1>3, <1>4, <1>5, LatchingStep
  <1>8. \A g \in Frames : /\ frame'[g].readers = Cardinality(Latching(g)') + abandoned[g]
                          /\ frame'[g].pins = Cardinality(Pinning(g)') + Kept(g) + abandoned[g]
                          /\ frame'[g].listed => frame'[g].pins = 0
    BY <1>6, <1>7, PinsOf
  <1>9. /\ search[t].current # NoFrame => /\ frame[search[t].current].mapped
                                         /\ frame[search[t].current].page \in {search[t].tree, InvalidPage}
        /\ search[t].pc # "idle" /\ frame' \in [Frames -> FrameType]
        /\ \A g \in Frames : frame'[g].page = frame[g].page /\ frame'[g].mapped = frame[g].mapped
    BY <1>1, HandsAt
  <1> HIDE DEF s
  <1> QED
    BY <1>1, <1>2, <1>8, <1>9, MoveInv

LEMMA FetchInv ==
  ASSUME Inv, NEW t \in Callers, NEW page, NEW k \in Hands, NEW pc, Fetching(t, page, k, pc),
         FetchPage(t, page, k, pc), UNCHANGED <<node_type, begun, found, abandoned>>
  PROVE  Inv'
  <1>1. CASE \E f \in InPool(page) : /\ frame' = [frame EXCEPT ![f].listed = FALSE, ![f].pins = @ + 1]
                                     /\ search' = [search EXCEPT ![t][k] = f, ![t].pc = pc]
    <2>1. PICK f \in InPool(page) : /\ frame' = [frame EXCEPT ![f].listed = FALSE, ![f].pins = @ + 1]
                                    /\ Takes(t, k, f, pc)
      BY <1>1 DEF Takes
    <2>2. f \in Frames
      BY DEF InPool
    <2> QED
      BY <2>1, <2>2, FetchHitInv
  <1>2. CASE /\ InPool(page) = {}
             /\ \E f \in Takeable :
                  /\ frame' = [frame EXCEPT ![f] = [@ EXCEPT !.page = page, !.mapped = TRUE, !.listed = FALSE, !.pins = 1]]
                  /\ search' = [search EXCEPT ![t][k] = f, ![t].pc = pc]
    <2>1. PICK f \in Takeable :
            /\ frame' = [frame EXCEPT ![f] = [@ EXCEPT !.page = page, !.mapped = TRUE, !.listed = FALSE, !.pins = 1]]
            /\ Takes(t, k, f, pc)
      BY <1>2 DEF Takes
    <2>2. f \in Frames
      BY DEF Takeable
    <2> QED
      BY <1>2, <2>1, <2>2, FetchEvictInv
  <1>3. CASE SearchGoto(t, "nullptr") /\ UNCHANGED frame
    <2>1. search[t].pc \in {"root", "test"}
      BY DEF Fetching
    <2> QED
      BY <1>3, <2>1, FetchNullInv
  <1> QED
    BY <1>1, <1>2, <1>3 DEF FetchPage

LEMMA FetchRootInv == ASSUME Inv, NEW t \in Callers, FetchRoot(t) PROVE Inv'
  <1>1. search[t].pc = "root" /\ UNCHANGED <<node_type, begun, found, abandoned>>
    BY DEF FetchRoot, SearchAt
  <1>2. Root(search[t].tree) = search[t].tree
    BY <1>1, HandsAt DEF Root, Roots
  <1>3. FetchPage(t, search[t].tree, "current", "lock_root")
    BY <1>2 DEF FetchRoot
  <1>4. Fetching(t, search[t].tree, "current", "lock_root") /\ "current" \in Hands
    BY <1>1 DEF Fetching, Hands
  <1> QED
    BY <1>1, <1>3, <1>4, FetchInv

LEMMA FetchNextInv == ASSUME Inv, NEW t \in Callers, FetchNext(t) PROVE Inv'
  <1>1. /\ UNCHANGED <<node_type, begun, found, abandoned>>
        /\ FetchPage(t, InvalidPage, "next", "lock_next")
    BY DEF FetchNext
  <1>2. Fetching(t, InvalidPage, "next", "lock_next") /\ "next" \in Hands
    BY DEF Fetching, Hands, FetchNext, SearchAt
  <1> QED
    BY <1>1, <1>2, FetchInv

\* An exception of FetchPage ends the search: the frame FetchPage had taken is
\* on no list any more, and what the search stood on stays as it was.
LEMMA ThrowInv ==
  ASSUME Inv, NEW t \in Callers, NEW f \in Takeable, NEW m \in {FALSE, frame[f].mapped},
         frame' = [frame EXCEPT ![f] = [@ EXCEPT !.listed = FALSE, !.mapped = m]],
         search' = [search EXCEPT ![t] = Idle], UNCHANGED <<node_type, begun, found>>,
         \/ search[t].pc = "root" /\ UNCHANGED abandoned
         \/ search[t].pc = "test" /\ abandoned' = [abandoned EXCEPT ![search[t].current] = @ + 1]
  PROVE  Inv'
  <1>1. /\ search \in [Callers -> SearchType] /\ search[t] \in SearchType /\ NoFrame \notin Frames
        /\ frame \in [Frames -> FrameType] /\ abandoned \in [Frames -> Nat] /\ f \in Frames
    BY HandsAt, Types, TreeAssumption DEF Inv, Takeable
  <1>2. PICK c \in Frames \cup {NoFrame} : c = search[t].current
    BY <1>1 DEF SearchType
  <1>3. search[t].next = NoFrame /\ (search[t].pc = "root" => c = NoFrame) /\ (search[t].pc = "test" => c \in Frames)
    BY <1>2, HandsAt
  <1>4. /\ Cardinality(Pinning(f)) = 0 /\ Kept(f) = 0 /\ frame[f].pins = 0
        /\ \A u \in Callers : search[u].current # f /\ search[u].next # f
    BY TakeableFree
  <1>5. Idle \in SearchType
    BY DEF Idle, SearchType, Pages
  <1>6. /\ search' \in [Callers -> SearchType] /\ search'[t] = Idle
        /\ \A u \in Callers \ {t} : search'[u] = search[u]
    BY <1>1, <1>5
  <1>7. /\ search[t]["current"] = c /\ search[t]["next"] = NoFrame
        /\ search'[t]["current"] = NoFrame /\ search'[t]["next"] = NoFrame
        /\ search'[t].tree = InvalidPage /\ search'[t].pc = "idle"
        /\ search'[t].current = NoFrame /\ search'[t].next = NoFrame
    BY <1>2, <1>3, <1>6 DEF Idle
  <1>8. "current" \in Hands /\ \A h \in Hands \ {"current"} : h = "next"
    BY DEF Hands
  <1>9. ASSUME NEW g \in Frames
        PROVE  /\ Cardinality(Pinning(g)') = IF g = c THEN Cardinality(Pinning(g)) - 1
                                             ELSE Cardinality(Pinning(g))
               /\ Cardinality(Latching(g)') = IF g = c THEN Cardinality(Latching(g)) - 1
                                              ELSE Cardinality(Latching(g))
    <2>1. g # NoFrame /\ \A h \in Hands \ {"current"} : search'[t][h] # g /\ search[t][h] # g
      BY <1>1, <1>7, <1>8
    <2>2. Latched(t, "current")
      BY DEF Latched
    <2>3. CASE g = c
      <3>1. search'[t]["current"] # g /\ search[t]["current"] = g
        BY <1>7, <2>1, <2>3
      <3>2. Cardinality(Pinning(g)') = Cardinality(Pinning(g)) - 1
        BY <1>6, <1>8, <2>1, <3>1, PinningStep
      <3>3. Cardinality(Latching(g)') = Cardinality(Latching(g)) - 1
        BY <1>6, <1>8, <2>1, <2>2, <3>1, LatchingStep
      <3> QED
        BY <2>3, <3>2, <3>3
    <2>4. CASE g # c
      <3>1. search'[t]["current"] # g /\ search[t]["current"] # g
        BY <1>7, <2>1, <2>4
      <3>2. Pinning(g)' = Pinning(g)
        BY <1>6, <1>8, <2>1, <3>1, PinningStep
      <3>3. Latching(g)' = Latching(g)
        BY <1>6, <1>8, <2>1, <3>1, LatchingStep
      <3> QED
        BY <2>4, <3>2, <3>3
    <2> QED
      BY <2>3, <2>4
  <1>10. /\ abandoned' \in [Frames -> Nat]
         /\ \A g \in Frames : abandoned'[g] = IF g = c THEN abandoned[g] + 1 ELSE abandoned[g]
    <2>1. CASE search[t].pc = "root"
      BY <1>1, <1>3, <2>1
    <2>2. CASE search[t].pc = "test"
      <3>1. abandoned' = [abandoned EXCEPT ![c] = @ + 1] /\ c \in Frames
        BY <1>2, <1>3, <2>2
      <3> QED
        BY <1>1, <3>1
    <2> QED
      BY <2>1, <2>2
  <1>11. m \in BOOLEAN
    BY <1>1 DEF FrameType
  <1>12. /\ frame' \in [Frames -> FrameType]
         /\ \A g \in Frames \ {f} : frame'[g] = frame[g]
         /\ frame'[f].page = frame[f].page /\ (frame'[f].mapped => frame[f].mapped)
         /\ frame'[f].pins = frame[f].pins /\ frame'[f].readers = frame[f].readers
    <2>1. /\ frame' \in [Frames -> FrameType]
          /\ \A g \in Frames \ {f} : frame'[g] = frame[g]
      BY <1>1, <1>11 DEF FrameType
    <2>2. frame'[f] = [frame[f] EXCEPT !.listed = FALSE, !.mapped = m]
      BY <1>1
    <2>3. /\ frame'[f].page = frame[f].page /\ frame'[f].mapped = m
          /\ frame'[f].pins = frame[f].pins /\ frame'[f].readers = frame[f].readers
      BY <1>1, <2>2 DEF FrameType
    <2>4. m => frame[f].mapped
      OBVIOUS
    <2> QED
      BY <2>1, <2>3, <2>4
  <1>13. \A g \in Frames : Kept(g)' = Kept(g)
    <2>1. \A g \in Frames \ {f} : Kept(g)' = Kept(g)
      BY <1>12 DEF Kept
    <2>2. Kept(f)' = 0
      BY <1>4, <1>12 DEF Kept
    <2> QED
      BY <1>4, <2>1, <2>2
  <1>14. \A g \in Frames : /\ frame'[g].readers = Cardinality(Latching(g)') + abandoned'[g]
                           /\ frame'[g].pins = Cardinality(Pinning(g)') + Kept(g)' + abandoned'[g]
                           /\ frame'[g].listed => frame'[g].pins = 0
    <2> SUFFICES ASSUME NEW g \in Frames
                 PROVE  /\ frame'[g].readers = Cardinality(Latching(g)') + abandoned'[g]
                        /\ frame'[g].pins = Cardinality(Pinning(g)') + Kept(g)' + abandoned'[g]
                        /\ frame'[g].listed => frame'[g].pins = 0
      OBVIOUS
    <2>1. /\ frame[g].pins = Cardinality(Pinning(g)) + Kept(g) + abandoned[g] /\ Kept(g) \in Nat
          /\ frame[g].readers = Cardinality(Latching(g)) + abandoned[g] /\ abandoned[g] \in Nat
          /\ Cardinality(Pinning(g)) \in Nat /\ Cardinality(Latching(g)) \in Nat
          /\ frame[g].listed => frame[g].pins = 0
      BY PinsOf
    <2>2. frame'[g].pins = frame[g].pins /\ frame'[g].readers = frame[g].readers
          /\ (frame'[g].listed => frame[g].pins = 0)
      BY <1>4, <1>12, <2>1
    <2>3. CASE g = c
      BY <1>9, <1>10, <1>13, <2>1, <2>2, <2>3
    <2>4. CASE g # c
      BY <1>9, <1>10, <1>13, <2>1, <2>2, <2>4
    <2> QED
      BY <2>3, <2>4
  <1>15. LatchesBalanced' /\ PinsInv'
    BY <1>14 DEF LatchesBalanced, PinsInv
  <1>16. TreeTypeOK'
    BY <1>6, <1>10, <1>12, Types, TypesNext DEF Inv
  <1>17. PoolInv'
    <2>1. \A g \in Frames : frame'[g].page = frame[g].page /\ (frame'[g].mapped => frame[g].mapped)
      BY <1>12
    <2> QED
      BY <2>1 DEF Inv, PoolInv
  <1>18. HandsInv'
    BY <1>6, <1>7 DEF Inv, HandsInv
  <1>19. HeldInv'
    <2> SUFFICES ASSUME NEW u \in Callers
                 PROVE  LET r == search'[u] IN
                        /\ r.current # NoFrame => /\ frame'[r.current].mapped
                                                  /\ frame'[r.current].page \in {r.tree, InvalidPage}
                        /\ r.next # NoFrame => frame'[r.next].mapped /\ frame'[r.next].page = InvalidPage
                        /\ r.pc = "return" => frame'[r.current].page = r.tree
      BY DEF HeldInv
    <2>1. CASE u = t
      BY <1>7, <2>1
    <2>2. CASE u # t
      <3>1. /\ search[u].current \in Frames \cup {NoFrame} /\ search[u].next \in Frames \cup {NoFrame}
            /\ search[u].pc = "return" => search[u].current \in Frames
            /\ search[u].current # f /\ search[u].next # f
        BY <1>1, <1>4 DEF SearchType, Inv, HandsInv
      <3>2. /\ search[u].current # NoFrame => frame'[search[u].current] = frame[search[u].current]
            /\ search[u].next # NoFrame => frame'[search[u].next] = frame[search[u].next]
            /\ search[u].pc = "return" => frame'[search[u].current] = frame[search[u].current]
        BY <1>12, <3>1
      <3>3. /\ search[u].current # NoFrame => /\ frame[search[u].current].mapped
                                              /\ frame[search[u].current].page \in {search[u].tree, InvalidPage}
            /\ search[u].next # NoFrame => frame[search[u].next].mapped /\ frame[search[u].next].page = InvalidPage
            /\ search[u].pc = "return" => frame[search[u].current].page = search[u].tree
        BY HandsAt
      <3> QED
        BY <1>6, <2>2, <3>2, <3>3
    <2> QED
      BY <2>1, <2>2
  <1>20. FoundInv'
    <2> SUFFICES ASSUME NEW i \in Roots
                 PROVE  /\ found[i] > 0 => InPool(i)' # {}
                        /\ found[i] + Cardinality(Running(i)') <= begun
      BY DEF FoundInv, Running
    <2>1. /\ found[i] > 0 => InPool(i) # {}
          /\ found[i] + Cardinality(Running(i)) <= begun
          /\ found[i] \in Nat /\ Cardinality(Running(i)) \in Nat /\ IsFiniteSet(Running(i))
      BY RunningBound
    <2>2. PICK R \in SUBSET Running(i) : R = Running(i)'
      BY <1>6, <1>7, TreeAssumption DEF Running, Roots
    <2>3. Cardinality(R) \in Nat /\ Cardinality(R) <= Cardinality(Running(i))
      BY <2>1, FS_Subset, FS_CardinalityType
    <2>4. begun \in Nat
      BY Types, TreeAssumption DEF Inv
    <2>5. ASSUME found[i] > 0 PROVE InPool(i)' # {}
      <3>1. PICK g \in Frames : frame[g].mapped /\ frame[g].page = i
        BY <2>1, <2>5 DEF InPool
      <3>2. Kept(g) = found[i]
        BY <3>1 DEF Kept
      <3>3. g # f
        BY <1>4, <2>5, <3>2
      <3>4. g \in InPool(i)'
        BY <1>12, <3>1, <3>3 DEF InPool
      <3> QED
        BY <3>4
    <2> QED
      BY <2>1, <2>2, <2>3, <2>4, <2>5
  <1> QED
    BY <1>15, <1>16, <1>17, <1>18, <1>19, <1>20 DEF Inv

LEMMA RootThrowsInv == ASSUME Inv, NEW t \in Callers, RootThrows(t) PROVE Inv'
  <1>0. PICK f \in Takeable : \E m \in {FALSE, frame[f].mapped} :
          frame' = [frame EXCEPT ![f] = [@ EXCEPT !.listed = FALSE, !.mapped = m]]
    BY DEF RootThrows, FetchThrows
  <1>1. PICK m \in {FALSE, frame[f].mapped} :
          frame' = [frame EXCEPT ![f] = [@ EXCEPT !.listed = FALSE, !.mapped = m]]
    BY <1>0
  <1>2. /\ search[t].pc = "root" /\ search' = [search EXCEPT ![t] = Idle]
        /\ UNCHANGED <<node_type, begun, found, abandoned>>
    BY DEF RootThrows, SearchAt
  <1> QED
    BY <1>1, <1>2, ThrowInv

LEMMA NextThrowsInv == ASSUME Inv, NEW t \in Callers, NextThrows(t) PROVE Inv'
  <1>0. PICK f \in Takeable : \E m \in {FALSE, frame[f].mapped} :
          frame' = [frame EXCEPT ![f] = [@ EXCEPT !.listed = FALSE, !.mapped = m]]
    BY DEF NextThrows, FetchThrows
  <1>1. PICK m \in {FALSE, frame[f].mapped} :
          frame' = [frame EXCEPT ![f] = [@ EXCEPT !.listed = FALSE, !.mapped = m]]
    BY <1>0
  <1>2. /\ search[t].pc = "test" /\ search' = [search EXCEPT ![t] = Idle]
        /\ UNCHANGED <<node_type, begun, found>>
        /\ abandoned' = [abandoned EXCEPT ![search[t].current] = @ + 1]
    BY DEF NextThrows, SearchAt
  <1> QED
    BY <1>1, <1>2, ThrowInv

LEMMA GotoType ==
  ASSUME Inv, NEW t \in Callers, NEW pc \in {"test", "unlock", "unpin", "return"}
  PROVE  [search[t] EXCEPT !.pc = pc] \in SearchType
  BY HandsAt DEF SearchType

LEMMA LockRootInv == ASSUME Inv, NEW t \in Callers, LockRoot(t) PROVE Inv'
  <1>1. /\ search[t].pc = "lock_root" /\ UNCHANGED <<node_type, begun, found, abandoned>> /\ SearchGoto(t, "test")
        /\ search[t]["current"] \in Frames /\ "current" \in Hands
    BY HandsAt DEF LockRoot, SearchAt, Hands
  <1>2. PICK f \in Frames : f = search[t]["current"]
    BY <1>1
  <1>3. frame' = [frame EXCEPT ![f].readers = @ + 1]
    BY <1>2 DEF LockRoot, RLock
  <1>4. [search[t] EXCEPT !.pc = "test"] \in SearchType
    BY GotoType
  <1> QED
    BY <1>1, <1>2, <1>3, <1>4, LatchInv

LEMMA LockNextInv == ASSUME Inv, NEW t \in Callers, LockNext(t) PROVE Inv'
  <1>1. /\ search[t].pc = "lock_next" /\ UNCHANGED <<node_type, begun, found, abandoned>> /\ SearchGoto(t, "unlock")
        /\ search[t]["next"] \in Frames /\ "next" \in Hands
    BY HandsAt DEF LockNext, SearchAt, Hands
  <1>2. PICK f \in Frames : f = search[t]["next"]
    BY <1>1
  <1>3. frame' = [frame EXCEPT ![f].readers = @ + 1]
    BY <1>2 DEF LockNext, RLock
  <1>4. [search[t] EXCEPT !.pc = "unlock"] \in SearchType
    BY GotoType
  <1> QED
    BY <1>1, <1>2, <1>3, <1>4, LatchInv

LEMMA ReleaseParentInv == ASSUME Inv, NEW t \in Callers, ReleaseParent(t) PROVE Inv'
  <1>1. UNCHANGED <<node_type, begun, found, abandoned>>
    BY DEF ReleaseParent
  <1>2. CASE SearchAt(t, "unlock") /\ RUnlock(search[t].current) /\ SearchGoto(t, "unpin")
    <2>1. /\ search[t].pc = "unlock" /\ search[t]["current"] \in Frames /\ "current" \in Hands
      BY <1>2, HandsAt DEF SearchAt, Hands
    <2>2. PICK f \in Frames : f = search[t]["current"]
      BY <2>1
    <2>3. frame' = [frame EXCEPT ![f].readers = @ - 1]
      BY <1>2, <2>2 DEF RUnlock
    <2>4. frame' = [frame EXCEPT ![f].readers = @ + (-1)]
      BY <2>3, HandsAt DEF FrameType
    <2>5. [search[t] EXCEPT !.pc = "unpin"] \in SearchType
      BY GotoType
    <2> QED
      BY <1>1, <1>2, <2>1, <2>2, <2>4, <2>5, LatchInv
  <1>3. CASE SearchAt(t, "unpin") /\ UnpinPage(search[t].current) /\ Step(t)
    BY <1>1, <1>3, StepInv
  <1> QED
    BY <1>2, <1>3 DEF ReleaseParent

\* A leaf is not INVALID_PAGE_ID, so it is the root.
LEMMA FoundLeafInv == ASSUME Inv, NEW t \in Callers, FoundLeaf(t) PROVE Inv'
  <1>1. /\ search[t].pc = "test" /\ UNCHANGED <<node_type, begun, found, abandoned>> /\ SearchGoto(t, "return")
        /\ search[t]["current"] \in Frames /\ "current" \in Hands /\ frame' = frame
        /\ frame \in [Frames -> FrameType]
    BY HandsAt DEF FoundLeaf, SearchAt, Hands
  <1>2. PICK f \in Frames : f = search[t]["current"]
    BY <1>1
  <1>3. frame' = [frame EXCEPT ![f].readers = @ + 0]
    BY <1>1 DEF FrameType
  <1>4. frame[f].page = search[t].tree
    <2>1. node_type[frame[f].page] = "LEAF"
      BY <1>2 DEF FoundLeaf, IsLeafPage
    <2>2. frame[f].page # InvalidPage
      BY <2>1 DEF Inv, PoolInv
    <2> QED
      BY <1>2, <2>2, HandsAt, TreeAssumption
  <1>5. [search[t] EXCEPT !.pc = "return"] \in SearchType
    BY GotoType
  <1> QED
    BY <1>1, <1>2, <1>3, <1>4, <1>5, LatchInv

LEMMA NextInv == Inv /\ [TreeNext]_treeVars => Inv'
  <1> SUFFICES ASSUME Inv, [TreeNext]_treeVars PROVE Inv'
    OBVIOUS
  <1>1. CASE TreeNext
    <2>1. PICK t \in Callers : \/ \E tree \in Trees : CallOnEmpty(t, tree) \/ Call(t, tree)
                              \/ FindLeafPage(t)
      BY <1>1 DEF TreeNext
    <2> QED
      BY <2>1, CallOnEmptyInv, CallInv, FetchRootInv, LockRootInv, FetchNextInv, LockNextInv,
         ReleaseParentInv, FoundLeafInv, ReturnInv, RootThrowsInv, NextThrowsInv DEF FindLeafPage
  <1>2. CASE UNCHANGED treeVars
    <2>1. UNCHANGED <<node_type, frame, search, begun, found, abandoned>>
      BY <1>2 DEF treeVars
    <2>2. TreeTypeOK' /\ PoolInv' /\ HandsInv' /\ HeldInv'
      BY <2>1 DEF Inv, TreeTypeOK, PoolInv, HandsInv, HeldInv
    <2>3. FoundInv'
      BY <2>1, FoundKept DEF Inv
    <2>4. LatchesBalanced' /\ PinsInv'
      BY <2>1 DEF Inv, LatchesBalanced, PinsInv, Kept, Latching, Pinning
    <2> QED
      BY <2>2, <2>3, <2>4 DEF Inv
  <1> QED
    BY <1>1, <1>2
-----------------------------------------------------------------------------
(***************************************************************************)
(* The theorems.                                                           *)
(***************************************************************************)

\* Lock coupling over the pool keeps the inductive invariant.
THEOREM Invariant == TreeSpec => []Inv
  BY InitInv, NextInv, PTL DEF TreeSpec

\* Every variable of the searches keeps its type; the counts of pins and of
\* readers are never negative.
THEOREM TypeCorrect == TreeSpec => []TreeTypeOK
  <1>1. Inv => TreeTypeOK
    BY DEF Inv
  <1> QED
    BY <1>1, Invariant, PTL

\* The readers of a frame's rwlatch_ are the searches that stand on it and
\* those that an exception of FetchPage tore away from it: lock coupling itself
\* loses no latch and leaves none behind.
THEOREM LatchesCounted == TreeSpec => []LatchesBalanced
  <1>1. Inv => LatchesBalanced
    BY DEF Inv
  <1> QED
    BY <1>1, Invariant, PTL

\* A latched frame is pinned, hence not evicted under its reader, and holds
\* the page its reader asked for.
THEOREM LatchedPages == TreeSpec => []LatchedPagesStay
  <1>1. Inv => LatchedPagesStay
    <2> SUFFICES ASSUME Inv, NEW f \in Frames, frame[f].readers > 0
                 PROVE  /\ frame[f].pins > 0 /\ ~frame[f].listed
                        /\ \A h \in Latching(f) : frame[f].page \in {search[h[1]].tree, InvalidPage}
      BY DEF LatchedPagesStay
    <2>1. frame[f].pins > 0 /\ ~frame[f].listed
      <3>1. /\ frame[f].pins = Cardinality(Pinning(f)) + Kept(f) + abandoned[f] /\ Kept(f) \in Nat
            /\ frame[f].readers = Cardinality(Latching(f)) + abandoned[f] /\ abandoned[f] \in Nat
            /\ Cardinality(Pinning(f)) \in Nat /\ Cardinality(Latching(f)) \in Nat
            /\ frame[f].listed => frame[f].pins = 0
        BY PinsOf
      <3>2. PICK L \in SUBSET Pinning(f) : L = Latching(f)
        BY Pairs
      <3>3. Cardinality(L) <= Cardinality(Pinning(f))
        BY HandsFinite, FS_Subset
      <3> QED
        BY <3>1, <3>2, <3>3
    <2>2. ASSUME NEW h \in Latching(f) PROVE frame[f].page \in {search[h[1]].tree, InvalidPage}
      <3>1. PICK t \in Callers, k \in Hands : h = <<t, k>>
        BY Pairs
      <3>2. search[t][k] = f /\ f # NoFrame /\ h[1] = t
        <4>1. h \in Pinning(f)
          BY Pairs
        <4>2. search[t][k] = f
          BY <3>1, <4>1, Members
        <4> QED
          BY <3>1, <4>2, TreeAssumption
      <3>3. CASE k = "current"
        <4>1. search[t].current = f
          BY <3>2, <3>3
        <4>2. frame[f].page \in {search[t].tree, InvalidPage}
          BY <3>2, <4>1, HandsAt
        <4> QED
          BY <3>2, <4>2
      <3>4. CASE k = "next"
        <4>1. search[t].next = f
          BY <3>2, <3>4
        <4>2. frame[f].page = InvalidPage
          BY <3>2, <4>1, HandsAt
        <4> QED
          BY <4>2
      <3> QED
        BY <3>3, <3>4 DEF Hands
    <2> QED
      BY <2>1, <2>2
  <1> QED
    BY <1>1, Invariant, PTL

=============================================================================
