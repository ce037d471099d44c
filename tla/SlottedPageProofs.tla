------------------------- MODULE SlottedPageProofs -------------------------
(***************************************************************************)
(* Proofs about SlottedPage, for every page, header and slot size and      *)
(* every set of tuple sizes for which size + SLOT_SIZE fits in 16 bits.    *)
(***************************************************************************)
EXTENDS SlottedPage, SequenceTheorems, TLAPS

\* The callers' side of the bargain: the sum RequiredSpace takes does not
\* wrap.  (Sizes of UINT16 and more are refused by InsertTuple itself.)
SizesFit ==
  \A size \in TupleSizes : size \in Nat /\ (size < UINT16 => size + SLOT_SIZE < UINT16)

\* The inductive strengthening: the slot array ends at or below the free
\* space pointer, tuples lie between that pointer and the end of the page,
\* and the bytes of every live tuple are its own.
Layout ==
  /\ free_space_pointer = 0 => slots = << >>
  /\ free_space_pointer # 0 =>
       HEADER_SIZE + SLOT_SIZE * Len(slots) <= free_space_pointer
  /\ free_space_pointer <= PAGE_SIZE
  /\ \A i \in 1 .. Len(slots) : slots[i].size > 0 =>
       /\ slots[i].offset >= free_space_pointer
       /\ slots[i].offset + slots[i].size <= PAGE_SIZE
       /\ \A b \in Offsets :
            slots[i].offset <= b /\ b < slots[i].offset + slots[i].size => bytes[b] = i

Slot == [offset : 0 .. UINT16 - 1, size : 0 .. UINT16 - 1]

TypeOK ==
  /\ slots \in Seq(Slot)
  /\ free_space_pointer \in 0 .. UINT16 - 1
  /\ bytes \in [Offsets -> Nat]

IInv == TypeOK /\ Layout

\* Offsets and sizes in slots are natural numbers.
LEMMA SlotFields ==
  ASSUME TypeOK, NEW i \in 1 .. Len(slots)
  PROVE  slots[i] \in Slot /\ slots[i].offset \in Nat /\ slots[i].size \in Nat
  <1>1. slots[i] \in Slot
    BY ElementOfSeq DEF TypeOK
  <1> QED
    BY <1>1, LayoutAssumption DEF Slot

\* The all-zero page satisfies the invariant.
LEMMA InitInv == PageInit => IInv
  BY LayoutAssumption, EmptySeq DEF PageInit, IInv, TypeOK, Layout, Blank, Offsets, Slot

\* What the arithmetic of InsertTuple amounts to when nothing wraps.
LEMMA NoWrap ==
  ASSUME IInv, SizesFit, NEW size \in TupleSizes, InsertTuple(size)
  PROVE  /\ size \in Nat
         /\ free_space_pointer # 0
         /\ TupleOffset(size) = free_space_pointer - size
         /\ TupleOffset(size) \in 0 .. UINT16 - 1
         /\ HEADER_SIZE + SLOT_SIZE * (Len(slots) + 1) <= TupleOffset(size)
  <1> DEFINE used == SLOT_SIZE * Len(slots)
  <1>1. size \in Nat /\ size < UINT16 /\ size + SLOT_SIZE < UINT16
    BY DEF SizesFit, InsertTuple
  <1>2. Len(slots) \in Nat /\ free_space_pointer \in 0 .. PAGE_SIZE
    BY LenProperties, LayoutAssumption DEF IInv, TypeOK, Layout
  <1>3. used \in Nat /\ Len(slots) * SLOT_SIZE = used
        /\ SLOT_SIZE * (Len(slots) + 1) = used + SLOT_SIZE
    BY <1>2, LayoutAssumption
  <1>4. slots = << >> => used = 0
    BY <1>2, LayoutAssumption, EmptySeq
  <1> HIDE DEF used
  <1>5. RequiredSpace(size) = size + SLOT_SIZE
    BY <1>1, LayoutAssumption DEF RequiredSpace
  <1>6. HEADER_SIZE + used < UINT16
    <2>1. CASE free_space_pointer = 0
      BY <2>1, <1>4, LayoutAssumption DEF IInv, Layout
    <2>2. CASE free_space_pointer # 0
      BY <2>2, <1>2, <1>3, LayoutAssumption DEF IInv, Layout, used
    <2> QED BY <2>1, <2>2
  <1>7. UsedSpaceHeader = HEADER_SIZE + used
    BY <1>3, <1>6, LayoutAssumption DEF UsedSpaceHeader
  <1>8. free_space_pointer - (HEADER_SIZE + used) >= size + SLOT_SIZE
    BY <1>5, <1>7 DEF InsertTuple, EnoughSpace
  <1>9. TupleOffset(size) = free_space_pointer - size
    BY <1>1, <1>2, <1>3, <1>8, LayoutAssumption DEF TupleOffset
  <1> QED
    BY <1>1, <1>2, <1>3, <1>8, <1>9, LayoutAssumption

\* InsertTuple keeps the layout: the new tuple takes free bytes only.
LEMMA InsertInv ==
  ASSUME IInv, SizesFit, NEW size \in TupleSizes, InsertTuple(size)
  PROVE  IInv'
  <1> DEFINE n == Len(slots)
             off == TupleOffset(size)
             new == [offset |-> off, size |-> size]
  <1>1. /\ size \in Nat /\ free_space_pointer # 0
        /\ off = free_space_pointer - size /\ off \in 0 .. UINT16 - 1
        /\ HEADER_SIZE + SLOT_SIZE * (n + 1) <= off
    BY NoWrap
  <1>2. size < UINT16 /\ n \in Nat /\ free_space_pointer \in 0 .. PAGE_SIZE
    BY LenProperties, LayoutAssumption DEF InsertTuple, IInv, TypeOK, Layout
  <1>3. new \in Slot
    BY <1>1, <1>2, LayoutAssumption DEF Slot
  <1>4. /\ slots' \in Seq(Slot) /\ Len(slots') = n + 1
        /\ \A i \in 1 .. n : slots'[i] = slots[i]
        /\ slots'[n + 1] = new
    BY <1>3, AppendProperties DEF IInv, TypeOK, InsertTuple
  <1>5. free_space_pointer' = off /\ off > 0
    BY <1>1, <1>2, LayoutAssumption DEF InsertTuple
  <1>6. \A b \in Offsets :
          bytes'[b] = IF off <= b /\ b < off + size THEN n + 1 ELSE bytes[b]
    BY DEF InsertTuple, Copy
  <1>7. TypeOK'
    BY <1>1, <1>2, <1>4, <1>5, LayoutAssumption
       DEF IInv, TypeOK, InsertTuple, Copy, Offsets
  <1>8. ASSUME NEW i \in 1 .. Len(slots'), slots'[i].size > 0
        PROVE  /\ slots'[i].offset >= free_space_pointer'
               /\ slots'[i].offset + slots'[i].size <= PAGE_SIZE
               /\ \A b \in Offsets :
                    slots'[i].offset <= b /\ b < slots'[i].offset + slots'[i].size
                      => bytes'[b] = i
    <2>1. CASE i = n + 1
      BY <2>1, <1>1, <1>2, <1>4, <1>5, <1>6, LayoutAssumption
    <2>2. CASE i # n + 1
      <3>1. i \in 1 .. n /\ slots'[i] = slots[i]
        BY <2>2, <1>2, <1>4
      <3>2. slots[i].offset \in Nat /\ slots[i].size \in Nat
        BY <3>1, SlotFields DEF IInv
      <3>3. /\ slots[i].offset >= free_space_pointer
            /\ slots[i].offset + slots[i].size <= PAGE_SIZE
            /\ \A b \in Offsets :
                 slots[i].offset <= b /\ b < slots[i].offset + slots[i].size => bytes[b] = i
        BY <3>1, <1>8 DEF IInv, Layout
      <3>4. ASSUME NEW b \in Offsets,
                   slots[i].offset <= b, b < slots[i].offset + slots[i].size
            PROVE  bytes'[b] = i
        BY <3>2, <3>3, <3>4, <1>1, <1>2, <1>6, LayoutAssumption DEF Offsets
      <3> QED
        BY <3>1, <3>2, <3>3, <3>4, <1>1, <1>2, <1>5
    <2> QED BY <2>1, <2>2
  <1>9. /\ free_space_pointer' # 0
        /\ HEADER_SIZE + SLOT_SIZE * Len(slots') <= free_space_pointer'
        /\ free_space_pointer' <= PAGE_SIZE
    BY <1>1, <1>2, <1>4, <1>5, LayoutAssumption
  <1> QED
    BY <1>7, <1>8, <1>9 DEF IInv, Layout

\* MarkDelete changes no offset and no byte.
LEMMA DeleteInv ==
  ASSUME IInv, NEW n \in SlotNums, MarkDelete(n)
  PROVE  /\ IInv'
         /\ Len(slots') = Len(slots)
         /\ \A i \in 1 .. Len(slots) :
              slots'[i] = IF i = n + 1 THEN [slots[i] EXCEPT !.size = 0] ELSE slots[i]
  <1>1. Len(slots) \in Nat /\ n + 1 \in 1 .. Len(slots)
    BY LenProperties DEF IInv, TypeOK, SlotNums
  <1> DEFINE dead == [slots[n + 1] EXCEPT !.size = 0]
  <1>2. slots[n + 1] \in Slot
    BY <1>1, SlotFields DEF IInv
  <1>3. dead \in Slot /\ dead.size = 0
    BY <1>2, LayoutAssumption DEF Slot
  <1>4. slots' = [slots EXCEPT ![n + 1] = dead]
    BY DEF MarkDelete, Tombstone
  <1> HIDE DEF dead
  <1>5. /\ slots' \in Seq(Slot) /\ Len(slots') = Len(slots)
        /\ \A i \in 1 .. Len(slots) : slots'[i] = IF i = n + 1 THEN dead ELSE slots[i]
    BY <1>1, <1>3, <1>4, ExceptSeq DEF IInv, TypeOK
  <1>6. TypeOK'
    BY <1>5 DEF IInv, TypeOK, MarkDelete
  <1>7. Layout'
    <2>1. free_space_pointer' = 0 => slots' = << >>
      BY <1>1, EmptySeq DEF IInv, Layout, MarkDelete
    <2> QED
      BY <2>1, <1>3, <1>5 DEF IInv, Layout, MarkDelete
  <1> QED
    BY <1>5, <1>6, <1>7 DEF IInv, dead

\* Every operation on the page preserves the invariant.
LEMMA NextInv ==
  ASSUME SizesFit, IInv, [PageNext]_pageVars
  PROVE  IInv'
  <1>1. CASE free_space_pointer = 0 /\ InitPage
    BY <1>1, LayoutAssumption, EmptySeq
       DEF IInv, TypeOK, Layout, InitPage, Blank, Offsets, Slot
  <1>2. CASE \E size \in TupleSizes : InsertTuple(size)
    BY <1>2, InsertInv
  <1>3. CASE \E n \in SlotNums : MarkDelete(n)
    BY <1>3, DeleteInv
  <1>4. CASE UNCHANGED pageVars
    BY <1>4 DEF IInv, TypeOK, Layout, pageVars
  <1> QED
    BY <1>1, <1>2, <1>3, <1>4 DEF PageNext

\* The inductive invariant holds throughout: no sequence of inserts and deletes
\* lets the slot array meet a tuple, or two tuples share a byte.
THEOREM LayoutCorrect ==
  ASSUME SizesFit
  PROVE  PageSpec => []IInv
  <1>1. PageInit => IInv
    BY InitInv
  <1>2. IInv /\ [PageNext]_pageVars => IInv'
    BY NextInv
  <1> QED
    BY <1>1, <1>2, PTL DEF PageSpec

\* InsertTuple hands out only room that is there: tuples stay between the
\* slot array and the end of the page, for any sequence of inserts and deletes.
THEOREM InPageCorrect ==
  ASSUME SizesFit
  PROVE  PageSpec => []TuplesInPage
  <1>1. IInv => TuplesInPage
    <2> SUFFICES ASSUME IInv, NEW n \in SlotNums, Live(n)
                 PROVE  /\ slots[n + 1].offset >= HEADER_SIZE + SLOT_SIZE * Len(slots)
                        /\ slots[n + 1].offset + slots[n + 1].size <= PAGE_SIZE
      BY DEF TuplesInPage
    <2>1. n + 1 \in 1 .. Len(slots) /\ Len(slots) \in Nat \ {0}
      BY LenProperties DEF IInv, TypeOK, SlotNums
    <2>2. slots[n + 1].offset \in Nat
      BY <2>1, SlotFields DEF IInv
    <2>3. free_space_pointer # 0
      BY <2>1, EmptySeq DEF IInv, Layout
    <2>4. SLOT_SIZE * Len(slots) \in Nat
      BY <2>1, LayoutAssumption
    <2> QED
      BY <2>1, <2>2, <2>3, <2>4, LayoutAssumption DEF IInv, TypeOK, Layout, Live
  <1> QED
    BY <1>1, LayoutCorrect, PTL

\* GetTuple gives back the bytes that InsertTuple stored, as long as the
\* tuple is not deleted: no other insert ever writes over them.
THEOREM IntactCorrect ==
  ASSUME SizesFit
  PROVE  PageSpec => []TuplesIntact
  <1>1. IInv => TuplesIntact
    <2> SUFFICES ASSUME IInv, NEW n \in SlotNums, Live(n),
                        NEW k \in 1 .. slots[n + 1].size
                 PROVE  GetTuple(n)[k] = n + 1
      BY DEF TuplesIntact
    <2>1. n \in Nat /\ n + 1 \in 1 .. Len(slots) /\ Len(slots) \in Nat
      BY LenProperties DEF IInv, TypeOK, SlotNums
    <2>2. slots[n + 1].offset \in Nat /\ slots[n + 1].size \in Nat
      BY <2>1, SlotFields DEF IInv
    <2>3. GetTuple(n)[k] = bytes[slots[n + 1].offset + k - 1]
      BY <2>1, <2>2 DEF GetTuple, Live
    <2>4. slots[n + 1].offset + k - 1 \in Offsets
      <3>1. slots[n + 1].size > 0 /\ slots[n + 1].offset + slots[n + 1].size <= PAGE_SIZE
        BY <2>1 DEF IInv, Layout, Live
      <3> QED
        BY <3>1, <2>2, LayoutAssumption DEF Offsets
    <2> QED
      BY <2>1, <2>2, <2>3, <2>4 DEF IInv, Layout, Live
  <1> QED
    BY <1>1, LayoutCorrect, PTL

\* A RID that InsertTuple handed out names its tuple, or a tombstone, in
\* every later state.
THEOREM RidsCorrect ==
  ASSUME SizesFit
  PROVE  PageSpec => RidsStable
  <1> DEFINE Stable ==
        /\ Len(slots') >= Len(slots)
        /\ \A n \in SlotNums :
             \/ slots'[n + 1] = slots[n + 1]
             \/ slots'[n + 1] = [slots[n + 1] EXCEPT !.size = 0]
  <1>1. IInv /\ [PageNext]_pageVars => [Stable]_pageVars
    <2> SUFFICES ASSUME IInv, PageNext PROVE Stable
      OBVIOUS
    <2>1. Len(slots) \in Nat /\ \A n \in SlotNums : n + 1 \in 1 .. Len(slots)
      BY LenProperties DEF IInv, TypeOK, SlotNums
    <2>2. CASE free_space_pointer = 0 /\ InitPage
      BY <2>2, <2>1, EmptySeq DEF IInv, Layout, InitPage, SlotNums
    <2>3. ASSUME NEW size \in TupleSizes, InsertTuple(size) PROVE Stable
      <3>1. TupleOffset(size) \in 0 .. UINT16 - 1 /\ size \in Nat /\ size < UINT16
        BY <2>3, NoWrap DEF InsertTuple
      <3>2. [offset |-> TupleOffset(size), size |-> size] \in Slot
        BY <3>1, LayoutAssumption DEF Slot
      <3> QED
        BY <2>1, <2>3, <3>2, AppendProperties DEF IInv, TypeOK, InsertTuple
    <2>4. ASSUME NEW n \in SlotNums, MarkDelete(n) PROVE Stable
      BY <2>1, <2>4, DeleteInv
    <2> QED
      BY <2>2, <2>3, <2>4 DEF PageNext
  <1> QED
    BY <1>1, LayoutCorrect, PTL DEF PageSpec, RidsStable

=============================================================================
