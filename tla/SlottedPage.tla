---------------------------- MODULE SlottedPage ----------------------------
(***************************************************************************)
(* The SlottedPage layout: a header, an array of slots that grows up, and  *)
(* tuples that grow down from the end of the page.                         *)
(*                                                                         *)
(* A byte of the page is abstracted to the number of the tuple whose       *)
(* memcpy wrote it last (0: none), which is all that telling an intact     *)
(* tuple from a damaged one takes.  The slot array and tuple_count are the *)
(* sequence `slots': slot_num n of the code is slots[n + 1].               *)
(***************************************************************************)
EXTENDS Integers, Sequences

CONSTANTS
  PAGE_SIZE, HEADER_SIZE, SLOT_SIZE,
  UINT16,      \* 2^16: uint16_t arithmetic is modulo UINT16
  TupleSizes   \* sizes of the tuples callers insert

ASSUME LayoutAssumption ==
  /\ PAGE_SIZE \in Nat /\ HEADER_SIZE \in Nat \ {0}
  /\ SLOT_SIZE \in Nat \ {0} /\ UINT16 \in Nat
  /\ HEADER_SIZE <= PAGE_SIZE /\ PAGE_SIZE < UINT16

VARIABLES
  slots,               \* offset and size of every tuple, tuple_count of them
  free_space_pointer,
  bytes                \* who wrote each byte of the tuple area

pageVars == <<slots, free_space_pointer, bytes>>

Offsets == 0 .. PAGE_SIZE - 1
Blank == [b \in Offsets |-> 0]

\* A page as NewPage or FetchPage of unwritten disk returns it: all zero.
PageInit ==
  /\ slots = << >>
  /\ free_space_pointer = 0
  /\ bytes = Blank

\* SlottedPage::Init
InitPage ==
  /\ slots' = << >>
  /\ free_space_pointer' = PAGE_SIZE % UINT16
  /\ bytes' = Blank

\* required_space and used_space_header; the comparison itself is of ints.
Mutant_SlotNotCounted(size) == size % UINT16
RequiredSpace(size) == (size + SLOT_SIZE) % UINT16
UsedSpaceHeader == (HEADER_SIZE + Len(slots) * SLOT_SIZE) % UINT16
EnoughSpace(size) == free_space_pointer - UsedSpaceHeader >= RequiredSpace(size)

\* memcpy(data + from, tuple, size) by tuple number n.
Mutant_OneTooMany(from, size, n) ==
  [b \in Offsets |-> IF from <= b /\ b <= from + size THEN n ELSE bytes[b]]
Copy(from, size, n) ==
  [b \in Offsets |-> IF from <= b /\ b < from + size THEN n ELSE bytes[b]]

\* InsertTuple that returns true; returning false changes nothing.
TupleOffset(size) == (free_space_pointer - size) % UINT16

InsertTuple(size) ==
  /\ size < UINT16
  /\ EnoughSpace(size)
  /\ free_space_pointer' = TupleOffset(size)
  /\ bytes' = Copy(TupleOffset(size), size, Len(slots) + 1)
  /\ slots' = Append(slots, [offset |-> TupleOffset(size), size |-> size])

\* MarkDelete: the slot keeps its offset and gets size 0.
Mutant_SlotDropped(n) == slots' = SubSeq(slots, 1, n)
Tombstone(n) == slots' = [slots EXCEPT ![n + 1].size = 0]

MarkDelete(slot_num) ==
  /\ slot_num < Len(slots)
  /\ Tombstone(slot_num)
  /\ UNCHANGED <<free_space_pointer, bytes>>

\* GetTuple: the bytes of a tuple, or << >> where the code returns false.
GetTuple(slot_num) ==
  LET s == slots[slot_num + 1] IN
  IF slot_num >= Len(slots) \/ s.size = 0
  THEN << >>
  ELSE [k \in 1 .. s.size |-> bytes[s.offset + k - 1]]

SlotNums == 0 .. Len(slots) - 1

\* InsertExecutor initialises a page once, before its first insert.
PageNext ==
  \/ free_space_pointer = 0 /\ InitPage
  \/ \E size \in TupleSizes : InsertTuple(size)
  \/ \E n \in SlotNums : MarkDelete(n)

PageSpec == PageInit /\ [][PageNext]_pageVars
-----------------------------------------------------------------------------
Live(n) == slots[n + 1].size > 0

\* Every tuple lies in the page, above the slot array, whatever has been
\* inserted and deleted: InsertTuple "returns true and sets rid if there is
\* enough room".  It holds of sizes for which size + SLOT_SIZE fits 16 bits.
TuplesInPage ==
  \A n \in SlotNums : Live(n) =>
    /\ slots[n + 1].offset >= HEADER_SIZE + SLOT_SIZE * Len(slots)
    /\ slots[n + 1].offset + slots[n + 1].size <= PAGE_SIZE

\* GetTuple returns the bytes InsertTuple stored under that slot: no later
\* insert or delete overwrites part of a tuple that is still alive.
TuplesIntact ==
  \A n \in SlotNums : Live(n) =>
    \A k \in 1 .. slots[n + 1].size : GetTuple(n)[k] = n + 1

\* A RID, once handed out, names the same tuple or a tombstone for ever:
\* slots are neither reused nor moved, and a deleted tuple stays deleted.
RidsStable ==
  [][/\ Len(slots') >= Len(slots)
     /\ \A n \in SlotNums :
          \/ slots'[n + 1] = slots[n + 1]
          \/ slots'[n + 1] = [slots[n + 1] EXCEPT !.size = 0]]_pageVars

=============================================================================
