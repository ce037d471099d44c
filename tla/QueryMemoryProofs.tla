------------------------- MODULE QueryMemoryProofs -------------------------
(***************************************************************************)
(* Proofs about ArenaAllocator and ColumnBatch, which share nothing: for   *)
(* every chunk size and every request, blocks do not overlap, stay inside  *)
(* their chunk and are aligned; for every capacity and every word size,    *)
(* null masks have a bit of its own for each row.                          *)
(***************************************************************************)
EXTENDS ArenaAllocator, ColumnBatch, SequenceTheorems, TLAPS

\* Division with remainder, as the alignment arithmetic needs it.
LEMMA DivMod ==
  ASSUME NEW x \in Nat, NEW a \in Nat \ {0}
  PROVE \E q \in Nat : x = a * q + (x % a)
BY Z3

LEMMA ModRange ==
  ASSUME NEW x \in Nat, NEW a \in Nat \ {0}
  PROVE x % a \in 0 .. a - 1
BY Z3

LEMMA ModSmall ==
  ASSUME NEW r \in Nat, NEW a \in Nat \ {0}, r < a
  PROVE r % a = r
BY Z3

LEMMA ModMultiple ==
  ASSUME NEW q \in Nat, NEW a \in Nat \ {0}
  PROVE (a * q) % a = 0
BY Z3

\* Padding brings any address up to a multiple of the alignment.
LEMMA PaddingAligns ==
  ASSUME NEW x \in Nat, NEW a \in Nat \ {0}
  PROVE /\ (a - (x % a)) % a \in Nat
        /\ (x + ((a - (x % a)) % a)) % a = 0
<1> DEFINE r == x % a
<1>1. r \in 0 .. a - 1
  BY ModRange
<1>2. PICK q \in Nat : x = a * q + r
  BY DivMod
<1> HIDE DEF r
<1>3. CASE r = 0
  <2>1. (a - r) % a = 0
    <3>1. a - r = a * 1
      BY <1>3
    <3> QED
      BY <3>1, ModMultiple
  <2>2. x + 0 = a * q
    BY <1>2, <1>3
  <2> QED
    BY <2>1, <2>2, ModMultiple DEF r
<1>4. CASE r # 0
  <2>1. a - r \in Nat /\ a - r < a
    BY <1>1, <1>4
  <2>2. (a - r) % a = a - r
    BY <2>1, ModSmall
  <2>3. x + (a - r) = a * (q + 1)
    BY <1>1, <1>2
  <2>4. (a * (q + 1)) % a = 0
    BY ModMultiple
  <2> QED
    BY <2>1, <2>2, <2>3, <2>4 DEF r
<1> QED
  BY <1>3, <1>4

\* What is a multiple of a multiple of the alignment is aligned.
LEMMA ModTransitive ==
  ASSUME NEW x \in Nat, NEW b \in Nat \ {0}, NEW a \in Nat \ {0}, x % b = 0, b % a = 0
  PROVE x % a = 0
<1>1. PICK p \in Nat : x = b * p + (x % b)
  BY DivMod
<1>2. PICK q \in Nat : b = a * q + (b % a)
  BY DivMod
<1>3. x = a * (q * p)
  BY <1>1, <1>2
<1>4. q * p \in Nat
  OBVIOUS
<1> QED
  BY <1>3, <1>4, ModMultiple
-----------------------------------------------------------------------------
(***************************************************************************)
(* The inductive invariant: chunks are apart, a block lies in one of them  *)
(* and, if that is the last one, ends at or before current_offset, where   *)
(* the next block starts.                                                  *)
(***************************************************************************)
Block == [start : Nat, size : Sizes, align : Aligns]

ChunksApart ==
  \A i, j \in DOMAIN chunks : i # j => Apart(chunks[i], chunks[j])

LiesIn(b, k) ==
  /\ chunks[k] <= b.start
  /\ OwnEnd(b) <= chunks[k] + chunk_size
  /\ k = Len(chunks) => b.start + b.size <= chunks[k] + current_offset

BlocksPlaced == \A i \in DOMAIN blocks : \E k \in DOMAIN chunks : LiesIn(blocks[i], k)

ArenaInv ==
  /\ ArenaTypeOK
  /\ ChunksApart
  /\ BlocksPlaced
  /\ BlocksDisjoint

LEMMA ArenaParts ==
  ASSUME ArenaInv
  PROVE  /\ chunks \in Seq(BaseAddresses) /\ Len(chunks) \in 1 .. MaxChunks
         /\ DOMAIN chunks = 1 .. Len(chunks) /\ Len(chunks) \in DOMAIN chunks
         /\ \A k \in DOMAIN chunks : chunks[k] \in BaseAddresses /\ chunks[k] \in Nat
         /\ Back \in Nat /\ current_offset \in Nat /\ chunk_size \in Nat \ {0}
         /\ blocks \in Seq(Block) /\ Len(blocks) \in Nat /\ DOMAIN blocks = 1 .. Len(blocks)
         /\ \A i \in DOMAIN blocks : blocks[i] \in Block
  <1>1. /\ chunks \in Seq(BaseAddresses) /\ Len(chunks) \in 1 .. MaxChunks
        /\ current_offset \in Nat /\ blocks \in Seq(Block)
    BY DEF ArenaInv, ArenaTypeOK, Block
  <1>2. /\ DOMAIN chunks = 1 .. Len(chunks) /\ Len(chunks) \in DOMAIN chunks
        /\ \A k \in DOMAIN chunks : chunks[k] \in BaseAddresses
        /\ Len(blocks) \in Nat /\ DOMAIN blocks = 1 .. Len(blocks)
        /\ \A i \in DOMAIN blocks : blocks[i] \in Block
    BY <1>1
  <1>3. \A k \in DOMAIN chunks : chunks[k] \in Nat
    BY <1>2, ArenaAssumption
  <1> QED
    BY <1>1, <1>2, <1>3, ArenaAssumption DEF Back

LEMMA BlockParts ==
  ASSUME NEW b \in Block
  PROVE  /\ b.start \in Nat /\ b.size \in Nat /\ b.align \in Nat \ {0} /\ b.align \in Aligns
         /\ OwnEnd(b) \in Nat /\ OwnEnd(b) <= b.start + b.size
  <1>1. b.start \in Nat /\ b.size \in Sizes /\ b.align \in Aligns
    BY DEF Block
  <1>2. b.size \in Nat /\ b.align \in Nat \ {0} /\ chunk_size \in Nat
    BY <1>1, ArenaAssumption
  <1> QED
    BY <1>1, <1>2 DEF OwnEnd

LEMMA ArenaInitInv == ArenaInit => ArenaInv
  <1> SUFFICES ASSUME ArenaInit PROVE ArenaInv
    OBVIOUS
  <1>1. PICK base \in BaseAddresses : chunks = <<base>>
    BY DEF ArenaInit
  <1>2. blocks = << >> /\ current_offset = 0 /\ DOMAIN blocks = {} /\ DOMAIN chunks = {1}
    BY <1>1 DEF ArenaInit
  <1>3. ArenaTypeOK
    BY <1>1, <1>2, ArenaAssumption DEF ArenaTypeOK
  <1> QED
    BY <1>2, <1>3 DEF ArenaInv, ChunksApart, BlocksPlaced, BlocksDisjoint

\* One more block, in the last chunk and past every block that lies there.
LEMMA OneMoreBlock ==
  ASSUME NEW new \in Block, blocks \in Seq(Block), blocks' = Append(blocks, new),
         BlocksDisjoint,
         \A i \in DOMAIN blocks :
           OwnEnd(blocks[i]) <= new.start \/ OwnEnd(new) <= blocks[i].start
  PROVE  /\ BlocksDisjoint' /\ blocks' \in Seq(Block)
         /\ DOMAIN blocks' = DOMAIN blocks \cup {Len(blocks) + 1}
         /\ \A i \in DOMAIN blocks : blocks'[i] = blocks[i]
         /\ blocks'[Len(blocks) + 1] = new
  <1>1. /\ DOMAIN blocks' = DOMAIN blocks \cup {Len(blocks) + 1}
        /\ \A i \in DOMAIN blocks : blocks'[i] = blocks[i]
        /\ blocks'[Len(blocks) + 1] = new
        /\ blocks' \in Seq(Block) /\ Len(blocks) + 1 \notin DOMAIN blocks
    OBVIOUS
  <1>2. ASSUME NEW i \in DOMAIN blocks', NEW j \in DOMAIN blocks', i # j
        PROVE  OwnEnd(blocks'[i]) <= blocks'[j].start \/ OwnEnd(blocks'[j]) <= blocks'[i].start
    <2>1. CASE i \in DOMAIN blocks /\ j \in DOMAIN blocks
      BY <1>1, <1>2, <2>1 DEF BlocksDisjoint
    <2>2. CASE i = Len(blocks) + 1 /\ j \in DOMAIN blocks
      BY <1>1, <2>2
    <2>3. CASE i \in DOMAIN blocks /\ j = Len(blocks) + 1
      BY <1>1, <2>3
    <2> QED
      BY <1>1, <1>2, <2>1, <2>2, <2>3
  <1> QED
    BY <1>1, <1>2 DEF BlocksDisjoint, OwnEnd

\* Allocate in the last chunk: the padding aligns the block, which starts at
\* or behind current_offset and ends inside the chunk.
LEMMA HereBlock ==
  ASSUME ArenaInv, NEW size \in Sizes, NEW align \in Aligns, AllocateHere(size, align)
  PROVE  \E new \in Block :
           /\ blocks' = Append(blocks, new)
           /\ new.size = size /\ new.align = align /\ new.start % new.align = 0
           /\ Back + current_offset <= new.start
           /\ new.start + size = Back + current_offset'
           /\ current_offset' \in Nat /\ current_offset' <= chunk_size
           /\ OwnEnd(new) = new.start + size
  <1> DEFINE x == Back + current_offset
             pad == Padding(align)
             new == [start |-> x + pad, size |-> size, align |-> align]
  <1>1. x \in Nat /\ size \in Nat /\ align \in Nat \ {0} /\ Back \in Nat /\ current_offset \in Nat
        /\ chunk_size \in Nat
    BY ArenaParts, ArenaAssumption
  <1>2. pad \in Nat /\ (x + pad) % align = 0
    BY <1>1, PaddingAligns DEF Padding
  <1>3. /\ blocks' = Append(blocks, new)
        /\ current_offset' = current_offset + size + pad
        /\ current_offset + size + pad <= chunk_size
    BY DEF AllocateHere, Start, OffsetAfter, FitsChunk
  <1> HIDE DEF pad
  <1>4. new \in Block
    BY <1>1, <1>2 DEF Block
  <1>5. /\ Back + current_offset <= new.start
        /\ new.start + size = Back + current_offset'
        /\ current_offset' \in Nat /\ current_offset' <= chunk_size /\ size <= chunk_size
    BY <1>1, <1>2, <1>3
  <1>6. OwnEnd(new) = new.start + size
    BY <1>5 DEF OwnEnd
  <1> QED
    BY <1>2, <1>3, <1>4, <1>5, <1>6

\* A block that fits the last chunk.
LEMMA HereInv ==
  ASSUME ArenaInv, NEW size \in Sizes, NEW align \in Aligns, AllocateHere(size, align)
  PROVE  ArenaInv'
  <1>1. PICK new \in Block :
          /\ blocks' = Append(blocks, new) /\ new.size = size
          /\ Back + current_offset <= new.start
          /\ new.start + size = Back + current_offset'
          /\ current_offset' \in Nat /\ current_offset' <= chunk_size
          /\ OwnEnd(new) = new.start + size
    BY HereBlock
  <1>2. /\ chunks' = chunks /\ Back \in Nat /\ current_offset \in Nat /\ chunk_size \in Nat
        /\ size \in Nat /\ new.start \in Nat /\ Back = chunks[Len(chunks)]
        /\ Len(chunks) \in DOMAIN chunks /\ blocks \in Seq(Block)
    BY ArenaParts, BlockParts, ArenaAssumption DEF AllocateHere, Back
  <1>3. /\ current_offset <= current_offset' /\ Back + current_offset <= new.start
        /\ OwnEnd(new) \in Nat /\ OwnEnd(new) <= Back + chunk_size
    <2>1. PICK o \in Nat : o = current_offset'
      BY <1>1
    <2>2. new.start + size = Back + o /\ o <= chunk_size
      BY <1>1, <2>1
    <2> QED
      BY <1>1, <1>2, <2>1, <2>2
  <1>4. ASSUME NEW i \in DOMAIN blocks
        PROVE  /\ OwnEnd(blocks[i]) <= new.start \/ OwnEnd(new) <= blocks[i].start
               /\ \E k \in DOMAIN chunks : LiesIn(blocks[i], k)'
    <2>1. PICK k \in DOMAIN chunks : LiesIn(blocks[i], k)
      BY DEF ArenaInv, BlocksPlaced
    <2>2. /\ blocks[i] \in Block /\ chunks[k] \in Nat
          /\ chunks[k] <= blocks[i].start /\ OwnEnd(blocks[i]) <= chunks[k] + chunk_size
          /\ k = Len(chunks) => blocks[i].start + blocks[i].size <= chunks[k] + current_offset
      BY <2>1, ArenaParts DEF LiesIn
    <2>3. /\ blocks[i].start \in Nat /\ blocks[i].size \in Nat
          /\ OwnEnd(blocks[i]) \in Nat /\ OwnEnd(blocks[i]) <= blocks[i].start + blocks[i].size
      BY <2>2, BlockParts
    <2>4. OwnEnd(blocks[i]) <= new.start \/ OwnEnd(new) <= blocks[i].start
      <3>1. CASE k = Len(chunks)
        <4>1. OwnEnd(blocks[i]) <= Back + current_offset
          BY <1>2, <2>2, <2>3, <3>1
        <4> QED
          BY <1>2, <1>3, <2>3, <4>1
      <3>2. CASE k # Len(chunks)
        <4>1. Apart(chunks[k], Back)
          BY <1>2, <3>2 DEF ArenaInv, ChunksApart
        <4>2. chunks[k] + chunk_size <= Back \/ Back + chunk_size <= chunks[k]
          BY <4>1 DEF Apart
        <4>3. /\ Back \in Nat /\ chunk_size \in Nat /\ current_offset \in Nat /\ chunks[k] \in Nat
              /\ new.start \in Nat /\ Back + current_offset <= new.start
              /\ OwnEnd(new) \in Nat /\ OwnEnd(new) <= Back + chunk_size
          BY <1>2, <1>3, <2>2
        <4>4. CASE chunks[k] + chunk_size <= Back
          <5>1. OwnEnd(blocks[i]) <= chunks[k] + chunk_size /\ OwnEnd(blocks[i]) \in Nat
            BY <2>2, <2>3
          <5> QED
            BY <4>3, <4>4, <5>1
        <4>5. CASE Back + chunk_size <= chunks[k]
          <5>1. chunks[k] <= blocks[i].start /\ blocks[i].start \in Nat
            BY <2>2, <2>3
          <5> QED
            BY <4>3, <4>5, <5>1
        <4> QED
          BY <4>2, <4>4, <4>5
      <3> QED
        BY <3>1, <3>2
    <2>5. k = Len(chunks) => blocks[i].start + blocks[i].size <= chunks[k] + current_offset'
      <3>1. PICK o \in Nat : o = current_offset'
        BY <1>1
      <3>2. current_offset <= o /\ current_offset \in Nat /\ chunks[k] \in Nat
        BY <1>2, <1>3, <2>2, <3>1
      <3>3. k = Len(chunks) => blocks[i].start + blocks[i].size <= chunks[k] + o
        BY <2>2, <2>3, <3>2
      <3> QED
        BY <3>1, <3>3
    <2>6. LiesIn(blocks[i], k)'
      <3>1. blocks'[i] = blocks[i] /\ chunks' = chunks
        BY <1>1, <1>2
      <3>2. OwnEnd(blocks'[i]) = OwnEnd(blocks[i])
        BY <3>1 DEF OwnEnd
      <3> QED
        BY <2>2, <2>5, <3>1, <3>2 DEF LiesIn, OwnEnd
    <2> QED
      BY <2>4, <2>6
  <1>5. /\ BlocksDisjoint' /\ blocks' \in Seq(Block)
        /\ DOMAIN blocks' = DOMAIN blocks \cup {Len(blocks) + 1}
        /\ \A i \in DOMAIN blocks : blocks'[i] = blocks[i]
        /\ blocks'[Len(blocks) + 1] = new
    BY <1>1, <1>2, <1>4, OneMoreBlock DEF ArenaInv
  <1>6. PICK m \in DOMAIN blocks', k \in DOMAIN chunks : m = Len(blocks) + 1 /\ k = Len(chunks)
    BY <1>2, <1>5
  <1>7. LiesIn(blocks[m], k)'
    <2>1. Back <= new.start /\ OwnEnd(new) <= Back + chunk_size
      BY <1>2, <1>3
    <2>2. new.start + new.size <= Back + current_offset'
      BY <1>1, <1>2
    <2>3. blocks'[m] = new /\ chunks'[k] = Back
      BY <1>2, <1>5, <1>6
    <2> QED
      BY <1>2, <1>6, <2>1, <2>2, <2>3 DEF LiesIn, OwnEnd
  <1>8. BlocksPlaced'
    BY <1>2, <1>4, <1>5, <1>6, <1>7 DEF BlocksPlaced
  <1> QED
    BY <1>1, <1>2, <1>5, <1>8 DEF ArenaInv, ArenaTypeOK, ChunksApart, Block

\* A block that starts a new chunk.
LEMMA ChunkInv ==
  ASSUME ArenaInv, NEW size \in Sizes, NEW align \in Aligns, NEW base \in BaseAddresses,
         AllocateChunk(size, align, base)
  PROVE  ArenaInv'
  <1>1. PICK new \in Block : new = [start |-> base, size |-> size, align |-> align]
    BY ArenaAssumption DEF Block
  <1>2. /\ blocks' = Append(blocks, new) /\ chunks' = Append(chunks, base)
        /\ current_offset' = size /\ Len(chunks) < MaxChunks
        /\ \A k \in DOMAIN chunks : Apart(base, chunks[k])
    BY <1>1 DEF AllocateChunk
  <1>3. /\ chunks \in Seq(BaseAddresses) /\ blocks \in Seq(Block) /\ chunk_size \in Nat \ {0}
        /\ Len(chunks) \in 1 .. MaxChunks /\ DOMAIN chunks = 1 .. Len(chunks)
        /\ size \in Nat /\ base \in Nat /\ MaxChunks \in Nat
    BY ArenaParts, ArenaAssumption
  <1>4. PICK last \in Nat : last = Len(chunks) + 1
    BY <1>3
  <1>5. /\ Len(chunks') = last /\ chunks'[last] = base /\ chunks' \in Seq(BaseAddresses)
        /\ DOMAIN chunks' = DOMAIN chunks \cup {last} /\ last \notin DOMAIN chunks
        /\ \A k \in DOMAIN chunks : chunks'[k] = chunks[k]
    BY <1>2, <1>3, <1>4
  <1>6. ChunksApart'
    <2> SUFFICES ASSUME NEW i \in DOMAIN chunks', NEW j \in DOMAIN chunks', i # j
                 PROVE  Apart(chunks'[i], chunks'[j])
      BY DEF ChunksApart, Apart
    <2>1. CASE i \in DOMAIN chunks /\ j \in DOMAIN chunks
      BY <1>5, <2>1 DEF ArenaInv, ChunksApart
    <2>2. CASE i = last /\ j \in DOMAIN chunks
      BY <1>2, <1>5, <2>2
    <2>3. CASE i \in DOMAIN chunks /\ j = last
      BY <1>2, <1>5, <2>3 DEF Apart
    <2> QED
      BY <1>5, <2>1, <2>2, <2>3
  <1>7. new.start = base /\ new.size = size /\ OwnEnd(new) <= base + chunk_size
    BY <1>1, <1>3 DEF OwnEnd
  <1>8. ASSUME NEW i \in DOMAIN blocks
        PROVE  /\ OwnEnd(blocks[i]) <= new.start \/ OwnEnd(new) <= blocks[i].start
               /\ \E k \in DOMAIN chunks' : LiesIn(blocks[i], k)'
    <2>1. PICK k \in DOMAIN chunks : LiesIn(blocks[i], k)
      BY DEF ArenaInv, BlocksPlaced
    <2>2. /\ blocks[i] \in Block /\ chunks[k] \in Nat
          /\ chunks[k] <= blocks[i].start /\ OwnEnd(blocks[i]) <= chunks[k] + chunk_size
      BY <2>1, ArenaParts DEF LiesIn
    <2>3. /\ blocks[i].start \in Nat /\ OwnEnd(blocks[i]) \in Nat /\ OwnEnd(new) \in Nat
      BY <2>2, BlockParts
    <2>4. OwnEnd(blocks[i]) <= new.start \/ OwnEnd(new) <= blocks[i].start
      <3>1. Apart(base, chunks[k])
        BY <1>2
      <3> QED
        BY <1>3, <1>7, <2>2, <2>3, <3>1 DEF Apart
    <2>5. LiesIn(blocks[i], k)'
      <3>1. blocks'[i] = blocks[i] /\ chunks'[k] = chunks[k] /\ k # Len(chunks')
        BY <1>2, <1>3, <1>5
      <3> QED
        BY <2>2, <3>1 DEF LiesIn, OwnEnd
    <2> QED
      BY <1>5, <2>4, <2>5
  <1>9. /\ BlocksDisjoint' /\ blocks' \in Seq(Block)
        /\ DOMAIN blocks' = DOMAIN blocks \cup {Len(blocks) + 1}
        /\ \A i \in DOMAIN blocks : blocks'[i] = blocks[i]
        /\ blocks'[Len(blocks) + 1] = new
    BY <1>2, <1>3, <1>8, OneMoreBlock DEF ArenaInv
  <1>10. PICK m \in DOMAIN blocks' : m = Len(blocks) + 1
    BY <1>9
  <1>11. LiesIn(blocks[m], last)'
    <2>1. chunks'[last] <= new.start /\ OwnEnd(new) <= chunks'[last] + chunk_size
          /\ new.start + new.size <= chunks'[last] + current_offset'
      BY <1>2, <1>3, <1>5, <1>7
    <2> QED
      BY <1>9, <1>10, <2>1 DEF LiesIn, OwnEnd
  <1>12. BlocksPlaced'
    BY <1>5, <1>8, <1>9, <1>10, <1>11 DEF BlocksPlaced
  <1>13. Len(chunks') \in 1 .. MaxChunks /\ current_offset' \in Nat
    BY <1>2, <1>3, <1>4, <1>5
  <1> QED
    BY <1>5, <1>6, <1>9, <1>12, <1>13 DEF ArenaInv, ArenaTypeOK, Block

LEMMA ResetInv ==
  ASSUME ArenaInv, Reset
  PROVE  ArenaInv'
  <1>1. chunks[1] \in BaseAddresses
    BY ArenaParts
  <1>2. /\ chunks' \in Seq(BaseAddresses) /\ Len(chunks') = 1 /\ DOMAIN chunks' = {1}
        /\ blocks' = << >> /\ DOMAIN blocks' = {} /\ current_offset' = 0
    BY <1>1 DEF Reset
  <1>3. ArenaTypeOK'
    BY <1>2, ArenaAssumption DEF ArenaTypeOK
  <1> QED
    BY <1>2, <1>3 DEF ArenaInv, ChunksApart, BlocksPlaced, BlocksDisjoint

LEMMA ArenaNextInv == ArenaInv /\ [ArenaNext]_arenaVars => ArenaInv'
  <1> SUFFICES ASSUME ArenaInv, [ArenaNext]_arenaVars PROVE ArenaInv'
    OBVIOUS
  <1>1. CASE ArenaNext
    BY <1>1, HereInv, ChunkInv, ResetInv DEF ArenaNext
  <1>2. CASE UNCHANGED arenaVars
    BY <1>2 DEF arenaVars, ArenaInv, ArenaTypeOK, ChunksApart, BlocksPlaced, LiesIn,
                BlocksDisjoint, OwnEnd, Apart
  <1> QED
    BY <1>1, <1>2

LEMMA ArenaInvariant == ArenaSpec => []ArenaInv
  BY ArenaInitInv, ArenaNextInv, PTL DEF ArenaSpec

\* Allocate keeps blocks aligned when chunks are aligned to whatever is asked
\* for: by the padding in the last chunk, by its address in a new one.
LEMMA AlignedStep ==
  ASSUME \A align \in Aligns : NewAlign % align = 0,
         ArenaInv, BlocksAligned, [ArenaNext]_arenaVars
  PROVE  BlocksAligned'
  <1>1. ASSUME NEW new \in Block, blocks' = Append(blocks, new), new.start % new.align = 0
        PROVE  BlocksAligned'
    <2>1. /\ DOMAIN blocks' = DOMAIN blocks \cup {Len(blocks) + 1}
          /\ \A i \in DOMAIN blocks : blocks'[i] = blocks[i]
          /\ blocks'[Len(blocks) + 1] = new
      BY <1>1, ArenaParts
    <2> QED
      BY <1>1, <2>1 DEF BlocksAligned
  <1>2. ASSUME NEW size \in Sizes, NEW align \in Aligns, AllocateHere(size, align)
        PROVE  BlocksAligned'
    BY <1>1, <1>2, HereBlock
  <1>3. ASSUME NEW size \in Sizes, NEW align \in Aligns, NEW base \in BaseAddresses,
               AllocateChunk(size, align, base)
        PROVE  BlocksAligned'
    <2>1. PICK new \in Block : new = [start |-> base, size |-> size, align |-> align]
      BY ArenaAssumption DEF Block
    <2>2. base % align = 0
      BY ModTransitive, ArenaAssumption
    <2>3. blocks' = Append(blocks, new)
      BY <1>3, <2>1 DEF AllocateChunk
    <2> QED
      BY <1>1, <2>1, <2>2, <2>3
  <1>4. CASE Reset
    BY <1>4 DEF Reset, BlocksAligned
  <1>5. CASE UNCHANGED arenaVars
    BY <1>5 DEF arenaVars, BlocksAligned
  <1> QED
    BY <1>2, <1>3, <1>4, <1>5 DEF ArenaNext
-----------------------------------------------------------------------------
\* The fields of the allocator keep their types (Allocate and Reset).
THEOREM ArenaTypeCorrect == ArenaSpec => []ArenaTypeOK
  <1>1. ArenaInv => ArenaTypeOK
    BY DEF ArenaInv
  <1> QED
    BY <1>1, ArenaInvariant, PTL

\* Allocate never hands out a byte of the heap twice between two calls of
\* Reset, wherever operator new[] puts the chunks; of a request larger than a
\* chunk this covers the chunk it starts.
THEOREM DisjointCorrect == ArenaSpec => []BlocksDisjoint
  <1>1. ArenaInv => BlocksDisjoint
    BY DEF ArenaInv
  <1> QED
    BY <1>1, ArenaInvariant, PTL

\* Every block Allocate has handed out lies in a chunk the allocator still
\* owns and, when a chunk is large enough for it, inside that chunk.
THEOREM InChunkCorrect == ArenaSpec => []BlocksInChunk
  <1>1. ArenaInv => BlocksInChunk
    BY DEF ArenaInv, BlocksPlaced, LiesIn, BlocksInChunk
  <1> QED
    BY <1>1, ArenaInvariant, PTL

\* Allocate aligns every block, if operator new[] aligns chunks to every
\* alignment that is asked for (alignof(max_align_t), the default, is one).
THEOREM AlignedCorrect ==
  ASSUME \A align \in Aligns : NewAlign % align = 0
  PROVE  ArenaSpec => []BlocksAligned
  <1>1. ArenaInit => BlocksAligned
    BY DEF ArenaInit, BlocksAligned
  <1>2. ArenaInv /\ BlocksAligned /\ [ArenaNext]_arenaVars => BlocksAligned'
    BY AlignedStep
  <1> QED
    BY <1>1, <1>2, ArenaInvariant, PTL DEF ArenaSpec
-----------------------------------------------------------------------------
(***************************************************************************)
(* ColumnBatch: words and bits of a mask.                                  *)
(***************************************************************************)

LEMMA Quotient ==
  ASSUME NEW x \in Nat, NEW a \in Nat \ {0}
  PROVE  /\ x \div a \in Nat /\ x % a \in 0 .. a - 1
         /\ x = a * (x \div a) + (x % a)
  <1>1. x \div a \in Nat
    BY Z3
  <1>2. x = a * (x \div a) + (x % a)
    BY Z3
  <1> QED
    BY <1>1, <1>2, ModRange

LEMMA TimesMonotone ==
  ASSUME NEW a \in Nat, NEW p \in Nat, NEW q \in Nat, p <= q
  PROVE  a * p <= a * q
  <1>1. PICK d \in Nat : q = p + d
    BY q - p \in Nat
  <1>2. a * q = a * p + a * d /\ a * d \in Nat /\ a * p \in Nat
    BY <1>1, Z3
  <1> QED
    BY <1>2

\* Two rows with the same word and the same bit are one row.
LEMMA OwnBit ==
  ASSUME NEW i \in Nat, NEW j \in Nat, WordIdx(i) = WordIdx(j), BitIdx(i) = BitIdx(j)
  PROVE  i = j
  <1>1. WORD \in Nat \ {0}
    BY BatchAssumption
  <1>2. i \div WORD \in Nat /\ j \div WORD \in Nat
    BY <1>1, Quotient
  <1>3. i \div WORD = j \div WORD /\ i % WORD = j % WORD
    BY <1>2 DEF WordIdx, BitIdx
  <1>4. i = WORD * (i \div WORD) + (i % WORD) /\ j = WORD * (j \div WORD) + (j % WORD)
    BY <1>1, Quotient
  <1> QED
    BY <1>3, <1>4, Zenon

\* Every row below the capacity has a word.
LEMMA WordBelow ==
  ASSUME NEW i \in Nat, NEW capacity \in Nat, i < capacity
  PROVE  WordIdx(i) \in 1 .. MaskWords(capacity)
  <1>1. WORD \in Nat \ {0} /\ capacity + WORD - 1 \in Nat
    BY BatchAssumption
  <1>2. PICK q \in Nat, r \in 0 .. WORD - 1 : q = i \div WORD /\ i = WORD * q + r
    BY <1>1, Quotient
  <1>3. PICK p \in Nat, s \in 0 .. WORD - 1 :
          p = (capacity + WORD - 1) \div WORD /\ capacity + WORD - 1 = WORD * p + s
    BY <1>1, Quotient
  <1>4. q + 1 <= p
    <2> SUFFICES ASSUME p <= q PROVE FALSE
      OBVIOUS
    <2>1. WORD * p <= WORD * q
      BY <1>1, TimesMonotone
    <2>2. PICK u \in Nat, v \in Nat : u = WORD * p /\ v = WORD * q
      BY <1>1
    <2> QED
      BY <1>1, <1>2, <1>3, <2>1, <2>2
  <1> QED
    BY <1>2, <1>3, <1>4 DEF WordIdx, MaskWords

LEMMA WordCount ==
  ASSUME NEW capacity \in Nat
  PROVE  MaskWords(capacity) \in Nat
  <1>1. WORD \in Nat \ {0} /\ capacity + WORD - 1 \in Nat
    BY BatchAssumption
  <1>2. (capacity + WORD - 1) \div WORD \in Nat
    BY <1>1, Quotient
  <1> QED
    BY <1>2 DEF MaskWords

LEMMA BitRange ==
  ASSUME NEW i \in Nat
  PROVE  BitIdx(i) \in 0 .. WORD - 1 /\ WordIdx(i) \in Nat \ {0}
  <1>1. WORD \in Nat \ {0}
    BY BatchAssumption
  <1>2. i \div WORD \in Nat /\ i % WORD \in 0 .. WORD - 1
    BY <1>1, Quotient
  <1>3. i \div WORD + 1 \in Nat \ {0}
    BY <1>2
  <1> QED
    BY <1>2, <1>3 DEF BitIdx, WordIdx
-----------------------------------------------------------------------------
(***************************************************************************)
(* ColumnBatch: the inductive invariant.                                   *)
(***************************************************************************)
Vector ==
  [capacity : Capacities, size : 0 .. MaxSize, null_mask : Seq(SUBSET (0 .. WORD - 1))]

\* A mask keeps the length it was made with, and shows for every row that has
\* a word, be it inside the current size or not, what SetNull last said.
VectorOK(v, said) ==
  /\ Len(v.null_mask) = MaskWords(v.capacity)
  /\ \A i \in 0 .. MaxSize - 1 : HasWord(v, i) => (IsNull(v, i) <=> i \in said)

BatchInv ==
  /\ BatchTypeOK
  /\ \A c \in DOMAIN columns : VectorOK(columns[c], nulls[c])

LEMMA BatchParts ==
  ASSUME BatchInv
  PROVE  /\ columns \in Seq(Vector) /\ nulls \in Seq(SUBSET (0 .. MaxSize - 1))
         /\ Len(columns) \in Nat /\ Len(nulls) = Len(columns)
         /\ DOMAIN columns = 1 .. Len(columns) /\ DOMAIN nulls = 1 .. Len(columns)
  BY DEF BatchInv, BatchTypeOK, Vector

LEMMA BatchInitInv == BatchInit => BatchInv
  <1> SUFFICES ASSUME BatchInit PROVE BatchInv
    OBVIOUS
  <1>1. columns = << >> /\ nulls = << >> /\ num_rows = 0
    BY DEF BatchInit
  <1>2. BatchTypeOK
    BY <1>1, BatchAssumption DEF BatchTypeOK
  <1>3. DOMAIN columns = {}
    BY <1>1
  <1> QED
    BY <1>2, <1>3 DEF BatchInv

LEMMA AddColumnInv ==
  ASSUME BatchInv, NEW capacity \in Capacities, AddColumn(capacity)
  PROVE  BatchInv'
  <1>1. capacity \in Nat /\ MaskWords(capacity) \in Nat
    BY BatchAssumption, WordCount
  <1>2. PICK v : v = FlatVector(capacity)
    OBVIOUS
  <1>3. /\ v.capacity = capacity /\ v.size = 0
        /\ v.null_mask = [w \in 1 .. MaskWords(capacity) |-> {}]
        /\ DOMAIN v.null_mask = 1 .. MaskWords(capacity)
        /\ \A w \in 1 .. MaskWords(capacity) : v.null_mask[w] = {}
    BY <1>2 DEF FlatVector
  <1>4. v.null_mask \in Seq(SUBSET (0 .. WORD - 1)) /\ Len(v.null_mask) = MaskWords(capacity)
    <2>1. \A w \in 1 .. MaskWords(capacity) : {} \in SUBSET (0 .. WORD - 1)
      OBVIOUS
    <2>2. [w \in 1 .. MaskWords(capacity) |-> {}] \in Seq(SUBSET (0 .. WORD - 1))
      BY <1>1, IsASeq
    <2> QED
      BY <1>1, <1>3, <2>2, LenProperties
  <1>5. v \in Vector
    BY <1>2, <1>3, <1>4, BatchAssumption DEF Vector, FlatVector
  <1>6. VectorOK(v, {})
    BY <1>3, <1>4 DEF VectorOK, HasWord, IsNull
  <1>7. /\ columns' = Append(columns, v) /\ nulls' = Append(nulls, {}) /\ num_rows' = num_rows
        /\ Len(columns) < MaxColumns
    BY <1>2 DEF AddColumn
  <1>8. /\ columns \in Seq(Vector) /\ nulls \in Seq(SUBSET (0 .. MaxSize - 1))
        /\ Len(columns) \in Nat /\ Len(nulls) = Len(columns)
        /\ DOMAIN columns = 1 .. Len(columns)
    BY BatchParts
  <1>9. /\ columns' \in Seq(Vector) /\ Len(columns') = Len(columns) + 1
        /\ \A c \in 1 .. Len(columns) : columns'[c] = columns[c]
        /\ columns'[Len(columns) + 1] = v
    BY <1>5, <1>7, <1>8, AppendProperties
  <1>10. /\ nulls' \in Seq(SUBSET (0 .. MaxSize - 1)) /\ Len(nulls') = Len(columns) + 1
         /\ \A c \in 1 .. Len(columns) : nulls'[c] = nulls[c]
         /\ nulls'[Len(columns) + 1] = {}
    <2>1. {} \in SUBSET (0 .. MaxSize - 1)
      OBVIOUS
    <2> QED
      BY <1>7, <1>8, <2>1, AppendProperties
  <1>11. BatchTypeOK'
    BY <1>7, <1>8, <1>9, <1>10, BatchAssumption DEF BatchInv, BatchTypeOK, Vector
  <1>12. \A c \in DOMAIN columns' : VectorOK(columns'[c], nulls'[c])
    <2> SUFFICES ASSUME NEW c \in 1 .. Len(columns) + 1 PROVE VectorOK(columns'[c], nulls'[c])
      BY <1>9
    <2>1. CASE c = Len(columns) + 1
      BY <1>6, <1>9, <1>10, <2>1
    <2>2. CASE c # Len(columns) + 1
      <3>1. c \in 1 .. Len(columns)
        BY <1>8, <2>2
      <3>2. VectorOK(columns[c], nulls[c])
        BY <1>8, <3>1 DEF BatchInv
      <3> QED
        BY <1>9, <1>10, <3>1, <3>2
    <2> QED
      BY <2>1, <2>2
  <1> QED
    BY <1>11, <1>12 DEF BatchInv, VectorOK, HasWord, IsNull

\* A step that changes one vector and what was said of it.
LEMMA OneVector ==
  ASSUME BatchInv, NEW c \in DOMAIN columns, NEW v \in Vector, NEW said \in SUBSET (0 .. MaxSize - 1),
         columns' = [columns EXCEPT ![c] = v], nulls' = [nulls EXCEPT ![c] = said],
         num_rows' = num_rows, VectorOK(v, said)
  PROVE  BatchInv'
  <1>1. /\ columns \in Seq(Vector) /\ nulls \in Seq(SUBSET (0 .. MaxSize - 1))
        /\ Len(columns) \in Nat /\ Len(nulls) = Len(columns)
        /\ DOMAIN columns = 1 .. Len(columns)
    BY BatchParts
  <1>2. /\ columns' \in Seq(Vector) /\ Len(columns') = Len(columns)
        /\ \A k \in 1 .. Len(columns) : columns'[k] = IF k = c THEN v ELSE columns[k]
    BY <1>1, ExceptSeq
  <1>3. /\ nulls' \in Seq(SUBSET (0 .. MaxSize - 1)) /\ Len(nulls') = Len(columns)
        /\ \A k \in 1 .. Len(columns) : nulls'[k] = IF k = c THEN said ELSE nulls[k]
    BY <1>1, ExceptSeq
  <1>4. BatchTypeOK'
    BY <1>1, <1>2, <1>3 DEF BatchInv, BatchTypeOK, Vector
  <1>5. \A k \in DOMAIN columns' : VectorOK(columns'[k], nulls'[k])
    <2> SUFFICES ASSUME NEW k \in 1 .. Len(columns) PROVE VectorOK(columns'[k], nulls'[k])
      BY <1>2
    <2>1. VectorOK(columns[k], nulls[k])
      BY <1>1 DEF BatchInv
    <2> QED
      BY <1>2, <1>3, <2>1
  <1> QED
    BY <1>4, <1>5 DEF BatchInv, VectorOK, HasWord, IsNull

LEMMA ResizeInv ==
  ASSUME BatchInv, NEW c \in DOMAIN columns, NEW n \in 0 .. MaxSize, Resize(c, n)
  PROVE  BatchInv'
  <1>1. PICK u \in Vector, said \in SUBSET (0 .. MaxSize - 1) :
          u = columns[c] /\ said = nulls[c] /\ VectorOK(u, said)
    BY BatchParts DEF BatchInv
  <1>2. PICK v : v = [u EXCEPT !.size = n]
    OBVIOUS
  <1>3. v \in Vector /\ v.null_mask = u.null_mask /\ v.capacity = u.capacity
    BY <1>2 DEF Vector
  <1>4. VectorOK(v, said)
    BY <1>1, <1>3 DEF VectorOK, HasWord, IsNull
  <1>5. columns' = [columns EXCEPT ![c] = v]
    BY <1>1, <1>2 DEF Resize
  <1>6. nulls' = [nulls EXCEPT ![c] = said] /\ num_rows' = num_rows
    BY <1>1, BatchParts DEF Resize
  <1> QED
    BY <1>3, <1>4, <1>5, <1>6, OneVector

LEMMA SetNullInv ==
  ASSUME BatchInv, NEW c \in DOMAIN columns, NEW i \in 0 .. MaxSize - 1, NEW b \in BOOLEAN,
         SetNull(c, i, b)
  PROVE  BatchInv'
  <1>1. PICK u \in Vector, said \in SUBSET (0 .. MaxSize - 1) :
          u = columns[c] /\ said = nulls[c] /\ VectorOK(u, said)
    BY BatchParts DEF BatchInv
  <1>2. PICK mask \in Seq(SUBSET (0 .. WORD - 1)) : mask = u.null_mask
    BY DEF Vector
  <1>3. PICK w \in 1 .. Len(mask) : w = WordIdx(i)
    BY <1>1, <1>2 DEF SetNull, HasWord
  <1>4. i \in Nat /\ BitIdx(i) \in 0 .. WORD - 1
    BY BitRange, BatchAssumption
  <1>5. PICK word \in SUBSET (0 .. WORD - 1) :
          word = IF b THEN mask[w] \cup {BitIdx(i)} ELSE mask[w] \ {BitIdx(i)}
    <2>1. mask[w] \in SUBSET (0 .. WORD - 1)
      BY ElementOfSeq
    <2>2. (IF b THEN mask[w] \cup {BitIdx(i)} ELSE mask[w] \ {BitIdx(i)}) \in SUBSET (0 .. WORD - 1)
      BY <1>4, <2>1
    <2> QED
      BY <2>2
  <1>6. PICK now \in SUBSET (0 .. MaxSize - 1) : now = IF b THEN said \cup {i} ELSE said \ {i}
    OBVIOUS
  <1>7. PICK v : v = [u EXCEPT !.null_mask[w] = word]
    OBVIOUS
  <1>8. /\ [mask EXCEPT ![w] = word] \in Seq(SUBSET (0 .. WORD - 1))
        /\ Len([mask EXCEPT ![w] = word]) = Len(mask)
        /\ \A k \in 1 .. Len(mask) : [mask EXCEPT ![w] = word][k] = IF k = w THEN word ELSE mask[k]
    BY ExceptSeq
  <1>9. PICK other \in Seq(SUBSET (0 .. WORD - 1)) :
          /\ v \in Vector /\ v.null_mask = other /\ v.capacity = u.capacity
          /\ Len(other) = Len(mask)
          /\ \A k \in 1 .. Len(mask) : other[k] = IF k = w THEN word ELSE mask[k]
    BY <1>2, <1>7, <1>8 DEF Vector
  <1>10. VectorOK(v, now)
    <2>1. Len(v.null_mask) = MaskWords(v.capacity)
      BY <1>1, <1>2, <1>9 DEF VectorOK
    <2> SUFFICES ASSUME NEW j \in 0 .. MaxSize - 1, HasWord(v, j)
                 PROVE  IsNull(v, j) <=> j \in now
      BY <2>1 DEF VectorOK
    <2>2. j \in Nat /\ WordIdx(j) \in 1 .. Len(mask) /\ WordIdx(j) \in DOMAIN mask
      BY <1>9, BatchAssumption DEF HasWord
    <2>3. IsNull(u, j) <=> j \in said
      BY <1>1, <1>2, <2>2 DEF VectorOK, HasWord
    <2>4. BitIdx(j) \in mask[WordIdx(j)] <=> j \in said
      BY <1>2, <2>3 DEF IsNull
    <2>5. IsNull(v, j) <=> BitIdx(j) \in other[WordIdx(j)]
      BY <1>9 DEF IsNull
    <2>6. CASE j = i
      BY <1>3, <1>5, <1>6, <1>9, <2>2, <2>5, <2>6
    <2>7. CASE j # i
      <3>1. j \in now <=> j \in said
        BY <1>6, <2>7
      <3>2. CASE WordIdx(j) = w
        <4>1. BitIdx(j) # BitIdx(i)
          BY <1>3, <1>4, <2>2, <2>7, <3>2, OwnBit
        <4> QED
          BY <1>5, <1>9, <2>2, <2>4, <2>5, <3>1, <3>2, <4>1
      <3>3. CASE WordIdx(j) # w
        BY <1>9, <2>2, <2>4, <2>5, <3>1, <3>3
      <3> QED
        BY <3>2, <3>3
    <2> QED
      BY <2>6, <2>7
  <1>11. columns' = [columns EXCEPT ![c] = v]
    BY <1>1, <1>2, <1>3, <1>5, <1>7 DEF SetNull
  <1>12. nulls' = [nulls EXCEPT ![c] = now] /\ num_rows' = num_rows
    BY <1>1, <1>6 DEF SetNull
  <1> QED
    BY <1>9, <1>10, <1>11, <1>12, OneVector

LEMMA BatchNextInv == BatchInv /\ [BatchNext]_batchVars => BatchInv'
  <1> SUFFICES ASSUME BatchInv, [BatchNext]_batchVars PROVE BatchInv'
    OBVIOUS
  <1>1. CASE num_rows' \in 0 .. MaxSize /\ UNCHANGED <<columns, nulls>>
    BY <1>1 DEF BatchInv, BatchTypeOK, VectorOK, HasWord, IsNull
  <1>2. BatchTypeOK /\ 0 \in 0 .. MaxSize
    BY BatchAssumption DEF BatchInv
  <1>3. CASE BatchNext
    BY <1>1, <1>2, <1>3, AddColumnInv, ResizeInv, SetNullInv DEF BatchNext, SetNumRows, ResetBatch
  <1>4. CASE UNCHANGED batchVars
    BY <1>1, <1>2, <1>4 DEF batchVars, BatchTypeOK
  <1> QED
    BY <1>3, <1>4

\* Columns, sizes and masks keep the inductive invariant.
LEMMA BatchInvariant == BatchSpec => []BatchInv
  BY BatchInitInv, BatchNextInv, PTL DEF BatchSpec

\* A null mask has a word for every row below the capacity its vector was
\* made with, for every capacity and every word size.
THEOREM MaskLongEnough == BatchSpec => []MaskCoversCapacity
  <1>1. BatchInv => MaskCoversCapacity
    <2> SUFFICES ASSUME BatchInv, NEW c \in DOMAIN columns, NEW i \in 0 .. columns[c].size - 1,
                        ~(i >= columns[c].capacity)
                 PROVE  HasWord(columns[c], i)
      BY DEF MaskCoversCapacity
    <2>1. PICK v \in Vector : v = columns[c] /\ Len(v.null_mask) = MaskWords(v.capacity)
      BY BatchParts DEF BatchInv, VectorOK
    <2>2. v.capacity \in Nat /\ v.size \in Nat /\ v.null_mask \in Seq(SUBSET (0 .. WORD - 1))
      <3>1. /\ v.capacity \in Capacities /\ v.size \in 0 .. MaxSize
            /\ v.null_mask \in Seq(SUBSET (0 .. WORD - 1))
        BY DEF Vector
      <3>2. Capacities \subseteq Nat /\ 0 .. MaxSize \subseteq Nat
        BY BatchAssumption
      <3> QED
        BY <3>1, <3>2, Zenon
    <2>3. WordIdx(i) \in 1 .. MaskWords(v.capacity)
      <3>1. i \in Nat /\ i < v.capacity
        BY <2>1, <2>2
      <3> QED
        BY <2>2, <3>1, WordBelow
    <2>4. DOMAIN v.null_mask = 1 .. Len(v.null_mask)
      BY <2>2
    <2> QED
      BY <2>1, <2>3, <2>4 DEF HasWord
  <1> QED
    BY <1>1, BatchInvariant, PTL

\* IsNull answers what SetNull last said of that row, through every sequence
\* of SetNull, Resize and Reset: no two rows share a bit.
THEOREM NullsKept == BatchSpec => []NullsReadBack
  <1>1. BatchInv => NullsReadBack
    <2> SUFFICES ASSUME BatchInv, NEW c \in DOMAIN columns, NEW i \in 0 .. columns[c].size - 1,
                        HasWord(columns[c], i)
                 PROVE  IsNull(columns[c], i) <=> i \in nulls[c]
      BY DEF NullsReadBack
    <2>1. PICK v \in Vector : v = columns[c] /\ VectorOK(v, nulls[c])
      BY BatchParts DEF BatchInv
    <2>2. i \in 0 .. MaxSize - 1
      BY <2>1, BatchAssumption DEF Vector
    <2> QED
      BY <2>1, <2>2 DEF VectorOK
  <1> QED
    BY <1>1, BatchInvariant, PTL

=============================================================================
