--------------------------- MODULE ArenaAllocator ---------------------------
(***************************************************************************)
(* ArenaAllocator: blocks cut off the end of the last chunk, all given up  *)
(* at once by Reset.                                                       *)
(*                                                                         *)
(* Chunks and blocks are ranges of heap addresses; operator new[] gives a  *)
(* chunk any of BaseAddresses that keeps it apart from the live ones, the  *)
(* end of one being the start of the next or not.  Sizes are those for     *)
(* which the sums do not wrap size_t.                                      *)
(***************************************************************************)
EXTENDS Integers, Sequences

CONSTANTS
  chunk_size,      \* chunk_size_
  Sizes, Aligns,   \* requests
  NewAlign,        \* alignment operator new[] gives every chunk
  BaseAddresses,
  MaxChunks        \* bound on chunks_

ASSUME ArenaAssumption ==
  /\ {chunk_size, NewAlign, MaxChunks} \subseteq Nat \ {0}
  /\ Sizes \subseteq Nat /\ Aligns \subseteq Nat \ {0}
  /\ BaseAddresses \subseteq Nat /\ BaseAddresses # {}
  /\ \A base \in BaseAddresses : base % NewAlign = 0

VARIABLES
  chunks,          \* address of every chunk, oldest first
  current_offset,  \* current_offset_
  blocks           \* blocks handed out since the last Reset, oldest first

arenaVars == <<chunks, current_offset, blocks>>

ArenaTypeOK ==
  /\ chunks \in Seq(BaseAddresses) /\ Len(chunks) \in 1 .. MaxChunks
  /\ current_offset \in Nat
  /\ blocks \in Seq([start : Nat, size : Sizes, align : Aligns])

\* The constructor's AllocateChunk.
ArenaInit ==
  /\ \E base \in BaseAddresses : chunks = <<base>>
  /\ current_offset = 0
  /\ blocks = << >>

Back == chunks[Len(chunks)]
Padding(align) == (align - ((Back + current_offset) % align)) % align

Mutant_PaddingFree(size, align) == current_offset + size <= chunk_size
FitsChunk(size, align) == current_offset + size + Padding(align) <= chunk_size

Mutant_PaddingDropped(size, align) == current_offset + size
OffsetAfter(size, align) == current_offset + size + Padding(align)

Mutant_NoPadding(align) == Back + current_offset
Start(align) == Back + current_offset + Padding(align)

AllocateHere(size, align) ==
  /\ FitsChunk(size, align)
  /\ blocks' = Append(blocks, [start |-> Start(align), size |-> size, align |-> align])
  /\ current_offset' = OffsetAfter(size, align)
  /\ UNCHANGED chunks

\* Two chunks of the heap share no byte.
Apart(base, other) == base + chunk_size <= other \/ other + chunk_size <= base

\* A block that does not fit starts a chunk, without padding and without a
\* look at whether it fits there: the bytes past chunk_size are not the
\* arena's.
AllocateChunk(size, align, base) ==
  /\ ~FitsChunk(size, align) /\ Len(chunks) < MaxChunks
  /\ \A i \in DOMAIN chunks : Apart(base, chunks[i])
  /\ chunks' = Append(chunks, base)
  /\ blocks' = Append(blocks, [start |-> base, size |-> size, align |-> align])
  /\ current_offset' = size

Reset ==
  /\ chunks' = <<chunks[1]>>
  /\ current_offset' = 0
  /\ blocks' = << >>

ArenaNext ==
  \/ \E size \in Sizes, align \in Aligns :
       AllocateHere(size, align) \/ \E base \in BaseAddresses : AllocateChunk(size, align, base)
  \/ Reset

ArenaSpec == ArenaInit /\ [][ArenaNext]_arenaVars
-----------------------------------------------------------------------------
\* The end of what a block has of the arena's memory: all of it, unless it is
\* larger than a chunk.
OwnEnd(b) == b.start + (IF b.size <= chunk_size THEN b.size ELSE chunk_size)

\* No two blocks of a query share a byte of the arena, be they in one chunk or
\* in chunks that touch, whatever was asked for in whatever order.  Of a
\* request larger than a chunk this holds up to the chunk's end; the rest was
\* never the arena's to give.
BlocksDisjoint ==
  \A i, j \in DOMAIN blocks :
    i # j => OwnEnd(blocks[i]) <= blocks[j].start \/ OwnEnd(blocks[j]) <= blocks[i].start

\* Until the Reset a block's memory is there: the chunk it was cut off is
\* kept, and a request of at most a chunk lies inside it.
BlocksInChunk ==
  \A i \in DOMAIN blocks : \E k \in DOMAIN chunks :
    /\ chunks[k] <= blocks[i].start
    /\ OwnEnd(blocks[i]) <= chunks[k] + chunk_size

\* Every block starts at a multiple of the alignment it was asked for with.
\* Allocate takes a new chunk to be "already aligned", so this can hold only
\* while operator new[] aligns chunks to every alignment that is asked for.
BlocksAligned == \A i \in DOMAIN blocks : blocks[i].start % blocks[i].align = 0

=============================================================================
