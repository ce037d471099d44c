----------------------------- MODULE ColumnBatch -----------------------------
(***************************************************************************)
(* TupleBatch and its FlatVectors: the sizes and null masks of the columns *)
(* that executors pass along.                                              *)
(*                                                                         *)
(* A null mask is a sequence of words of WORD bits, made when the vector   *)
(* is and never again; a word is the set of its bits that are 1.           *)
(***************************************************************************)
EXTENDS Integers, Sequences

CONSTANTS
  WORD,         \* bits of a word of null_mask_ (64)
  Capacities,   \* capacities vectors are made with
  MaxSize,      \* bound on Resize and SetNumRows
  MaxColumns    \* bound on columns_

ASSUME BatchAssumption ==
  /\ {WORD, MaxColumns} \subseteq Nat \ {0} /\ MaxSize \in Nat
  /\ Capacities \subseteq Nat

VARIABLES
  num_rows,  \* num_rows_
  columns,   \* columns_
  nulls      \* for each column, the indexes whose last SetNull said NULL

batchVars == <<num_rows, columns, nulls>>

Mutant_WholeWords(capacity) == capacity \div WORD
MaskWords(capacity) == (capacity + WORD - 1) \div WORD

FlatVector(capacity) ==
  [capacity |-> capacity, size |-> 0, null_mask |-> [w \in 1 .. MaskWords(capacity) |-> {}]]

BatchTypeOK ==
  /\ num_rows \in 0 .. MaxSize
  /\ Len(columns) <= MaxColumns
  /\ columns \in Seq([capacity : Capacities, size : 0 .. MaxSize,
                      null_mask : Seq(SUBSET (0 .. WORD - 1))])
  /\ nulls \in Seq(SUBSET (0 .. MaxSize - 1)) /\ Len(nulls) = Len(columns)

BatchInit == num_rows = 0 /\ columns = << >> /\ nulls = << >>

\* Words are counted from 1 here and from 0 in the code.
WordIdx(index) == index \div WORD + 1
Mutant_SameBit(index) == 0
BitIdx(index) == index % WORD
HasWord(v, index) == WordIdx(index) \in DOMAIN v.null_mask
IsNull(v, index) == BitIdx(index) \in v.null_mask[WordIdx(index)]

AddColumn(capacity) ==
  /\ Len(columns) < MaxColumns
  /\ columns' = Append(columns, FlatVector(capacity))
  /\ nulls' = Append(nulls, {})
  /\ UNCHANGED num_rows

\* data_ follows, the mask does not; bits of rows that are cut off stay.
Resize(c, new_size) ==
  /\ columns' = [columns EXCEPT ![c].size = new_size]
  /\ UNCHANGED <<num_rows, nulls>>

\* The index is not tested.  A write past the mask is undefined, so callers are
\* held to rows that have a word; MaskCoversCapacity says which those are.
SetNull(c, index, is_null) ==
  /\ HasWord(columns[c], index)
  /\ columns' = [columns EXCEPT ![c].null_mask[WordIdx(index)] =
                   IF is_null THEN @ \cup {BitIdx(index)} ELSE @ \ {BitIdx(index)}]
  /\ nulls' = [nulls EXCEPT ![c] = IF is_null THEN @ \cup {index} ELSE @ \ {index}]
  /\ UNCHANGED num_rows

SetNumRows(rows) == num_rows' = rows /\ UNCHANGED <<columns, nulls>>

\* TupleBatch::Reset keeps the vectors as they are.
ResetBatch == num_rows' = 0 /\ UNCHANGED <<columns, nulls>>

BatchNext ==
  \/ \E capacity \in Capacities : AddColumn(capacity)
  \/ \E c \in DOMAIN columns :
       \/ \E n \in 0 .. MaxSize : Resize(c, n)
       \/ \E i \in 0 .. MaxSize - 1, b \in BOOLEAN : SetNull(c, i, b)
  \/ \E n \in 0 .. MaxSize : SetNumRows(n)
  \/ ResetBatch

BatchSpec == BatchInit /\ [][BatchNext]_batchVars
-----------------------------------------------------------------------------
\* The words of the mask suffice for every row the vector was made for, at
\* every capacity: only a Resize past the capacity leaves rows without one.
MaskCoversCapacity ==
  \A c \in DOMAIN columns : \A i \in 0 .. columns[c].size - 1 :
    ~HasWord(columns[c], i) => i >= columns[c].capacity

\* IsNull reads back what SetNull last said of that very row, through any
\* sequence of Resize and Reset; rows that were cut off and have come back
\* still show their old bit.
NullsReadBack ==
  \A c \in DOMAIN columns : \A i \in 0 .. columns[c].size - 1 :
    HasWord(columns[c], i) => (IsNull(columns[c], i) <=> i \in nulls[c])

=============================================================================
