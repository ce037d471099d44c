------------------------------- MODULE Schema -------------------------------
(***************************************************************************)
(* Column and Schema: where the columns of a fixed-length tuple lie.       *)
(* Lengths are such that their sum does not wrap uint32_t.                 *)
(***************************************************************************)
EXTENDS Integers, Sequences

DefaultLength == [BOOLEAN |-> 1, INTEGER |-> 4, BIGINT |-> 8, DOUBLE |-> 8,
                  FLOAT |-> 4, VARCHAR |-> 255, INVALID |-> 0]

Column(type, length) == IF length = 0 THEN DefaultLength[type] ELSE length

\* Offset of the i-th of columns given by their lengths; one past the last is
\* where the tuple ends.
Offset(columns, i) ==
  LET current_offset[n \in 1 .. Len(columns) + 1] ==
        IF n = 1 THEN 0 ELSE current_offset[n - 1] + columns[n - 1]
  IN current_offset[i]

TupleFixedLength(columns) == Offset(columns, Len(columns) + 1)

=============================================================================
