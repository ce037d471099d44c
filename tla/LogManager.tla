----------------------------- MODULE LogManager -----------------------------
(***************************************************************************)
(* The LogManager: two buffers that change places.                         *)
(*                                                                         *)
(* The write of the flush buffer to disk is a comment in the code; what    *)
(* the code does at that point is to declare the buffer flushed            *)
(* (flush_size_ = 0).  `flushed' is what has been declared flushed so far: *)
(* the records the disk would have, had the write been there.              *)
(***************************************************************************)
EXTENDS Integers, SequencesExt

CONSTANTS
  BufferSize,    \* bytes of a buffer (2 * PAGE_SIZE in the code)
  RecordSize(_)  \* GetSize() of a record, by its type

RecordTypes == {"BEGIN", "INSERT", "COMMIT", "ABORT"}

\* Every record fits an empty buffer: they have 20 and 287 bytes, the buffer
\* 16384.
ASSUME LogAssumption ==
  /\ BufferSize \in Nat
  /\ \A type \in RecordTypes : RecordSize(type) \in 1 .. BufferSize

VARIABLES
  log_buffer,         \* records in log_buffer_[0 .. log_buffer_offset_)
  log_buffer_offset,  \* log_buffer_offset_
  flush_buffer,       \* records in flush_buffer_, as it was swapped out
  flush_size,         \* flush_size_
  next_lsn,           \* next_lsn_
  flushed             \* records declared flushed

logVars ==
  <<log_buffer, log_buffer_offset, flush_buffer, flush_size, next_lsn, flushed>>

LogInit ==
  /\ log_buffer = << >> /\ log_buffer_offset = 0
  /\ flush_buffer = << >> /\ flush_size = 0
  /\ next_lsn = 1
  /\ flushed = {}

\* SwapBuffers: the records now in the buffer are the ones to flush.
SwapBuffers ==
  /\ flush_buffer' = log_buffer
  /\ flush_size' = log_buffer_offset

\* The test that keeps log_buffer_offset_ within the buffer.
Mutant_RoomForOne(type) == log_buffer_offset >= BufferSize
BufferFull(type) == log_buffer_offset + RecordSize(type) > BufferSize

\* The number a record gets.
Mutant_LsnTwice == UNCHANGED next_lsn
TakeLsn == next_lsn' = next_lsn + 1

\* A record as it is serialised: `at' is where in the buffer.
Record(txn, type, at) == [lsn |-> next_lsn, txn |-> txn, type |-> type, at |-> at]
EndOf(record) == record.at + RecordSize(record.type)

\* AppendLogRecord holds latch_ throughout and returns next_lsn.  Nobody
\* waits on cv_, so notify_one wakes nobody.
AppendLogRecord(txn, type) ==
  /\ \/ /\ BufferFull(type)
        /\ SwapBuffers
        /\ log_buffer' = <<Record(txn, type, 0)>>
        /\ log_buffer_offset' = RecordSize(type)
     \/ /\ ~BufferFull(type)
        /\ log_buffer' = Append(log_buffer, Record(txn, type, log_buffer_offset))
        /\ log_buffer_offset' = log_buffer_offset + RecordSize(type)
        /\ UNCHANGED <<flush_buffer, flush_size>>
  /\ TakeLsn
  /\ UNCHANGED flushed

\* The latched half of Flush.
Mutant_ContentsStay == UNCHANGED log_buffer
Emptied == log_buffer' = << >>

Mutant_SkipsWhileFlushing ==
  /\ \/ flush_size = 0 /\ SwapBuffers /\ Emptied /\ log_buffer_offset' = 0
     \/ flush_size # 0 /\ UNCHANGED <<log_buffer, log_buffer_offset, flush_buffer, flush_size>>
  /\ UNCHANGED <<next_lsn, flushed>>
FlushSwap ==
  /\ SwapBuffers
  /\ Emptied
  /\ log_buffer_offset' = 0
  /\ UNCHANGED <<next_lsn, flushed>>

\* The rest of Flush, after latch_ is released: whatever flush_buffer_ and
\* flush_size_ show by now counts as flushed.
FlushRest ==
  /\ flushed' = IF flush_size = 0 THEN flushed ELSE flushed \cup ToSet(flush_buffer)
  /\ flush_size' = 0
  /\ UNCHANGED <<log_buffer, log_buffer_offset, flush_buffer, next_lsn>>

=============================================================================
