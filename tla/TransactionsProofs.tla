------------------------- MODULE TransactionsProofs -------------------------
(***************************************************************************)
(* Proofs about Transactions, for every number of workers, transactions,   *)
(* inserts and epochs, every size of the ring of epoch counters and every  *)
(* size of the log buffer that holds any one record.                       *)
(***************************************************************************)
EXTENDS Transactions, SequenceTheorems, FiniteSetTheorems, TLAPS
-----------------------------------------------------------------------------
(***************************************************************************)
(* The inductive invariant.                                                *)
(***************************************************************************)

\* The log's part of the type invariant.
LogTypeOK ==
  /\ log_buffer \in Seq(Records) /\ flush_buffer \in Seq(Records)
  /\ log_buffer_offset \in 0 .. BufferSize /\ flush_size \in 0 .. BufferSize
  /\ flushed \subseteq Records /\ next_lsn \in Nat \ {0}

\* Each worker is in a transaction of its own.
WorkersApart ==
  \A t, u \in Threads : worker[t].txn = worker[u].txn /\ worker[t].txn # NoTxn => t = u

\* An id was handed out before a worker has it, and its transaction is
\* active until the worker lets go of it.
WorkersActive ==
  \A t \in Threads : IF worker[t].pc = "idle" THEN worker[t].txn = NoTxn ELSE
    /\ worker[t].txn \in TxnIds /\ worker[t].txn < next_txn_id
    /\ txns[worker[t].txn].state = "ACTIVE"

\* Where a worker is tells whether its transaction has entered an epoch.
WorkersEntered ==
  \A t \in Threads :
    /\ worker[t].pc \in {"load", "enter"} => txns[worker[t].txn].read_epoch = NotEntered
    /\ worker[t].pc = "enter" => worker[t].epoch \in 1 .. global_epoch
    /\ worker[t].pc \notin {"idle", "load", "enter"} => txns[worker[t].txn].read_epoch # NotEntered

\* No transaction reads in an epoch that is still to come, and ids that
\* were not handed out have entered none.
EpochsPast ==
  \A i \in TxnIds :
    /\ txns[i].read_epoch <= global_epoch
    /\ i >= next_txn_id => txns[i].state = "ACTIVE" /\ txns[i].read_epoch = NotEntered

\* The records waiting in the log buffer are of transactions that began and
\* whose worker, if it still has one, has not come past its swap.
BufferOwned ==
  \A k \in DOMAIN log_buffer :
    /\ log_buffer[k].txn < next_txn_id
    /\ \A t \in Threads : worker[t].pc \in {"flush", "exit"} => worker[t].txn # log_buffer[k].txn

Inv ==
  /\ TxnTypeOK /\ WorkersApart /\ WorkersActive /\ WorkersEntered /\ EpochsPast
  /\ BufferOwned /\ EpochsCounted /\ LogBufferIsRun /\ WriteSetsOwn /\ CommittedLeftBuffer
WorkerType == [pc : {"idle", "load", "enter", "log", "register",
                     "running", "swap", "flush", "exit", "undo"},
               txn : TxnIds \cup {NoTxn}, epoch : 0 .. MaxEpoch]

TxnType == [state : {"ACTIVE", "COMMITTED", "ABORTED"}, read_epoch : 0 .. MaxEpoch,
            write_set : Seq(1 .. next_lsn - 1)]

\* The type invariant is the log's, the epochs' and the transactions' part.
LEMMA TypeParts ==
  ASSUME TxnTypeOK
  PROVE  /\ EpochTypeOK /\ LogTypeOK
         /\ next_txn_id \in 1 .. MaxTxns + 1
         /\ txns \in [TxnIds -> TxnType] /\ txn_map \subseteq TxnIds
         /\ worker \in [Threads -> WorkerType]
  BY DEF TxnTypeOK, LogTypeOK, WorkerType, TxnType

LEMMA TypePartsNext ==
  ASSUME EpochTypeOK', LogTypeOK', (next_txn_id \in 1 .. MaxTxns + 1)',
         (txns \in [TxnIds -> TxnType])', (txn_map \subseteq TxnIds)',
         (worker \in [Threads -> WorkerType])'
  PROVE  TxnTypeOK'
  BY DEF TxnTypeOK, LogTypeOK, WorkerType, TxnType

LEMMA ElementTyped == ASSUME NEW S, NEW s \in Seq(S), NEW k \in DOMAIN s PROVE s[k] \in S
  BY LenProperties, ElementOfSeq

\* Every record in the log buffer names a transaction.
LEMMA BufferTxns == ASSUME TxnTypeOK PROVE \A k \in DOMAIN log_buffer : log_buffer[k].txn \in TxnIds
  <1>1. log_buffer \in Seq(Records)
    BY DEF TxnTypeOK
  <1>2. \A k \in DOMAIN log_buffer : log_buffer[k] \in Records
    BY <1>1, ElementTyped
  <1> QED
    BY <1>2 DEF Records

-----------------------------------------------------------------------------
(***************************************************************************)
(* The log.                                                                *)
(***************************************************************************)

\* AppendLogRecord keeps the log typed and packed, and what it leaves in the
\* buffer is the new record and records that were there before.
LEMMA AppendFacts ==
  ASSUME LogTypeOK, LogBufferIsRun, MaxTxns \in Nat,
         NEW x \in TxnIds, NEW type \in RecordTypes, AppendLogRecord(x, type)
  PROVE  /\ LogTypeOK' /\ LogBufferIsRun'
         /\ next_lsn' = next_lsn + 1
         /\ \A k \in DOMAIN log_buffer' :
              \/ log_buffer'[k].txn = x
              \/ \E j \in DOMAIN log_buffer : log_buffer'[k].txn = log_buffer[j].txn
  <1>1. /\ BufferSize \in Nat /\ RecordSize(type) \in 1 .. BufferSize
        /\ \A y \in RecordTypes : RecordSize(y) \in 1 .. BufferSize
    BY LogAssumption
  <1>2. next_lsn \in Nat \ {0} /\ next_lsn' = next_lsn + 1
    BY DEF LogTypeOK, AppendLogRecord, TakeLsn
  <1>3. Records \subseteq Records'
    BY <1>2 DEF Records
  <1>4. flushed' = flushed /\ flushed' \subseteq Records'
    BY <1>3 DEF AppendLogRecord, LogTypeOK
  <1>5. log_buffer \in Seq(Records') /\ flush_buffer \in Seq(Records')
    BY <1>3, SeqMonotonic DEF LogTypeOK
  <1>6. log_buffer_offset \in 0 .. BufferSize /\ flush_size \in 0 .. BufferSize
    BY DEF LogTypeOK
  <1>7. CASE BufferFull(type)
    <2> DEFINE r == Record(x, type, 0)
    <2>1. /\ log_buffer' = <<r>> /\ log_buffer_offset' = RecordSize(type)
          /\ flush_buffer' = log_buffer /\ flush_size' = log_buffer_offset
      BY <1>7 DEF AppendLogRecord, SwapBuffers
    <2>2. r \in Records' /\ r.at = 0 /\ r.lsn = next_lsn /\ r.type = type /\ r.txn = x
      BY <1>1, <1>2 DEF Records, Record
    <2> HIDE DEF r
    <2>3. /\ log_buffer' \in Seq(Records') /\ Len(log_buffer') = 1 /\ DOMAIN log_buffer' = {1}
          /\ log_buffer'[1] = r /\ log_buffer' # << >>
      BY <2>1, <2>2
    <2>4. LogTypeOK'
      BY <1>1, <1>2, <1>4, <1>5, <1>6, <2>1, <2>3 DEF LogTypeOK
    <2>5. LogBufferIsRun'
      BY <1>1, <1>2, <2>1, <2>2, <2>3 DEF LogBufferIsRun, EndOf
    <2> QED
      BY <1>2, <2>2, <2>3, <2>4, <2>5
  <1>8. CASE ~BufferFull(type)
    <2> DEFINE r == Record(x, type, log_buffer_offset)
               n == Len(log_buffer)
    <2>1. /\ log_buffer' = Append(log_buffer, r)
          /\ log_buffer_offset' = log_buffer_offset + RecordSize(type)
          /\ flush_buffer' = flush_buffer /\ flush_size' = flush_size
      BY <1>8 DEF AppendLogRecord
    <2>2. /\ r \in Records' /\ r.at = log_buffer_offset /\ r.lsn = next_lsn /\ r.type = type
          /\ r.txn = x
      BY <1>1, <1>2, <1>6 DEF Records, Record
    <2>3. n \in Nat /\ DOMAIN log_buffer = 1 .. n
      BY <1>5, LenProperties
    <2> HIDE DEF r
    <2>4. /\ log_buffer' \in Seq(Records') /\ Len(log_buffer') = n + 1 /\ log_buffer' # << >>
          /\ \A k \in 1 .. n : log_buffer'[k] = log_buffer[k]
          /\ log_buffer'[n + 1] = r
      BY <1>5, <2>1, <2>2, AppendProperties
    <2>5. DOMAIN log_buffer' = 1 .. n + 1
      BY <2>4, LenProperties
    <2>6. log_buffer_offset' \in 0 .. BufferSize
      BY <1>1, <1>6, <1>8, <2>1 DEF BufferFull
    <2>7. LogTypeOK'
      BY <1>2, <1>4, <1>5, <1>6, <2>1, <2>4, <2>6 DEF LogTypeOK
    <2>8. n = 0 <=> log_buffer = << >>
      BY <1>5, EmptySeq
    <2>9. log_buffer_offset = IF n = 0 THEN 0 ELSE EndOf(log_buffer[n])
      BY <2>8 DEF LogBufferIsRun
    <2> HIDE DEF n
    <2>10. ASSUME NEW i \in 1 .. n + 1
           PROVE  log_buffer'[i].at = IF i = 1 THEN 0 ELSE EndOf(log_buffer'[i - 1])
      <3>1. CASE i \in 1 .. n
        <4>1. log_buffer'[i] = log_buffer[i] /\ (i # 1 => log_buffer'[i - 1] = log_buffer[i - 1])
          BY <2>3, <2>4, <3>1
        <4>2. log_buffer[i].at = IF i = 1 THEN 0 ELSE EndOf(log_buffer[i - 1])
          BY <2>3, <3>1 DEF LogBufferIsRun
        <4> QED
          BY <4>1, <4>2
      <3>2. CASE i = n + 1
        <4>1. log_buffer'[i].at = log_buffer_offset
          BY <2>2, <2>4, <3>2
        <4>2. i # 1 => n \in 1 .. n /\ log_buffer'[i - 1] = log_buffer[n] /\ n # 0
          BY <2>3, <2>4, <3>2
        <4>3. i = 1 => n = 0
          BY <2>3, <3>2
        <4> QED
          BY <2>9, <4>1, <4>2, <4>3
      <3> QED
        BY <2>3, <2>10, <3>1, <3>2
    <2>11. log_buffer_offset' = EndOf(log_buffer'[n + 1])
      BY <2>1, <2>2, <2>4 DEF EndOf
    <2>12. ASSUME NEW i \in 1 .. n + 1
           PROVE  log_buffer'[i].lsn = next_lsn' - 1 - (n + 1) + i
      <3>1. CASE i \in 1 .. n
        <4>1. log_buffer[i].lsn = next_lsn - 1 - n + i
          BY <2>3, <3>1 DEF LogBufferIsRun, n
        <4> QED
          BY <1>2, <2>3, <2>4, <3>1, <4>1
      <3>2. CASE i = n + 1
        BY <1>2, <2>2, <2>3, <2>4, <3>2
      <3> QED
        BY <2>3, <2>12, <3>1, <3>2
    <2>13. LogBufferIsRun'
      BY <1>1, <2>4, <2>5, <2>6, <2>10, <2>11, <2>12 DEF LogBufferIsRun
    <2>14. \A k \in DOMAIN log_buffer' :
             \/ log_buffer'[k].txn = x
             \/ \E j \in DOMAIN log_buffer : log_buffer'[k].txn = log_buffer[j].txn
      BY <2>2, <2>3, <2>4, <2>5
    <2> QED
      BY <1>2, <2>7, <2>13, <2>14
  <1> QED
    BY <1>7, <1>8

\* The latched half of Flush empties the buffer, whatever was in it.
LEMMA SwapFacts ==
  ASSUME LogTypeOK, FlushSwap
  PROVE  /\ LogTypeOK' /\ LogBufferIsRun' /\ DOMAIN log_buffer' = {}
         /\ next_lsn' = next_lsn
  <1>1. Records' = Records /\ next_lsn' = next_lsn
    BY DEF FlushSwap, Records
  <1>2. log_buffer' = << >> /\ << >> \in Seq(Records) /\ DOMAIN log_buffer' = {}
    BY EmptySeq DEF FlushSwap, Emptied
  <1>3. LogTypeOK'
    BY <1>1, <1>2, LogAssumption DEF LogTypeOK, FlushSwap, SwapBuffers
  <1>4. LogBufferIsRun'
    BY <1>2, LogAssumption DEF LogBufferIsRun, FlushSwap
  <1> QED
    BY <1>1, <1>2, <1>3, <1>4

\* The unlatched half touches no record that is still to be flushed.
LEMMA RestFacts ==
  ASSUME LogTypeOK, LogBufferIsRun, FlushRest
  PROVE  /\ LogTypeOK' /\ LogBufferIsRun' /\ log_buffer' = log_buffer
         /\ next_lsn' = next_lsn
  <1>1. Records' = Records /\ next_lsn' = next_lsn
    BY DEF FlushRest, Records
  <1>2. ToSet(flush_buffer) \subseteq Records
    BY LenProperties, ElementOfSeq DEF ToSet, LogTypeOK
  <1>3. flushed' \subseteq Records
    BY <1>2 DEF FlushRest, LogTypeOK
  <1>4. LogTypeOK'
    BY <1>1, <1>3, LogAssumption DEF LogTypeOK, FlushRest
  <1> QED
    BY <1>1, <1>4 DEF LogBufferIsRun, FlushRest
-----------------------------------------------------------------------------
(***************************************************************************)
(* The counters of the epochs.                                             *)
(***************************************************************************)
Readers(s) == {i \in Entered : txns[i].read_epoch % MAX_EPOCHS = s}

LEMMA ReadersFinite == \A s : IsFiniteSet(Readers(s)) /\ Cardinality(Readers(s)) \in Nat
  <1>1. IsFiniteSet(TxnIds)
    BY TxnAssumption, FS_Interval DEF TxnIds
  <1>2. \A s : Readers(s) \in SUBSET TxnIds
    BY DEF Readers, Entered
  <1> QED
    BY <1>1, <1>2, FS_Subset, FS_CardinalityType

\* Every epoch has a counter.
LEMMA SlotOfEpoch == \A e \in Nat : e % MAX_EPOCHS \in EpochSlots
  BY EpochAssumption DEF EpochSlots

\* Steps that neither begin nor end a transaction leave the readers alone.
LEMMA ReadersKept ==
  ASSUME EpochsCounted, active_epochs' = active_epochs,
         \A i \in TxnIds : /\ txns'[i].state = txns[i].state
                           /\ txns'[i].read_epoch = txns[i].read_epoch
  PROVE  EpochsCounted'
  <1>1. Entered' = Entered
    BY DEF Entered
  <1>2. \A s : Readers(s)' = Readers(s)
    BY <1>1 DEF Readers, Entered
  <1> QED
    BY <1>2 DEF EpochsCounted, Readers

\* A step that appends to the write set of the worker's transaction the LSN
\* that the log hands out at the same time.
LEMMA WriteSetFacts ==
  ASSUME TxnTypeOK, WriteSetsOwn, NEW t \in Threads, worker[t].txn \in TxnIds,
         AppendWriteSet(t), next_lsn' = next_lsn + 1
  PROVE  /\ txns' \in [TxnIds -> TxnType']
         /\ \A i \in TxnIds : /\ txns'[i].state = txns[i].state
                              /\ txns'[i].read_epoch = txns[i].read_epoch
         /\ WriteSetsOwn'
  <1> DEFINE x == worker[t].txn
             ws(i) == txns[i].write_set
             wp(i) == txns'[i].write_set
  <1>1. next_lsn \in Nat \ {0}
    BY DEF TxnTypeOK
  <1>2. \A i \in TxnIds : /\ txns[i].state \in {"ACTIVE", "COMMITTED", "ABORTED"}
                          /\ txns[i].read_epoch \in 0 .. MaxEpoch
                          /\ ws(i) \in Seq(1 .. next_lsn - 1)
    BY DEF TxnTypeOK
  <1>3. \A i \in TxnIds : ws(i) \in Seq(1 .. next_lsn)
    <2>1. (1 .. next_lsn - 1) \subseteq (1 .. next_lsn)
      BY <1>1
    <2> QED
      BY <1>2, <2>1, SeqMonotonic
  <1>4. txns' = [txns EXCEPT ![x].write_set = Append(ws(x), next_lsn)]
    BY DEF AppendWriteSet
  <1>5. next_lsn \in 1 .. next_lsn /\ next_lsn' - 1 = next_lsn
    BY <1>1
  <1>6. /\ wp(x) = Append(ws(x), next_lsn)
        /\ \A i \in TxnIds : i # x => txns'[i] = txns[i]
        /\ txns'[x].state = txns[x].state /\ txns'[x].read_epoch = txns[x].read_epoch
    BY <1>4 DEF TxnTypeOK
  <1>7. /\ wp(x) \in Seq(1 .. next_lsn) /\ Len(wp(x)) = Len(ws(x)) + 1
        /\ \A n \in 1 .. Len(ws(x)) : wp(x)[n] = ws(x)[n]
        /\ wp(x)[Len(ws(x)) + 1] = next_lsn
    <2>1. ws(x) \in Seq(1 .. next_lsn)
      BY <1>3
    <2> HIDE DEF ws, wp
    <2> QED
      BY <1>5, <1>6, <2>1, AppendProperties
  <1>8. txns' \in [TxnIds -> [state : {"ACTIVE", "COMMITTED", "ABORTED"},
                              read_epoch : 0 .. MaxEpoch, write_set : Seq(1 .. next_lsn)]]
    <2>1. txns \in [TxnIds -> [state : {"ACTIVE", "COMMITTED", "ABORTED"},
                               read_epoch : 0 .. MaxEpoch, write_set : Seq(1 .. next_lsn - 1)]]
      BY DEF TxnTypeOK
    <2>2. txns \in [TxnIds -> [state : {"ACTIVE", "COMMITTED", "ABORTED"},
                               read_epoch : 0 .. MaxEpoch, write_set : Seq(1 .. next_lsn)]]
      BY <1>3, <2>1
    <2>3. Append(ws(x), next_lsn) \in Seq(1 .. next_lsn)
      BY <1>6, <1>7
    <2> QED
      BY <1>4, <2>2, <2>3
  <1>9. \A i \in TxnIds : \A n \in DOMAIN ws(i) : ws(i)[n] \in Nat /\ ws(i)[n] < next_lsn
    BY <1>1, <1>2, ElementTyped
  <1>10. DOMAIN wp(x) = 1 .. Len(ws(x)) + 1 /\ DOMAIN ws(x) = 1 .. Len(ws(x)) /\ Len(ws(x)) \in Nat
    BY <1>3, <1>7, LenProperties
  <1>11. ASSUME NEW i \in TxnIds, NEW n \in DOMAIN wp(i)
         PROVE  \/ n \in DOMAIN ws(i) /\ wp(i)[n] = ws(i)[n]
                \/ i = x /\ n = Len(ws(x)) + 1 /\ wp(i)[n] = next_lsn
    <2>1. CASE i # x
      BY <1>6, <2>1
    <2>2. CASE i = x /\ n \in 1 .. Len(ws(x))
      <3> HIDE DEF ws, wp
      <3> QED BY <1>7, <1>10, <2>2
    <2>3. CASE i = x /\ n = Len(ws(x)) + 1
      BY <1>7, <2>3
    <2>4. ASSUME i = x PROVE n \in 1 .. Len(ws(x)) \/ n = Len(ws(x)) + 1
      <3>1. n \in 1 .. Len(ws(x)) + 1 /\ Len(ws(x)) \in Nat
        BY <1>10, <2>4
      <3> HIDE DEF ws
      <3> QED BY <3>1
    <2> QED
      BY <2>1, <2>2, <2>3, <2>4
  <1>12. WriteSetsOwn'
    <2> SUFFICES ASSUME NEW i \in TxnIds, NEW j \in TxnIds,
                        NEW m \in DOMAIN wp(i), NEW n \in DOMAIN wp(j)
                 PROVE  /\ wp(i)[m] = wp(j)[n] => i = j /\ m = n
                        /\ i = j /\ m < n => wp(i)[m] < wp(j)[n]
      BY DEF WriteSetsOwn
    <2>1. CASE m \in DOMAIN ws(i) /\ wp(i)[m] = ws(i)[m] /\ n \in DOMAIN ws(j) /\ wp(j)[n] = ws(j)[n]
      BY <2>1 DEF WriteSetsOwn
    <2>2. CASE /\ m \in DOMAIN ws(i) /\ wp(i)[m] = ws(i)[m]
               /\ j = x /\ n = Len(ws(x)) + 1 /\ wp(j)[n] = next_lsn
      BY <1>1, <1>9, <2>2
    <2>3. CASE /\ n \in DOMAIN ws(j) /\ wp(j)[n] = ws(j)[n]
               /\ i = x /\ m = Len(ws(x)) + 1 /\ wp(i)[m] = next_lsn
      <3>1. ws(j)[n] \in Nat /\ ws(j)[n] < next_lsn
        BY <1>9, <2>3
      <3>2. i = j => ~(m < n)
        BY <1>10, <2>3
      <3> QED
        BY <1>1, <2>3, <3>1, <3>2
    <2>4. CASE i = x /\ m = Len(ws(x)) + 1 /\ j = x /\ n = Len(ws(x)) + 1
      BY <1>10, <2>4
    <2> QED
      BY <1>11, <2>1, <2>2, <2>3, <2>4
  <1>13. TxnType' = [state : {"ACTIVE", "COMMITTED", "ABORTED"},
                     read_epoch : 0 .. MaxEpoch, write_set : Seq(1 .. next_lsn)]
    BY <1>5 DEF TxnType
  <1> QED
    BY <1>6, <1>8, <1>12, <1>13
-----------------------------------------------------------------------------
(***************************************************************************)
(* The invariant is inductive.                                             *)
(***************************************************************************)
LEMMA InitInv == TxnInit => Inv
  <1> SUFFICES ASSUME TxnInit PROVE Inv
    OBVIOUS
  <1> USE DEF TxnInit, EpochInit, LogInit, FreshTxn, Resting, NotEntered, NoTxn
  <1>1. log_buffer = << >> /\ DOMAIN log_buffer = {} /\ \A S : << >> \in Seq(S)
    BY EmptySeq
  <1>2. /\ MAX_EPOCHS \in Nat \ {0} /\ MaxEpoch \in Nat \ {0} /\ MaxTxns \in Nat \ {0}
        /\ BufferSize \in Nat
    BY EpochAssumption, TxnAssumption, LogAssumption
  <1>3. TxnTypeOK
    <2>1. EpochTypeOK
      BY <1>2 DEF EpochTypeOK
    <2>2. /\ log_buffer \in Seq(Records) /\ flush_buffer \in Seq(Records)
          /\ log_buffer_offset \in 0 .. BufferSize /\ flush_size \in 0 .. BufferSize
          /\ flushed \subseteq Records /\ next_lsn \in Nat \ {0}
      BY <1>1, <1>2
    <2>3. FreshTxn \in [state : {"ACTIVE", "COMMITTED", "ABORTED"}, read_epoch : 0 .. MaxEpoch,
                        write_set : Seq(1 .. next_lsn - 1)]
      BY <1>1, <1>2
    <2>4. Resting \in [pc : {"idle", "load", "enter", "log", "register",
                             "running", "swap", "flush", "exit", "undo"},
                       txn : TxnIds \cup {NoTxn}, epoch : 0 .. MaxEpoch]
      BY <1>2
    <2> QED
      BY <1>2, <2>1, <2>2, <2>3, <2>4 DEF TxnTypeOK
  <1>4. WorkersApart /\ WorkersActive /\ WorkersEntered
    BY DEF WorkersApart, WorkersActive, WorkersEntered
  <1>5. EpochsPast
    BY DEF EpochsPast
  <1>6. BufferOwned /\ CommittedLeftBuffer
    BY <1>1 DEF BufferOwned, CommittedLeftBuffer
  <1>7. LogBufferIsRun
    BY <1>1, <1>2 DEF LogBufferIsRun
  <1>8. WriteSetsOwn
    BY <1>1 DEF WriteSetsOwn
  <1>9. EpochsCounted
    <2>1. \A s : {i \in Entered : txns[i].read_epoch % MAX_EPOCHS = s} = {}
      BY DEF Entered
    <2> QED
      BY <2>1, FS_EmptySet DEF EpochsCounted
  <1> QED
    BY <1>3, <1>4, <1>5, <1>6, <1>7, <1>8, <1>9 DEF Inv

\* A worker that moves on within its transaction, past nothing but its pc.
LEMMA GotoFacts ==
  ASSUME worker \in [Threads -> WorkerType], NEW t \in Threads,
         NEW pc \in {"log", "register", "running", "swap", "flush", "exit", "undo"}, Goto(t, pc)
  PROVE  /\ worker' \in [Threads -> WorkerType]
         /\ worker'[t].pc = pc /\ worker'[t].txn = worker[t].txn /\ worker'[t].epoch = worker[t].epoch
         /\ \A u \in Threads \ {t} : worker'[u] = worker[u]
  BY DEF Goto, WorkerType

\* Begin: the id.
LEMMA TakeIdInv == ASSUME Inv, NEW t \in Threads, TakeId(t) PROVE Inv'
  <1> USE TxnAssumption, EpochAssumption
  <1> DEFINE w == [pc |-> "load", txn |-> next_txn_id, epoch |-> 0]
  <1>1. /\ next_txn_id \in TxnIds /\ next_txn_id' = next_txn_id + 1 /\ next_txn_id \in Nat
        /\ next_txn_id # NoTxn
    BY DEF Inv, TxnTypeOK, TakeId, TxnIds, NoTxn
  <1>2. w \in WorkerType
    BY <1>1 DEF WorkerType
  <1>3. /\ worker \in [Threads -> WorkerType] /\ worker' = [worker EXCEPT ![t] = w]
        /\ UNCHANGED <<epochVars, logVars, txns, txn_map>>
    BY TypeParts DEF Inv, TakeId
  <1>4. /\ worker' \in [Threads -> WorkerType] /\ worker'[t] = w
        /\ \A u \in Threads \ {t} : worker'[u] = worker[u]
    BY <1>2, <1>3
  <1> USE DEF logVars, epochVars
  <1>5. LogTypeOK' /\ EpochTypeOK'
    BY <1>3, TypeParts DEF Inv, EpochTypeOK, LogTypeOK, Records
  <1>6. TxnTypeOK'
    <2>1. next_txn_id' \in 1 .. MaxTxns + 1
      BY <1>1 DEF TakeId, TxnIds
    <2>2. TxnType' = TxnType
      BY <1>3 DEF TxnType
    <2>3. txns' \in [TxnIds -> TxnType'] /\ txn_map' \subseteq TxnIds
      BY <1>3, <2>2, TypeParts DEF Inv
    <2> QED
      BY <1>4, <1>5, <2>1, <2>3, TypePartsNext
  <1>7. \A u \in Threads : worker[u].txn # next_txn_id
    BY <1>1, <1>3 DEF Inv, WorkersActive
  <1>8. WorkersApart'
    BY <1>4, <1>7 DEF Inv, WorkersApart
  <1>9. EpochsPast'
    BY <1>1, <1>3 DEF Inv, EpochsPast, TxnIds
  <1>10. txns[next_txn_id].state = "ACTIVE" /\ txns[next_txn_id].read_epoch = NotEntered
    BY <1>1 DEF Inv, EpochsPast
  <1>11. WorkersActive'
    BY <1>1, <1>3, <1>4, <1>10 DEF Inv, WorkersActive, TxnIds
  <1>12. WorkersEntered'
    BY <1>3, <1>4, <1>10 DEF Inv, WorkersEntered
  <1>13. BufferOwned' /\ CommittedLeftBuffer'
    BY <1>1, <1>3, <1>4, BufferTxns DEF Inv, BufferOwned, CommittedLeftBuffer, TxnIds
  <1>14. EpochsCounted' /\ WriteSetsOwn' /\ LogBufferIsRun'
    BY <1>3, ReadersKept DEF Inv, WriteSetsOwn, LogBufferIsRun
  <1> QED
    BY <1>6, <1>8, <1>9, <1>11, <1>12, <1>13, <1>14 DEF Inv

\* Begin: the load of the global epoch.
LEMMA LoadEpochInv == ASSUME Inv, NEW t \in Threads, LoadEpoch(t) PROVE Inv'
  <1> USE DEF logVars, epochVars
  <1>1. /\ worker \in [Threads -> WorkerType] /\ global_epoch \in 1 .. MaxEpoch
        /\ worker[t].pc = "load" /\ UNCHANGED <<epochVars, logVars, next_txn_id, txns, txn_map>>
        /\ worker' = [worker EXCEPT ![t] = [@ EXCEPT !.pc = "enter", !.epoch = global_epoch]]
    BY TypeParts DEF Inv, LoadEpoch, At, EpochTypeOK
  <1>2. /\ worker' \in [Threads -> WorkerType]
        /\ worker'[t].pc = "enter" /\ worker'[t].txn = worker[t].txn
        /\ worker'[t].epoch = global_epoch
        /\ \A u \in Threads \ {t} : worker'[u] = worker[u]
    <2> DEFINE w == [worker[t] EXCEPT !.pc = "enter", !.epoch = global_epoch]
    <2>1. global_epoch \in 0 .. MaxEpoch /\ worker[t] \in WorkerType
      BY <1>1, EpochAssumption
    <2>2. w \in WorkerType /\ w.pc = "enter" /\ w.txn = worker[t].txn /\ w.epoch = global_epoch
      BY <2>1 DEF WorkerType
    <2> HIDE DEF w
    <2>3. worker' = [worker EXCEPT ![t] = w]
      BY <1>1 DEF w
    <2> QED
      BY <1>1, <2>2, <2>3
  <1>3. TxnTypeOK'
    BY <1>1, <1>2 DEF Inv, TxnTypeOK, EpochTypeOK, Records, WorkerType
  <1>4. WorkersApart' /\ WorkersActive'
    BY <1>1, <1>2 DEF Inv, WorkersApart, WorkersActive
  <1>5. WorkersEntered'
    BY <1>1, <1>2, EpochAssumption DEF Inv, WorkersEntered
  <1>6. EpochsPast' /\ BufferOwned' /\ CommittedLeftBuffer'
    BY <1>1, <1>2 DEF Inv, EpochsPast, BufferOwned, CommittedLeftBuffer
  <1>7. EpochsCounted' /\ WriteSetsOwn' /\ LogBufferIsRun'
    BY <1>1, ReadersKept DEF Inv, WriteSetsOwn, LogBufferIsRun
  <1> QED
    BY <1>3, <1>4, <1>5, <1>6, <1>7 DEF Inv

\* Begin: the transaction counts itself in the epoch it loaded, whatever the
\* global epoch is by now.
LEMMA EnterReadEpochInv == ASSUME Inv, NEW t \in Threads, EnterReadEpoch(t) PROVE Inv'
  <1> USE DEF logVars
  <1> DEFINE x == worker[t].txn
             e == worker[t].epoch
  <1>1. /\ worker \in [Threads -> WorkerType] /\ txns \in [TxnIds -> TxnType]
        /\ global_epoch \in 1 .. MaxEpoch /\ active_epochs \in [EpochSlots -> Int]
    BY TypeParts DEF Inv, EpochTypeOK
  <1>2. /\ worker[t].pc = "enter" /\ Goto(t, "log")
        /\ active_epochs' = [active_epochs EXCEPT ![e % MAX_EPOCHS] = @ + 1]
        /\ txns' = [txns EXCEPT ![x].read_epoch = e]
        /\ UNCHANGED <<global_epoch, logVars, next_txn_id, txn_map>>
    BY DEF EnterReadEpoch, At, CountEntry
  <1>3. /\ x \in TxnIds /\ x < next_txn_id /\ txns[x].state = "ACTIVE"
        /\ txns[x].read_epoch = NotEntered /\ e \in 1 .. global_epoch
    BY <1>2 DEF Inv, WorkersActive, WorkersEntered
  <1>4. e \in 0 .. MaxEpoch /\ e \in Nat /\ e # NotEntered /\ e <= global_epoch
    BY <1>1, <1>3, EpochAssumption DEF NotEntered
  <1>5. /\ worker' \in [Threads -> WorkerType]
        /\ worker'[t].pc = "log" /\ worker'[t].txn = x
        /\ \A u \in Threads \ {t} : worker'[u] = worker[u]
    BY <1>1, <1>2, GotoFacts
  <1>6. TxnType' = TxnType
    BY <1>2 DEF TxnType
  <1>7. /\ txns' \in [TxnIds -> TxnType] /\ \A i \in TxnIds \ {x} : txns'[i] = txns[i]
        /\ txns'[x].state = txns[x].state /\ txns'[x].write_set = txns[x].write_set
        /\ txns'[x].read_epoch = e
    <2> HIDE DEF e
    <2> QED BY <1>1, <1>2, <1>3, <1>4 DEF TxnType
  <1>8. TxnTypeOK'
    <2>1. EpochTypeOK'
      <3>1. e % MAX_EPOCHS \in EpochSlots
        BY <1>4, SlotOfEpoch
      <3>2. active_epochs' \in [EpochSlots -> Int]
        BY <1>1, <1>2, <3>1
      <3> QED
        BY <1>1, <1>2, <3>2 DEF EpochTypeOK
    <2>2. LogTypeOK' /\ next_txn_id' \in 1 .. MaxTxns + 1 /\ txn_map' \subseteq TxnIds
      BY <1>2, TypeParts DEF Inv, LogTypeOK, Records
    <2> QED
      BY <1>5, <1>6, <1>7, <2>1, <2>2, TypePartsNext
  <1>9. WorkersApart'
    BY <1>5 DEF Inv, WorkersApart
  <1>10. \A u \in Threads : u # t => worker[u].txn # x
    BY <1>3 DEF Inv, WorkersApart, NoTxn, TxnIds
  <1>11. WorkersActive'
    BY <1>2, <1>3, <1>5, <1>7 DEF Inv, WorkersActive
  <1>12. WorkersEntered'
    BY <1>2, <1>4, <1>5, <1>7, <1>10 DEF Inv, WorkersEntered, WorkersActive
  <1>13. EpochsPast'
    BY <1>1, <1>2, <1>3, <1>4, <1>7 DEF Inv, EpochsPast, TxnTypeOK, TxnIds
  <1>14. BufferOwned' /\ CommittedLeftBuffer' /\ LogBufferIsRun'
    BY <1>2, <1>5, <1>7, BufferTxns DEF Inv, BufferOwned, CommittedLeftBuffer, LogBufferIsRun
  <1>15. WriteSetsOwn'
    <2>1. \A i \in TxnIds : txns'[i].write_set = txns[i].write_set
      BY <1>7
    <2> QED
      BY <2>1 DEF Inv, WriteSetsOwn
  <1>16. EpochsCounted'
    <2>1. PICK s \in EpochSlots : s = e % MAX_EPOCHS
      BY <1>4, SlotOfEpoch
    <2>2. Entered' = Entered \cup {x} /\ x \notin Entered
      BY <1>3, <1>4, <1>7 DEF Entered
    <2>3. \A r : Readers(r)' = IF r = s THEN Readers(r) \cup {x} ELSE Readers(r)
      BY <1>7, <2>1, <2>2 DEF Readers, Entered
    <2>4. Cardinality(Readers(s)') = Cardinality(Readers(s)) + 1
      <3>1. x \notin Readers(s) /\ Readers(s)' = Readers(s) \cup {x}
        BY <2>2, <2>3 DEF Readers
      <3> QED
        BY <3>1, ReadersFinite, FS_AddElement
    <2>5. \A r \in EpochSlots : active_epochs'[r] = IF r = s THEN active_epochs[r] + 1 ELSE active_epochs[r]
      BY <1>1, <1>2, <2>1
    <2>6. \A r \in EpochSlots : active_epochs[r] = Cardinality(Readers(r))
      BY DEF Inv, EpochsCounted, Readers
    <2>7. \A r \in EpochSlots : active_epochs'[r] = Cardinality(Readers(r)')
      BY <2>1, <2>3, <2>4, <2>5, <2>6
    <2> QED
      BY <2>7 DEF EpochsCounted, Readers
  <1> QED
    BY <1>8, <1>9, <1>11, <1>12, <1>13, <1>14, <1>15, <1>16 DEF Inv

\* What any step that logs a record of a running transaction leaves in the
\* buffer: nothing of a transaction past its swap, nothing committed.
LEMMA LoggedFacts ==
  ASSUME Inv, NEW t \in Threads, NEW type \in RecordTypes,
         worker[t].pc \in {"log", "running"}, AppendLogRecord(worker[t].txn, type),
         next_txn_id' = next_txn_id, worker'[t].pc \notin {"flush", "exit"},
         \A u \in Threads : worker'[u].txn = worker[u].txn,
         \A u \in Threads \ {t} : worker'[u] = worker[u],
         \A i \in TxnIds : txns'[i].state = txns[i].state
  PROVE  /\ LogTypeOK' /\ LogBufferIsRun' /\ BufferOwned' /\ CommittedLeftBuffer'
         /\ next_lsn' = next_lsn + 1
  <1> DEFINE x == worker[t].txn
  <1>1. x \in TxnIds /\ x < next_txn_id /\ txns[x].state = "ACTIVE"
    BY DEF Inv, WorkersActive
  <1>2. /\ LogTypeOK' /\ LogBufferIsRun' /\ next_lsn' = next_lsn + 1
        /\ \A k \in DOMAIN log_buffer' :
             \/ log_buffer'[k].txn = x
             \/ \E j \in DOMAIN log_buffer : log_buffer'[k].txn = log_buffer[j].txn
    BY <1>1, TxnAssumption, TypeParts, AppendFacts DEF Inv
  <1>3. \A u \in Threads : worker[u].txn = x => u = t
    BY <1>1 DEF Inv, WorkersApart, NoTxn, TxnIds
  <1>4. \A j \in DOMAIN log_buffer : log_buffer[j].txn \in TxnIds
    BY BufferTxns DEF Inv
  <1>5. ASSUME NEW k \in DOMAIN log_buffer'
        PROVE  /\ log_buffer'[k].txn < next_txn_id
               /\ txns'[log_buffer'[k].txn].state # "COMMITTED"
               /\ \A u \in Threads :
                    worker'[u].pc \in {"flush", "exit"} => worker'[u].txn # log_buffer'[k].txn
    <2>1. CASE log_buffer'[k].txn = x
      BY <1>1, <1>3, <2>1
    <2>2. CASE log_buffer'[k].txn # x
      <3>1. PICK j \in DOMAIN log_buffer : log_buffer'[k].txn = log_buffer[j].txn
        BY <1>2, <2>2
      <3> QED
        BY <1>4, <3>1 DEF Inv, BufferOwned, CommittedLeftBuffer
    <2> QED
      BY <2>1, <2>2
  <1> QED
    BY <1>2, <1>5 DEF BufferOwned, CommittedLeftBuffer

\* What a step that logs a record, and may put it in the write set, keeps
\* besides.
LEMMA LogStepInv ==
  ASSUME Inv, NEW t \in Threads, NEW type \in RecordTypes,
         worker[t].pc \in {"log", "running"}, AppendLogRecord(worker[t].txn, type),
         AppendWriteSet(t) \/ UNCHANGED txns,
         UNCHANGED <<epochVars, next_txn_id, txn_map>>,
         \/ UNCHANGED worker /\ worker[t].pc = "running"
         \/ \E pc \in {"register", "swap", "undo"} : Goto(t, pc)
  PROVE  Inv'
  <1> USE DEF epochVars
  <1> DEFINE x == worker[t].txn
  <1>1. /\ worker \in [Threads -> WorkerType] /\ txns \in [TxnIds -> TxnType]
        /\ next_lsn \in Nat \ {0} /\ EpochTypeOK /\ next_txn_id \in 1 .. MaxTxns + 1
        /\ txn_map \subseteq TxnIds
    BY TypeParts DEF Inv, LogTypeOK
  <1>2. x \in TxnIds
    BY DEF Inv, WorkersActive
  <1>3. /\ worker' \in [Threads -> WorkerType]
        /\ worker'[t].pc \in {"running", "register", "swap", "undo"}
        /\ \A u \in Threads : worker'[u].txn = worker[u].txn
        /\ \A u \in Threads \ {t} : worker'[u] = worker[u]
    <2>1. CASE UNCHANGED worker /\ worker[t].pc = "running"
      BY <1>1, <2>1
    <2>2. ASSUME NEW pc \in {"register", "swap", "undo"}, Goto(t, pc)
          PROVE  /\ worker' \in [Threads -> WorkerType]
                 /\ worker'[t].pc \in {"running", "register", "swap", "undo"}
                 /\ \A u \in Threads : worker'[u].txn = worker[u].txn
                 /\ \A u \in Threads \ {t} : worker'[u] = worker[u]
      <3>1. /\ worker' \in [Threads -> WorkerType] /\ worker'[t].pc = pc
            /\ worker'[t].txn = worker[t].txn
            /\ \A u \in Threads \ {t} : worker'[u] = worker[u]
        BY <1>1, <2>2, GotoFacts
      <3> QED
        BY <3>1
    <2> QED
      BY <2>1, <2>2
  <1>4. next_lsn' = next_lsn + 1
    BY DEF AppendLogRecord, TakeLsn
  <1>5. /\ txns' \in [TxnIds -> TxnType']
        /\ \A i \in TxnIds : /\ txns'[i].state = txns[i].state
                             /\ txns'[i].read_epoch = txns[i].read_epoch
        /\ WriteSetsOwn'
    <2>1. CASE AppendWriteSet(t)
      BY <1>2, <1>4, <2>1, WriteSetFacts DEF Inv
    <2>2. CASE UNCHANGED txns
      <3>1. (1 .. next_lsn - 1) \subseteq (1 .. next_lsn' - 1)
        BY <1>1, <1>4
      <3>2. Seq(1 .. next_lsn - 1) \subseteq Seq(1 .. next_lsn' - 1)
        BY <3>1, SeqMonotonic
      <3>3. TxnType \subseteq TxnType'
        BY <3>2 DEF TxnType
      <3> QED
        BY <1>1, <2>2, <3>3 DEF Inv, WriteSetsOwn
    <2> QED
      BY <2>1, <2>2
  <1>6. LogTypeOK' /\ LogBufferIsRun' /\ BufferOwned' /\ CommittedLeftBuffer'
    BY <1>3, <1>5, LoggedFacts
  <1>7. TxnTypeOK'
    <2>1. EpochTypeOK'
      BY <1>1 DEF EpochTypeOK
    <2> QED
      BY <1>1, <1>3, <1>5, <1>6, <2>1, TypePartsNext
  <1>8. WorkersApart'
    BY <1>3 DEF Inv, WorkersApart
  <1>9. WorkersActive'
    BY <1>2, <1>3, <1>5 DEF Inv, WorkersActive
  <1>10. WorkersEntered'
    <2>1. \A u \in Threads : worker'[u].pc # "idle" => worker[u].txn \in TxnIds
      BY <1>2, <1>3 DEF Inv, WorkersActive
    <2>2. txns[x].read_epoch # NotEntered
      BY DEF Inv, WorkersEntered
    <2> QED
      BY <1>3, <1>5, <2>1, <2>2 DEF Inv, WorkersEntered
  <1>11. EpochsPast' /\ EpochsCounted'
    BY <1>5, ReadersKept DEF Inv, EpochsPast
  <1> QED
    BY <1>5, <1>6, <1>7, <1>8, <1>9, <1>10, <1>11 DEF Inv

\* Steps that move a worker on and at most register or flush.
LEMMA MoveInv ==
  ASSUME Inv, NEW t \in Threads, NEW pc \in {"running", "flush", "exit"}, Goto(t, pc),
         worker[t].pc \in {"register", "swap", "flush"},
         pc = "exit" => worker[t].pc = "flush",
         UNCHANGED <<epochVars, next_txn_id, txns>>, (txn_map \subseteq TxnIds)',
         next_lsn' = next_lsn, LogTypeOK', LogBufferIsRun',
         \/ DOMAIN log_buffer' = {}
         \/ log_buffer' = log_buffer /\ pc # "flush"
  PROVE  Inv'
  <1> USE DEF epochVars
  <1>1. /\ worker \in [Threads -> WorkerType] /\ txns \in [TxnIds -> TxnType]
        /\ EpochTypeOK /\ next_txn_id \in 1 .. MaxTxns + 1
    BY TypeParts DEF Inv
  <1>2. /\ worker' \in [Threads -> WorkerType] /\ worker'[t].pc = pc
        /\ worker'[t].txn = worker[t].txn
        /\ \A u \in Threads \ {t} : worker'[u] = worker[u]
    BY <1>1, GotoFacts
  <1>3. TxnTypeOK'
    <2>1. EpochTypeOK' /\ TxnType' = TxnType
      BY <1>1 DEF EpochTypeOK, TxnType
    <2> QED
      BY <1>1, <1>2, <2>1, TypePartsNext
  <1>4. WorkersApart' /\ WorkersActive'
    BY <1>2 DEF Inv, WorkersApart, WorkersActive
  <1>5. WorkersEntered'
    BY <1>2 DEF Inv, WorkersEntered
  <1>6. EpochsPast' /\ EpochsCounted' /\ WriteSetsOwn'
    BY ReadersKept DEF Inv, EpochsPast, WriteSetsOwn
  <1>7. BufferOwned' /\ CommittedLeftBuffer'
    BY <1>2 DEF Inv, BufferOwned, CommittedLeftBuffer
  <1> QED
    BY <1>3, <1>4, <1>5, <1>6, <1>7 DEF Inv

\* Commit and Abort: the transaction leaves the epoch it entered.
LEMMA FinishInv ==
  ASSUME Inv, NEW t \in Threads, NEW state \in {"COMMITTED", "ABORTED"}, Finish(t, state),
         worker[t].pc \in {"exit", "undo"}, state = "COMMITTED" => worker[t].pc = "exit"
  PROVE  Inv'
  <1> USE DEF logVars
  <1> DEFINE x == worker[t].txn
             e == txns[x].read_epoch
  <1>1. /\ worker \in [Threads -> WorkerType] /\ txns \in [TxnIds -> TxnType]
        /\ global_epoch \in 1 .. MaxEpoch /\ active_epochs \in [EpochSlots -> Int]
    BY TypeParts DEF Inv, EpochTypeOK
  <1>2. /\ active_epochs' = [active_epochs EXCEPT ![e % MAX_EPOCHS] = @ - 1]
        /\ txns' = [txns EXCEPT ![x].state = state]
        /\ worker' = [worker EXCEPT ![t] = Resting]
        /\ UNCHANGED <<global_epoch, logVars, next_txn_id, txn_map>>
    BY DEF Finish, ExitEpoch
  <1>3. x \in TxnIds /\ x < next_txn_id /\ txns[x].state = "ACTIVE" /\ e # NotEntered
    BY DEF Inv, WorkersActive, WorkersEntered
  <1>4. e \in Nat /\ e \in 0 .. MaxEpoch
    BY <1>1, <1>3, EpochAssumption DEF TxnType
  <1>5. /\ worker' \in [Threads -> WorkerType] /\ worker'[t].pc = "idle" /\ worker'[t].txn = NoTxn
        /\ \A u \in Threads \ {t} : worker'[u] = worker[u]
    <2>1. Resting \in WorkerType
      BY EpochAssumption DEF Resting, WorkerType
    <2> QED
      BY <1>1, <1>2, <2>1 DEF Resting
  <1>6. TxnType' = TxnType
    BY <1>2 DEF TxnType
  <1>7. /\ txns' \in [TxnIds -> TxnType] /\ \A i \in TxnIds \ {x} : txns'[i] = txns[i]
        /\ txns'[x].state = state /\ txns'[x].write_set = txns[x].write_set
        /\ txns'[x].read_epoch = e
    BY <1>1, <1>2, <1>3 DEF TxnType
  <1>8. TxnTypeOK'
    <2>1. EpochTypeOK'
      <3>1. e % MAX_EPOCHS \in EpochSlots
        BY <1>4, SlotOfEpoch
      <3>2. active_epochs' \in [EpochSlots -> Int]
        BY <1>1, <1>2, <3>1
      <3> QED
        BY <1>1, <1>2, <3>2 DEF EpochTypeOK
    <2>2. LogTypeOK' /\ next_txn_id' \in 1 .. MaxTxns + 1 /\ txn_map' \subseteq TxnIds
      BY <1>2, TypeParts DEF Inv, LogTypeOK, Records
    <2> QED
      BY <1>5, <1>6, <1>7, <2>1, <2>2, TypePartsNext
  <1>9. WorkersApart'
    BY <1>5 DEF Inv, WorkersApart
  <1>10. \A u \in Threads : u # t => worker[u].txn # x
    BY <1>3 DEF Inv, WorkersApart, NoTxn, TxnIds
  <1>11. WorkersActive'
    BY <1>2, <1>5, <1>7, <1>10 DEF Inv, WorkersActive
  <1>12. WorkersEntered'
    BY <1>2, <1>5, <1>7, <1>10 DEF Inv, WorkersEntered, WorkersActive
  <1>13. EpochsPast'
    BY <1>1, <1>2, <1>3, <1>4, <1>7 DEF Inv, EpochsPast, TxnTypeOK, TxnIds
  <1>14. BufferOwned' /\ LogBufferIsRun'
    BY <1>2, <1>5 DEF Inv, BufferOwned, LogBufferIsRun
  <1>15. CommittedLeftBuffer'
    <2> SUFFICES ASSUME NEW k \in DOMAIN log_buffer
                 PROVE  txns'[log_buffer[k].txn].state # "COMMITTED"
      BY <1>2 DEF CommittedLeftBuffer
    <2>1. log_buffer[k].txn \in TxnIds /\ txns[log_buffer[k].txn].state # "COMMITTED"
      BY BufferTxns DEF Inv, CommittedLeftBuffer
    <2>2. state = "COMMITTED" => log_buffer[k].txn # x
      BY DEF Inv, BufferOwned
    <2> QED
      BY <1>7, <2>1, <2>2
  <1>16. WriteSetsOwn'
    <2>1. \A i \in TxnIds : txns'[i].write_set = txns[i].write_set
      BY <1>7
    <2> QED
      BY <2>1 DEF Inv, WriteSetsOwn
  <1>17. EpochsCounted'
    <2>1. PICK s \in EpochSlots : s = e % MAX_EPOCHS
      BY <1>4, SlotOfEpoch
    <2>2. Entered' = Entered \ {x} /\ x \in Entered
      BY <1>3, <1>7 DEF Entered
    <2>3. \A r : Readers(r)' = IF r = s THEN Readers(r) \ {x} ELSE Readers(r)
      BY <1>7, <2>1, <2>2 DEF Readers, Entered
    <2>4. Cardinality(Readers(s)') = Cardinality(Readers(s)) - 1
      <3>1. x \in Readers(s) /\ Readers(s)' = Readers(s) \ {x}
        BY <2>1, <2>2, <2>3 DEF Readers
      <3>2. IsFiniteSet(Readers(s))
        BY ReadersFinite
      <3>3. Cardinality(Readers(s) \ {x}) = Cardinality(Readers(s)) - 1
        BY <3>1, <3>2, FS_RemoveElement
      <3> QED
        BY <3>1, <3>3
    <2>5. \A r \in EpochSlots : active_epochs'[r] = IF r = s THEN active_epochs[r] - 1 ELSE active_epochs[r]
      BY <1>1, <1>2, <2>1
    <2>6. \A r \in EpochSlots : active_epochs[r] = Cardinality(Readers(r))
      BY DEF Inv, EpochsCounted, Readers
    <2>7. \A r \in EpochSlots : active_epochs'[r] = Cardinality(Readers(r)')
      BY <2>1, <2>3, <2>4, <2>5, <2>6
    <2> QED
      BY <2>7 DEF EpochsCounted, Readers
  <1> QED
    BY <1>8, <1>9, <1>11, <1>12, <1>13, <1>14, <1>15, <1>16, <1>17 DEF Inv

\* The global epoch moves on.
LEMMA AdvanceInv == ASSUME Inv, Advance PROVE Inv'
  <1> USE DEF logVars, txnVars
  <1>1. /\ global_epoch' = global_epoch + 1 /\ global_epoch < MaxEpoch
        /\ active_epochs' = active_epochs /\ UNCHANGED <<logVars, txnVars>>
    BY DEF Advance, AdvanceEpoch
  <1>2. global_epoch \in 1 .. MaxEpoch /\ txns \in [TxnIds -> TxnType]
        /\ worker \in [Threads -> WorkerType]
    BY TypeParts DEF Inv, EpochTypeOK
  <1>3. TxnTypeOK'
    <2>1. EpochTypeOK'
      BY <1>1, <1>2, EpochAssumption DEF Inv, TxnTypeOK, EpochTypeOK
    <2>2. LogTypeOK' /\ TxnType' = TxnType
      BY <1>1, TypeParts DEF Inv, LogTypeOK, Records, TxnType
    <2> QED
      BY <1>1, <1>2, <2>1, <2>2, TypeParts, TypePartsNext DEF Inv
  <1>4. WorkersApart' /\ WorkersActive' /\ BufferOwned' /\ CommittedLeftBuffer'
    BY <1>1 DEF Inv, WorkersApart, WorkersActive, BufferOwned, CommittedLeftBuffer
  <1>5. WorkersEntered'
    <2>1. \A t \in Threads : worker[t].epoch \in 1 .. global_epoch => worker[t].epoch \in 1 .. global_epoch'
      BY <1>1, <1>2
    <2> QED
      BY <1>1, <2>1 DEF Inv, WorkersEntered
  <1>6. EpochsPast'
    <2>1. \A i \in TxnIds : txns[i].read_epoch \in Nat
      BY <1>2, EpochAssumption DEF TxnType
    <2> QED
      BY <1>1, <1>2, <2>1 DEF Inv, EpochsPast
  <1>7. EpochsCounted' /\ WriteSetsOwn' /\ LogBufferIsRun'
    BY <1>1, ReadersKept DEF Inv, WriteSetsOwn, LogBufferIsRun
  <1> QED
    BY <1>3, <1>4, <1>5, <1>6, <1>7 DEF Inv

\* Every step of every worker, and every advance of the epoch, keeps it.
LEMMA NextInv == ASSUME Inv, [TxnNext]_txnSysVars PROVE Inv'
  <1>1. CASE UNCHANGED txnSysVars
    BY <1>1 DEF txnSysVars, epochVars, logVars, txnVars, Inv, TxnTypeOK, EpochTypeOK, Records,
       WorkersApart, WorkersActive, WorkersEntered, EpochsPast, BufferOwned, EpochsCounted,
       Entered, LogBufferIsRun, WriteSetsOwn, CommittedLeftBuffer
  <1>2. ASSUME NEW t \in Threads, Begin(t) PROVE Inv'
    <2>1. CASE TakeId(t)
      BY <2>1, TakeIdInv
    <2>2. CASE LoadEpoch(t)
      BY <2>2, LoadEpochInv
    <2>3. CASE EnterReadEpoch(t)
      BY <2>3, EnterReadEpochInv
    <2>4. CASE LogBegin(t)
      BY <2>4, LogStepInv DEF LogBegin, At, RecordTypes
    <2>5. CASE Register(t)
      <3>1. worker[t].txn \in TxnIds
        BY <2>5 DEF Register, At, Inv, WorkersActive
      <3>2. LogTypeOK' /\ LogBufferIsRun' /\ (txn_map \subseteq TxnIds)'
        BY <2>5, <3>1, TypeParts DEF Register, logVars, Inv, LogTypeOK, Records, LogBufferIsRun
      <3> QED
        BY <2>5, <3>2, MoveInv DEF Register, At, logVars
    <2> QED
      BY <1>2, <2>1, <2>2, <2>3, <2>4, <2>5 DEF Begin
  <1>3. ASSUME NEW t \in Threads, LogInsert(t) \/ LogCommit(t) \/ LogAbort(t) PROVE Inv'
    BY <1>3, LogStepInv DEF LogInsert, LogCommit, LogAbort, At, RecordTypes
  <1>4. ASSUME NEW t \in Threads, Ending(t) PROVE Inv'
    <2>1. CASE SwapForFlush(t)
      <3>1. LogTypeOK' /\ LogBufferIsRun' /\ DOMAIN log_buffer' = {} /\ next_lsn' = next_lsn
        BY <2>1, TypeParts, SwapFacts DEF SwapForFlush, Inv
      <3>2. (txn_map \subseteq TxnIds)'
        BY <2>1, TypeParts DEF SwapForFlush, Inv
      <3> QED
        BY <2>1, <3>1, <3>2, MoveInv DEF SwapForFlush, At
    <2>2. CASE FinishFlush(t)
      <3>1. LogTypeOK' /\ LogBufferIsRun' /\ log_buffer' = log_buffer /\ next_lsn' = next_lsn
        BY <2>2, TypeParts, RestFacts DEF FinishFlush, Inv
      <3>2. (txn_map \subseteq TxnIds)'
        BY <2>2, TypeParts DEF FinishFlush, Inv
      <3> QED
        BY <2>2, <3>1, <3>2, MoveInv DEF FinishFlush, At
    <2>3. CASE Commit(t)
      BY <2>3, FinishInv DEF Commit, At
    <2>4. CASE Abort(t)
      BY <2>4, FinishInv DEF Abort, At
    <2> QED
      BY <1>4, <2>1, <2>2, <2>3, <2>4 DEF Ending
  <1>5. CASE Advance
    BY <1>5, AdvanceInv
  <1> QED
    BY <1>1, <1>2, <1>3, <1>4, <1>5 DEF TxnNext

\* The invariant holds of every reachable state.
THEOREM Invariant == TxnSpec => []Inv
  BY InitInv, NextInv, PTL DEF TxnSpec
-----------------------------------------------------------------------------
(***************************************************************************)
(* The properties.                                                         *)
(***************************************************************************)

\* No record crosses the end of the log buffer, epochs and ids stay in their
\* ranges, and every write set holds LSNs that were handed out.
THEOREM TypeCorrect == TxnSpec => []TxnTypeOK
  <1>1. Inv => TxnTypeOK
    BY DEF Inv
  <1> QED
    BY <1>1, Invariant, PTL

\* Each epoch counter is the number of transactions reading in the epochs
\* that share it: EnterEpoch and ExitEpoch of a transaction balance.
THEOREM EpochCountersBalance == TxnSpec => []EpochsCounted
  <1>1. Inv => EpochsCounted
    BY DEF Inv
  <1> QED
    BY <1>1, Invariant, PTL

\* AppendLogRecord and Flush keep the buffer a packed run of LSNs.
THEOREM LogBufferPacked == TxnSpec => []LogBufferIsRun
  <1>1. Inv => LogBufferIsRun
    BY DEF Inv
  <1> QED
    BY <1>1, Invariant, PTL

\* Write sets are disjoint and ascending.
THEOREM WriteSetsDisjoint == TxnSpec => []WriteSetsOwn
  <1>1. Inv => WriteSetsOwn
    BY DEF Inv
  <1> QED
    BY <1>1, Invariant, PTL

\* Commit's own swap takes every record of the transaction out of the log
\* buffer, and no later append puts one back.
THEOREM CommitEmptiesBuffer == TxnSpec => []CommittedLeftBuffer
  <1>1. Inv => CommittedLeftBuffer
    BY DEF Inv
  <1> QED
    BY <1>1, Invariant, PTL

=============================================================================
