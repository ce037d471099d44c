---------------------------- MODULE Transactions ----------------------------
(***************************************************************************)
(* The TransactionManager over its EpochManager and LogManager, driven by  *)
(* worker threads that each run one transaction at a time.                 *)
(*                                                                         *)
(* Begin and Commit hold no latch of their own; their steps are the atomic *)
(* operations and latched sections they go through.                        *)
(***************************************************************************)
EXTENDS EpochManager, LogManager

CONSTANTS
  Threads,
  MaxTxns,     \* bound on next_txn_id
  MaxInserts   \* bound on the INSERT records of a transaction

ASSUME TxnAssumption == MaxTxns \in Nat \ {0} /\ MaxInserts \in Nat

VARIABLES
  next_txn_id,  \* next_txn_id_
  txns,         \* the Transaction objects, by id
  txn_map,      \* keys of txn_map_
  worker        \* where each thread is, in which transaction, and the epoch
                \* it has loaded

txnVars == <<next_txn_id, txns, txn_map, worker>>
txnSysVars == <<epochVars, logVars, txnVars>>

TxnIds == 1 .. MaxTxns
NoTxn == 0
NotEntered == 0   \* read_epoch_ before EnterReadEpoch

FreshTxn == [state |-> "ACTIVE", read_epoch |-> NotEntered, write_set |-> << >>]
Resting == [pc |-> "idle", txn |-> NoTxn, epoch |-> 0]

Records == [lsn : 1 .. next_lsn - 1, txn : TxnIds,
            type : RecordTypes, at : 0 .. BufferSize]

TxnTypeOK ==
  /\ EpochTypeOK
  /\ log_buffer \in Seq(Records) /\ flush_buffer \in Seq(Records)
  /\ log_buffer_offset \in 0 .. BufferSize /\ flush_size \in 0 .. BufferSize
  /\ flushed \subseteq Records /\ next_lsn \in Nat \ {0}
  /\ next_txn_id \in 1 .. MaxTxns + 1
  /\ txns \in [TxnIds -> [state : {"ACTIVE", "COMMITTED", "ABORTED"},
                          read_epoch : 0 .. MaxEpoch,
                          write_set : Seq(1 .. next_lsn - 1)]]
  /\ txn_map \subseteq TxnIds
  /\ worker \in [Threads -> [pc : {"idle", "load", "enter", "log", "register",
                                   "running", "swap", "flush", "exit", "undo"},
                             txn : TxnIds \cup {NoTxn}, epoch : 0 .. MaxEpoch]]

TxnInit ==
  /\ EpochInit
  /\ LogInit
  /\ next_txn_id = 1
  /\ txns = [i \in TxnIds |-> FreshTxn]
  /\ txn_map = {}
  /\ worker = [t \in Threads |-> Resting]

At(t, pc) == worker[t].pc = pc
Goto(t, pc) == worker' = [worker EXCEPT ![t].pc = pc]
-----------------------------------------------------------------------------
(***************************************************************************)
(* Begin.                                                                  *)
(***************************************************************************)
TakeId(t) ==
  /\ At(t, "idle")
  /\ next_txn_id <= MaxTxns
  /\ next_txn_id' = next_txn_id + 1
  /\ worker' = [worker EXCEPT ![t] = [pc |-> "load", txn |-> next_txn_id, epoch |-> 0]]
  /\ UNCHANGED <<epochVars, logVars, txns, txn_map>>

LoadEpoch(t) ==
  /\ At(t, "load")
  /\ worker' = [worker EXCEPT ![t] = [@ EXCEPT !.pc = "enter", !.epoch = global_epoch]]
  /\ UNCHANGED <<epochVars, logVars, next_txn_id, txns, txn_map>>

EnterReadEpoch(t) ==
  /\ At(t, "enter")
  /\ CountEntry(worker[t].epoch)
  /\ txns' = [txns EXCEPT ![worker[t].txn].read_epoch = worker[t].epoch]
  /\ Goto(t, "log")
  /\ UNCHANGED <<global_epoch, logVars, next_txn_id, txn_map>>

\* AppendWriteSet of the LSN that AppendLogRecord returned.
AppendWriteSet(t) ==
  txns' = [txns EXCEPT ![worker[t].txn].write_set = Append(@, next_lsn)]

LogBegin(t) ==
  /\ At(t, "log")
  /\ AppendLogRecord(worker[t].txn, "BEGIN")
  /\ AppendWriteSet(t)
  /\ Goto(t, "register")
  /\ UNCHANGED <<epochVars, next_txn_id, txn_map>>

Register(t) ==
  /\ At(t, "register")
  /\ txn_map' = txn_map \cup {worker[t].txn}
  /\ Goto(t, "running")
  /\ UNCHANGED <<epochVars, logVars, next_txn_id, txns>>
-----------------------------------------------------------------------------
(***************************************************************************)
(* The body of a transaction, Commit and Abort.                            *)
(***************************************************************************)

\* InsertExecutor logs a row.
LogInsert(t) ==
  /\ At(t, "running")
  /\ Len(txns[worker[t].txn].write_set) <= MaxInserts
  /\ AppendLogRecord(worker[t].txn, "INSERT")
  /\ AppendWriteSet(t)
  /\ UNCHANGED <<epochVars, next_txn_id, txn_map, worker>>

LogCommit(t) ==
  /\ At(t, "running")
  /\ AppendLogRecord(worker[t].txn, "COMMIT")
  /\ Goto(t, "swap")
  /\ UNCHANGED <<epochVars, next_txn_id, txns, txn_map>>

SwapForFlush(t) ==
  /\ At(t, "swap")
  /\ FlushSwap
  /\ Goto(t, "flush")
  /\ UNCHANGED <<epochVars, next_txn_id, txns, txn_map>>

FinishFlush(t) ==
  /\ At(t, "flush")
  /\ FlushRest
  /\ Goto(t, "exit")
  /\ UNCHANGED <<epochVars, next_txn_id, txns, txn_map>>

LogAbort(t) ==
  /\ At(t, "running")
  /\ AppendLogRecord(worker[t].txn, "ABORT")
  /\ Goto(t, "undo")
  /\ UNCHANGED <<epochVars, next_txn_id, txns, txn_map>>

\* Transaction::Commit and Transaction::Abort.
Finish(t, state) ==
  /\ txns' = [txns EXCEPT ![worker[t].txn].state = state]
  /\ ExitEpoch(txns[worker[t].txn].read_epoch)
  /\ worker' = [worker EXCEPT ![t] = Resting]
  /\ UNCHANGED <<global_epoch, logVars, next_txn_id, txn_map>>

\* Commit and Abort as the callers of the repository use them: once per
\* transaction, so the tests of GetState never return early.
Commit(t) == At(t, "exit") /\ Finish(t, "COMMITTED")
Abort(t) == At(t, "undo") /\ Finish(t, "ABORTED")

Advance == AdvanceEpoch /\ UNCHANGED <<logVars, txnVars>>

Begin(t) == TakeId(t) \/ LoadEpoch(t) \/ EnterReadEpoch(t) \/ LogBegin(t) \/ Register(t)

Ending(t) == SwapForFlush(t) \/ FinishFlush(t) \/ Commit(t) \/ Abort(t)

TxnNext ==
  \/ \E t \in Threads :
       Begin(t) \/ LogInsert(t) \/ LogCommit(t) \/ LogAbort(t) \/ Ending(t)
  \/ Advance

TxnSpec == TxnInit /\ [][TxnNext]_txnSysVars
-----------------------------------------------------------------------------
(***************************************************************************)
(* Properties.                                                             *)
(***************************************************************************)
Entered == {i \in TxnIds : txns[i].state = "ACTIVE" /\ txns[i].read_epoch # NotEntered}

\* Whatever epoch it is by the time a transaction ends, it leaves the epoch
\* it entered: each counter is the number of transactions reading in the
\* epochs that share it.
EpochsCounted ==
  \A s \in EpochSlots :
    active_epochs[s] = Cardinality({i \in Entered : txns[i].read_epoch % MAX_EPOCHS = s})

\* The log buffer holds an unbroken run of LSNs up to the last one given
\* out; its records are packed from the start of the buffer, each where the
\* one before ends, up to the offset, and none crosses the end of the
\* buffer, however appends and flushes of several workers mix.
LogBufferIsRun ==
  /\ \A i \in DOMAIN log_buffer :
       log_buffer[i].at = IF i = 1 THEN 0 ELSE EndOf(log_buffer[i - 1])
  /\ log_buffer_offset = IF log_buffer = << >> THEN 0 ELSE EndOf(log_buffer[Len(log_buffer)])
  /\ log_buffer_offset <= BufferSize
  /\ \A i \in DOMAIN log_buffer : log_buffer[i].lsn = next_lsn - 1 - Len(log_buffer) + i

\* No LSN belongs to two transactions, and a transaction's write set lists
\* its own LSNs in the order it wrote them.
WriteSetsOwn ==
  \A i, j \in TxnIds :
    \A m \in DOMAIN txns[i].write_set, n \in DOMAIN txns[j].write_set :
      /\ txns[i].write_set[m] = txns[j].write_set[n] => i = j /\ m = n
      /\ i = j /\ m < n => txns[i].write_set[m] < txns[j].write_set[n]

\* Commit forces the log before the transaction counts as committed: every
\* record of a committed transaction, and its COMMIT, is flushed.
CommittedIsFlushed ==
  \A i \in TxnIds : txns[i].state = "COMMITTED" =>
    /\ \A n \in DOMAIN txns[i].write_set :
         \E r \in flushed : r.lsn = txns[i].write_set[n]
    /\ \E r \in flushed : r.txn = i /\ r.type = "COMMIT"

\* Once a transaction is committed nothing of it waits in the log buffer for
\* the flush of somebody else, whichever worker swapped the buffers last.
CommittedLeftBuffer ==
  \A k \in DOMAIN log_buffer : txns[log_buffer[k].txn].state # "COMMITTED"

=============================================================================
