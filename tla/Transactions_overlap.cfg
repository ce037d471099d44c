SPECIFICATION TxnSpec
CONSTANTS
  Threads = {w1, w2}
  MaxTxns = 2
  MaxInserts = 0
  BufferSize = 20
  MAX_EPOCHS = 2
  MaxEpoch = 3
  RecordSize <- MCRecordSize
CHECK_DEADLOCK FALSE
INVARIANT CommittedIsFlushed
