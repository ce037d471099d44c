SPECIFICATION Spec
CONSTANTS
  PAGE_SIZE = 16
  HEADER_SIZE = 3
  SLOT_SIZE = 2
  UINT16 = 32
  TupleSizes <- MCFittingSizes
  Threads = {w1, w2}
  MaxTxns = 2
  MaxInserts = 1
  BufferSize = 4
  MAX_EPOCHS = 2
  MaxEpoch = 3
  RecordSize <- MCRecordSize
  Callers = {t1, t2}
  Frames = {f1, f2}
  Trees = {a, b, e}
  EmptyTrees = {e}
  InvalidPage = invalid
  NoFrame = noframe
  MaxSearches = 4
  Hash <- MCHash
  MaxGroups = 4
  ChainLength = 4
  PlanOperators = {"LOGICAL_GET", "LOGICAL_FILTER", "LOGICAL_JOIN"}
  chunk_size = 6
  Sizes = {1, 3, 7}
  Aligns = {1, 2}
  NewAlign = 2
  BaseAddresses = {2, 8, 12}
  MaxChunks = 2
  WORD = 2
  Capacities = {1, 3}
  MaxSize = 3
  MaxColumns = 2
CHECK_DEADLOCK FALSE
INVARIANT TuplesInPage
INVARIANT TuplesIntact
INVARIANT TxnTypeOK
INVARIANT EpochsCounted
INVARIANT LogBufferIsRun
INVARIANT WriteSetsOwn
INVARIANT CommittedLeftBuffer
INVARIANT TreeTypeOK
INVARIANT LatchesBalanced
INVARIANT LatchedPagesStay
INVARIANT MemoTypeOK
INVARIANT EachExpressionOnce
INVARIANT MemoIsDag
INVARIANT GroupsEquivalent
INVARIANT BlocksDisjoint
INVARIANT BlocksInChunk
INVARIANT BlocksAligned
INVARIANT MaskCoversCapacity
INVARIANT NullsReadBack
PROPERTY RidsStable
PROPERTY LeafSearchesEnd
