SPECIFICATION ArenaSpec
CONSTANTS
  chunk_size = 6
  Sizes = {1, 3}
  Aligns = {1, 2, 4}
  NewAlign = 2
  BaseAddresses = {2, 8, 12}
  MaxChunks = 2
CHECK_DEADLOCK FALSE
INVARIANT BlocksAligned
