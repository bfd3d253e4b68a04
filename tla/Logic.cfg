SPECIFICATION LSpec
CONSTANTS
  Hash <- MCHash
  Block <- MCBlock
  Prev <- MCPrev
  Depth <- MCDepth
  StartHash = "g"
  StartHeight = 3
  MaxI32 = 100
  U32 = 200
  LoadFromDb = TRUE
  SaveBlocks = FALSE
  DetectOrphans = TRUE
  Faults = {}
  None = None
  MaxChan = 4
  MaxFile = 1
  Timestamp <- MCTimestamp
  Threshold = 1
  Recent <- MCRecent
  Chain <- MainAndBranch
  FirstTip = "b"
  MaxInv = 2
  Reorgs = TRUE
  MaxDrops = 1
  MaxQueued = 3
INVARIANTS LinkedOnFirstBranch NothingForgotten OnlyOtherBlocksQueued
PROPERTIES OnlyUnknownRolledBack EventuallySynced
CHECK_DEADLOCK FALSE
