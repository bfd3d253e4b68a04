SPECIFICATION LSpec
CONSTANTS
  Hash <- MCHash
  Block <- MCBlock
  Prev <- MCPrev
  Depth <- MCDepth
  StartHash = "g"
  StartHeight = 3
  MaxI32 = 100
  U32 = 200
  LoadFromDb = TRUE
  SaveBlocks = FALSE
  DetectOrphans = TRUE
  Faults = {}
  None = None
  MaxChan = 4
  MaxFile = 1
  Timestamp <- MCTimestamp
  Threshold = 1
  Recent <- MCRecent
  Chain <- TwoReorgs
  FirstTip = "b"
  MaxInv = 2
  Reorgs = TRUE
  MaxDrops = 0
  MaxQueued = 3
INVARIANT HeadersFollow
CHECK_DEADLOCK FALSE
