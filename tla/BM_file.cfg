SPECIFICATION Spec
CONSTANTS
  Hash <- MCHash
  Block <- MCBlock
  Prev <- MCPrev
  Depth <- MCDepth
  StartHash = "g"
  StartHeight = 3
  MaxI32 = 15
  U32 = 32
  LoadFromDb = FALSE
  SaveBlocks = TRUE
  DetectOrphans = FALSE
  Faults = {"crash","lose"}
  None = None
  MaxChan = 3
  MaxFile = 5
INVARIANTS ChainLinked PositionPointsAtBlock FileReplayed
CHECK_DEADLOCK FALSE
