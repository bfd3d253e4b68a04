SPECIFICATION Spec
CONSTANTS
  Hash <- MCHash
  Block <- MCBlock
  Prev <- MCPrev
  Depth <- MCDepth
  StartHash = "g"
  StartHeight = 3
  MaxI32 = 15
  U32 = 32
  LoadFromDb = TRUE
  SaveBlocks = FALSE
  DetectOrphans = TRUE
  Faults = {"crash"}
  None = None
  MaxChan = 3
  MaxFile = 4
INVARIANTS TypeOK NoBlockTwice QueueWaitsForOthers IndexAgreesWithTable
CHECK_DEADLOCK FALSE
PROPERTY UsesHeaderWriter
