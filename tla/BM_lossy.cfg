SPECIFICATION Spec
CONSTANTS
  Hash <- MCHash
  Block <- MCBlock
  Prev <- MCPrev
  Depth <- MCDepth
  StartHash = "g"
  StartHeight = 3
  MaxI32 = 5
  U32 = 32
  LoadFromDb = TRUE
  SaveBlocks = TRUE
  DetectOrphans = FALSE
  Faults = {"crash","lose","load","file"}
  None = None
  MaxChan = 2
  MaxFile = 3
INVARIANT TrueHeights
CHECK_DEADLOCK FALSE
