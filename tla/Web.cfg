SPECIFICATION Spec
CONSTANTS
  Names = {"m", "broadcast", "s"}
  Unparsable = {"m"}
  Static <- OneStatic
  Worker = {1, 2}
  None = None
  MaxChan = 2
  MaxLate = 1
INVARIANTS NamesAgree ConfiguredKept
PROPERTY RestartKeepsMonitors
CHECK_DEADLOCK FALSE
