SPECIFICATION Spec
CONSTANTS
  Ips <- TwoIps
  Conn = {c1, c2, c3}
  Tx = {"t"}
  Faults = {"panic", "spawn"}
  None = None
  MaxPanics = 1
  MaxQueued = 1
INVARIANTS TypeOK OneTrackedThread LogicKnowsPeer
PROPERTIES OnlyClosedStopped EveryIpTried ShutdownCompletes RequestsTaken
CHECK_DEADLOCK FALSE
