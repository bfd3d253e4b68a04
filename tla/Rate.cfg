SPECIFICATION Spec
CONSTANTS
  Address = {"c1", "c2"}
  Users <- MCUsers
  Python = "py"
  Limits = {0, 2}
  WINDOW = 2
  None = None
  MaxTime = 3
  MaxRestarts = 1
  MaxForwarded = 1
INVARIANTS TypeOK TwiceTheLimit RefusedForCause
CHECK_DEADLOCK FALSE
