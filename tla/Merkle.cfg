SPECIFICATION Spec
CONSTANTS
  MaxTxs = 9
INVARIANTS TypeOK ProofLeadsToRoot
PROPERTY ProofAnswered
CHECK_DEADLOCK FALSE
