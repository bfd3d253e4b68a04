SPECIFICATION Spec
CONSTANTS
  Tx <- MCTx
  FromPeers = {"t"}
  FromClients = {"u"}
  Inputs <- MCInputs
  Outputs <- MCOutputs
  Unspendable <- MCUnspendable
  Blk = {"B", "C"}
  Txns <- MCTxns
  Prev <- MCPrev
  SaveTxs = TRUE
  Static <- NoStatic
  Monitors = {"m"}
  Matches <- MCMatches
  Tracks = {"m"}
  Rollbacks = TRUE
  Restarts = TRUE
  FailingLoads <- FailLoads
  None = None
  MaxChan = 2
INVARIANTS TypeOK MempoolTableFollows UtxoTableFollows 
 
CHECK_DEADLOCK FALSE
