SPECIFICATION Spec
CONSTANTS
  Payments = {"p", "q", "r"}
  AggTxs = {"a", "b"}
  None = None
  MaxBlocks = 4
  Lag = 1
  MaxTx = 1
  MaxStarts = 2
  MaxLost = 1
  Environments <- Restarts
CHECK_DEADLOCK FALSE
INVARIANT MatchesWantedState
