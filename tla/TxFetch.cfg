SPECIFICATION Spec
CONSTANTS
  Tx <- MCTx
  NoTx = NoTx
  KindOf <- MCKindOf
  Members <- MCMembers
  Sender <- MCSender
  TxCnt <- MCTxCnt
  Blocks <- MCBlocks
  Aggregated = {"g3"}
  Valid = {"f4"}
  Closed = {"g3"}
  Invalid = {"f4", "g1"}
  Known <- MCKnown
  Plan <- MCPlan
  StashMax = 1
  MaxReplies = 2
  MaxFetches = 2
PROPERTY Returns
CHECK_DEADLOCK FALSE
INVARIANTS TypeOK FetchedIsNamed PaymentsComplete StashFilters
