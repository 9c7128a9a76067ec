SPECIFICATION Spec
CONSTANTS
    Contracts <- MCContracts
    Variables0 <- MCVariables
    Calls <- MCCalls
    Account <- MCAccount
    Elements <- MCElements
    MaxCalls = 2
    MemoryMax = 64
    MaxCode = 60
    StorePrice = 20
    GasWord = 4
    HashLen = 2
    KeyLen = 4
INVARIANTS TypeOK MemoryAccounted
PROPERTIES RunsOutOfGas CallIsAtomic StackKept MapsMatch ArraysMatch
CHECK_DEADLOCK FALSE
