SPECIFICATION Spec
CONSTANTS
    g = g
    s1 = s1
    s2 = s2
    a1 = a1
    a2 = a2
    a3 = a3
    a4 = a4
    b1 = b1
    b2 = b2
    b3 = b3
    b4 = b4
    b5 = b5
    Block <- DeepBlocks
    Genesis = g
    Prev <- DeepPrev
    Height <- MCHeight
    Anc <- MCAnc
    Own = {}
    InitTip = a1
    EmptyAfter = 0
    StashCap = 2
    MaxReorg = 8
    Faults = {"late", "dup", "reject"}
    Nil = Nil
INVARIANTS AncestorsStored PointersSet NewChainLinked
CHECK_DEADLOCK FALSE
