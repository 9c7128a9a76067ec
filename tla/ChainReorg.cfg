SPECIFICATION Spec
CONSTANTS
    g = g
    s1 = s1
    s2 = s2
    a1 = a1
    a2 = a2
    a3 = a3
    a4 = a4
    b1 = b1
    b2 = b2
    b3 = b3
    b4 = b4
    b5 = b5
    Block <- TrunkBlocks
    Genesis = g
    Prev <- TrunkPrev
    Height <- MCHeight
    Anc <- MCAnc
    Own = {a3, a4}
    InitTip = s2
    EmptyAfter = 3
    StashCap = 8
    MaxReorg = 8
    Faults = {"lost", "dup", "reject"}
    Nil = Nil
INVARIANTS OneChain TipAgrees
