CONSTANTS
    w1 = w1
    w2 = w2
    r1 = r1
    k1 = k1
    r2 = r2
    k2 = k2
    Threads <- MC_TwoThreads
    Ids <- MC_Ids
    Tokens <- MC_Tokens
    MaxGen = 4
SYMMETRY MC_Symmetry
SPECIFICATION Spec
CHECK_DEADLOCK FALSE
INVARIANTS
    HostContextsServed
