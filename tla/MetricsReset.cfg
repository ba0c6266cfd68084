CONSTANTS
    r1 = r1
    n1 = n1
    n2 = n2
    Roots <- MC_Roots
    Names <- MC_TwoNames
    Kinds <- MC_Kinds
    MaxIds = 1
    MaxVm = 2
SPECIFICATION Spec
INVARIANTS
    RecordsReachOwnMetric
