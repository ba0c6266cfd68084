CONSTANTS
    r1 = r1
    n1 = n1
    n2 = n2
    Roots <- MC_Roots
    Names <- MC_Names
    Kinds <- MC_Kinds
    MaxIds = 1
    MaxVm = 1
SPECIFICATION Spec
INVARIANTS
    NoStickyFailure
