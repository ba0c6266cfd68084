CONSTANTS
    v1 = v1
    v2 = v2
    v3 = v3
    v4 = v4
    Workers <- MC_Workers
    Preset = TRUE
SPECIFICATION Spec
INVARIANTS
    NoLostIncrement
