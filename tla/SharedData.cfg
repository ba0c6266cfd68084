CONSTANTS
    v1 = v1
    v2 = v2
    v3 = v3
    v4 = v4
    Workers <- MC_FourWorkers
    Preset = FALSE
SPECIFICATION Spec
INVARIANTS
    TypeOK
    LostOnlyByCreation
PROPERTIES
    AllIncrementsFinish
