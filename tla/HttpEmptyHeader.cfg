CONSTANTS
    Names <- MC_Names
    Values <- MC_Values
    Bytes <- MC_Bytes
    MaxHeaders = 2
    MaxBody = 3
    Width = 3
    StartKinds = {"Included", "Unbounded"}
    OverflowChecks = FALSE
    Excluded <- MC_Excluded
SPECIFICATION Spec
INVARIANTS
    GetReturnsHeader
