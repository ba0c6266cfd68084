CONSTANTS
    IntValues <- MC_IntValues
    StrValues = {"v", "addr"}
    ProtoValues = {"msg", "neg"}
    AddrStrings = {"addr"}
    UsizeBytes = 4
    CustomNames <- MC_CustomNames
    MaxPresent = 1
    Excluded <- MC_Excluded
SPECIFICATION Spec
INVARIANTS
    NoWrappedValue
