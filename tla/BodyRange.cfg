CONSTANTS
    Width = 3
    StartKinds = {"Included", "Excluded", "Unbounded"}
    OverflowChecks = FALSE
SPECIFICATION Spec
INVARIANTS
    TypeOK
    RequestWithinBounds
