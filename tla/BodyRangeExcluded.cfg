CONSTANTS
    Width = 3
    StartKinds = {"Included", "Excluded", "Unbounded"}
    OverflowChecks = TRUE
SPECIFICATION Spec
INVARIANT RequestIsRange
