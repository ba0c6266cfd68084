CONSTANTS
    Width = 3
    StartKinds = {"Included", "Unbounded"}
    OverflowChecks = FALSE
SPECIFICATION Spec
INVARIANT RequestIsRange
