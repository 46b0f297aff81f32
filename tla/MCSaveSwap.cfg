SPECIFICATION Spec
CONSTANTS
    None = None
    MaxVersion = 3
INVARIANTS
    NothingBuried
PROPERTY
    SwapLosesNothing
