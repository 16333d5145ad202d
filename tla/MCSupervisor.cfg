SPECIFICATION FairSpec
CONSTANTS
    MaxLines = 4
    Helpers = TRUE
    Ends <- BothEnds
    Faults = TRUE
    None = None
INVARIANTS SuccessIsWhole NoChildLeft
PROPERTIES PreemptedIsLeft TimeoutEnds
CHECK_DEADLOCK FALSE
