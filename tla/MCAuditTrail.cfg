SPECIFICATION FairSpec
CONSTANTS
    Calls = {c1, c2, c3}
    MaxFaults = 2
    None = None
INVARIANTS ChainIntact TamperFound
PROPERTIES LogSpec AppendEnds
CHECK_DEADLOCK FALSE
