CONSTANTS
    None = None
    Configs <- Jobs
    Lookups = {host, mx, ns, txt}
    Chains <- TwoChains
    MaxPort = 4
    MaxFaults = 1
SPECIFICATION FairSpec
CHECK_DEADLOCK FALSE
INVARIANTS SuccessIsComplete FoundIsKept ScanBounded
PROPERTY ExecuteReturns
