SPECIFICATION Spec
CONSTANTS
    RuleRows <- PlanRows
    Targets <- OneName
    Capabs = {c1, c2}
    Runs = {r1}
    MaxTime = 1
    MaxFaults = 1
    Other = Other
    None = None
SYMMETRY MCSymmetry
INVARIANTS OneVerdictPerTarget PlanAccounts
PROPERTY VerdictFramed
CHECK_DEADLOCK FALSE
