SPECIFICATION TxFairSpec
CONSTANTS
    j1 = j1  j2 = j2  j3 = j3
    r1 = r1  r2 = r2
    p1 = p1  p2 = p2
    None = None
    Jobs = {j1, j2}
    Runs = {r1}
    Projects = {p1}
    Workers = {w1, w2}
    RunOf <- OneRun
    ProjectOf <- OneProject
    Priority <- SamePriority
    Caps = {0, 1, 2}
    MaxAttempts = 2
INVARIANTS CapRespected CapCountCurrent
PROPERTIES QueueSpec LeaseCallReturns
