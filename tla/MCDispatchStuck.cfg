SPECIFICATION FairSpec
CONSTANTS
    r1 = r1  p1 = p1
    None = None
    Jobs = {j1}
    Runs = {r1}
    Projects = {p1}
    Workers = {w1}
    RunOf <- OneRun
    ProjectOf <- OneProject
    Caps = {0}
    MaxAttempts = 2
    MaxFaults = 1
PROPERTY SettledRunFinishes
CHECK_DEADLOCK FALSE
