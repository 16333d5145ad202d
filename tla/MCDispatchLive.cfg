SPECIFICATION FairSpec
CONSTANTS
    r1 = r1  p1 = p1
    None = None
    Jobs = {j1}
    Runs = {r1}
    Projects = {p1}
    Workers = {w1, w2}
    RunOf <- OneRun
    ProjectOf <- OneProject
    Caps = {1}
    MaxAttempts = 3
    MaxFaults = 2
PROPERTIES JobsFinish RunsFinish
CHECK_DEADLOCK FALSE
