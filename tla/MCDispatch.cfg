SPECIFICATION Spec
CONSTANTS
    r1 = r1  p1 = p1
    None = None
    Jobs = {j1, j2}
    Runs = {r1}
    Projects = {p1}
    Workers = {w1, w2}
    RunOf <- OneRun
    ProjectOf <- OneProject
    Caps = {0, 1}
    MaxAttempts = 2
    MaxFaults = 1
SYMMETRY MCSymmetry
INVARIANTS VerdictRight CancelSticks LastOneCounts
PROPERTIES FencedCompletion RunLifeSpec
CHECK_DEADLOCK FALSE
