SPECIFICATION Spec
CONSTANTS
    j1 = j1  j2 = j2  r1 = r1  r2 = r2  p1 = p1  p2 = p2
    None = None
    Jobs = {j1, j2}
    Runs = {r1, r2}
    Projects = {p1}
    RunOf <- MCRunOf
    ProjectOf <- SameProject
    Keys = {k1}
    Blobs = {b1, b2}
    Labels = {l1}
    MaxTime = 1
    MaxEmits = 2
    MaxRefs = 1
    MaxFaults = 2
SYMMETRY MCSymmetry
INVARIANTS EvidenceStored ManifestComplete
PROPERTY EvidenceAccumulates
CHECK_DEADLOCK FALSE
