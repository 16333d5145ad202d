CONSTANTS
    p1 = p1
    p2 = p2
    k1 = k1
    k2 = k2
    None = None
    Tokens = {t1, t2, t3}
    Projects = {p1, p2}
    Calls = {c1, c2, c3}
    Requests <- Asked
    MaxFaults = 1
    Keys = {k1, k2}
    Masters = {m1, m2}
    Jobs = {j1}
    JobProject <- OneJob
    Wanted <- AllKeys
SYMMETRY Symmetry
SPECIFICATION Spec
CHECK_DEADLOCK FALSE
INVARIANTS AuthorityDescends OneBootstrap RevokedBeginsNothing UsableIsOnRecord JobGetsItsOwn NothingStale
