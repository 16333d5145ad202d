SPECIFICATION InputSpec
CONSTANTS
    Rows <- AllRows
    Asked <- Targets
    Bases <- Names
    Moments <- FourMoments
INVARIANTS LeastOrderRule SuffixRules WindowRules
