SPECIFICATION CatalogSpec
CONSTANTS
    Names = {mock, echo}
    Builtins = {mock}
    Binaries = {b1, b2}
    Calls = {c1, c2, c3}
    MaxFaults = 2
    Absent = Absent
SYMMETRY MCSymmetry
INVARIANTS CreatedIsServed BuiltinsKept
CHECK_DEADLOCK FALSE
