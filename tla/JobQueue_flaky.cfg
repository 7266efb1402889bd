SPECIFICATION Spec
CONSTANTS
    Request = {r1, r2}
    Key = {k1}
    Owner = {o1, o2}
    Worker = {w1, w2}
    None = None
    MaxAttempts = 1
    Reports = 1
    MaxCrashes = 1
    MaxFaults = 2
    MaxExpiries = 1
CHECK_DEADLOCK FALSE
SYMMETRY Symmetry
INVARIANTS
    TypeOK
    ErrorsContained
