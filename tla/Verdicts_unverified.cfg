SPECIFICATION Spec
CONSTANTS
    Problem = {p1}
    Dimension = {}
    Detection <- Detections
    Objector = {o1}
    Reviser = {}
    MaxCalls = 1
    MaxVersions = 1
CHECK_DEADLOCK FALSE
INVARIANT NeverExecutableUnverified
