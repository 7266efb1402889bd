SPECIFICATION Spec
CONSTANTS
    Problem = {p1}
    Dimension = {d1}
    Detection <- Detections
    Objector = {o1, o2}
    Reviser = {r1, r2}
    MaxCalls = 2
    MaxVersions = 3
CHECK_DEADLOCK FALSE
SYMMETRY Symmetry
INVARIANTS
    TypeOK
    RulesAgree
    ObjectionsSound
    RevisionsCompared
PROPERTIES
    ReportsPreserved
