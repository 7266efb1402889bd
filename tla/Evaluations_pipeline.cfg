SPECIFICATION Spec
CONSTANTS
    Run = {r1, r2}
    d1 = d1
    o1 = o1
    o2 = o2
    Original = {o1, o2}
    Document = {d1}
    First = o1
    OtherArea = {"problem"}
    None = None
    MaxFailed = 1
    Calls <- RevisionCalls
    Answers <- SomeAnswers
    Analyses <- SomeAnalyses
    Selections <- SomeSelections
SYMMETRY Symmetry
CHECK_DEADLOCK FALSE
INVARIANTS
    VersionsSound
    ReportsComplete
    DefectsCounted
PROPERTIES
    FoundationsFixed
    ImplementsHandler
