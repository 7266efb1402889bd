SPECIFICATION Spec
CONSTANTS
    Tasks = 3
    Queries = 2
    MaxHits = 2
    Limits <- SomeLimits
CHECK_DEADLOCK FALSE
INVARIANTS
    LimitsKept
    ReportSound
    SaturationSound
