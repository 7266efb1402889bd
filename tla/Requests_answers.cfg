SPECIFICATION Service
CONSTANTS
    NoItem = NoItem
    NoMinima = NoMinima
    Areas <- SomeAreas
    Reports <- SomeReports
    Versions <- SomeVersions
    Orders <- SomeOrders
    PlanRequests <- SomePlanRequests
    PlanAnswers <- SomePlanAnswers
    Blocks = {1, 2}
    Findings <- SomeFindings
    Defects <- SomeDefects
    Plans <- SomePlans
    Claims <- SomeClaims
    CaseLists <- SomeCaseLists
    Minima <- SomeMinima
    Assumptions <- SomeAssumptions
    Limits <- SomeLimits
INVARIANTS
    ComparisonSound
    ValidationSound
    ImprovementSound
    GateSound
    ResearchPlanned
