SPECIFICATION Spec
CONSTANTS
    ann = ann
    bob = bob
    None = None
    Error = Error
    Users = {ann, bob}
    Ids = {"p1"}
    PlanRequests <- SomePlanRequests
    DesignRequests = {TRUE, FALSE}
INVARIANTS
    TypeOK
    ExecutableIsEarned
    OwnAnswers
PROPERTIES
    EveryCallAnswers
