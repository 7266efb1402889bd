SPECIFICATION FairSpec
CONSTANTS
    Request = {r1, r2}
    Key = {k1, k2}
    Owner = {o1, o2}
    Worker = {w1}
    None = None
    MaxAttempts = 2
    Reports = 1
    MaxCrashes = 2
    MaxFaults = 0
    MaxExpiries = 0
CHECK_DEADLOCK FALSE
INVARIANTS
    TypeOK
    OneJobPerKey
    AnswersOwnJob
    WorkSound
PROPERTIES
    OutcomeOnlyReopenedByRecovery
    ImplementsLifecycle
    EveryJobSettles
