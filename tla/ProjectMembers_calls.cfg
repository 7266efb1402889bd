SPECIFICATION FairSpec
CONSTANTS
    Subject = {alice, bob}
    Call = {c1, c2, c3}
    None = None
CHECK_DEADLOCK FALSE
INVARIANTS
    TypeOK
    AuthorityHeld
    OwnerRetained
PROPERTIES
    OwnerlessForever
    EveryCallReturns
