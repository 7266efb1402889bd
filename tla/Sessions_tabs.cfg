SPECIFICATION Spec
CONSTANTS
    tab1 = tab1
    tab2 = tab2
    s1 = s1
    s2 = s2
    None = None
    Tabs = {tab1, tab2}
    Slots = {s1, s2}
    StateTTL = 1
    TokenTTL = 2
    MaxLogins = 2
    MaxTime = 4
SYMMETRY Symmetry
CHECK_DEADLOCK FALSE
INVARIANTS
    LoginSound
    SessionSound
