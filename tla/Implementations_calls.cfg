SPECIFICATION Spec
CONSTANTS
    ann = ann
    bob = bob
    t1 = t1
    None = None
    Callers = {ann, bob}
    Traces = {t1}
    Targets = {"jira", "drive"}
    Enabled = {"jira", "drive"}
    Writing = {"jira"}
    Requirements = {"r1"}
    Expected <- SomeExpected
    FilesAt <- SomeFilesAt
    PatchSets <- SomePatchSets
    MaxCalls = 3
CHECK_DEADLOCK FALSE
SYMMETRY Symmetry
INVARIANTS
    DeliverySound
    ProposalSound
