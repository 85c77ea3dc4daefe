SPECIFICATION Spec
CONSTANTS
    Absent = Absent
    InitialServer <- MCInitialServer
    Programs = {"a1"}
    Statuses = {"idle"}
    Labels = {"x"}
    MaxOps = 3
INVARIANTS
    CollectionsWellFormed
    MirrorMatchesServer
    ApplyIsIdempotent
CHECK_DEADLOCK FALSE
