SPECIFICATION Spec
CONSTANTS
    Absent = Absent
    InitialServer <- MCInitialServer
    Programs = {"a1", "a2"}
    Statuses = {"idle"}
    Labels = {"x"}
    MaxOps = 3
INVARIANTS
    SnapshotFieldsSurvive
CHECK_DEADLOCK FALSE
