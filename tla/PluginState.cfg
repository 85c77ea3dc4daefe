SPECIFICATION Spec
CONSTANTS
    Procs = {p1, p2}
    Files = {file}
    Logs = {log}
    None = None
    MaxOps = 3
    MaxFaults = 3
    MaxCrashes = 1
SYMMETRY ProcSymmetry
INVARIANTS
    StateDecodes
    RecordsDoNotMix
    AckedRecordsKept
    TempsOwned
