SPECIFICATION Spec
CONSTANTS
    Procs = {p1, p2}
    Files = {file}
    Logs = {log}
    None = None
    MaxOps = 2
    MaxFaults = 1
    MaxCrashes = 1
INVARIANTS
    AppendIsAtomic
