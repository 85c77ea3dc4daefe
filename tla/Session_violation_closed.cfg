SPECIFICATION Spec
CONSTANTS
    Keys = {k1}
    Unknown = Unknown
    Garbled = Garbled
    Callers = {c1}
    None = None
    MaxEvents = 1
    MaxStreams = 2
    MaxFaults = 2
INVARIANTS
    StreamClosedMeansClosed
