SPECIFICATION Spec
CONSTANTS
    Keys = {k1, k2}
    Unknown = Unknown
    Garbled = Garbled
    Callers = {c1}
    None = None
    MaxEvents = 2
    MaxStreams = 3
    MaxFaults = 2
SYMMETRY KeySymmetry
INVARIANTS
    TypeOK
    MirrorConverges
    NothingLost
    NoOrphanStream
    ResyncCarriesCause
PROPERTIES
    ImplementsLogReader
