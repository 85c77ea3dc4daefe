SPECIFICATION MCSpec
CONSTANTS
    Callers = {c1, c2}
    Closers = {k1, k2}
    Other = k2
    None = None
    MaxLines = 2
INVARIANTS
    NoLineLost
    CloseReturnsClosed
    FirstEndReported
PROPERTIES
    EndHasCause
    ReaderStops
    ImplementsFeed
