SPECIFICATION MCSpec
CONSTANTS
    Conns = {c1, c2}
    Waiters = {w1}
    Wanted <- MCWanted
    Closers = {k1, k2}
    Senders = {s1, s2}
    MaxSends = 1
    Absent = c2
    Other = k2
    None = None
INVARIANTS
    CloseJoins
    NoLostWakeup
    SendersKeepApart
PROPERTIES
    CloseEnds
    SendEnds
