SPECIFICATION LiveSpec
CONSTANTS
    Keys = {k1}
    Unknown = Unknown
    Garbled = Garbled
    Callers = {c1, c2}
    None = None
    MaxEvents = 1
    MaxStreams = 2
    MaxFaults = 1
PROPERTIES
    CancelEndsNext
    CloseEndsServedNext
    ReconnectSettles
