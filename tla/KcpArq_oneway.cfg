SPECIFICATION Spec
CONSTANTS
    A = A
    B = B
    Senders = {A}
    SndWnd = 2
    RcvWnd = 3
    WndRcv = 3
    NoData = NoData
    MaxSent = 4
    NetCap = 2
INVARIANTS
    TypeOK
    InOrder
    WholeMessages
    DiscardedIsReceived
    NothingStranded
    NeverWedged
    Bounded
PROPERTIES
    StreamSpec
