SPECIFICATION FairSpec
CONSTANTS
    A = A
    B = B
    Senders = {A}
    SndWnd = 2
    RcvWnd = 2
    WndRcv = 2
    NoData = NoData
    MaxSent = 4
    NetCap = 1
CHECK_DEADLOCK FALSE
PROPERTIES
    EventuallyDelivered
    EventuallyAcknowledged
