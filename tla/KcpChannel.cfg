SPECIFICATION FairSpec
CONSTANTS
    Client = client
    Server = server
    Users = {client}
    HeaderSize = 2
    Bodies = {1}
    SndWnd = 1
    WndRcv = 3
    MaxMsgs = 2
INVARIANTS BytesConserved
PROPERTIES EventuallyHandled
CHECK_DEADLOCK FALSE
