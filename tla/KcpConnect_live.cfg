SPECIFICATION FairSpec
CONSTANTS
    c1 = c1
    Channels = {c1}
    Server = server
    Heartbeats = {TRUE, FALSE}
    MaxConv = 2
    MaxRestarts = 0
    NetCap = 2
PROPERTIES
    QuietAckedUntilAlive
    EventuallyConnected
CHECK_DEADLOCK FALSE
