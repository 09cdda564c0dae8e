SPECIFICATION Spec
CONSTANTS
    c1 = c1
    Channels = {c1}
    Server = server
    Heartbeats = {TRUE}
    MaxConv = 1
    MaxRestarts = 0
    NetCap = 1
PROPERTY
    AckedUntilAlive
CHECK_DEADLOCK FALSE
