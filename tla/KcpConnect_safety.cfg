SPECIFICATION Spec
CONSTANTS
    c1 = c1
    c2 = c2
    Channels = {c1, c2}
    Server = server
    Heartbeats = {TRUE}
    MaxConv = 2
    MaxRestarts = 1
    NetCap = 2
SYMMETRY Symmetry
INVARIANTS
    TypeOK
    MapsAgree
    OneConversation
PROPERTY
    ConversationKept
CHECK_DEADLOCK FALSE
