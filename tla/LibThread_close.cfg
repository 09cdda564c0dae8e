SPECIFICATION FairSpec
CONSTANTS
    Producers = {p1}
    p1 = p1
    MaxTasks = 2
    Worker = Worker
    Owner = Owner
    None = None
    Platforms = {"posix", "win"}
    EarlyClose = FALSE
INVARIANTS CloserAlone
PROPERTIES TaskDisposed CloseEnds
CHECK_DEADLOCK FALSE
