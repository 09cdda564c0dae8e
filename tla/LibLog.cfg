SPECIFICATION FairSpec
CONSTANTS
    Writers = {w1, w2}
    Realtime = {w1}
    Logs = {l1}
    Threads = {t1}
    MaxEntries = 2
    MaxDay = 1
    MaxCrashes = 1
    FileSizes = {0, 1}
    MaxCache = 2
    DelMayFail = TRUE
    None = None
    w1 = w1
    w2 = w2
    l1 = l1
    t1 = t1
INVARIANTS ClosedComplete InItsDay
PROPERTIES Durable EventuallyWritten
CHECK_DEADLOCK FALSE
