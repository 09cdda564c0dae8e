SPECIFICATION FairSpec
CONSTANTS
    Timers = {t1, t2}
    Off = Off
    Periods = {0, 2}
    RescheduleDue = FALSE
    MaxTime = 3
INVARIANTS
    TypeOK
    NoDangling
    OrderKept
    QueueAsAsked
PROPERTIES
    ServiceSpec
    GoesOff
