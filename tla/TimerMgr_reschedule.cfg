SPECIFICATION Spec
CONSTANTS
    Timers = {t1, t2}
    Off = Off
    Periods = {0, 2}
    RescheduleDue = TRUE
    MaxTime = 3
PROPERTIES
    NotBeforeDue
