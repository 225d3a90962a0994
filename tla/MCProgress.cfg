CONSTANTS
    t1 = t1
    t2 = t2
    log1 = log1
    s1 = s1
    NoSession = NoSession
    Handlers = {t1, t2}
    Interval = 2
    Wrap = 16
    MaxTime = 2
    MaxStarts = 2
SPECIFICATION ProgressSpec
PROPERTIES
    DrainsComplete
    LocksObtained
    TimersComplete
    GateRefined
CHECK_DEADLOCK FALSE
