CONSTANTS
    t1 = t1
    t2 = t2
    Handlers = {h1}
    Interval = 3
    Wrap = 16
    MaxTime = 10
    MaxStarts = 2
    Tids = {t1, t2}
    MaxTimers = 3
    MaxSessions = 2
    MaxBirths = 1
SPECIFICATION SamplersSpec
SYMMETRY ThreadSymmetry
INVARIANTS
    TypesOK
    IntervalRespected
    TicksConserved
    LiveSamplesOnly
    TimersSound
    EventsAccounted
    MarksResolved
PROPERTIES
    CookieSignalSound
CHECK_DEADLOCK FALSE
