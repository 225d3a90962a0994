SPECIFICATION SessionSpec
CONSTANTS
    t1 = t1
    t2 = t2
    t3 = t3
    Args <- SessionArgs
    MaxSessions = 3
    MaxAttempts = 2
    MaxTime = 3
INVARIANTS
    CaptureNotEndedByForeignTimer
CHECK_DEADLOCK FALSE
