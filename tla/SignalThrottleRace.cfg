CONSTANTS
    Handlers = {h1, h2}
    Interval = 3
    Wrap = 16
    MaxTime = 8
    MaxStarts = 1
SPECIFICATION Spec
INVARIANTS
    IntervalRespected
CHECK_DEADLOCK FALSE
