CONSTANTS
    Threads = {"a", "b"}
    PipeSize = 1
    MaxSignals = 2
SPECIFICATION FairSpec
PROPERTIES
    StopEnds
CHECK_DEADLOCK FALSE
