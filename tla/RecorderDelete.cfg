CONSTANTS
    Writers = {w1}
    Kinds = {"user"}
    Loggers = {l1}
    NumSlots = 2
    FileFaults = FALSE
    HeaderFaults = TRUE
    MaxEvents = 1
    MaxStarts = 1
    MaxChunks = 1
SPECIFICATION Spec
INVARIANTS
    NoUseAfterDelete
CHECK_DEADLOCK FALSE
