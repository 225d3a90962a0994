CONSTANTS
    a1 = a1
    a2 = a2
    k1 = k1
    k2 = k2
    k3 = k3
    k4 = k4
    w1 = w1
    w2 = w2
    l1 = l1
    NoKey = NoKey
    NoTable = NoTable
    Writers <- TwoWriters
    Kinds = {"sample", "external", "user"}
    Loggers <- OneLogger
    NumSlots = 2
    FileFaults = TRUE
    HeaderFaults = TRUE
    MaxEvents = 2
    MaxStarts = 1
    MaxChunks = 1
    Allocators <- TwoThreads
    ChunkSize = 5
    Header = 1
    Sizes = {2, 3}
    MaxHeapChunks = 5
    MaxAllocs = 4
    MaxChunkClears = 1
SPECIFICATION RecordingSpec
SYMMETRY ThreadSymmetry
INVARIANTS
    TypesOK
    EntriesResolve
    SamplesConserved
    BlocksSound
    ChunkComplete
    RecordingSound
    
PROPERTIES
    LimitsKept
CHECK_DEADLOCK FALSE
