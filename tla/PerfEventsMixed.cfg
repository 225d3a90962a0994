SPECIFICATION Spec
CONSTANTS
    Tids = {1, 2}
    UsePerfMmap = TRUE
    HasPeer = TRUE
    SocketFails = FALSE
    OpenFails = {"other"}
    SetupFails = FALSE
    MaxFds = 3
    MaxBirths = 2
INVARIANTS
    MarksResolved
CHECK_DEADLOCK FALSE
