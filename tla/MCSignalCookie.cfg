CONSTANTS
    h1 = h1
    h2 = h2
    s1 = s1
    s2 = s2
    NoSession = NoSession
    Handlers <- MCHandlers
    Sessions <- MCSessions
    Signals <- MCSignals
    MaxEpoch = 2
    MaxAdmitted = 2
SPECIFICATION Spec
INVARIANTS
    TypeOK
    HandlersOnlyInOpenCapture
    ReceiptBalanced
    ReceiptMatchesRecording
PROPERTIES
    ReceiptOnlyFromOwnCapture
    GateRefined
SYMMETRY Symmetry
