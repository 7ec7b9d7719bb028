SPECIFICATION Spec
CONSTANTS
    None = None
    SeqSpace = 512
    RtpMod = 16
    RingSize = 8
    MaxGap = 7
    MaxCand = 2
    GapBufMax = 1
    HoldTime = 1
    FecHoldTime = 0
    MaxPasses = 1
    ReorderDelay = 1
    RccEnabled = {FALSE}
    Vectors <- MCVectors
    Repairs = {0}
    MaxRx = 3
    MaxTime = 3
    MaxJumps = 0
    BlpMax = 1
    FciMax = 2
    Policed = {FALSE, TRUE}
    TokenBurst = 1
    TokenPeriod = 2
INVARIANTS
    AskedOnce
    PolicerBounds
PROPERTIES
    AskedIsUseful
    ReportComplete
    NackExact
CHECK_DEADLOCK FALSE
