SPECIFICATION PcmSpec
CONSTANTS
    None = None
    SeqSpace = 512
    RtpMod = 16
    RingSize = 8
    MaxGap = 7
    MaxCand = 2
    GapBufMax = 1
    HoldTime = 1
    FecHoldTime = 0
    MaxPasses = 1
    ReorderDelay = 1
    RccEnabled = {FALSE, TRUE}
    Vectors <- MCVectors
    Repairs = {0, 2}
    MaxRx = 3
    MaxTime = 3
    MaxJumps = 1
INVARIANTS
    ViewsAgree
    NextPakFound
PROPERTIES
    OutputIncreasing
CHECK_DEADLOCK FALSE
