SPECIFICATION PcmSpec
CONSTANTS
    None = None
    SeqSpace = 256
    RtpMod = 32
    RingSize = 8
    MaxGap = 6
    MaxCand = 2
    GapBufMax = 1
    HoldTime = 1
    FecHoldTime = 0
    MaxPasses = 1
    ReorderDelay = 1
    RccEnabled = {FALSE}
    Vectors <- MCFarVectors
    Repairs = {2}
    MaxRx = 4
    MaxTime = 2
    MaxJumps = 0
INVARIANT
    NextPakFound
CHECK_DEADLOCK FALSE
