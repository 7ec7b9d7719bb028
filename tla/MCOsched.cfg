SPECIFICATION Spec
CONSTANTS
    PcrMod = 4
    Threshold = 1
    MaxArrivalErr = 2
    AvgMult = 1
    AvgDiv = 2
    SlewDiv = 4
    ReorderDelay = 1
    DefaultDelay = 0
    AppDelay = 0
    AvgPktTime = 1
    MinBackfill = 1
    FillTimes = {1}
    MemOpt = {TRUE}
    DtRepairEnd = 2
    RtpStamps = {0, 1, 2}
    MaxAge = 1
    MaxSeqGap = 1
    OtherFirst = FALSE
    MaxTime = 3
    MaxJumps = 1
INVARIANTS
    TypeOK
    Tracks
    NotHeldForOldTime
PROPERTIES
    PredForward
CHECK_DEADLOCK FALSE
