SPECIFICATION CFairSpec
CONSTANTS
    MaxRcvApps = 2
    Configs <- MCConfigs
INVARIANTS
    CQueueSafe
    AppTimerRuns
    NakpliAfterNat
    AbortIsSlowChange
    CountedOnce
    NoTimerOutlivesOneApp
PROPERTIES
    CWaitsEnd
\* A freed channel stops.
CHECK_DEADLOCK FALSE
