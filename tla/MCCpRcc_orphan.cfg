SPECIFICATION CSpec
CONSTANTS
    MaxRcvApps = 2
    Configs <- MCRapidConfigs
INVARIANT NoTimerOutlives
CHECK_DEADLOCK FALSE
