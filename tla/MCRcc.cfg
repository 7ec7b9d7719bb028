SPECIFICATION RFairSpec
CONSTANTS
    MaxApps = 2
    MaxRcvApps = 2
    Configs <- MCConfigs
INVARIANTS
    HalvesAgree
PROPERTIES
    AbortLeadsToEr
    ImplementsAbs
    AllStreamsOn
\* A freed channel stops.
CHECK_DEADLOCK FALSE
