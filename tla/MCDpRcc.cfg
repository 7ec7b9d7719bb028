SPECIFICATION FairSpec
CONSTANT MaxApps = 2
INVARIANTS
    QueueSafe
    TimersMatchState
    NoTimerSurvives
    BurstHeld
    ToldOnce
    EndsClean
PROPERTIES
    ChangeEnds
\* A destroyed channel, or a finished one on which nothing arrives, stops.
CHECK_DEADLOCK FALSE
