SPECIFICATION Spec
CONSTANTS
    Tuners = {t1, t2}
    Chans = {c1, c2}
    ErChans = {c1}
    RccChans = {c1}
    MaxChannels = 3
    MaxRccs = 1
    NumByes = 3
    SeqMod = 3
    RccMod = 4
    RccFailures = FALSE
    None = None
INVARIANTS
    TablesAgree
    IdsSuffice
    ByesComplete
    PollRuns
    RccsCounted
    StaleIdDead
PROPERTIES
    ShutdownEnds
