SPECIFICATION Spec
CONSTANTS
    Tuners = {t1, t2, t3}
    Chans = {c1, c2, c3}
    ErChans = {c1}
    RccChans = {c1, c2, c3}
    MaxChannels = 4
    MaxRccs = 2
    NumByes = 3
    SeqMod = 2
    RccMod = 5
    RccFailures = TRUE
    None = None
INVARIANT
    RccLimit
