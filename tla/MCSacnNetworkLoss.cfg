SPECIFICATION ConfiguredOnceSpec
CONSTANTS
    NoCid = NoCid
    Cids = {a}
    Priorities = {1}
    SeqMod = 3
    ClockMod = 6
    Timeout = 2
    MaxGap = 1
    MaxPacketsPerLoop = 2
PROPERTY
    DataLossIsAnswered
