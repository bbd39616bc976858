SPECIFICATION HistorySpec
CONSTANTS
    NoCid = NoCid
    Cids = {a, b, c}
    Priorities = {1, 2}
    SeqMod = 3
    ClockMod = 6
    Timeout = 2
    MaxGap = 1
    MaxPacketsPerLoop = 1
PROPERTY
    HigherPriorityShields
