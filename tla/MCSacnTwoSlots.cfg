SPECIFICATION Spec
CONSTANTS
    NoCid = NoCid
    Cids = {a, b}
    Priorities = {1}
    SeqMod = 3
    ClockMod = 5
    Timeout = 3
    MaxGap = 1
    MaxPacketsPerLoop = 1
INVARIANT OneSlotPerSource
