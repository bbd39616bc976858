SPECIFICATION HistorySpec
CONSTANTS
    NoCid = NoCid
    Cids = {a, b}
    Priorities = {1, 2}
    SeqMod = 3
    ClockMod = 5
    Timeout = 3
    MaxGap = 1
    MaxPacketsPerLoop = 1
SYMMETRY CidSymmetry
INVARIANTS TypeOK TrackedSourceDrivesOutput FailsafeExcludesLive LossReachesFailsafe FailsafeNeverCoversLive DeadSourceIsReplaced
PROPERTY HigherPriorityShields
VIEW HistoryInView
