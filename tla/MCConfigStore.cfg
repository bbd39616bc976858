SPECIFICATION Spec
CONSTANTS
    Values = {v0, v1, v2}
    Defaults = v0
    Nothing = Nothing
    MaxFaults = 2
INVARIANTS TypeOK RunningIsStored
PROPERTY ImplementsAtomicConfig
