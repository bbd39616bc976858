SPECIFICATION Spec
CONSTANTS
    Values = {v0, v1, v2}
    Defaults = v0
    Nothing = Nothing
    MaxFaults = 1
INVARIANT NeverTorn
