SPECIFICATION Spec
CONSTANTS
    Keys = {k1, k2, k3}
    PerMinute = 40
    Burst = 2
    MaxEntries = 2
    MaxTime = 6
SYMMETRY Symmetry
INVARIANTS
    WithinRate
    PromiseKept
