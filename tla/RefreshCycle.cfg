SPECIFICATION WatchedFairSpec
CONSTANTS
    e1 = e1
    e2 = e2
    e3 = e3
    e4 = e4
    s1 = s1
    s2 = s2
    Exts <- MCExts
    Stores <- MCStores
    StoreOf <- MCStoreOf
    Threshold = 2
    MaxEdits = 1
    MaxFaults = 2
INVARIANTS
    OpenMeansFailureRun
PROPERTIES
    CycleCompletes
    KeepsRefreshing
