SPECIFICATION InventoryFairSpec
CONSTANTS
    Assets = {a1, a2}
    Blank = blank
    Batches = {b1, b2}
    Freshness = 1
    Retention = 2
    MaxBatches = 2
    MaxTime = 3
    MaxFailures = 1
CHECK_DEADLOCK FALSE
INVARIANTS
    SerialExact
PROPERTIES
    FootprintConverges
