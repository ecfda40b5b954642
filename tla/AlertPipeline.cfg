SPECIFICATION MCSpec
CONSTANTS
    Requests = {r1}
    Scheduler = sched
    Vals = {v1, v2}
    NoVal = noval
    MaxEdits = 1
    MaxFaults = 1
    MaxCrashes = 1
INVARIANTS
    NoEventLost
PROPERTIES
    KeepsPromise
    ThreatSticks
    MarkerDrains
    RowConverges
