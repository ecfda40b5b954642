SPECIFICATION LoginSpec
CONSTANTS
    Logins = {k1, k2, k3}
    Slots = {q1, q2}
    MaxAttempts = 2
    Window = 2
    Lockout = 2
    MaxEntries = 2
    MaxTime = 6
    MaxFailures = 6
CONSTRAINT Bounded
SYMMETRY Symmetry
INVARIANTS
    FailuresBounded
    LockedForCause
