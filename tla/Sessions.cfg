SPECIFICATION Spec
CONSTANTS
    Tasks = {q1, q2}
    Keys = {k1}
    Second = 2
    SessionMaxAge = 6
    OidcMaxAge = 2
    KeyMaxAge = 1
    Throttle = 1
    MaxTime = 6
    MaxAccounts = 2
    MaxChanges = 1
    MaxCookies = 1
SYMMETRY Symmetry
CHECK_DEADLOCK FALSE
INVARIANTS
    FreshAccepted
    SupersededEnds
    KeysEnd
    OffboardingBounded
