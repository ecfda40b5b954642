SPECIFICATION Spec
CONSTANTS
    NoVal = NoVal
    Users = {u1, u2}
    Dests = {d1, d2}
    Rules = {r1}
    Patches = {q1, q2}
    Targets <- MCTargets
    Bodies <- MCBodies
    Gone = Gone
    Hosts = {"name"}
    Public = {"pub"}
    Private = {"priv"}
    smtp = TRUE
    MaxEdits = 4
    MaxMoves = 1
    MaxSends = 1
SYMMETRY Symmetry
INVARIANTS
    JointlyValid
    PinnedPublic
    OwnersOnly
CHECK_DEADLOCK FALSE
