SPECIFICATION Spec
CONSTANTS
    Tasks = {q1, q2, q3}
    MaxRows = 2
    MaxFaults = 1
SYMMETRY Symmetry
INVARIANTS
    AuditTruthful
    NoLeftovers
PROPERTY
    MatchKept
