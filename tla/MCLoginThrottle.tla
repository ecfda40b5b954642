--------------------------- MODULE MCLoginThrottle ---------------------------
(* LoginThrottle for TLC.                                                  *)
EXTENDS LoginThrottle, TLC

CONSTANT MaxFailures   \* bound: failures of a key that a run looks at

Bounded == \A k \in Logins : Len(failed[k]) <= MaxFailures

Symmetry == Permutations(Logins) \cup Permutations(Slots)

=============================================================================
