----------------------------- MODULE RateLimits ------------------------------
(***************************************************************************)
(* What the two limiters of app/ratelimit.py have in common: the clock     *)
(* (time.monotonic, in whole seconds here) and the limit on their maps.    *)
(***************************************************************************)
EXTENDS Integers, Sequences, FiniteSets

CONSTANTS
    MaxEntries,    \* _MAX_ENTRIES
    MaxTime        \* bound: seconds a run lasts

ASSUME EntriesAssumption == MaxEntries \in Nat \ {0} /\ MaxTime \in Nat

VARIABLE now

=============================================================================
