---------------------------- MODULE MCRefreshCycle ----------------------------
(***************************************************************************)
(* RefreshCycle for TLC: three extensions of one store, one of another.    *)
(* Liveness is among the properties, so no symmetry is declared.           *)
(***************************************************************************)
EXTENDS RefreshCycle, TLC

CONSTANTS e1, e2, e3, e4, s1, s2

MCExts    == {e1, e2, e3, e4}
MCStores  == {s1, s2}
MCStoreOf == (e1 :> s1) @@ (e2 :> s1) @@ (e3 :> s1) @@ (e4 :> s2)

(* The rows start on the watchlist; ToggleWatch takes them off it.  The    *)
(* larger store may be down at the start, and one of its rows delisted.    *)
WatchedInit ==
    /\ CycleInit
    /\ watch = Exts
    /\ up \in {MCStores, {s2}} /\ listed \in {MCExts, MCExts \ {e1}}

WatchedFairSpec == WatchedInit /\ [][CycleNext]_cycleVars /\ Fairness

=============================================================================
