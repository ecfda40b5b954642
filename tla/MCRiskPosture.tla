---------------------------- MODULE MCRiskPosture ----------------------------
(***************************************************************************)
(* RiskPosture for TLC.                                                    *)
(***************************************************************************)
EXTENDS RiskPosture, TLC

Symmetry == Permutations(Fetchers)

(* Both ends of every band.                                                *)
MCTotals == {0, 24, 25, 49, 50, 74, 75, 100}

=============================================================================
