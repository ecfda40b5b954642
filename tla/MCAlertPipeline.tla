--------------------------- MODULE MCAlertPipeline ---------------------------
(***************************************************************************)
(* AlertPipeline for TLC: where the run starts.                            *)
(***************************************************************************)
EXTENDS AlertPipeline

(* Versions are interchangeable, but a run that checks liveness cannot use *)
(* the symmetry: the store starts with one chosen version.                 *)
MCInit == Init /\ storeVal = CHOOSE v \in Vals : TRUE

MCSpec == MCInit /\ [][Next]_vars /\ Fairness

=============================================================================
