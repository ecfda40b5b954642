----------------------------- MODULE MCSessions ------------------------------
(***************************************************************************)
(* Sessions for TLC.  Requests, and keys, are interchangeable.             *)
(***************************************************************************)
EXTENDS Sessions, TLC

Symmetry == Permutations(Tasks) \cup Permutations(Keys)

=============================================================================
