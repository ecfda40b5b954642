----------------------------- MODULE MCInventory -----------------------------
(***************************************************************************)
(* Inventory for TLC.  Assets, and batches, are interchangeable, but the   *)
(* run checks a liveness property and symmetry would not be sound for it.  *)
(***************************************************************************)
EXTENDS Inventory

=============================================================================
