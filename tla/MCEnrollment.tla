---------------------------- MODULE MCEnrollment -----------------------------
(***************************************************************************)
(* Enrollment for TLC.                                                     *)
(***************************************************************************)
EXTENDS Enrollment, TLC

Symmetry == Permutations(Tasks)

=============================================================================
