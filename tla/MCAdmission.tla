----------------------------- MODULE MCAdmission -----------------------------
(* Symmetry of the model values of Admission.                              *)
EXTENDS Admission, TLC

Symmetry == Permutations(Session) \cup Permutations(Player)
=============================================================================
