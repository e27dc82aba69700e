----------------------------- MODULE MCSession -----------------------------
(* Constants for model-checking Session.  Nothing reads the id of an idle *)
(* worker before it is set, so its CHOOSE does not spoil the symmetry.     *)
EXTENDS Session, TLC

Symmetry == Permutations(Workers) \cup Permutations(Ids)
=============================================================================
