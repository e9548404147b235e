------------------------------ MODULE MCUsers -------------------------------
(* An instance of Users for TLC: two runs of the tool differ in nothing.   *)
EXTENDS Users, TLC

Symmetry == Permutations(Tools)
=============================================================================
