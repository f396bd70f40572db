------------------------------ MODULE MCVdsHcd ------------------------------
(* Model-checking instances of VdsHcd.                                      *)
EXTENDS VdsHcd

Symmetry == Permutations(Urbs) \cup Permutations(Reports)
=============================================================================
