-------------------------- MODULE MCWinSupervisor --------------------------
(* Model-checking instances of WinSupervisor.                              *)
EXTENDS WinSupervisor, TLC

Symmetry ==
  Permutations(Addrs) \cup Permutations(Ports) \cup Permutations(Profiles)
    \cup Permutations(Slots)
=============================================================================
