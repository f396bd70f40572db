-------------------------- MODULE MCLinuxDaemon --------------------------
(* Model-checking instances of LinuxDaemon.                                *)
EXTENDS LinuxDaemon, TLC

CONSTANTS d1, d2
OneOrAny == {[ports |-> {1}, profile |-> d1], [ports |-> {1, 2}, profile |-> d2]}
Symmetry == Permutations(Addrs)
=============================================================================
