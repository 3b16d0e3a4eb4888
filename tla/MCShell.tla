------------------------------ MODULE MCShell ------------------------------
(* Two daemons, of which either may subscribe again before the GUI thread  *)
(* has handled its first request.                                          *)
EXTENDS Shell, TLC
CONSTANTS n1, n2
Symmetry == Permutations(Nodes)
=============================================================================
