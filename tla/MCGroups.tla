------------------------------- MODULE MCGroups -------------------------------
(* Groups for TLC: groups are interchangeable, and so are servers.          *)
EXTENDS Groups, TLC

Symmetry == Permutations(AGs) \cup Permutations(Servers)
=============================================================================
