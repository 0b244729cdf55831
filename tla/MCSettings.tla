------------------------------ MODULE MCSettings ------------------------------
(* Settings for TLC: requests are interchangeable, and so are descriptions. *)
EXTENDS Settings, TLC

Symmetry == Permutations(Editors) \cup Permutations(Descriptions)
=============================================================================
