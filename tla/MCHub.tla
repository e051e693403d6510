------------------------------- MODULE MCHub -------------------------------
(* Instances of Hub for TLC: the hubs and devices are interchangeable. *)
EXTENDS Hub, TLC

Symmetry == Permutations(Hubs) \cup Permutations(Funcs)
=============================================================================
