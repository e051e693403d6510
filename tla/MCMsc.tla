------------------------------- MODULE MCMsc -------------------------------
(* The mass storage driver for TLC; the ports are interchangeable.         *)
EXTENDS Msc, TLC

Symmetry == Permutations(Port)
=============================================================================
