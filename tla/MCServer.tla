------------------------------ MODULE MCServer ------------------------------
(* Server for TLC. *)
EXTENDS Server, TLC

(* The connection objects are interchangeable. *)
Symmetry == Permutations(Con)
=============================================================================
