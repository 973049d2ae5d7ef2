----------------------------- MODULE MCFastCGI -----------------------------
(* FastCGI for TLC. *)
EXTENDS FastCGI

(* The connections are interchangeable. *)
Symmetry == Permutations(Con)
=============================================================================
