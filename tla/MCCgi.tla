------------------------------- MODULE MCCgi -------------------------------
(* Cgi for TLC. *)
EXTENDS Cgi, TLC

(* Descriptors and processes are only numbers, connections are all alike. *)
Symmetry == Permutations(CgiCon) \cup Permutations(Fd) \cup Permutations(Pid)
=============================================================================
