------------------------------ MODULE Backend ------------------------------
(***************************************************************************)
(* What the modules that pass requests on to backends share (mod_fastcgi,  *)
(* mod_scgi, mod_proxy): the connections, the limits, the ways in which    *)
(* starting a process can go.                                              *)
(*                                                                         *)
(* Every handler runs to its end before the next one starts.  It is an     *)
(* operator from the state of the module, a record, to the set of its      *)
(* outcomes [w, ret].  A request is reduced to its handler_ctx; when its   *)
(* body is read and its response written is left to Server.                *)
(***************************************************************************)
EXTENDS Integers, Sequences, FiniteSets, SequencesExt

CONSTANTS
    Con,            \* connections
    Nil,            \* no host, no process
    disable_time,
    MaxReconnects,  \* bound on the attempts of a request (5)
    SizeT           \* range of a size_t

ASSUME BackendAssumption ==
    /\ IsFiniteSet(Con) /\ Nil \notin Con
    /\ disable_time \in Nat /\ MaxReconnects \in Nat
    /\ SizeT \in Nat \ {0}

(* Ways starting a process can go: a child is started; somebody else listens there
   already; fork() fails, which goes unnoticed; or anything else fails. *)
SpawnWays == {"started", "listening", "no fork", "failed"}

Out(w, ret) == [w |-> w, ret |-> ret]
=============================================================================
