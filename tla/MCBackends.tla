----------------------------- MODULE MCBackends -----------------------------
(* The two modules that start and watch backend processes, for TLC: mod_fastcgi and
   mod_scgi do not share state, unit says which of them a behaviour is about. *)
EXTENDS FastCGI, Scgi

VARIABLE unit

Unit == {"fastcgi", "scgi"}

(* The connections are interchangeable. *)
Symmetry == Permutations(Con)

BackendsInit == unit \in Unit /\ Init /\ ScgiInit

BackendsNext ==
    /\ UNCHANGED unit
    /\ \/ unit = "fastcgi" /\ Next /\ UNCHANGED scgiVars
       \/ unit = "scgi" /\ ScgiNext /\ UNCHANGED vars

BackendsSpec == BackendsInit /\ [][BackendsNext]_<<unit, vars, scgiVars>>

(* Bound: a load that was given back without being held ends the behaviour. *)
NotOverdrawn == ~overdrawn /\ ~shist.overdrawn

(* A process that works is spared: it is neither restarted under its requests nor marked dead
   by one that did not try it. *)
ProcessesSpared == LetThemTerminate /\ ScgiPerfectProc
=============================================================================
