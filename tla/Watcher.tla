------------------------------ MODULE Watcher ------------------------------
(***************************************************************************)
(* server.max-worker (server.c): the watcher keeps a number of workers     *)
(* alive, forwards SIGHUP to the process group and stops them all.  Signal *)
(* handlers run at any moment and only set flags.                          *)
(***************************************************************************)
EXTENDS Integers, FiniteSets

CONSTANTS
    Slot,           \* processes that can be forked, one after the other
    max_worker,     \* server.max-worker
    MaxHups,        \* bound on the SIGHUPs sent
    MaxHelpers      \* other children of the watcher that end: a FastCGI server, a pipe logger

ASSUME WatcherAssumption ==
    /\ IsFiniteSet(Slot) /\ max_worker \in Nat \ {0} /\ MaxHups \in Nat /\ MaxHelpers \in Nat
    /\ Cardinality(Slot) > max_worker

VARIABLES
    wmain,          \* the watcher: where it is, num_childs and its flags
    wslot,          \* the workers
    wzombies,       \* helpers that ended and were not waited for
    whist           \* helpers reaped, SIGHUPs sent, workers an operator's SIGHUP has to reach

watcherVars == <<wmain, wslot, wzombies, whist>>

Flags == [term |-> FALSE, grace |-> FALSE, hup |-> FALSE, fwd |-> FALSE]
NoWorker == [at |-> "none", f |-> Flags]

WatcherInit ==
    /\ wmain = [at |-> "check", childs |-> max_worker, f |-> Flags]
    /\ wslot = [w \in Slot |-> NoWorker]
    /\ wzombies = 0
    /\ whist = [helpers |-> 0, dead |-> 0, hups |-> 0, owed |-> {}]

Up == {w \in Slot : wslot[w].at = "up"}
Group == Up \cup {w \in Slot : wslot[w].at = "boot"}

(* sigaction_handler() *)
sigaction_handler(f, sig) ==
    CASE sig = "TERM" -> [f EXCEPT !.term = TRUE]
      [] sig = "INT" -> [f EXCEPT !.grace = TRUE, !.term = @ \/ f.grace]
      [] sig = "HUP" -> IF f.fwd THEN [f EXCEPT !.fwd = FALSE] ELSE [f EXCEPT !.hup = TRUE]

(* A signal interrupts wait(), but not the way to it. *)
ToMain(m, sig) == [m EXCEPT !.f = sigaction_handler(@, sig), !.at = IF @ = "waiting" THEN "interrupted" ELSE @]
(* kill(0, sig): every process of the group, the sender included. *)
ToGroup(sig) == [w \in Slot |->
    IF w \in Group THEN [wslot[w] EXCEPT !.f = sigaction_handler(@, sig)] ELSE wslot[w]]

(* The head of the loop: enough workers are up, or one is missing, or it is time to stop. *)
Check ==
    /\ wmain.at = "check"
    /\ wmain' = [wmain EXCEPT !.at = IF wmain.f.term \/ wmain.f.grace THEN "stop"
                                     ELSE IF wmain.childs > 0 THEN "fork" ELSE "towait"]
    /\ UNCHANGED <<wslot, wzombies, whist>>

(* fork(): the worker begins with the flags the watcher has. *)
Fork ==
    /\ wmain.at = "fork"
    /\ \E w \in Slot :
        /\ wslot[w].at = "none"
        /\ wslot' = [wslot EXCEPT ![w] = [at |-> "boot", f |-> wmain.f]]
    /\ wmain' = [wmain EXCEPT !.at = "check", !.childs = @ - 1]
    /\ UNCHANGED <<wzombies, whist>>

(* fork() fails: the watcher returns at once. *)
ForkFails ==
    /\ wmain.at = "fork"
    /\ wmain' = [wmain EXCEPT !.at = "dead"]
    /\ UNCHANGED <<wslot, wzombies, whist>>

(* wait() is entered. *)
EnterWait ==
    /\ wmain.at = "towait"
    /\ wmain' = [wmain EXCEPT !.at = "waiting"]
    /\ UNCHANGED <<wslot, wzombies, whist>>

(* wait() returns: any child that went away counts as a worker. *)
Reaped ==
    /\ wmain.at = "waiting"
    /\ wmain' = [wmain EXCEPT !.at = "check", !.childs = @ + 1]
    /\ \/ /\ \E w \in Slot : wslot[w].at = "zombie" /\ wslot' = [wslot EXCEPT ![w] = NoWorker]
          /\ UNCHANGED <<wzombies, whist>>
       \/ /\ wzombies > 0 /\ wzombies' = wzombies - 1
          /\ whist' = [whist EXCEPT !.helpers = @ + 1]
          /\ UNCHANGED wslot

(* Mutant: the watcher cycles its own log only. *)
Interrupted_NotForwarded ==
    /\ wmain.at = "interrupted"
    /\ wmain' = [wmain EXCEPT !.at = "check", !.f.hup = FALSE]
    /\ UNCHANGED <<wslot, wzombies, whist>>

(* wait() was interrupted: the log is cycled, and SIGHUP forwarded to the group unless
   this one was forwarded. *)
Interrupted ==
    /\ wmain.at = "interrupted"
    /\ IF wmain.f.hup
       THEN wmain' = [wmain EXCEPT !.at = IF wmain.f.fwd THEN "check" ELSE "forward",
                                   !.f.hup = FALSE, !.f.fwd = TRUE]
       ELSE wmain' = [wmain EXCEPT !.at = "check"]
    /\ UNCHANGED <<wslot, wzombies, whist>>

(* kill(0, SIGHUP) *)
Forward ==
    /\ wmain.at = "forward"
    /\ wmain' = [ToMain(wmain, "HUP") EXCEPT !.at = "check"]
    /\ wslot' = ToGroup("HUP")
    /\ UNCHANGED <<wzombies, whist>>

(* The watcher's way out: the signal that stopped it goes to the group. *)
Stop ==
    /\ wmain.at = "stop"
    /\ wslot' = ToGroup(IF wmain.f.grace THEN "INT" ELSE "TERM")
    /\ wmain' = [wmain EXCEPT !.at = "gone"]
    /\ UNCHANGED <<wzombies, whist>>

(* The worker leaves the fork loop, closes its copy of the pid file and sets up its events. *)
WorkerBoots(w) ==
    /\ wslot[w].at = "boot"
    /\ wslot' = [wslot EXCEPT ![w].at = "up"]
    /\ UNCHANGED <<wmain, wzombies, whist>>

(* A round of the worker's main loop sees handle_sig_hup and cycles the logs. *)
WorkerCycles(w) ==
    /\ wslot[w].at = "up" /\ wslot[w].f.hup
    /\ wslot' = [wslot EXCEPT ![w].f.hup = FALSE]
    /\ whist' = [whist EXCEPT !.owed = @ \ {w}]
    /\ UNCHANGED <<wmain, wzombies>>

(* The worker stops as it was told, or dies. *)
WorkerEnds(w) ==
    /\ wslot[w].at \in {"boot", "up"}
    /\ wslot' = [wslot EXCEPT ![w] = [NoWorker EXCEPT !.at = "zombie"]]
    /\ whist' = [whist EXCEPT !.owed = @ \ {w}]
    /\ UNCHANGED <<wmain, wzombies>>

(* A helper ends. *)
HelperEnds ==
    /\ whist.dead < MaxHelpers
    /\ wzombies' = wzombies + 1
    /\ whist' = [whist EXCEPT !.dead = @ + 1]
    /\ UNCHANGED <<wmain, wslot>>

Watching == wmain.at \notin {"gone", "dead"}

(* Someone sends the watcher SIGTERM or SIGINT. *)
Signalled ==
    /\ Watching
    /\ \E sig \in {"TERM", "INT"} : wmain' = ToMain(wmain, sig)
    /\ UNCHANGED <<wslot, wzombies, whist>>

(* Someone sends the watcher SIGHUP. *)
HupSent ==
    /\ Watching /\ whist.hups < MaxHups
    /\ wmain' = ToMain(wmain, "HUP")
    /\ whist' = [whist EXCEPT !.hups = @ + 1, !.owed = Up]
    /\ UNCHANGED <<wslot, wzombies>>

WatcherNext ==
    \/ Check \/ Fork \/ ForkFails \/ EnterWait \/ Reaped \/ Interrupted \/ Forward \/ Stop
    \/ \E w \in Slot : WorkerBoots(w) \/ WorkerCycles(w) \/ WorkerEnds(w)
    \/ HelperEnds \/ Signalled \/ HupSent

WatcherSpec == WatcherInit /\ [][WatcherNext]_watcherVars

-----------------------------------------------------------------------------

(* The workers that were forked and not waited for, with the ones still to be forked, are as
   many as configured, one more for every other child that wait() returned. *)
WorkersCounted ==
    wmain.at # "gone" =>
        Cardinality({w \in Slot : wslot[w].at # "none"}) + wmain.childs = max_worker + whist.helpers

(* When the watcher has gone the way of a signal, no worker goes on as if nothing had happened,
   not even one that was forked while the signal arrived. *)
NoWorkerLeftBehind ==
    wmain.at = "gone" => \A w \in Group : wslot[w].f.term \/ wslot[w].f.grace

(* A worker the last SIGHUP has to reach has it, or the watcher still knows of it and is not
   asleep in wait() without knowing: it was noticed on the way into wait(), or is on its way. *)
HupNotForgotten ==
    Watching /\ ~(wmain.f.term \/ wmain.f.grace) =>
        \A w \in whist.owed : wslot[w].f.hup \/ wmain.f.hup \/ wmain.at = "forward"

(* Type correctness. *)
FlagSet == [term : BOOLEAN, grace : BOOLEAN, hup : BOOLEAN, fwd : BOOLEAN]
WatcherTypeOK ==
    /\ wmain \in [at : {"check", "fork", "towait", "waiting", "interrupted", "forward", "stop",
                        "gone", "dead"}, childs : Int, f : FlagSet]
    /\ wslot \in [Slot -> [at : {"none", "boot", "up", "zombie"}, f : FlagSet]]
    /\ wzombies \in Nat
    /\ whist \in [helpers : Nat, dead : Nat, hups : Nat, owed : SUBSET Slot]

(* forwarded_sig_hup, by which the watcher tells its own SIGHUP from an operator's, is set only
   while kill(0, SIGHUP) is still to come, and no worker is born with it. *)
ForwardedOnce ==
    /\ wmain.f.fwd => wmain.at = "forward"
    /\ \A w \in Slot : ~wslot[w].f.fwd

(* A SIGHUP is owed to workers that are up. *)
OwedAreUp == whist.owed \subseteq Up

(* The watcher knows its workers and passes on what it was told. *)
WatcherInv ==
    /\ WatcherTypeOK /\ WorkersCounted /\ NoWorkerLeftBehind
    /\ HupNotForgotten /\ ForwardedOnce /\ OwedAreUp
=============================================================================
