------------------------------- MODULE Angel -------------------------------
(***************************************************************************)
(* lighttpd-angel.c: a process that starts the server, starts it again     *)
(* when it was killed, replaces it on SIGHUP and forwards the signals that *)
(* stop it.  Its signal handlers run between any two of its steps, one of  *)
(* them waits for children, and they share pid and start_process with it.  *)
(***************************************************************************)
EXTENDS Naturals, FiniteSets

CONSTANTS
    Child,          \* servers that can be started, one after the other
    NoPid,
    MaxSignals      \* bound on the signals an operator sends

ASSUME AngelAssumption == IsFiniteSet(Child) /\ NoPid \notin Child /\ MaxSignals \in Nat

VARIABLES
    amain,          \* the main program: where it is, pid, start_process
    ahandler,       \* the handlers that were entered, the innermost first
    apending,       \* signals that were sent and not handled
    achild,         \* the servers
    ahist           \* signals sent, whether the angel was told to stop

angelVars == <<amain, ahandler, apending, achild, ahist>>

AngelInit ==
    /\ amain = [at |-> "top", pid |-> NoPid, start |-> TRUE]
    /\ ahandler = "none"
    /\ apending = {}
    /\ achild = [c \in Child |-> [at |-> "none", told |-> FALSE, how |-> "none"]]
    /\ ahist = [sent |-> 0, stop |-> FALSE, everyone |-> FALSE]

Idle == ahandler = "none"
AngelRunning(c) == achild[c].at = "up"
Zombie(c) == achild[c].at \in {"exited", "crashed"}
OwnChildren == {c \in Child : AngelRunning(c) \/ Zombie(c)}

(* start_process: fork() and exec(); the flag is cleared in a step of its own. *)
StartProcess ==
    /\ Idle /\ amain.at = "top"
    /\ IF amain.start
       THEN \E c \in Child :
            /\ achild[c].at = "none"
            /\ achild' = [achild EXCEPT ![c].at = "up"]
            /\ amain' = [amain EXCEPT !.at = "forked", !.pid = c]
       ELSE amain' = [amain EXCEPT !.at = "wait"] /\ UNCHANGED achild
    /\ UNCHANGED <<ahandler, apending, ahist>>

ClearStart ==
    /\ Idle /\ amain.at = "forked"
    /\ amain' = [amain EXCEPT !.at = "wait", !.start = FALSE]
    /\ UNCHANGED <<ahandler, apending, achild, ahist>>

(* waitpid(pid): the child that ended; no such child; or a signal interrupted it. *)
WaitPid ==
    /\ Idle /\ amain.at = "wait"
    /\ \/ /\ amain.pid # NoPid /\ Zombie(amain.pid)
          /\ achild' = [achild EXCEPT ![amain.pid].at = "reaped"]
          /\ amain' = IF achild[amain.pid].at = "exited" THEN [amain EXCEPT !.at = "gone"]
                      ELSE [amain EXCEPT !.at = "top", !.start = TRUE]
       \/ /\ amain.pid = NoPid \/ achild[amain.pid].at = "reaped"
          /\ amain' = [amain EXCEPT !.at = IF amain.start THEN "top" ELSE "gone"]
          /\ UNCHANGED achild
    /\ UNCHANGED <<ahandler, apending, ahist>>

(* sigaction_handler() is entered.  kill(pid) with the pid of no server yet reaches everyone. *)
Tell(sig) ==
    IF amain.pid = NoPid THEN UNCHANGED achild /\ ahist' = [ahist EXCEPT !.everyone = TRUE]
    ELSE /\ achild' = [achild EXCEPT ![amain.pid].told = @ \/ AngelRunning(amain.pid)]
         /\ UNCHANGED ahist
HandleStop ==
    /\ Idle /\ amain.at # "gone" /\ apending \cap {"TERM"} # {}
    /\ apending' = apending \ {"TERM"}
    /\ Tell("TERM")
    /\ amain' = [amain EXCEPT !.at = IF @ = "wait" THEN "top" ELSE @]
    /\ UNCHANGED ahandler

(* Mutant: the running server is not told. *)
HandleHup_NotTold ==
    /\ Idle /\ amain.at # "gone" /\ "HUP" \in apending
    /\ apending' = apending \ {"HUP"}
    /\ ahandler' = "hup"
    /\ UNCHANGED <<amain, achild, ahist>>

(* SIGHUP: the running server is told to stop gracefully, then, 5 ms later, start_process. *)
HandleHup ==
    /\ Idle /\ amain.at # "gone" /\ "HUP" \in apending
    /\ apending' = apending \ {"HUP"}
    /\ Tell("INT")
    /\ ahandler' = "hup"
    /\ UNCHANGED amain
HupSlept ==
    /\ ahandler = "hup"
    /\ ahandler' = "none"
    /\ amain' = [amain EXCEPT !.start = TRUE, !.at = IF @ = "wait" THEN "top" ELSE @]
    /\ UNCHANGED <<apending, achild, ahist>>

(* SIGCHLD: wait() takes any child, and waits for one if they are all up. *)
HandleChld ==
    /\ ahandler \in {"none", "hup"} /\ amain.at # "gone" /\ "CHLD" \in apending
    /\ amain.at = "wait" => amain.pid # NoPid /\ ~Zombie(amain.pid)
    /\ \/ \E c \in Child : Zombie(c) /\ achild' = [achild EXCEPT ![c].at = "reaped"]
       \/ OwnChildren = {} /\ UNCHANGED achild
    /\ apending' = apending \ {"CHLD"}
    /\ amain' = [amain EXCEPT !.at = IF @ = "wait" /\ ahandler = "none" THEN "top" ELSE @]
    /\ UNCHANGED <<ahandler, ahist>>

(* An operator sends a signal. *)
Operator ==
    /\ ahist.sent < MaxSignals
    /\ \E sig \in {"TERM", "HUP"} :
        /\ apending' = apending \cup {sig}
        /\ ahist' = [ahist EXCEPT !.sent = @ + 1, !.stop = @ \/ sig = "TERM"]
    /\ UNCHANGED <<amain, ahandler, achild>>

(* A server ends as it was told, or exits on its own; or it is killed. *)
ChildEnds ==
    /\ \E c \in Child, how \in {"exited", "crashed"} :
        AngelRunning(c) /\ achild' = [achild EXCEPT ![c].at = how, ![c].how = how]
    /\ apending' = apending \cup {"CHLD"}
    /\ UNCHANGED <<amain, ahandler, ahist>>

AngelNext ==
    \/ StartProcess \/ ClearStart \/ WaitPid
    \/ HandleStop \/ HandleHup \/ HupSlept \/ HandleChld
    \/ Operator \/ ChildEnds

AngelSpec == AngelInit /\ [][AngelNext]_angelVars

-----------------------------------------------------------------------------

(* Type correctness. *)
AngelTypeOK ==
    /\ amain \in [at : {"top", "forked", "wait", "gone"}, pid : Child \cup {NoPid}, start : BOOLEAN]
    /\ ahandler \in {"none", "hup"}
    /\ apending \subseteq {"TERM", "HUP", "CHLD"}
    /\ achild \in [Child -> [at : {"none", "up", "exited", "crashed", "reaped"}, told : BOOLEAN,
                             how : {"none", "exited", "crashed"}]]

(* However signals and restarts meet, there is never more than one server that was not told to
   stop, and it is the one whose pid the angel keeps. *)
OneRunning ==
    \A c \in Child : AngelRunning(c) /\ ~achild[c].told => c = amain.pid

(* Before start_process makes the angel fork again, or the handler of SIGHUP sets it, the server
   whose pid is kept has ended or was told to. *)
ReplacedWasTold ==
    /\ ahandler = "hup" \/ (amain.start /\ amain.at # "forked")
    /\ amain.pid \in Child
    => achild[amain.pid].told \/ ~AngelRunning(amain.pid)

(* The angel keeps at most one server going, and knows which (pid, start_process). *)
OneCurrent == AngelTypeOK /\ OneRunning /\ ReplacedWasTold
=============================================================================
