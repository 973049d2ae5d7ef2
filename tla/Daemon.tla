------------------------------- MODULE Daemon -------------------------------
(***************************************************************************)
(* The life of a server process outside its main loop (server.c): the pid  *)
(* file, the listening socket (network.c), daemonize() with the launcher   *)
(* that waits for the result, and the two ways to stop.  Several processes *)
(* started with one configuration share the pid file and the address, as   *)
(* in a graceful restart.                                                  *)
(***************************************************************************)
EXTENDS Naturals, FiniteSets

CONSTANTS
    Inst,           \* processes that are started
    Nobody,
    SocketKinds     \* subset of {"tcp", "unix"}

ASSUME DaemonAssumption == IsFiniteSet(Inst) /\ Nobody \notin Inst /\ SocketKinds \subseteq {"tcp", "unix"}

VARIABLES
    dproc,          \* each process
    dpid,           \* the pid file: the file its name leads to, and the text of each file
    dpath,          \* unix: the process whose socket the name of the socket leads to
    dkind,          \* the kind of $SERVER["socket"]
    dlaunch,        \* the process that called daemonize() and waits on the pipe
    dhist           \* started with no other one around; told to stop gracefully at an odd moment

daemonVars == <<dproc, dpid, dpath, dkind, dlaunch, dhist>>

Startup == {"config", "limits", "bind", "listen", "plugins", "daemonize", "pidwrite", "log", "defaults", "notify"}
Alive(i) == dproc[i].at \in Startup \cup {"loop", "left"}
NewProc == [at |-> "idle", fd |-> Nobody, sock |-> "none", term |-> FALSE, grace |-> FALSE,
            off |-> FALSE, busy |-> FALSE, told |-> FALSE]

DaemonInit ==
    /\ dproc = [i \in Inst |-> NewProc]
    /\ dpid = [name |-> Nobody, text |-> [i \in Inst |-> Nobody]]
    /\ dpath = Nobody
    /\ dkind \in SocketKinds
    /\ dlaunch = [i \in Inst |-> "none"]
    /\ dhist = [alone |-> [i \in Inst |-> TRUE], odd |-> {}]

At(i, stage) == dproc[i].at = stage
GoTo(i, stage) == dproc' = [dproc EXCEPT ![i].at = stage]
Ended(p, how) == [p EXCEPT !.at = how, !.fd = Nobody, !.sock = "none"]

(* main() is entered. *)
Start(i) ==
    /\ At(i, "idle") /\ GoTo(i, "config")
    /\ LET others == {j \in Inst \ {i} : Alive(j)} IN
       dhist' = [dhist EXCEPT !.alone = [j \in Inst |-> @[j] /\ (others = {} \/ j \notin others \cup {i})]]
    /\ UNCHANGED <<dpid, dpath, dkind, dlaunch>>

(* The configuration is read, the plugins are loaded, and the pid file is opened before
   chroot(): a new one, or the one that is there, which is truncated. *)
OpenPidFile(i) ==
    /\ At(i, "config")
    /\ LET file == IF dpid.name = Nobody THEN i ELSE dpid.name IN
       /\ dpid' = [name |-> file, text |-> [dpid.text EXCEPT ![file] = Nobody]]
       /\ dproc' = [dproc EXCEPT ![i].at = "limits", ![i].fd = file]
    /\ UNCHANGED <<dpath, dkind, dlaunch, dhist>>

(* Limits and user are set; network_server_init() tests whether a unix socket answers and
   removes the name of one that refuses. *)
Probe(i) ==
    /\ At(i, "limits")
    /\ IF dkind = "tcp" \/ dpath = Nobody
       THEN GoTo(i, "bind") /\ UNCHANGED dpath
       ELSE IF dproc[dpath].sock = "listening"
       THEN dproc' = [dproc EXCEPT ![i] = Ended(@, "failed")] /\ UNCHANGED dpath
       ELSE GoTo(i, "bind") /\ dpath' = Nobody
    /\ UNCHANGED <<dpid, dkind, dlaunch, dhist>>

AddressTaken ==
    IF dkind = "tcp" THEN \E j \in Inst : dproc[j].sock # "none" ELSE dpath # Nobody

(* bind() *)
Bind(i) ==
    /\ At(i, "bind")
    /\ IF AddressTaken THEN dproc' = [dproc EXCEPT ![i] = Ended(@, "failed")] /\ UNCHANGED dpath
       ELSE /\ dproc' = [dproc EXCEPT ![i].at = "listen", ![i].sock = "bound"]
            /\ dpath' = IF dkind = "unix" THEN i ELSE dpath
    /\ UNCHANGED <<dpid, dkind, dlaunch, dhist>>

(* listen() *)
Listen(i) ==
    /\ At(i, "listen")
    /\ dproc' = [dproc EXCEPT ![i].at = "plugins", ![i].sock = "listening"]
    /\ UNCHANGED <<dpid, dpath, dkind, dlaunch, dhist>>

(* plugins_call_init() *)
InitPlugins(i) ==
    /\ At(i, "plugins") /\ GoTo(i, "daemonize")
    /\ UNCHANGED <<dpid, dpath, dkind, dlaunch, dhist>>

(* daemonize(), unless server was started with -D; then the signal handlers. *)
Daemonize(i) ==
    /\ At(i, "daemonize") /\ GoTo(i, "pidwrite")
    /\ \E background \in BOOLEAN :
        dlaunch' = IF background THEN [dlaunch EXCEPT ![i] = "waiting"] ELSE dlaunch
    /\ UNCHANGED <<dpid, dpath, dkind, dhist>>

(* The pid is written into the file that was opened, wherever its name is now. *)
WritePid(i) ==
    /\ At(i, "pidwrite") /\ GoTo(i, "log")
    /\ dpid' = [dpid EXCEPT !.text[dproc[i].fd] = i]
    /\ UNCHANGED <<dpath, dkind, dlaunch, dhist>>

(* log_error_open() *)
log_error_open(i) ==
    /\ At(i, "log") /\ GoTo(i, "defaults")
    /\ UNCHANGED <<dpid, dpath, dkind, dlaunch, dhist>>

(* plugins_call_set_defaults() and the check of the keys nobody knows. *)
SetDefaults(i) ==
    /\ At(i, "defaults") /\ GoTo(i, "notify")
    /\ UNCHANGED <<dpid, dpath, dkind, dlaunch, dhist>>

(* One byte to the launcher, then the event handler, the sockets and the main loop. *)
Notify(i) ==
    /\ At(i, "notify")
    /\ dproc' = [dproc EXCEPT ![i].at = "loop", ![i].told = dlaunch[i] = "waiting"]
    /\ UNCHANGED <<dpid, dpath, dkind, dlaunch, dhist>>

(* Every stage may end the process with an error; none of them removes the pid file. *)
StartupFails(i) ==
    /\ dproc[i].at \in Startup
    /\ dproc' = [dproc EXCEPT ![i] = Ended(@, "failed")]
    /\ UNCHANGED <<dpid, dpath, dkind, dlaunch, dhist>>

(* The launcher reads the byte, or the end of the pipe that nobody holds open any more. *)
LauncherReads(i) ==
    /\ dlaunch[i] = "waiting"
    /\ \/ dproc[i].told /\ dlaunch' = [dlaunch EXCEPT ![i] = "ok"]
       \/ ~Alive(i) /\ ~dproc[i].told /\ dlaunch' = [dlaunch EXCEPT ![i] = "failed"]
    /\ UNCHANGED <<dproc, dpid, dpath, dkind, dhist>>

HandlersSet(i) == dproc[i].at \in {"pidwrite", "log", "defaults", "notify", "loop", "left"}
SignalDefault(i) ==
    /\ Alive(i) /\ ~HandlersSet(i)
    /\ dproc' = [dproc EXCEPT ![i] = Ended(@, "killed")]
    /\ UNCHANGED dhist

(* The sockets are still there when two signals have met, or were disabled. *)
Odd(i) == [dhist EXCEPT !.odd = IF dproc[i].sock = "listening" THEN @ \cup {i} ELSE @]

(* SIGTERM *)
SigTerm(i) ==
    /\ \/ SignalDefault(i)
       \/ /\ HandlersSet(i)
          /\ dproc' = [dproc EXCEPT ![i].term = TRUE]
          /\ dhist' = IF dproc[i].grace THEN Odd(i) ELSE dhist
    /\ UNCHANGED <<dpid, dpath, dkind, dlaunch>>

(* SIGINT, or the idle limit of -i: graceful, and at once when it is repeated. *)
SigInt(i) ==
    /\ \/ SignalDefault(i)
       \/ /\ HandlersSet(i)
          /\ dproc' = [dproc EXCEPT ![i].grace = TRUE, ![i].term = @ \/ dproc[i].grace]
          /\ dhist' = IF dproc[i].grace \/ dproc[i].off \/ dproc[i].term THEN Odd(i) ELSE dhist
    /\ UNCHANGED <<dpid, dpath, dkind, dlaunch>>

(* SIGKILL or a crash *)
Kill(i) ==
    /\ Alive(i)
    /\ dproc' = [dproc EXCEPT ![i] = Ended(@, "killed")]
    /\ UNCHANGED <<dpid, dpath, dkind, dlaunch, dhist>>

(* Connections come and go. *)
Traffic(i) ==
    /\ At(i, "loop")
    /\ dproc[i].busy \/ dproc[i].sock = "listening"
    /\ dproc' = [dproc EXCEPT ![i].busy = ~@]
    /\ UNCHANGED <<dpid, dpath, dkind, dlaunch, dhist>>

(* Sockets are disabled when the server is overloaded, and enabled again. *)
Overload(i) ==
    /\ At(i, "loop") /\ ~dproc[i].grace /\ ~dproc[i].term
    /\ dproc' = [dproc EXCEPT ![i].off = ~@]
    /\ UNCHANGED <<dpid, dpath, dkind, dlaunch, dhist>>

(* remove_pid_file(): the file is truncated through the descriptor, the name unlinked. *)
remove_pid_file(i) ==
    [name |-> Nobody,
     text |-> IF dproc[i].fd = Nobody THEN dpid.text ELSE [dpid.text EXCEPT ![dproc[i].fd] = Nobody]]

(* The first round after SIGINT in which the sockets are enabled closes them. *)
GracefulStart(i) ==
    /\ At(i, "loop") /\ dproc[i].grace /\ ~dproc[i].term /\ ~dproc[i].off
    /\ dproc' = [dproc EXCEPT ![i].off = TRUE, ![i].sock = "none", ![i].fd = Nobody]
    /\ dpid' = remove_pid_file(i)
    /\ UNCHANGED <<dpath, dkind, dlaunch, dhist>>

(* The main loop ends. *)
LoopEnds(i) ==
    /\ At(i, "loop")
    /\ dproc[i].term \/ (dproc[i].grace /\ dproc[i].off /\ ~dproc[i].busy)
    /\ dproc' = [dproc EXCEPT ![i].at = "left", ![i].term = TRUE]
    /\ UNCHANGED <<dpid, dpath, dkind, dlaunch, dhist>>

(* Mutant: the condition is the wrong way round. *)
Finish_WhenGraceful(i) ==
    /\ At(i, "left")
    /\ dproc' = [dproc EXCEPT ![i] = Ended(@, "gone")]
    /\ dpid' = IF dproc[i].grace THEN remove_pid_file(i) ELSE dpid
    /\ UNCHANGED <<dpath, dkind, dlaunch, dhist>>

(* What follows the loop: the pid file is removed unless the stop was graceful. *)
Finish(i) ==
    /\ At(i, "left")
    /\ dproc' = [dproc EXCEPT ![i] = Ended(@, "gone")]
    /\ dpid' = IF dproc[i].grace THEN dpid ELSE remove_pid_file(i)
    /\ UNCHANGED <<dpath, dkind, dlaunch, dhist>>

DaemonNext ==
    \E i \in Inst :
        \/ Start(i)
        \/ OpenPidFile(i)
        \/ Probe(i)
        \/ Bind(i)
        \/ Listen(i)
        \/ InitPlugins(i)
        \/ Daemonize(i)
        \/ WritePid(i)
        \/ log_error_open(i)
        \/ SetDefaults(i)
        \/ Notify(i)
        \/ StartupFails(i)
        \/ LauncherReads(i)
        \/ SigTerm(i)
        \/ SigInt(i)
        \/ Kill(i)
        \/ Traffic(i)
        \/ Overload(i)
        \/ GracefulStart(i)
        \/ LoopEnds(i)
        \/ Finish(i)

DaemonSpec == DaemonInit /\ [][DaemonNext]_daemonVars

-----------------------------------------------------------------------------

NamedInPidFile(i) == dpid.name # Nobody /\ dpid.text[dpid.name] = i

(* A server that no other one was started beside is named in the pid file and reached through
   its socket for as long as it is up and has not begun to stop, whatever file an earlier one
   that failed or was killed has left behind. *)
ServerFound ==
    \A i \in Inst :
        At(i, "loop") /\ dhist.alone[i] /\ dproc[i].sock = "listening" =>
            NamedInPidFile(i) /\ (dkind = "unix" => dpath = i)

(* A server that was told to stop leaves no pid file with its number.  This needs that SIGINT
   neither met disabled sockets nor another signal before the sockets were closed: the two
   places that remove the file ask for graceful_shutdown in opposite ways, and such a stop
   passes between them. *)
StopRemovesPidFile ==
    \A i \in Inst :
        At(i, "gone") /\ i \notin dhist.odd => ~NamedInPidFile(i)

(* The launcher reports success for a server that came up, and failure for one that did not. *)
LauncherKnows ==
    \A i \in Inst :
        /\ dlaunch[i] = "ok" => dproc[i].at \in {"loop", "left", "gone", "killed"}
        /\ dlaunch[i] = "failed" => dproc[i].at \in {"failed", "killed"}

(* Whoever looks for a server finds the right one: by pid file, socket and exit status. *)
DaemonInv == ServerFound /\ StopRemovesPidFile /\ LauncherKnows
=============================================================================
