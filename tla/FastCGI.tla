------------------------------ MODULE FastCGI ------------------------------
(***************************************************************************)
(* FastCGI backends (mod_fastcgi.c): the hosts of an extension and their   *)
(* processes, the choice between them, the counters that steer it, and the *)
(* connections of requests to a process.                                   *)
(***************************************************************************)
EXTENDS Backend

CONSTANTS
    NumHosts,       \* ex->used, hosts of the extension
    Local,          \* hosts with a bin-path, whose processes are started here
    max_procs,      \* processes of a local host
    Spawned,        \* the SpawnWays considered
    MaxActive       \* bound: active_procs of a host beyond which no child dies

ASSUME FastCGIAssumption ==
    /\ NumHosts \in Nat \ {0} /\ max_procs \in Nat \ {0}
    /\ Local \subseteq 1 .. NumHosts /\ Spawned \subseteq SpawnWays /\ MaxActive \in Nat

VARIABLES
    ctx,            \* handler_ctx of each connection
    host,           \* fcgi_extension_host: load and active_procs
    proc,           \* fcgi_proc of each host, in the order of its list
    last_used_ndx,
    again,          \* connection whose request is handled again at once
    overdrawn,      \* was load given back that was not taken? (history)
    lost            \* was a child forgotten that was not reaped? (history)

vars == <<ctx, host, proc, last_used_ndx, again, overdrawn, lost>>

Host == 1 .. NumHosts
Procs(h) == 1 .. IF h \in Local THEN max_procs ELSE 1

World ==
    [ctx |-> ctx, host |-> host, proc |-> proc, last |-> last_used_ndx,
     overdrawn |-> overdrawn, lost |-> lost]

(* No request, and a request before the first attempt.  progress says whether
   some of the request was sent or some of the response came (file_started). *)
NoContext ==
    [state |-> "none", host |-> Nil, proc |-> Nil, got_proc |-> FALSE, fd |-> FALSE,
     reconnects |-> 0, progress |-> "none"]
handler_ctx_init == [NoContext EXCEPT !.state = "INIT"]

(* A process.  child is the process that pid names: "none" if pid is 0, "gone"
   if it has been reaped.  disabled counts the seconds left. *)
Process(local) ==
    [state |-> "RUNNING", load |-> 0, is_local |-> local, disabled |-> 0,
     child |-> IF local THEN "run" ELSE "none"]

(* The server starts the local processes, unless it finds that somebody else
   listens there already or fork() fails. *)
Init ==
    /\ ctx = [c \in Con |-> NoContext]
    /\ \E own \in IF Spawned \cap {"listening", "no fork"} = {} THEN {Local \X (1 .. max_procs)}
                 ELSE SUBSET (Local \X (1 .. max_procs)) :
          proc = [h \in Host |-> [i \in Procs(h) |-> Process(<<h, i>> \in own)]]
    /\ host = [h \in Host |-> [load |-> 0, active_procs |-> Cardinality(Procs(h))]]
    /\ last_used_ndx = 0
    /\ again = Nil
    /\ overdrawn = FALSE
    /\ lost = FALSE

----------------------------------------------------------------------------
(* Counters *)

(* Has the request taken a share of the load of its process? *)
Holds(x) == x.state \in {"PREPARE_WRITE", "WRITE", "READ"}

fcgi_proc_load_inc(w, c) ==
    LET x == w.ctx[c] IN [w EXCEPT !.proc[x.host][x.proc].load = (@ + 1) % SizeT]

fcgi_proc_load_dec(w, c) ==
    LET x == w.ctx[c]
    IN  [w EXCEPT !.proc[x.host][x.proc].load = (@ - 1) % SizeT, !.overdrawn = @ \/ ~Holds(x)]

fcgi_host_assign(w, c, h) == [w EXCEPT !.ctx[c].host = h, !.host[h].load = @ + 1]

fcgi_host_reset(w, c) == [w EXCEPT !.host[w.ctx[c].host].load = @ - 1, !.ctx[c].host = Nil]

(* The host has one process less to choose from, if it had it. *)
NotRunning(w, h, i) ==
    IF w.proc[h][i].state = "RUNNING" THEN [w EXCEPT !.host[h].active_procs = @ - 1] ELSE w

(* disabled_until stays as it was, but is set again before it is read. *)
Running(w, h, i) ==
    [w EXCEPT !.proc[h][i].state = "RUNNING", !.proc[h][i].disabled = 0,
              !.host[h].active_procs = @ + 1]

(* fcgi_host_disable(): no more requests for the process of this one. *)
fcgi_host_disable(w, c) ==
    LET h == w.ctx[c].host
        i == w.ctx[c].proc
        local == w.proc[h][i].is_local
    IN  IF disable_time = 0 /\ ~local THEN w
        ELSE [NotRunning(w, h, i) EXCEPT
                !.proc[h][i].disabled = disable_time + 1,
                !.proc[h][i].state = IF local THEN "DIED_WAIT_FOR_PID" ELSE "DIED"]

----------------------------------------------------------------------------
(* Processes *)

(* fcgi_spawn_connection(): a child is started; somebody else listens there
   already; fork() fails, which goes unnoticed; or anything else fails. *)
fcgi_spawn_connection(w, h, i) ==
    {CASE s = "started" ->
            Out([Running(w, h, i) EXCEPT !.proc[h][i].child = "run", !.proc[h][i].is_local = TRUE,
                    !.lost = @ \/ w.proc[h][i].child \in {"run", "zombie"}], "0")
       [] s = "listening" ->
            Out([Running(w, h, i) EXCEPT !.proc[h][i].child = "none", !.proc[h][i].is_local = FALSE,
                    !.lost = @ \/ w.proc[h][i].child \in {"run", "zombie"}], "0")
       [] s = "no fork" -> Out(Running(w, h, i), "0")
       [] s = "failed"  -> Out(w, "-1") : s \in Spawned}

(* waitpid(): a child that ended is reaped. *)
Reaped(w, h, i) ==
    IF w.proc[h][i].child = "zombie" THEN [w EXCEPT !.proc[h][i].child = "gone"] ELSE w

(* Mutant: it is started again at once. *)
Revive_AtOnce(w, h, i) ==
    IF h \in Local
    THEN fcgi_spawn_connection(w, h, i)
    ELSE IF w.proc[h][i].disabled > 0 THEN {Out(w, "0")} ELSE {Out(Running(w, h, i), "0")}

(* A process that died: a local one is started again when the last request has
   left it, a remote one is tried again after a while. *)
Revive(w, h, i) ==
    IF h \in Local
    THEN IF w.proc[h][i].load # 0 THEN {Out(w, "0")} ELSE fcgi_spawn_connection(w, h, i)
    ELSE IF w.proc[h][i].disabled > 0 THEN {Out(w, "0")} ELSE {Out(Running(w, h, i), "0")}

(* One round of fcgi_restart_dead_procs(). *)
RestartProc(w, h, i) ==
    LET p == w.proc[h][i]
    IN  CASE p.state = "OVERLOADED" ->
               {Out(IF p.disabled > 0 THEN w ELSE Running(w, h, i), "0")}
          [] p.state = "DIED_WAIT_FOR_PID" /\ p.is_local /\ p.child = "run" ->
               {Out(IF p.disabled > 0 THEN w ELSE Running(w, h, i), "0")}
          [] p.state = "DIED_WAIT_FOR_PID" /\ ~(p.is_local /\ p.child = "run") ->
               Revive([IF p.is_local THEN Reaped(w, h, i) ELSE w EXCEPT
                          !.proc[h][i].state = "DIED"], h, i)
          [] p.state = "DIED" -> Revive(w, h, i)
          [] OTHER -> {Out(w, "0")}

(* fcgi_restart_dead_procs(): through the list of processes, up to the first
   that cannot be started. *)
fcgi_restart_dead_procs(w, h) ==
    FoldLeft(LAMBDA S, i : UNION {IF o.ret = "-1" THEN {o} ELSE RestartProc(o.w, h, i) : o \in S},
             {Out(w, "0")}, [i \in Procs(h) |-> i])

----------------------------------------------------------------------------
(* A request and its process *)

(* fcgi_connection_close() and handler_ctx_free() *)
fcgi_connection_close(w, c) ==
    LET x == w.ctx[c]
        v == IF x.host # Nil /\ x.proc # Nil /\ x.got_proc THEN fcgi_proc_load_dec(w, c) ELSE w
        u == IF x.host # Nil THEN fcgi_host_reset(v, c) ELSE v
    IN  [u EXCEPT !.ctx[c] = NoContext]

(* fcgi_reconnect(): what was taken is given back, the descriptor closed.
   got_proc stays as it was; so does proc, which nobody reads without a host. *)
fcgi_reconnect(w, c) ==
    LET x == w.ctx[c]
        v == IF x.proc # Nil /\ x.got_proc THEN fcgi_proc_load_dec(w, c) ELSE w
    IN  [fcgi_host_reset(v, c) EXCEPT
            !.ctx[c].fd = FALSE, !.ctx[c].state = "INIT", !.ctx[c].reconnects = @ + 1,
            !.ctx[c].proc = Nil]

(* The host for a request: the next one if it has no load, else the least
   loaded of those that have a process; Nil if all are down. *)
NextHost(w) ==
    LET next == IF w.last >= NumHosts THEN 1 ELSE w.last + 1
        alive == {h \in Host : w.host[h].active_procs # 0}
    IN  IF w.host[next].load <= 0 THEN next
        ELSE IF alive = {} THEN Nil
        ELSE CHOOSE h \in alive : \A g \in alive :
                \/ w.host[h].load < w.host[g].load
                \/ w.host[h].load = w.host[g].load /\ h <= g

(* The process of a host: the first in the list with the least load. *)
NextProc(w, h) ==
    LET running == {i \in Procs(h) : w.proc[h][i].state = "RUNNING"}
    IN  IF running = {} THEN Nil
        ELSE CHOOSE i \in running : \A j \in running :
                \/ w.proc[h][i].load < w.proc[h][j].load
                \/ w.proc[h][i].load = w.proc[h][j].load /\ i <= j

(* Some of the request has left, wb->bytes_out is no longer 0, or some of the
   response came.  reconnects stays as it was, and is not read any more. *)
Progress(w, c, p) == [w EXCEPT !.ctx[c].progress = p, !.ctx[c].reconnects = 0]
Sent(w, c) == IF w.ctx[c].progress = "none" THEN Progress(w, c, "sent") ELSE w

(* FCGI_STATE_WRITE: the request is written, all of it, a part or nothing. *)
WriteRequest(w, c) ==
    {Out(w, "ERROR"), Out(w, "WAIT_FOR_EVENT"),
     Out(Sent(w, c), "WAIT_FOR_EVENT"),
     Out([Sent(w, c) EXCEPT !.ctx[c].state = "READ"], "WAIT_FOR_EVENT")}

(* fcgi_create_env(): the request may prove not to be fit for the backend. *)
fcgi_create_env(w) == {Out(w, "0"), Out(w, "-1")}

(* FCGI_STATE_PREPARE_WRITE: the request counts for the process from now on. *)
PrepareWrite(w, c) ==
    LET v == fcgi_proc_load_inc([w EXCEPT !.ctx[c].got_proc = TRUE,
                                          !.ctx[c].state = "PREPARE_WRITE"], c)
    IN  UNION {IF o.ret = "-1" THEN {Out(o.w, "ERROR")}
               ELSE WriteRequest([o.w EXCEPT !.ctx[c].state = "WRITE"], c) :
                  o \in fcgi_create_env(v)}

(* fcgi_establish_connection(): the outcomes of connect(). *)
fcgi_establish_connection(w, c) ==
    {Out(w, ret) : ret \in {"DELAYED", "OVERLOADED", "DEAD"}}
    \cup {Out([w EXCEPT !.ctx[c].reconnects = 0], "OK")}

(* CONNECTION_OVERLOADED: the process is left alone for a while. *)
CoolDown(w, c) ==
    LET x == w.ctx[c]
    IN  IF disable_time = 0 THEN w
        ELSE [NotRunning(w, x.host, x.proc) EXCEPT
                !.proc[x.host][x.proc].state = "OVERLOADED",
                !.proc[x.host][x.proc].disabled = disable_time + 1]

(* FCGI_STATE_INIT with a process: a descriptor and connect(). *)
Connect(w, c) ==
    LET open == [w EXCEPT !.ctx[c].fd = TRUE]
    IN  {Out(w, "WAIT_FOR_FD"), Out(w, "ERROR"), Out(open, "ERROR")}
        \cup UNION {CASE o.ret = "DELAYED" ->
                           {Out([o.w EXCEPT !.ctx[c].state = "CONNECT_DELAYED"], "WAIT_FOR_EVENT")}
                     [] o.ret = "OVERLOADED" -> {Out(CoolDown(o.w, c), "ERROR")}
                     [] o.ret = "DEAD"       -> {Out(fcgi_host_disable(o.w, c), "ERROR")}
                     [] o.ret = "OK"         -> PrepareWrite(o.w, c) :
                       o \in fcgi_establish_connection(open, c)}

fcgi_write_request(w, c) ==
    LET x == w.ctx[c]
        p == NextProc(w, x.host)
        v == [w EXCEPT !.ctx[c].proc = p]
    IN  CASE x.state = "CONNECT_DELAYED" ->
               {Out(fcgi_host_disable(w, c), "ERROR")} \cup PrepareWrite(w, c)
          [] x.state = "INIT"  -> IF p = Nil THEN {Out(v, "ERROR")} ELSE Connect(v, c)
          [] x.state = "WRITE" -> WriteRequest(w, c)
          [] x.state = "READ"  -> {Out(w, "WAIT_FOR_EVENT")}

(* fcgi_send_request() after an error: before the request was accepted the dead
   are looked after and another attempt is made. *)
Failed(w, c) ==
    IF w.ctx[c].state \in {"INIT", "CONNECT_DELAYED"}
    THEN {IF o.w.ctx[c].reconnects < MaxReconnects
          THEN Out(fcgi_reconnect(o.w, c), "COMEBACK")
          ELSE Out(fcgi_connection_close(o.w, c), "FINISHED") :
            o \in fcgi_restart_dead_procs(w, w.ctx[c].host)}
    ELSE {Out(fcgi_connection_close(w, c), "FINISHED")}

fcgi_send_request(w, c) ==
    LET h == NextHost(w)
        v == IF w.ctx[c].host # Nil THEN w
             ELSE [fcgi_host_assign(w, c, h) EXCEPT !.last = h, !.ctx[c].proc = Nil]
    IN  IF w.ctx[c].host = Nil /\ h = Nil
        THEN {Out(fcgi_connection_close(w, c), "FINISHED")}
        ELSE UNION {IF o.ret = "ERROR" THEN Failed(o.w, c) ELSE {o} :
                      o \in fcgi_write_request(v, c)}

(* Mutant: the child is replaced without a look at whether it ended. *)
Respawn_Blindly(w, h, i) ==
    IF w.proc[h][i].child = "none" \/ w.proc[h][i].state = "DIED" THEN {w}
    ELSE {IF o.ret = "-1" THEN [o.w EXCEPT !.proc[h][i].state = "DIED"] ELSE o.w :
            o \in fcgi_spawn_connection(w, h, i)}

(* fcgi_recv_response() after an error: a child that ended is replaced. *)
Respawn(w, h, i) ==
    IF w.proc[h][i].child # "zombie" \/ w.proc[h][i].state = "DIED" THEN {w}
    ELSE {IF o.ret = "-1" THEN [o.w EXCEPT !.proc[h][i].state = "DIED"] ELSE o.w :
            o \in fcgi_spawn_connection(Reaped(w, h, i), h, i)}

(* fcgi_demux_response(): an error of read(), or packets, with the beginning of
   the response or without (0), or with its end (1). *)
fcgi_demux_response(w, c) ==
    {Out(w, "-1"), Out(w, "1"), Out(w, "0"),
     Out(Progress(w, c, "started"), "0")}

(* fcgi_recv_response(): after an error, if nothing was sent, the request can
   go to another process. *)
fcgi_recv_response(w, c) ==
    UNION {CASE o.ret = "0"  -> {Out(o.w, "GO_ON")}
             [] o.ret = "1"  -> {Out(fcgi_connection_close(o.w, c), "FINISHED")}
             [] o.ret = "-1" ->
                  {IF v.ctx[c].progress = "none" /\ v.ctx[c].reconnects < MaxReconnects
                   THEN Out(fcgi_reconnect(v, c), "COMEBACK")
                   ELSE Out(fcgi_connection_close(v, c), "FINISHED") :
                     v \in Respawn(o.w, o.w.ctx[c].host, o.w.ctx[c].proc)} :
              o \in fcgi_demux_response(w, c)}

(* fcgi_handle_fdevent(): the hangup of a connection that is being made is
   found out in fcgi_send_request, that of a response after the rest of it
   was read. *)
HungUp(w, c) ==
    CASE w.ctx[c].state = "CONNECT_DELAYED" -> fcgi_send_request(w, c)
      [] w.ctx[c].state # "CONNECT_DELAYED" /\ w.ctx[c].progress = "started" ->
            {o \in fcgi_recv_response(w, c) : o.ret # "GO_ON"}
      [] OTHER -> {Out(fcgi_connection_close(w, c), "FINISHED")}

fcgi_handle_fdevent(w, c, revents) ==
    UNION {CASE o.ret # "GO_ON" -> {o}
             [] o.ret = "GO_ON" /\ "OUT" \in revents -> fcgi_send_request(o.w, c)
             [] o.ret = "GO_ON" /\ "OUT" \notin revents /\ "HUP" \in revents -> HungUp(o.w, c)
             [] o.ret = "GO_ON" /\ revents \cap {"OUT", "HUP"} = {} /\ "ERR" \in revents ->
                   {Out(fcgi_connection_close(o.w, c), "FINISHED")}
             [] OTHER -> {o} :
              o \in IF "IN" \in revents THEN fcgi_recv_response(w, c) ELSE {Out(w, "GO_ON")}}

(* mod_fastcgi_handle_subrequest(): more of the response is read if reading
   was suspended; more of the request is sent if there is some. *)
SendMore(w, c) ==
    {Out(w, "WAIT_FOR_EVENT")}
    \cup (IF w.ctx[c].state # "READ" THEN fcgi_send_request(w, c) ELSE {})

mod_fastcgi_handle_subrequest(w, c) ==
    UNION {IF o.ret = "GO_ON" THEN SendMore(o.w, c) ELSE {o} :
              o \in IF w.ctx[c].progress = "started" THEN fcgi_recv_response(w, c)
                    ELSE {Out(w, "GO_ON")}}

----------------------------------------------------------------------------
(* Actions *)

Become(w) ==
    /\ ctx' = w.ctx
    /\ host' = w.host
    /\ proc' = w.proc
    /\ last_used_ndx' = w.last
    /\ overdrawn' = w.overdrawn
    /\ lost' = w.lost

(* A request for the extension.  Without a host that is alive it is refused
   here and never gets a handler_ctx. *)
fcgi_check_extension(c) ==
    /\ again = Nil
    /\ ctx[c].state = "none"
    /\ \E h \in Host : host[h].active_procs # 0
    /\ ctx' = [ctx EXCEPT ![c] = handler_ctx_init]
    /\ again' = c
    /\ UNCHANGED <<host, proc, last_used_ndx, overdrawn, lost>>

(* The state machine calls the module, again at once if it is told to. *)
HandleRequest(c) ==
    /\ again \in {Nil, c}
    /\ ctx[c].state # "none"
    /\ \E o \in mod_fastcgi_handle_subrequest(World, c) :
        /\ Become(o.w)
        /\ again' = IF o.ret = "COMEBACK" THEN c ELSE Nil

(* What the kernel can report of the descriptor of a request: something to
   read, and one of the rest, of which the handler looks at the first. *)
Revents(x) ==
    {in \cup rest :
        in \in {{}} \cup (IF x.state \in {"WRITE", "READ"} THEN {{"IN"}} ELSE {}),
        rest \in {{}, {"HUP"}, {"ERR"}}
                  \cup (IF x.state \in {"CONNECT_DELAYED", "WRITE"} THEN {{"OUT"}} ELSE {})}

BackendEvent(c) ==
    /\ again = Nil
    /\ ctx[c].fd
    /\ \E w \in UNION {{o.w : o \in fcgi_handle_fdevent(World, c, revents)} :
                          revents \in Revents(ctx[c])} : Become(w)
    /\ UNCHANGED again

(* The response is complete, or the client is gone. *)
fcgi_connection_reset(c) ==
    /\ again = Nil
    /\ ctx[c].state # "none"
    /\ Become(fcgi_connection_close(World, c))
    /\ UNCHANGED again

(* A second passes, and all hosts are looked after. *)
mod_fastcgi_handle_trigger ==
    /\ again = Nil
    /\ LET w == [World EXCEPT !.proc = [h \in Host |-> [i \in Procs(h) |->
                    [proc[h][i] EXCEPT !.disabled = IF @ > 0 THEN @ - 1 ELSE 0]]]]
           RestartAll(S, h) == UNION {{o.w : o \in fcgi_restart_dead_procs(x, h)} : x \in S}
       IN  \E v \in FoldLeft(RestartAll, {w}, [h \in Host |-> h]) : Become(v)
    /\ UNCHANGED again

(* A child ends by itself. *)
ChildEnds(h, i) ==
    /\ again = Nil
    /\ proc[h][i].child = "run"
    /\ host[h].active_procs <= MaxActive
    /\ proc' = [proc EXCEPT ![h][i].child = "zombie"]
    /\ UNCHANGED <<ctx, host, last_used_ndx, again, overdrawn, lost>>

Next ==
    \/ \E c \in Con : \/ fcgi_check_extension(c) \/ HandleRequest(c)
                      \/ BackendEvent(c) \/ fcgi_connection_reset(c)
    \/ mod_fastcgi_handle_trigger
    \/ \E h \in Host : \E i \in Procs(h) : ChildEnds(h, i)

Spec == Init /\ [][Next]_vars

----------------------------------------------------------------------------
(* Properties *)

Holders(h, i) == {c \in Con : ctx[c].host = h /\ ctx[c].proc = i /\ Holds(ctx[c])}

RunningProcs(h) == {i \in Procs(h) : proc[h][i].state = "RUNNING"}

(* Type correctness; no request is tried more often than allowed. *)
FcgiTypeOK ==
    /\ \A c \in Con :
        /\ ctx[c].state \in {"none", "INIT", "CONNECT_DELAYED", "WRITE", "READ"}
        /\ ctx[c].host \in Host \cup {Nil}
        /\ ctx[c].host # Nil => ctx[c].proc \in Procs(ctx[c].host) \cup {Nil}
        /\ ctx[c].reconnects \in 0 .. MaxReconnects
    /\ \A h \in Host :
        /\ host[h].load \in Nat
        /\ \A i \in Procs(h) :
            /\ proc[h][i].state \in {"RUNNING", "OVERLOADED", "DIED_WAIT_FOR_PID", "DIED"}
            /\ proc[h][i].load \in 0 .. SizeT - 1
            /\ proc[h][i].disabled \in 0 .. disable_time + 1
            /\ proc[h][i].child \in {"none", "run", "zombie", "gone"}
    /\ last_used_ndx \in 0 .. NumHosts /\ again \in Con \cup {Nil}

(* The load by which hosts are chosen is the number of requests assigned to
   them, through every failed attempt, change of host and abort. *)
HostLoad == \A h \in Host : host[h].load = Cardinality({c \in Con : ctx[c].host = h})

(* The load of a process is the number of requests it has accepted, as long as
   no request gave back a load that it did not hold (see README: got_proc
   outlives a reconnect). *)
ProcLoad == ~overdrawn => \A h \in Host : \A i \in Procs(h) :
                proc[h][i].load = Cardinality(Holders(h, i))

(* No host with a running process counts as down, however many requests find
   the same process dead or overloaded; for remote hosts the count is exact. *)
ActiveProcs ==
    \A h \in Host :
        /\ host[h].active_procs >= Cardinality(RunningProcs(h))
        /\ h \notin Local => host[h].active_procs = Cardinality(RunningProcs(h))

(* A request that is about to open a descriptor has none: none is overwritten
   and lost on the way through the attempts, and none is left without a
   process behind it. *)
OneDescriptor ==
    \A c \in Con : ctx[c].fd <=> ctx[c].state \in {"CONNECT_DELAYED", "WRITE", "READ"}

(* Every child that was started is reaped by the server before another one
   takes its place: none is forgotten, alive or dead. *)
NoChildLost == ~lost

(* The counts by which hosts and processes are chosen, the descriptors and the children are
   right through every order of failures, retries and restarts. *)
FcgiInv == FcgiTypeOK /\ HostLoad /\ ProcLoad /\ ActiveProcs /\ OneDescriptor /\ NoChildLost

(* A local process is not started again under requests that are bound to the
   old one, except by a request that gives it up in the same step. *)
LetThemTerminate ==
    [][\A h \in Local : \A i \in Procs(h) :
          /\ proc[h][i].child # "run" /\ proc'[h][i].child = "run" /\ ~overdrawn
          => \/ Holders(h, i) = {}
             \/ \E c \in Holders(h, i) : ctx'[c].host # h]_vars

----------------------------------------------------------------------------
(* What the code says of itself, and does not keep. *)

(* "how many of them are really running, i.e. state = PROC_STATE_RUNNING" *)
ReallyRunning == \A h \in Host : host[h].active_procs = Cardinality(RunningProcs(h))
=============================================================================
