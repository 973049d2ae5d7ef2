-------------------------------- MODULE Scgi --------------------------------
(***************************************************************************)
(* SCGI backends (mod_scgi.c).  Requests are bound to a host when they are *)
(* accepted and to the first running process of its list when they are     *)
(* connected.  The list is kept sorted by load by moving single processes, *)
(* pointer by pointer, whenever their load changes.                        *)
(***************************************************************************)
EXTENDS Backend

CONSTANTS
    ScgiHosts,      \* number of hosts of the extension
    ScgiLocals,     \* sets of hosts considered with a bin-path, whose processes are started here
    ScgiProcs,      \* max_procs of a local host, which is also its min_procs
    ScgiSpawned,    \* the SpawnWays considered
    ScgiMaxActive,  \* bound: active_procs of a host beyond which no child dies
    MaxHostLoad     \* bound: load of a host beyond which it gets no request

ASSUME ScgiAssumption ==
    /\ ScgiHosts \in Nat \ {0} /\ ScgiProcs \in Nat \ {0} /\ MaxHostLoad \in Nat
    /\ ScgiLocals \subseteq SUBSET (1 .. ScgiHosts)
    /\ ScgiSpawned \subseteq SpawnWays /\ ScgiMaxActive \in Nat

VARIABLES
    sctx,           \* handler_ctx of each connection
    shost,          \* scgi_extension_host: load and active_procs
    sproc,          \* scgi_proc of each host
    slist,          \* the list of processes of each host: first, next, prev
    sagain,         \* connection whose request is handled again at once
    shist           \* history: load given back that was not taken (overdrawn),
                    \* a load never given back (leaked), a child forgotten (lost)

scgiVars == <<sctx, shost, sproc, slist, sagain, shist>>

SHost == 1 .. ScgiHosts
SProc(h) == DOMAIN sproc[h]

ScgiWorld == [ctx |-> sctx, host |-> shost, proc |-> sproc, list |-> slist, hist |-> shist]

(* progress says whether some of the request was sent or of the response came;
   env counts the copies of the environment in the write queue; fd is "stale" when
   the number of a closed descriptor is kept; mine: pid is that of the process. *)
SNoContext ==
    [state |-> "none", host |-> Nil, proc |-> Nil, got_proc |-> FALSE, fd |-> "none",
     mine |-> FALSE, reconnects |-> 0, progress |-> "none", env |-> 0]

(* A process in the list.  child: see FastCGI. *)
scgi_process_init(local) ==
    [state |-> "RUNNING", load |-> 0, is_local |-> local, disabled |-> 0,
     child |-> IF local THEN "run" ELSE "none"]

(* Every process was put in front of the list when it had been started. *)
ScgiInit ==
    /\ sctx = [c \in Con |-> SNoContext]
    /\ \E local \in ScgiLocals :
          sproc = [h \in SHost |-> [i \in 1 .. IF h \in local THEN ScgiProcs ELSE 1 |->
                                      scgi_process_init(h \in local)]]
    /\ slist = [h \in SHost |->
                  LET n == Cardinality(SProc(h))
                  IN  [first |-> n,
                       next |-> [i \in 1 .. n |-> IF i = 1 THEN Nil ELSE i - 1],
                       prev |-> [i \in 1 .. n |-> IF i = n THEN Nil ELSE i + 1]]]
    /\ shost = [h \in SHost |-> [load |-> 0, active_procs |-> Cardinality(SProc(h)),
                                local |-> sproc[h][1].is_local]]
    /\ sagain = Nil
    /\ shist = [overdrawn |-> FALSE, leaked |-> FALSE, lost |-> FALSE]

----------------------------------------------------------------------------
(* The list of processes *)

(* The processes from i on, following next; Nil is never in it.  A list with a
   cycle would be cut after as many steps as there are processes. *)
SFrom(l, i) ==
    LET step[k \in Nat] ==
            IF k = 0 THEN IF i = Nil THEN <<>> ELSE <<i>>
            ELSE LET s == step[k - 1]
                 IN  IF s = <<>> \/ l.next[Last(s)] = Nil THEN s ELSE Append(s, l.next[Last(s)])
    IN  step[Cardinality(DOMAIN l.next)]

(* Assignments through a pointer that may be NULL. *)
SetNext(l, i, j) == IF i = Nil THEN l ELSE [l EXCEPT !.next[i] = j]
SetPrev(l, i, j) == IF i = Nil THEN l ELSE [l EXCEPT !.prev[i] = j]

Unlink(l, i) == SetPrev(SetNext(l, l.prev[i], l.next[i]), l.next[i], l.prev[i])

(* scgi_proclist_sort_up(): to the right, behind the processes with less load. *)
scgi_proclist_sort_up(w, h, i) ==
    LET l == w.list[h]
        smaller == SelectInSeq(Tail(SFrom(l, i)), LAMBDA j : w.proc[h][j].load >= w.proc[h][i].load)
        run == IF smaller = 0 THEN SFrom(l, i) ELSE SubSeq(SFrom(l, i), 1, smaller)
        p == Last(run)
        first == IF l.first = i THEN l.next[i] ELSE l.first
        u == [Unlink(l, i) EXCEPT !.first = first]
        v == [u EXCEPT !.next[i] = u.next[p], !.prev[i] = p]
    IN  IF p = i THEN w ELSE [w EXCEPT !.list[h] = SetNext(SetPrev(v, u.next[p], i), p, i)]

(* Mutant: a process whose load fell stays where it is. *)
SortDown_Stays(w, h, i) == w

(* scgi_proclist_sort_down(): to the left, before the first process with as much. *)
scgi_proclist_sort_down(w, h, i) ==
    LET l == w.list[h]
        all == SFrom(l, l.first)
        p == all[SelectInSeq(all, LAMBDA j : j = i \/ w.proc[h][j].load >= w.proc[h][i].load)]
        u == Unlink(l, i)
        v == [u EXCEPT !.next[i] = p, !.prev[i] = u.prev[p]]
        r == SetPrev(SetNext(v, u.prev[p], i), p, i)
    IN  IF p = i THEN w
        ELSE [w EXCEPT !.list[h] = IF r.prev[i] = Nil THEN [r EXCEPT !.first = i] ELSE r]

----------------------------------------------------------------------------
(* Processes *)

SRunning(w, h, i) ==
    [w EXCEPT !.proc[h][i].state = "RUNNING", !.proc[h][i].disabled = 0,
              !.host[h].active_procs = @ + 1]

(* Another child takes the place of the old one: no request knows its pid. *)
SReplaced(w, h, i, child) ==
    [SRunning(w, h, i) EXCEPT
        !.proc[h][i].child = child, !.proc[h][i].is_local = (child = "run"),
        !.ctx = [c \in Con |-> IF @[c].host = h /\ @[c].proc = i THEN [@[c] EXCEPT !.mine = FALSE]
                               ELSE @[c]],
        !.hist.lost = @ \/ w.proc[h][i].child \in {"run", "zombie"}]

scgi_spawn_connection(w, h, i) ==
    {CASE s = "started"   -> Out(SReplaced(w, h, i, "run"), "0")
       [] s = "listening" -> Out(SReplaced(w, h, i, "none"), "0")
       [] s = "no fork"   -> Out(SRunning(w, h, i), "0")
       [] s = "failed"    -> Out(w, "-1") : s \in ScgiSpawned}

(* waitpid() returns the pid of a child that ended, once. *)
SReaped(w, h, i) == [w EXCEPT !.proc[h][i].child = "gone"]

(* One process in scgi_restart_dead_procs(): a disabled one that is not ours is
   tried again after a while; ours is started again once it has been waited for
   and its last request has left it. *)
SRestartProc(w, h, i) ==
    LET p == w.proc[h][i]
        v == IF p.state = "DIED_WAIT_FOR_PID" /\ p.child = "zombie"
             THEN [SReaped(w, h, i) EXCEPT !.proc[h][i].state = "DIED"] ELSE w
    IN  CASE ~p.is_local ->
               {Out(IF p.state = "DISABLED" /\ p.disabled = 0 THEN SRunning(w, h, i) ELSE w, "0")}
          [] p.is_local /\ v.proc[h][i].state = "DIED" /\ p.load = 0 ->
               {IF o.ret = "0" THEN Out(scgi_proclist_sort_down(o.w, h, i), "0") ELSE o :
                  o \in scgi_spawn_connection(v, h, i)}
          [] OTHER -> {Out(v, "0")}

(* scgi_restart_dead_procs(): from the first process on, following next, which a
   started process that moved to the front has got a new value of. *)
scgi_restart_dead_procs(w, h) ==
    LET Step(S, k) ==
            UNION {IF s.at = Nil THEN {s}
                   ELSE {[w |-> o.w, at |-> IF o.ret = "-1" THEN Nil
                                            ELSE o.w.list[h].next[s.at]] :
                           o \in SRestartProc(s.w, h, s.at)} : s \in S}
        n == Cardinality(SProc(h))
    IN  {s.w : s \in FoldLeft(Step, {[w |-> w, at |-> w.list[h].first]},
                              [k \in 1 .. n * (n + 1) |-> k])}

----------------------------------------------------------------------------
(* A request and its process *)

SHolds(x) == x.state \in {"WRITE", "READ"}

SLoadDec(w, c) ==
    LET x == w.ctx[c]
    IN  [w EXCEPT !.proc[x.host][x.proc].load = (@ - 1) % SizeT,
                  !.hist.overdrawn = @ \/ ~SHolds(x)]

(* scgi_connection_close() and handler_ctx_free().  The load of the host is given
   back only if the request got as far as to a process. *)
scgi_connection_close(w, c) ==
    LET x == w.ctx[c]
        v == IF x.got_proc THEN SLoadDec(w, c) ELSE w
        u == IF x.host # Nil /\ x.proc # Nil
             THEN scgi_proclist_sort_down([v EXCEPT !.host[x.host].load = @ - 1], x.host, x.proc)
             ELSE [w EXCEPT !.hist.leaked = TRUE]
    IN  [u EXCEPT !.ctx[c] = SNoContext]

(* scgi_reconnect(): host, proc and got_proc stay, and so does the number of the
   descriptor that was closed. *)
scgi_reconnect(w, c) ==
    LET x == w.ctx[c]
    IN  scgi_proclist_sort_down(
            [SLoadDec(w, c) EXCEPT !.ctx[c].fd = "stale", !.ctx[c].state = "INIT",
                                   !.ctx[c].reconnects = @ + 1], x.host, x.proc)

(* Some of the request has left, or some of the response came: no more attempts. *)
SProgress(w, c, p) == [w EXCEPT !.ctx[c].progress = p, !.ctx[c].reconnects = 0]

(* FCGI_STATE_WRITE: a connection that is dropped before anything was written is
   made again; else the request is written: nothing, some, or as much of it as
   wb_reqlen says, which leaves a second copy of the environment unsent. *)
SWriteRequest(w, c) ==
    LET x == w.ctx[c]
        sent == IF x.progress = "none" THEN SProgress(w, c, "sent") ELSE w
    IN  {IF x.progress = "none" /\ x.reconnects < MaxReconnects
         THEN Out(scgi_reconnect(w, c), "COMEBACK") ELSE Out(w, "ERROR"),
         Out(w, "ERROR"), Out(w, "WAIT_FOR_EVENT"), Out(sent, "WAIT_FOR_EVENT"),
         Out([sent EXCEPT !.ctx[c].state = "READ"], "WAIT_FOR_EVENT")}

(* scgi_create_env() appends the environment to what is in the queue. *)
scgi_create_env(w, c) == [w EXCEPT !.ctx[c].env = @ + 1]

(* The connection is made: the request counts for the process from now on. *)
SGotProc(w, c) ==
    LET x == w.ctx[c]
        v == [w EXCEPT !.proc[x.host][x.proc].load = (@ + 1) % SizeT,
                       !.ctx[c].got_proc = TRUE, !.ctx[c].state = "WRITE"]
    IN  SWriteRequest(scgi_create_env(scgi_proclist_sort_up(v, x.host, x.proc), c), c)

(* FCGI_STATE_INIT: a descriptor, the first process that runs, connect(). *)
SConnect(w, c) ==
    LET h == w.ctx[c].host
        all == SFrom(w.list[h], w.list[h].first)
        k == SelectInSeq(all, LAMBDA i : w.proc[h][i].state = "RUNNING")
        nofd == [w EXCEPT !.ctx[c].fd = "none"]
        open == [w EXCEPT !.ctx[c].fd = "open"]
        v == [open EXCEPT !.ctx[c].proc = all[k], !.ctx[c].mine = w.proc[h][all[k]].is_local]
    IN  {Out(nofd, "WAIT_FOR_FD"), Out(nofd, "ERROR"), Out(open, "ERROR")}
        \cup IF k = 0 THEN {Out([open EXCEPT !.ctx[c].proc = Nil], "ERROR")}
             ELSE {Out(v, "ERROR"), Out([v EXCEPT !.ctx[c].state = "CONNECT"], "WAIT_FOR_EVENT")}
                  \cup SGotProc(v, c)

scgi_write_request(w, c) ==
    CASE w.ctx[c].state = "INIT"    -> SConnect(w, c)
      [] w.ctx[c].state = "CONNECT" -> {Out(w, "ERROR")} \cup SGotProc(w, c)
      [] w.ctx[c].state = "WRITE"   -> SWriteRequest(w, c)
      [] w.ctx[c].state = "READ"    -> {Out(w, "WAIT_FOR_EVENT")}

(* scgi_send_request() after an error, about the process: one that is not ours is
   disabled; ours is waited for if it is still the one that was tried. *)
SMark(w, c) ==
    LET x == w.ctx[c]
        p == w.proc[x.host][x.proc]
    IN  CASE ~p.is_local /\ p.state # "DISABLED" ->
               [w EXCEPT !.proc[x.host][x.proc].state = "DISABLED",
                         !.proc[x.host][x.proc].disabled = disable_time + 1,
                         !.host[x.host].active_procs = @ - 1]
          [] p.is_local /\ p.state = "RUNNING" /\ x.mine /\ x.state \in {"INIT", "CONNECT"} ->
               [w EXCEPT !.proc[x.host][x.proc].state = "DIED_WAIT_FOR_PID"]
          [] OTHER -> w

(* Before the request was accepted, the dead are looked after and the request is to
   be handled again: it keeps con->mode, but it has lost its handler_ctx. *)
SFailed(w, c) ==
    LET x == w.ctx[c]
        v == IF x.proc # Nil THEN SMark(w, c) ELSE w
    IN  IF x.state \in {"INIT", "CONNECT"}
        THEN {Out([scgi_connection_close(u, c) EXCEPT !.ctx[c].state = "orphan"], "COMEBACK") :
                u \in scgi_restart_dead_procs(v, x.host)}
        ELSE {Out(scgi_connection_close(v, c), "FINISHED")}

scgi_send_request(w, c) ==
    UNION {IF o.ret = "ERROR" THEN SFailed(o.w, c) ELSE {o} : o \in scgi_write_request(w, c)}

(* scgi_recv_response() after an error: a child that ended is replaced. *)
SRespawn(w, h, i) ==
    IF w.proc[h][i].child # "zombie" \/ w.proc[h][i].state = "DIED" THEN {w}
    ELSE {IF o.ret = "-1" THEN [o.w EXCEPT !.proc[h][i].state = "DIED"]
          ELSE scgi_proclist_sort_down(o.w, h, i) :
            o \in scgi_spawn_connection(SReaped(w, h, i), h, i)}

(* scgi_demux_response(): an error of read(), the end of the response, or some of
   it, its beginning or a part of its header. *)
scgi_demux_response(w, c) ==
    {Out(w, "-1"), Out(w, "1"), Out(w, "0"), Out(SProgress(w, c, "started"), "0")}

scgi_recv_response(w, c) ==
    UNION {CASE o.ret = "0"  -> {Out(o.w, "GO_ON")}
             [] o.ret = "1"  -> {Out(scgi_connection_close(o.w, c), "FINISHED")}
             [] o.ret = "-1" ->
                  {IF v.ctx[c].progress = "none" /\ v.ctx[c].reconnects < MaxReconnects
                   THEN Out(scgi_reconnect(v, c), "COMEBACK")
                   ELSE Out(scgi_connection_close(v, c), "FINISHED") :
                     v \in SRespawn(o.w, o.w.ctx[c].host, o.w.ctx[c].proc)} :
              o \in scgi_demux_response(w, c)}

SHungUp(w, c) ==
    CASE w.ctx[c].state = "CONNECT" -> scgi_send_request(w, c)
      [] w.ctx[c].state # "CONNECT" /\ w.ctx[c].progress = "started" ->
            {o \in scgi_recv_response(w, c) : o.ret # "GO_ON"}
      [] OTHER -> {Out(scgi_connection_close(w, c), "FINISHED")}

scgi_handle_fdevent(w, c, revents) ==
    UNION {CASE o.ret # "GO_ON" -> {o}
             [] o.ret = "GO_ON" /\ "OUT" \in revents -> scgi_send_request(o.w, c)
             [] o.ret = "GO_ON" /\ "OUT" \notin revents /\ "HUP" \in revents -> SHungUp(o.w, c)
             [] o.ret = "GO_ON" /\ revents \cap {"OUT", "HUP"} = {} /\ "ERR" \in revents ->
                   {Out(scgi_connection_close(o.w, c), "FINISHED")}
             [] OTHER -> {o} :
              o \in IF "IN" \in revents THEN scgi_recv_response(w, c) ELSE {Out(w, "GO_ON")}}

(* mod_scgi_handle_subrequest(): reading that was suspended goes on; more of the
   request is sent if there is some.  A request without handler_ctx is nobody's. *)
mod_scgi_handle_subrequest(w, c) ==
    IF w.ctx[c].state = "orphan" THEN {Out(w, "GO_ON")}
    ELSE UNION {IF o.ret # "GO_ON" THEN {o}
                ELSE {Out(o.w, "WAIT_FOR_EVENT")}
                     \cup (IF o.w.ctx[c].state # "READ" THEN scgi_send_request(o.w, c) ELSE {}) :
                  o \in {Out(w, "GO_ON")}
                        \cup IF w.ctx[c].progress = "started" THEN scgi_recv_response(w, c) ELSE {}}

----------------------------------------------------------------------------
(* Actions *)

ScgiBecome(w) ==
    /\ sctx' = w.ctx
    /\ shost' = w.host
    /\ sproc' = w.proc
    /\ slist' = w.list
    /\ shist' = w.hist

(* A request for the extension goes to the host with the least load of those that
   seem to have a process; without one it is refused and gets no handler_ctx.  The
   model accepts no more requests once a load was given back twice (a bound). *)
scgi_check_extension(c) ==
    /\ sagain = Nil
    /\ ~shist.overdrawn
    /\ sctx[c].state = "none"
    /\ \E h \in SHost :
        /\ shost[h].active_procs # 0
        /\ shost[h].load <= MaxHostLoad
        /\ \A g \in SHost : shost[g].active_procs # 0 =>
              \/ shost[h].load < shost[g].load
              \/ shost[h].load = shost[g].load /\ h <= g
        /\ sctx' = [sctx EXCEPT ![c] = [SNoContext EXCEPT !.state = "INIT", !.host = h]]
        /\ shost' = [shost EXCEPT ![h].load = @ + 1]
    /\ sagain' = c
    /\ UNCHANGED <<sproc, slist, shist>>

ScgiHandleRequest(c) ==
    /\ sagain \in {Nil, c}
    /\ sctx[c].state # "none"
    /\ \E o \in mod_scgi_handle_subrequest(ScgiWorld, c) :
        /\ ScgiBecome(o.w)
        /\ sagain' = IF o.ret = "COMEBACK" THEN c ELSE Nil

(* What the kernel can report of the descriptor of a request. *)
SRevents(x) ==
    {in \cup rest :
        in \in {{}} \cup (IF x.state \in {"WRITE", "READ"} THEN {{"IN"}} ELSE {}),
        rest \in {{}, {"HUP"}, {"ERR"}}
                  \cup (IF x.state \in {"CONNECT", "WRITE"} THEN {{"OUT"}} ELSE {})}

ScgiEvent(c) ==
    /\ sagain = Nil
    /\ sctx[c].fd = "open"
    /\ \E revents \in SRevents(sctx[c]) :
        \E o \in scgi_handle_fdevent(ScgiWorld, c, revents) : ScgiBecome(o.w)
    /\ UNCHANGED sagain

(* The response is complete, or the client is gone. *)
scgi_connection_reset(c) ==
    /\ sagain = Nil
    /\ sctx[c].state # "none"
    /\ IF sctx[c].state = "orphan"
       THEN sctx' = [sctx EXCEPT ![c] = SNoContext] /\ UNCHANGED <<shost, sproc, slist, shist>>
       ELSE ScgiBecome(scgi_connection_close(ScgiWorld, c))
    /\ UNCHANGED sagain

(* A second passes, and all hosts are looked after.  With min_procs = max_procs
   no process is added when there is load, and none is killed when there is not. *)
mod_scgi_handle_trigger ==
    /\ sagain = Nil
    /\ LET w == [ScgiWorld EXCEPT !.proc = [h \in SHost |-> [i \in SProc(h) |->
                    [sproc[h][i] EXCEPT !.disabled = IF @ > 0 THEN @ - 1 ELSE 0]]]]
           RestartAll(S, h) == UNION {scgi_restart_dead_procs(x, h) : x \in S}
       IN  \E v \in FoldLeft(RestartAll, {w}, [h \in SHost |-> h]) : ScgiBecome(v)
    /\ UNCHANGED sagain

(* A child ends by itself. *)
ScgiChildEnds(h, i) ==
    /\ sagain = Nil
    /\ sproc[h][i].child = "run"
    /\ shost[h].active_procs <= ScgiMaxActive
    /\ sproc' = [sproc EXCEPT ![h][i].child = "zombie"]
    /\ UNCHANGED <<sctx, shost, slist, sagain, shist>>

ScgiNext ==
    \/ \E c \in Con : \/ scgi_check_extension(c) \/ ScgiHandleRequest(c)
                      \/ ScgiEvent(c) \/ scgi_connection_reset(c)
    \/ mod_scgi_handle_trigger
    \/ \E h \in SHost : \E i \in SProc(h) : ScgiChildEnds(h, i)

ScgiSpec == ScgiInit /\ [][ScgiNext]_scgiVars

----------------------------------------------------------------------------
(* Properties *)

SHolders(h, i) == {c \in Con : sctx[c].host = h /\ sctx[c].proc = i /\ SHolds(sctx[c])}
SBound(h) == {c \in Con : sctx[c].host = h}
SRunningProcs(h) == {i \in SProc(h) : sproc[h][i].state = "RUNNING"}

(* Type correctness; no request is tried more often than allowed. *)
ScgiTypeOK ==
    /\ \A c \in Con :
        /\ sctx[c].state \in {"none", "INIT", "CONNECT", "WRITE", "READ", "orphan"}
        /\ sctx[c].host \in SHost \cup {Nil}
        /\ sctx[c].host # Nil => sctx[c].proc \in SProc(sctx[c].host) \cup {Nil}
        /\ sctx[c].reconnects \in 0 .. MaxReconnects
        /\ sctx[c].fd \in {"none", "open", "stale"}
    /\ \A h \in SHost : \A i \in SProc(h) :
        /\ sproc[h][i].state \in {"RUNNING", "DIED_WAIT_FOR_PID", "DIED", "DISABLED"}
        /\ sproc[h][i].load \in 0 .. SizeT - 1
        /\ sproc[h][i].child \in {"none", "run", "zombie", "gone"}
    /\ sagain \in Con \cup {Nil}

(* "list of processes handling this extension sorted by lowest load": through all
   the moves the list holds every process once, prev is the way back, and as long
   as no load was given back twice (see README) it is sorted. *)
ScgiList ==
    \A h \in SHost :
        LET s == SFrom(slist[h], slist[h].first)
        IN  /\ Len(s) = Cardinality(SProc(h)) /\ ToSet(s) = SProc(h)
            /\ \A k \in 1 .. Len(s) : slist[h].prev[s[k]] = IF k = 1 THEN Nil ELSE s[k - 1]
            /\ ~shist.overdrawn =>
                  \A k \in 1 .. Len(s) - 1 : sproc[h][s[k]].load <= sproc[h][s[k + 1]].load

(* The load of a process is the number of requests it has accepted, that of a host
   the number of requests bound to it, as long as nothing was given back twice, or
   never (a request that is given up before it got to a process). *)
ScgiLoad ==
    \A h \in SHost :
        /\ shost[h].load >= Cardinality(SBound(h))
        /\ ~shist.leaked => shost[h].load = Cardinality(SBound(h))
        /\ ~shist.overdrawn =>
              \A i \in SProc(h) : sproc[h][i].load = Cardinality(SHolders(h, i))

(* A host with a running process is never taken for down, and for a remote host
   the count is exact, however many requests find it dead at the same time. *)
ScgiActive ==
    \A h \in SHost :
        /\ shost[h].active_procs >= Cardinality(SRunningProcs(h))
        /\ ~shost[h].local => shost[h].active_procs = Cardinality(SRunningProcs(h))

(* Every child is waited for before another one takes its place. *)
ScgiNoChildLost == ~shist.lost

(* "If a new proc was started with the old struct this might lead the mark a perfect
   proc as dead otherwise": a process is only marked by a request that tried it. *)
ScgiPerfectProc ==
    [][\A h \in SHost : \A i \in SProc(h) :
          /\ sproc[h][i].state = "RUNNING" /\ sproc'[h][i].state = "DIED_WAIT_FOR_PID"
          => \E c \in Con : sctx'[c].state = "orphan"
                            /\ (sctx[c].state = "CONNECT" => sctx[c].mine)]_scgiVars

(* A descriptor is open exactly while a request is connected or being connected: none
   is left behind by a failed attempt.  The number of a closed one is only kept
   between two attempts. *)
ScgiDescriptor ==
    \A c \in Con : /\ sctx[c].fd = "open" <=> sctx[c].state \in {"CONNECT", "WRITE", "READ"}
                   /\ sctx[c].fd = "stale" => sctx[c].state = "INIT" /\ sctx[c].reconnects > 0

(* The same for the older code of mod_scgi, with its list sorted by load. *)
ScgiInv ==
    ScgiTypeOK /\ ScgiList /\ ScgiLoad /\ ScgiActive /\ ScgiNoChildLost /\ ScgiDescriptor
=============================================================================
