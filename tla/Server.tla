------------------------------- MODULE Server -------------------------------
(***************************************************************************)
(* The main loop of a lighttpd process (server.c), the state machine it    *)
(* runs on every connection (connection_state_machine), accepting          *)
(* connections (network.c), the joblist and the queue of connections that  *)
(* wait for a descriptor (joblist.c).                                      *)
(*                                                                         *)
(* The process has one thread.  pc says where in the main loop it is; one  *)
(* turn of the loop goes through the values                                *)
(*     top -> scan -> sockets -> fdwait -> dispatch -> jobs -> top         *)
(* and wherever the code calls connection_state_machine(con) pc is "sm",   *)
(* with cur the connection and back the place of the call.  One action is  *)
(* one round of the loop in connection_state_machine, i.e. one state of    *)
(* the connection.                                                         *)
(***************************************************************************)
EXTENDS ConnTable, Connection, FiniteSets, Sequences

CONSTANTS
    max_conns,      \* srv->max_conns
    max_fds,        \* srv->max_fds
    ReservedFds,    \* descriptors the wait queue leaves alone (16)
    AcceptLoops,    \* accepts per event of a listening socket (100)
    Hangups,        \* "HUP", "ERR": what the kernel reports without being asked
    AcceptFails,    \* may setting up an accepted socket fail?
    MaxFdWait,      \* bound: length of the wait queue
    Signals         \* what may end the process: SIGINT, SIGTERM, the idle limit

ASSUME LimitAssumption ==
    /\ max_conns \in Nat
    /\ max_fds \in Nat
    /\ ReservedFds \in Nat
    /\ AcceptLoops \in Nat
    /\ Hangups \subseteq {"HUP", "ERR"}
    /\ AcceptFails \in BOOLEAN
    /\ MaxFdWait \in Nat
    /\ Signals \subseteq {"INT", "TERM", "IDLE"}

(* malloc() has an end. *)
ASSUME ConAssumption == IsFiniteSet(Con)

VARIABLES
    con,            \* the connection objects
    cur_fds,        \* srv->cur_fds, counted from the process's own descriptors
    want_fds,       \* srv->want_fds
    fdwaitqueue,    \* srv->fdwaitqueue
    joblist,        \* srv->joblist
    listening,      \* the listening sockets: "on", "off" (no interest), "closed"
    sockets_disabled,
    graceful_shutdown,
    srv_shutdown,
    pid_file,       \* does the pid file exist?
    pc,             \* where in the main loop the process is
    cur,            \* the connection connection_state_machine runs on
    back,           \* where it returns to
    k,              \* loop variable of the phase: ndx, free_fds or loops
    todo            \* event sources the kernel may still report in this poll

sockVars == <<listening, sockets_disabled, pid_file>>
sigVars == <<graceful_shutdown, srv_shutdown>>
queueVars == <<want_fds, fdwaitqueue, joblist>>
loopVars == <<pc, cur, back, k, todo>>
vars == <<tableVars, con, cur_fds, queueVars, sockVars, sigVars, loopVars>>

Init ==
    /\ TableInit
    /\ con = [c \in Con |-> connection_init]
    /\ cur_fds = 0
    /\ want_fds = 0
    /\ fdwaitqueue = <<>>
    /\ joblist = <<>>
    /\ listening = "on"
    /\ sockets_disabled = FALSE
    /\ graceful_shutdown = FALSE
    /\ srv_shutdown = FALSE
    /\ pid_file = TRUE
    /\ pc = "top"
    /\ cur \in Con
    /\ back = "top"
    /\ k = 0
    /\ todo = {}

----------------------------------------------------------------------------
(* connection_state_machine(c), called from place b *)
Call(c, b) ==
    /\ pc' = "sm"
    /\ cur' = c
    /\ back' = b

(* Round of the loop: the connection becomes r.  The loop goes on if the
   state changed or the handler asked for it, else it is left. *)
Round(r, again) ==
    /\ con' = [con EXCEPT ![cur] = r]
    /\ pc' = IF again \/ r.state # con[cur].state THEN "sm" ELSE "smexit"
    /\ UNCHANGED <<cur, back, k, todo, joblist, sockVars, sigVars>>

Running(states) == pc = "sm" /\ con[cur].state \in states

SmRequestStart ==
    /\ Running({"REQUEST_START"})
    /\ Round([con[cur] EXCEPT !.rage = 0, !.count = @ + 1, !.state = "READ"], FALSE)
    /\ UNCHANGED <<tableVars, cur_fds, want_fds, fdwaitqueue>>

SmRead ==
    /\ Running({"READ"})
    /\ \E r \in connection_handle_read_state(con[cur]) : Round(r, FALSE)
    /\ UNCHANGED <<tableVars, cur_fds, want_fds, fdwaitqueue>>

SmRequestEnd ==
    /\ Running({"REQUEST_END"})
    /\ \E r \in http_request_parse(con[cur]) : Round(r, FALSE)
    /\ UNCHANGED <<tableVars, cur_fds, want_fds, fdwaitqueue>>

(* Mutant: the connection is counted and not put into the queue. *)
FdWait_NotQueued ==
    /\ want_fds < MaxFdWait
    /\ want_fds' = want_fds + 1
    /\ UNCHANGED fdwaitqueue

(* HANDLER_WAIT_FOR_FD: come back when a descriptor is free. *)
fdwaitqueue_append ==
    /\ Len(fdwaitqueue) < MaxFdWait
    /\ want_fds' = want_fds + 1
    /\ fdwaitqueue' = Append(fdwaitqueue, cur)

(* What connection_state_machine makes of the outcome o of
   http_response_prepare: wait for the backend, start the response, start
   again with the error handler, or give up. *)
ResponseReady(o) ==
    \/ o.ret = "FINISHED"
    \/ o.ret = "WAIT_FOR_EVENT" /\ (o.con.fin \/ (o.con.started /\ stream_response_body))

Decided(o) ==
    CASE ResponseReady(o) /\ CallErrorHandler(o.con) ->
            {Out(e.con, e.ret, e.dfd + o.dfd) : e \in RestartForErrorHandler(o.con)}
      [] ResponseReady(o) /\ ~CallErrorHandler(o.con) ->
            {Out(StartResponse(o.con), "FINISHED", o.dfd)}
      [] o.ret = "ERROR" -> {Out([o.con EXCEPT !.state = "ERROR"], o.ret, o.dfd)}
      [] OTHER -> {o}

SmHandleRequest ==
    /\ Running({"READ_POST", "HANDLE_REQUEST"})
    /\ \E o \in UNION {Decided(p) : p \in http_response_prepare(con[cur])} :
        /\ cur_fds' = cur_fds + o.dfd
        /\ Round(o.con, o.ret = "COMEBACK")
        /\ IF o.ret = "WAIT_FOR_FD"
           THEN fdwaitqueue_append
           ELSE UNCHANGED <<want_fds, fdwaitqueue>>
    /\ UNCHANGED tableVars

SmResponseStart ==
    /\ Running({"RESPONSE_START"})
    /\ \E r \in connection_handle_write_prepare(con[cur]) : Round(r, FALSE)
    /\ UNCHANGED <<tableVars, cur_fds, want_fds, fdwaitqueue>>

(* One round of the inner loop of CON_STATE_WRITE: write what is queued and
   the socket takes, then let the backend module add to it. *)
Written(r) ==
    CASE r.wq /\ r.wr     -> connection_handle_write(r)
      [] ~r.wq /\ r.fin   -> {[r EXCEPT !.state = "RESPONSE_END"]}
      [] OTHER            -> {r}

WriteAgain(r) == r.state = "WRITE" /\ IF r.wq THEN r.wr ELSE r.fin

SmWrite ==
    /\ Running({"WRITE"})
    /\ \E r \in Written(con[cur]) :
        IF r.state = "WRITE" /\ r.mode = "backend" /\ ~r.fin
        THEN \E o \in plugins_call_handle_subrequest(r) :
                LET x == IF o.ret \in {"COMEBACK", "ERROR"}
                         THEN [o.con EXCEPT !.state = "ERROR"] ELSE o.con
                IN  /\ cur_fds' = cur_fds + o.dfd
                    /\ Round(x, WriteAgain(x))
                    /\ IF o.ret = "WAIT_FOR_FD"
                       THEN fdwaitqueue_append
                       ELSE UNCHANGED <<want_fds, fdwaitqueue>>
        ELSE /\ Round(r, WriteAgain(r))
             /\ UNCHANGED <<cur_fds, want_fds, fdwaitqueue>>
    /\ UNCHANGED tableVars

(* The connection is left as r; if that closed its socket it also leaves the
   table.  Descriptors of a backend that the reset closed are counted off. *)
EndWith(r) ==
    /\ cur_fds' = cur_fds - (Fds(con[cur].bfd) - Fds(r.bfd)) - (Fds(con[cur].fd) - Fds(r.fd))
    /\ IF con[cur].fd /\ ~r.fd THEN connection_del(cur) ELSE UNCHANGED tableVars
    /\ Round(r, FALSE)
    /\ UNCHANGED <<want_fds, fdwaitqueue>>

SmResponseEnd ==
    /\ Running({"RESPONSE_END", "ERROR"})
    /\ \E r \in connection_handle_response_end_state(con[cur]) : EndWith(r)

SmClose ==
    /\ Running({"CLOSE"})
    /\ \E r \in connection_handle_close_state(con[cur]) : EndWith(r)

SmConnect ==
    /\ Running({"CONNECT"})
    /\ Round([con[cur] EXCEPT !.rq = "none", !.count = 0], FALSE)
    /\ UNCHANGED <<tableVars, cur_fds, want_fds, fdwaitqueue>>

(* Mutant: a connection that left the wait queue stays counted. *)
SmExit_StillWanted ==
    /\ pc = "smexit"
    /\ con' = [con EXCEPT ![cur] = UpdateInterest(@)]
    /\ pc' = back
    /\ k' = CASE back \in {"scan", "accept"} -> k + 1
              [] back = "fdwait"             -> k - 1
              [] OTHER                       -> k
    /\ back' = "top"
    /\ UNCHANGED <<tableVars, cur_fds, want_fds, fdwaitqueue, joblist, sockVars, sigVars,
                   cur, todo>>

(* The end of connection_state_machine: ask for the events the new state
   needs.  The caller's loop goes on: the scan moves to the next slot, the
   wait queue gives up one descriptor, accept counts one loop. *)
SmExit ==
    /\ pc = "smexit"
    /\ con' = [con EXCEPT ![cur] = UpdateInterest(@)]
    /\ pc' = back
    /\ k' = CASE back \in {"scan", "accept"} -> k + 1
              [] back = "fdwait"             -> k - 1
              [] OTHER                       -> k
    /\ want_fds' = IF back = "fdwait" THEN want_fds - 1 ELSE want_fds
    /\ back' = "top"
    /\ UNCHANGED <<tableVars, cur_fds, fdwaitqueue, joblist, sockVars, sigVars,
                   cur, todo>>

StateMachine ==
    \/ SmRequestStart \/ SmRead \/ SmRequestEnd \/ SmHandleRequest
    \/ SmResponseStart \/ SmWrite \/ SmResponseEnd \/ SmClose \/ SmConnect
    \/ SmExit

----------------------------------------------------------------------------
(* Signals set flags that only the main loop reads, at the places named
   here; a signal that comes elsewhere is as good as one that comes at the
   next of them. *)
SIGTERM ==
    /\ "TERM" \in Signals
    /\ pc \in {"top", "sockets", "grace"}
    /\ srv_shutdown' = TRUE
    /\ UNCHANGED <<tableVars, con, cur_fds, queueVars, sockVars, graceful_shutdown, loopVars>>

SIGINT ==
    /\ "INT" \in Signals
    /\ pc \in {"top", "sockets", "grace"}
    /\ graceful_shutdown' = TRUE
    /\ srv_shutdown' = (srv_shutdown \/ graceful_shutdown)
    /\ UNCHANGED <<tableVars, con, cur_fds, queueVars, sockVars, loopVars>>

(* The loop ends.  remove_pid_file() is left to the graceful shutdown if
   there was one. *)
LoopEnd ==
    /\ pc = "top"
    /\ srv_shutdown
    /\ pc' = "exit"
    /\ pid_file' = (pid_file /\ graceful_shutdown)
    /\ UNCHANGED <<tableVars, con, cur_fds, queueVars, listening, sockets_disabled,
                   sigVars, cur, back, k, todo>>

----------------------------------------------------------------------------
(* A new second: all connections are checked for timeouts, slot by slot.  If
   no event came for as long as the idle limit of the command line says, a
   graceful shutdown starts. *)
Tick ==
    /\ pc = "top"
    /\ ~srv_shutdown
    /\ con' = [c \in Con |-> Aged(con[c])]
    /\ graceful_shutdown' \in {graceful_shutdown, graceful_shutdown \/ "IDLE" \in Signals}
    /\ pc' = "scan"
    /\ k' = 0
    /\ UNCHANGED <<tableVars, cur_fds, queueVars, sockVars, srv_shutdown, cur, back, todo>>

NoTick ==
    /\ pc = "top"
    /\ ~srv_shutdown
    /\ pc' = "sockets"
    /\ UNCHANGED <<tableVars, con, cur_fds, queueVars, sockVars, sigVars, cur, back, k, todo>>

(* Mutant: the read timeout leaves the state as it is. *)
TimedOut_WriteOnly(r) == IF WriteExpired(r) THEN [r EXCEPT !.state = "ERROR"] ELSE r

(* The connection in slot k: a read, keep-alive or write timeout is an error,
   and a connection under the traffic limit may write again. *)
TimedOut(r) ==
    IF ReadExpired(r) \/ WriteExpired(r) THEN [r EXCEPT !.state = "ERROR"] ELSE r

ScanSlot ==
    /\ pc = "scan"
    /\ k < used
    /\ LET c == ptr[k]
       IN  \E limited \in {x \in BOOLEAN : x => con[c].tl} :
            /\ con' = [con EXCEPT ![c] = [TimedOut(@) EXCEPT !.tl = limited]]
            /\ IF Expired(con[c]) \/ limited # con[c].tl
               THEN Call(c, "scan") /\ UNCHANGED k
               ELSE k' = k + 1 /\ UNCHANGED <<pc, cur, back>>
    /\ UNCHANGED <<tableVars, cur_fds, queueVars, sockVars, sigVars, todo>>

ScanEnd ==
    /\ pc = "scan"
    /\ k >= used
    /\ pc' = "sockets"
    /\ UNCHANGED <<tableVars, con, cur_fds, queueVars, sockVars, sigVars, cur, back, k, todo>>

----------------------------------------------------------------------------
(* Stop and resume accepting, with some slack between the two limits. *)
EnoughFds == cur_fds + want_fds < (max_fds * 8) \div 10
OutOfFds == cur_fds + want_fds > (max_fds * 9) \div 10

(* Mutant: the sockets are enabled also in a graceful shutdown. *)
Enable_InShutdown ==
    /\ pc = "sockets"
    /\ sockets_disabled
    /\ EnoughFds
    /\ used <= (max_conns * 9) \div 10
    /\ listening' = "on"
    /\ sockets_disabled' = FALSE
    /\ pc' = "grace"
    /\ UNCHANGED <<tableVars, con, cur_fds, queueVars, pid_file, sigVars, cur, back, k, todo>>

EnableSockets ==
    /\ pc = "sockets"
    /\ sockets_disabled
    /\ EnoughFds
    /\ used <= (max_conns * 9) \div 10
    /\ ~graceful_shutdown
    /\ listening' = "on"
    /\ sockets_disabled' = FALSE
    /\ pc' = "grace"
    /\ UNCHANGED <<tableVars, con, cur_fds, queueVars, pid_file, sigVars, cur, back, k, todo>>

(* A graceful shutdown closes the listening sockets and removes the pid file,
   a limit only takes the interest off the sockets. *)
DisableSockets ==
    /\ pc = "sockets"
    /\ ~sockets_disabled
    /\ OutOfFds \/ used >= max_conns \/ graceful_shutdown
    /\ listening' = IF graceful_shutdown THEN "closed" ELSE "off"
    /\ pid_file' = (pid_file /\ ~graceful_shutdown)
    /\ sockets_disabled' = TRUE
    /\ pc' = "grace"
    /\ UNCHANGED <<tableVars, con, cur_fds, queueVars, sigVars, cur, back, k, todo>>

LeaveSockets ==
    /\ pc = "sockets"
    /\ IF sockets_disabled
       THEN ~(EnoughFds /\ used <= (max_conns * 9) \div 10 /\ ~graceful_shutdown)
       ELSE ~(OutOfFds \/ used >= max_conns \/ graceful_shutdown)
    /\ pc' = "grace"
    /\ UNCHANGED <<tableVars, con, cur_fds, queueVars, sockVars, sigVars, cur, back, k, todo>>

(* All connections are gone: the graceful shutdown is over. *)
GracefulEnd ==
    /\ pc = "grace"
    /\ graceful_shutdown /\ used = 0
    /\ srv_shutdown' = TRUE
    /\ pc' = "exit"
    /\ UNCHANGED <<tableVars, con, cur_fds, queueVars, sockVars, graceful_shutdown,
                   cur, back, k, todo>>

(* ... else share out the free descriptors, k of them. *)
StayUp ==
    /\ pc = "grace"
    /\ ~(graceful_shutdown /\ used = 0)
    /\ pc' = "fdwait"
    /\ k' = IF want_fds = 0 THEN 0 ELSE max_fds - cur_fds - ReservedFds
    /\ UNCHANGED <<tableVars, con, cur_fds, queueVars, sockVars, sigVars, cur, back, todo>>

fdwaitqueue_unshift ==
    /\ pc = "fdwait"
    /\ k > 0 /\ fdwaitqueue # <<>>
    /\ Call(Head(fdwaitqueue), "fdwait")
    /\ fdwaitqueue' = Tail(fdwaitqueue)
    /\ UNCHANGED <<tableVars, con, cur_fds, want_fds, joblist, sockVars, sigVars, k, todo>>

----------------------------------------------------------------------------
(* Wait for events, and hand the ones the kernel reports to their handlers.
   The kernel reports a descriptor at most once, and only one it knew of
   when the process went to sleep. *)
Sources ==
    {<<"con", c>> : c \in {d \in Con : con[d].polled}}
    \cup {<<"backend", c>> : c \in {d \in Con : con[d].bfd}}
    \cup {<<"listen">> : x \in {y \in {"on"} : listening = y}}

fdevent_poll ==
    /\ pc = "fdwait"
    /\ k <= 0 \/ fdwaitqueue = <<>>
    /\ todo' = Sources
    /\ pc' = "dispatch"
    /\ k' = 0
    /\ UNCHANGED <<tableVars, con, cur_fds, queueVars, sockVars, sigVars, cur, back>>

(* in_joblist is never set, so a connection may be in the list twice. *)
joblist_append(c) == joblist' = Append(joblist, c)

(* Events of interest, alone or with a hangup or an error, which come without
   being asked for. *)
Revents(r) ==
    {asked \cup more : asked \in SUBSET r.ev, more \in {{}} \cup {{h} : h \in Hangups}} \ {{}}

(* Mutant: the connection is not put on the joblist. *)
ClientEvent_NoJob(c) ==
    /\ pc = "dispatch"
    /\ <<"con", c>> \in todo
    /\ \E revents \in Revents(con[c]) :
          \E r \in connection_handle_fdevent(con[c], revents) :
             con' = [con EXCEPT ![c] = r]
    /\ todo' = todo \ {<<"con", c>>}
    /\ UNCHANGED <<tableVars, cur_fds, queueVars, sockVars, sigVars, pc, cur, back, k>>

ClientEvent(c) ==
    /\ pc = "dispatch"
    /\ <<"con", c>> \in todo
    /\ \E revents \in Revents(con[c]) :
          \E r \in connection_handle_fdevent(con[c], revents) :
             con' = [con EXCEPT ![c] = r]
    /\ joblist_append(c)
    /\ todo' = todo \ {<<"con", c>>}
    /\ UNCHANGED <<tableVars, cur_fds, want_fds, fdwaitqueue, sockVars, sigVars, pc, cur, back, k>>

BackendEvent(c) ==
    /\ pc = "dispatch"
    /\ <<"backend", c>> \in todo
    /\ \E o \in backend_handle_fdevent(con[c]) :
          /\ con' = [con EXCEPT ![c] = o.con]
          /\ cur_fds' = cur_fds + o.dfd
    /\ joblist_append(c)
    /\ todo' = todo \ {<<"backend", c>>}
    /\ UNCHANGED <<tableVars, want_fds, fdwaitqueue, sockVars, sigVars, pc, cur, back, k>>

(* network_server_handle_fdevent(): accept in a loop of bounded length. *)
ListenEvent ==
    /\ pc = "dispatch"
    /\ <<"listen">> \in todo
    /\ todo' = todo \ {<<"listen">>}
    /\ pc' = "accept"
    /\ k' = 0
    /\ UNCHANGED <<tableVars, con, cur_fds, queueVars, sockVars, sigVars, cur, back>>

(* connection_accepted() *)
connection_accepted(c) ==
    /\ pc = "accept"
    /\ k < AcceptLoops
    /\ used < max_conns
    /\ connections_get_new_connection(c)
    /\ cur_fds' = cur_fds + 1
    /\ con' = [con EXCEPT ![c] = [connection_reset(@) EXCEPT !.fd = TRUE,
                                                             !.state = "REQUEST_START"]]

connection_accept(c) ==
    /\ connection_accepted(c)
    /\ Call(c, "accept")
    /\ UNCHANGED <<queueVars, sockVars, sigVars, k, todo>>

(* fcntl() or the TLS setup fails for the accepted socket: NULL is returned
   and nobody runs the state machine. *)
AcceptFailed(c) ==
    /\ AcceptFails
    /\ connection_accepted(c)
    /\ pc' = "dispatch"
    /\ UNCHANGED <<queueVars, sockVars, sigVars, cur, back, k, todo>>

AcceptEnd ==
    /\ pc = "accept"
    /\ pc' = "dispatch"
    /\ UNCHANGED <<tableVars, con, cur_fds, queueVars, sockVars, sigVars, cur, back, k, todo>>

(* No more events; run the connections the handlers put on the joblist. *)
DispatchEnd ==
    /\ pc = "dispatch"
    /\ pc' = "jobs"
    /\ todo' = {}
    /\ k' = 0
    /\ UNCHANGED <<tableVars, con, cur_fds, queueVars, sockVars, sigVars, cur, back>>

RunJob ==
    /\ pc = "jobs"
    /\ joblist # <<>>
    /\ Call(Head(joblist), "jobs")
    /\ joblist' = Tail(joblist)
    /\ UNCHANGED <<tableVars, con, cur_fds, want_fds, fdwaitqueue, sockVars, sigVars, k, todo>>

JobsEnd ==
    /\ pc = "jobs"
    /\ joblist = <<>>
    /\ pc' = "top"
    /\ UNCHANGED <<tableVars, con, cur_fds, queueVars, sockVars, sigVars, cur, back, k, todo>>

----------------------------------------------------------------------------
Process ==
    \/ StateMachine
    \/ LoopEnd \/ Tick \/ NoTick \/ ScanSlot \/ ScanEnd
    \/ EnableSockets \/ DisableSockets \/ LeaveSockets \/ GracefulEnd \/ StayUp
    \/ fdwaitqueue_unshift \/ fdevent_poll
    \/ ListenEvent \/ AcceptEnd \/ DispatchEnd \/ RunJob \/ JobsEnd
    \/ \E c \in Con : ClientEvent(c) \/ BackendEvent(c) \/ connection_accept(c) \/ AcceptFailed(c)

Next == Process \/ SIGTERM \/ SIGINT

Spec == Init /\ [][Next]_vars

----------------------------------------------------------------------------
(* Type correctness. *)
TypeOK ==
    /\ TableTypeOK
    /\ con \in [Con -> Connections]
    /\ cur_fds \in Int
    /\ want_fds \in Int
    /\ fdwaitqueue \in Seq(Con)
    /\ joblist \in Seq(Con)
    /\ listening \in {"on", "off", "closed"}
    /\ sockets_disabled \in BOOLEAN
    /\ graceful_shutdown \in BOOLEAN
    /\ srv_shutdown \in BOOLEAN
    /\ pid_file \in BOOLEAN
    /\ pc \in {"top", "scan", "sockets", "grace", "fdwait", "dispatch", "accept",
               "jobs", "sm", "smexit", "exit"}
    /\ cur \in Con
    /\ back \in {"top", "scan", "fdwait", "accept", "jobs"}
    /\ k \in Int

(* A connection object is in the table exactly while its socket is open and
   its state is not CONNECT, whatever closed it: an event, a timeout or the
   state machine of a stale entry in a queue. *)
OpenMeansInTable ==
    \A c \in Con :
        /\ con[c].fd <=> ndx[c] # -1
        /\ con[c].fd <=> con[c].state # "CONNECT"
        /\ con[c].polled => con[c].fd

(* srv->cur_fds counts the sockets of the open connections and the
   descriptors to their backends, each once: the limits of the server depend
   on it. *)
FdsCounted ==
    cur_fds = Cardinality({c \in Con : con[c].fd}) + Cardinality({c \in Con : con[c].bfd})

(* srv->want_fds is the number of connections in the queue for a descriptor,
   and the one that is being served, although the code keeps the two apart:
   were it 0 with connections in the queue, they would never be served. *)
WantFdsCounted ==
    want_fds = Len(fdwaitqueue)
               + IF pc \in {"sm", "smexit"} /\ back = "fdwait" THEN 1 ELSE 0

(* A connection that is closed, or that lingers before it is, has no backend: its descriptor
   would be lost with the connection. *)
BackendOfOpen == \A c \in Con : con[c].bfd => con[c].fd /\ con[c].state # "CLOSE"

(* The number of requests on a connection never passes max_keep_alive_requests by more than the
   one that ends it: a connection that will be kept alive has requests left, and an object that
   is handed out again has been set back, wherever the connection in it was closed. *)
RequestsCounted ==
    \A c \in Con :
        /\ con[c].state = "CONNECT" => con[c].count = 0 \/ (pc = "sm" /\ cur = c)
        /\ con[c].state = "REQUEST_START" => con[c].count <= max_keep_alive_requests
        /\ con[c].state \in {"WRITE", "RESPONSE_END"} /\ con[c].ka =>
               con[c].count <= max_keep_alive_requests

(* Inside connection_state_machine(cur). *)
InMachine == pc \in {"sm", "smexit"}

(* An event that is still to be handed out belongs to a descriptor that is open, although
   connections are closed and accepted between two events. *)
EventsOfOpen ==
    /\ todo # {} => pc \in {"dispatch", "accept"} \/ (InMachine /\ back = "accept")
    /\ \A c \in Con :
        /\ <<"con", c>> \in todo => con[c].fd /\ ~(InMachine /\ cur = c)
        /\ <<"backend", c>> \in todo => con[c].bfd /\ ~(InMachine /\ cur = c)

(* The scan walks over the slots of the table. *)
ScanForward == pc = "scan" \/ (InMachine /\ back = "scan") => k \in Nat

(* The bookkeeping of the main loop, which every handler changes a part of: who is in the
   table, and the two counts (srv->cur_fds, srv->want_fds) by which sockets are disabled and
   enabled.  The invariant is inductive. *)
ServerInv ==
    /\ TypeOK
    /\ TableInv
    /\ OpenMeansInTable
    /\ BackendOfOpen
    /\ RequestsCounted
    /\ EventsOfOpen
    /\ ScanForward
    /\ FdsCounted
    /\ WantFdsCounted

(* The process is about to sleep in fdevent_poll(). *)
Asleep == pc = "fdwait" /\ (k <= 0 \/ fdwaitqueue = <<>>)

(* The states marked transient in connection_state_machine are transient: the
   process never sleeps with a connection in one of them. *)
NoTransientAsleep ==
    Asleep => \A c \in Con : con[c].fd => con[c].state \notin Transient

(* No lost wakeup: when the process sleeps, each open connection waits for
   something that will be noticed.  In READ no complete header is left in the
   queue; unwritten data wait for the socket or for the traffic limit; a
   request or a response that is not complete waits for the backend, for the
   rest of the body or in the queue for a descriptor.  What is left out is a
   response that had begun when its body could not be stored: it has lost its
   backend and waits for the write timeout (GivenUp). *)
GivenUp(r) == TempfileFails /\ r.mode = "direct" /\ r.started

Queued(c) == \E i \in DOMAIN fdwaitqueue : fdwaitqueue[i] = c

WaitsForBackend(r, queued) == r.mode = "backend" /\ r.hctx /\ (r.bfd \/ queued)

Settled(r, queued) ==
    CASE r.state = "READ"              -> "IN" \in r.ev /\ r.rq # "full"
      [] r.state = "CLOSE"             -> "IN" \in r.ev
      [] r.state = "WRITE" /\ r.wq     -> "OUT" \in r.ev \/ r.tl
      [] r.state = "WRITE" /\ ~r.wq    -> ~r.fin /\ (WaitsForBackend(r, queued) \/ GivenUp(r))
      [] r.state = "READ_POST"         -> "IN" \in r.ev \/ WaitsForBackend(r, queued)
      [] r.state = "HANDLE_REQUEST"    -> WaitsForBackend(r, queued)
      [] OTHER                         -> TRUE

NoLostWakeup == Asleep => \A c \in Con : Settled(con[c], Queued(c))

(* Once a graceful shutdown has closed the listening sockets no connection is
   accepted any more and the sockets are not touched again. *)
ClosedIsFinal ==
    [][listening = "closed" => listening' = "closed" /\ used' <= used]_vars

----------------------------------------------------------------------------
(* Fairness.  The process is scheduled, and time passes: fdevent_poll() sleeps
   a second at most, so the loop comes to its top again and again and finds a
   new second there again and again.  Nothing is assumed of the clients, the
   backends and the signals. *)
FairSpec == Spec /\ WF_vars(Process) /\ SF_vars(Tick)

(* The clients fall silent: from some time on no event of a client comes. *)
Silence == <>[][\A c \in Con : ~ClientEvent(c)]_vars

(* Every timeout fires.  One scan may pass over a connection that is due, because another
   took its place in the table, but a connection that is due does not stay so. *)
ExpiredIsServed == \A c \in Con : (Expired(con[c]) /\ pc # "exit") ~> (~Expired(con[c]) \/ pc = "exit")

(* A graceful shutdown ends, even if every client has gone silent with its
   connection open: the timeouts close what is left. *)
GracefulShutdownEnds == Silence => (graceful_shutdown ~> pc = "exit")

----------------------------------------------------------------------------
(* The abstract specification: what the server promises on each connection. *)
PhaseOf(state) ==
    CASE state = "CONNECT" -> "closed"
      [] state \in {"REQUEST_START", "READ"} -> "idle"
      [] state \in {"REQUEST_END", "READ_POST", "HANDLE_REQUEST", "RESPONSE_START"} -> "request"
      [] state = "WRITE" -> "response"
      [] state = "RESPONSE_END" -> "answered"
      [] state = "ERROR" -> "broken"
      [] state = "CLOSE" -> "lingering"

Exch == INSTANCE Exchange WITH
    phase <- [c \in Con |-> PhaseOf(con[c].state)],
    body <- [c \in Con |-> con[c].unread],
    backend <- [c \in Con |-> con[c].hctx]

(* Every connection goes through exchanges of one request and one response,
   with no body left behind and no backend left over. *)
ImplementsExchange == Exch!Spec

----------------------------------------------------------------------------
(* What the comments of the code say, and the code does not do. *)

(* "closing it right away will make it possible for the next lighttpd to take
   over (graceful restart)": when the main loop has acted on a graceful
   shutdown, the listening sockets are closed. *)
GracefulClosesSockets ==
    [][pc = "sockets" /\ pc' = "grace" /\ graceful_shutdown => listening' = "closed"]_vars
=============================================================================
