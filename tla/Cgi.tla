-------------------------------- MODULE Cgi --------------------------------
(***************************************************************************)
(* CGI scripts (mod_cgi.c): the two pipes between a connection and its     *)
(* script, the registration of their descriptors (fdevent.c), the events   *)
(* the kernel reports for them in one batch, and the list of scripts that  *)
(* were given up and wait to be reaped.                                    *)
(*                                                                         *)
(* The connection is reduced to what the module sees of it: a request is   *)
(* handled, its response written and ended (Server has the whole state     *)
(* machine).  The request body is counted, in units of a write; what a     *)
(* script prints is "part" of a header, or enough to end it.               *)
(*                                                                         *)
(* Handlers are operators from a connection to the set of their outcomes   *)
(* [con, ret, add, del, new, left]: descriptors that are registered and    *)
(* closed on the way, the script that was started and the one that was     *)
(* left to itself.                                                         *)
(***************************************************************************)
EXTENDS Integers, Sequences, FiniteSets

CONSTANTS
    CgiCon,         \* connections
    Fd,             \* numbers the descriptors of pipes can have
    Pid,            \* process ids
    CgiNil,         \* no descriptor (-1), no process (0)
    max_keep_alive_requests,
    MaxBody,        \* bound: units of a request body
    High, Low,      \* marks of the request queue (60k and 48k)
    Streaming,      \* are request and response streamed?
    BufMin,         \* ... and reading suspended while much is queued?
    StdinHup,       \* does a pipe without a reader report HUP (on Linux: ERR)?
    Printed         \* what scripts print: "part" or "rest" of a response, "local" redirects

ASSUME CgiAssumption ==
    /\ CgiNil \notin Fd \cup Pid \cup ({"in", "out"} \X CgiCon)
    /\ max_keep_alive_requests \in Nat /\ MaxBody \in Nat /\ High \in Nat /\ Low \in Nat \ {0}
    /\ Streaming \in BOOLEAN /\ BufMin \in BOOLEAN /\ StdinHup \in BOOLEAN
    /\ BufMin => Streaming     \* config_insert() sets the one with the other
    /\ Printed \subseteq {"part", "rest", "local"}

VARIABLES
    con,            \* connections, each with its handler_ctx
    fdarray,        \* ev->fdarray: <<kind, connection>> or CgiNil
    child,          \* processes: "free", "run" or "zombie"
    cgi_pid,        \* p->cgi_pid, the scripts that were left to themselves
    batch,          \* events of this poll still to be handled
    joblist,        \* connections to run the state machine on
    pc, cur, k      \* place in the main loop, connection at work, index

loopVars == <<pc, cur, k>>
vars == <<con, fdarray, child, cgi_pid, batch, joblist, loopVars>>

(* handler_ctx before the script is started, with the far ends of its pipes:
   does the script hold its stdin and its stdout, what is in stdout? *)
cgi_handler_ctx_init ==
    [pid |-> CgiNil, fd |-> CgiNil, fdtocgi |-> CgiNil, ev |-> FALSE, evto |-> "no", hdr |-> FALSE,
     reader |-> FALSE, writer |-> FALSE, data |-> "none"]

(* A connection that waits for a request. *)
Idle ==
    [st |-> "idle", mode |-> "direct", status |-> "none", rd |-> FALSE, wr |-> TRUE, ka |-> FALSE,
     count |-> 0, len |-> 0, in |-> 0, out |-> 0, owed |-> 0, pollin |-> FALSE,
     started |-> FALSE, fin |-> FALSE, wq |-> 0, hctx |-> FALSE, h |-> cgi_handler_ctx_init]

Init ==
    /\ con = [c \in CgiCon |-> [Idle EXCEPT !.st = "closed"]]
    /\ fdarray = [f \in Fd |-> CgiNil]
    /\ child = [p \in Pid |-> "free"]
    /\ cgi_pid = <<>>
    /\ batch = {}
    /\ joblist = {}
    /\ pc = "top"
    /\ cur \in CgiCon
    /\ k = 1

CgiOut(r, ret) == [con |-> r, ret |-> ret, add |-> {}, del |-> {}, new |-> CgiNil, left |-> CgiNil]

(* Outcome q of a call that was made after the one with outcome o. *)
After(o, q) ==
    [q EXCEPT !.add = @ \cup o.add, !.del = @ \cup o.del,
              !.new = IF @ = CgiNil THEN o.new ELSE @, !.left = IF @ = CgiNil THEN o.left ELSE @]

----------------------------------------------------------------------------
(* Closing *)

(* http_response_backend_done(): no response yet is answered with 500, a
   response that was started is complete. *)
http_response_backend_done(r) ==
    CASE r.st = "request" /\ ~r.started -> [r EXCEPT !.status = "500", !.mode = "direct"]
      [] r.st \in {"request", "write"} /\ (r.started \/ r.st = "write") -> [r EXCEPT !.fin = TRUE]
      [] OTHER -> r

(* Mutant: the script is forgotten. *)
Close_Forgets(r, ret) ==
    LET x == [r EXCEPT !.hctx = FALSE, !.h = cgi_handler_ctx_init]
    IN  [CgiOut(IF r.mode = "cgi" THEN http_response_backend_done(x) ELSE x, ret)
            EXCEPT !.del = {r.h.fd, r.h.fdtocgi} \ {CgiNil}]

(* cgi_connection_close(): both pipes are closed, the script is left to
   itself and the response is ended with what there is. *)
cgi_connection_close(r, ret) ==
    LET x == [r EXCEPT !.hctx = FALSE, !.h = cgi_handler_ctx_init]
    IN  [CgiOut(IF r.mode = "cgi" THEN http_response_backend_done(x) ELSE x, ret)
            EXCEPT !.del = {r.h.fd, r.h.fdtocgi} \ {CgiNil}, !.left = r.h.pid]

(* Closes only the pipe to the script.  Called for one that is closed already
   it reaches for fdarray[-1]. *)
cgi_connection_close_fdtocgi(r, ret) ==
    IF r.h.fdtocgi = CgiNil
    THEN CgiOut(r, "ABORT")
    ELSE [CgiOut([r EXCEPT !.h.fdtocgi = CgiNil, !.h.evto = "no"], ret) EXCEPT !.del = {r.h.fdtocgi}]

----------------------------------------------------------------------------
(* The request body *)

(* connection_handle_read_post_state(): move what the client sent of the body
   to request_content_queue. *)
connection_handle_read_post_state(r) ==
    {IF r.in + n = r.len
     THEN CgiOut([r EXCEPT !.rd = FALSE, !.in = r.len, !.owed = @ - n, !.pollin = FALSE], "GO_ON")
     ELSE CgiOut([r EXCEPT !.rd = FALSE, !.in = @ + n, !.owed = @ - n, !.pollin = TRUE],
              IF Streaming THEN "GO_ON" ELSE "WAIT_FOR_EVENT") :
        n \in IF r.rd THEN 0 .. r.len - r.in ELSE {0}}
    \cup {CgiOut(x, "ERROR") : x \in {y \in {r} : y.rd}}

(* What write() takes of the queue; the rest is thrown away if the script
   does not read any more.  "-1" is a fatal error. *)
WriteToCgi(r, fd) ==
    IF r.in = r.out
    THEN {CgiOut(r, "0")}
    ELSE {CgiOut(r, "-1")}
         \cup IF fd = CgiNil THEN {}
              ELSE IF r.h.reader
              THEN {CgiOut([r EXCEPT !.out = @ + n], "0") : n \in 0 .. r.in - r.out}
              ELSE {CgiOut([r EXCEPT !.out = r.in], "0")}

(* Mutant: no interest in writing is noted for what is left. *)
Sent_NoInterest(r, fd) ==
    IF r.out = r.len
    THEN IF r.h.fdtocgi = CgiNil THEN CgiOut(r, "0") ELSE cgi_connection_close_fdtocgi(r, "0")
    ELSE [CgiOut([r EXCEPT !.h.fdtocgi = fd], "0")
             EXCEPT !.add = IF r.h.fdtocgi = CgiNil THEN {<<fd, "in">>} ELSE {}]

(* The second half of cgi_write_request(): a body that was sent completely
   ends stdin of the script; else the client is asked for more if little is
   queued, and the pipe is watched as long as something is queued. *)
Sent(r, fd) ==
    IF r.out = r.len
    THEN IF r.h.fdtocgi = CgiNil THEN CgiOut(r, "0") ELSE cgi_connection_close_fdtocgi(r, "0")
    ELSE LET more == r.in < r.len /\ r.in - r.out < Low /\ ~r.pollin
             evto == CASE r.in > r.out -> "OUT"
                       [] r.in = r.out /\ r.h.evto = "OUT" -> "off"
                       [] OTHER -> r.h.evto
             x == [r EXCEPT !.pollin = @ \/ more, !.rd = @ \/ more, !.h.fdtocgi = fd, !.h.evto = evto]
         IN  [CgiOut(x, "0") EXCEPT !.add = IF r.h.fdtocgi = CgiNil THEN {<<fd, "in">>} ELSE {}]

cgi_write_request(r, fd) ==
    {IF o.ret = "-1" THEN o ELSE Sent(o.con, fd) : o \in WriteToCgi(r, fd)}

(* cgi_handle_fdevent_send() *)
cgi_handle_fdevent_send(r, revents) ==
    UNION {IF o.ret # "0" THEN {IF o.ret = "-1" THEN cgi_connection_close(o.con, "ERROR") ELSE o}
           ELSE CASE "HUP" \in revents ->
                       {After(o, cgi_connection_close_fdtocgi(
                          [o.con EXCEPT !.out = o.con.in, !.ka = @ /\ o.con.in = o.con.len],
                          "FINISHED"))}
                  [] "HUP" \notin revents /\ "ERR" \in revents ->
                       {After(o, cgi_connection_close(o.con, "ERROR"))}
                  [] OTHER -> {[o EXCEPT !.ret = "FINISHED"]} :
              o \in IF "OUT" \in revents THEN cgi_write_request(r, r.h.fdtocgi) ELSE {CgiOut(r, "0")}}

----------------------------------------------------------------------------
(* The response *)

(* read() on an empty pipe: the end of the response, or wait for more. *)
ReadEmpty(r) ==
    IF r.h.writer
    THEN CgiOut([r EXCEPT !.h.data = "none", !.h.ev = TRUE], "NOT_FINISHED")
    ELSE CgiOut([r EXCEPT !.h.data = "none"], "FINISHED")

(* Mutant: a local redirect does not look for the rest of the body. *)
LocalRedirect_KeepAlive(r) ==
    [r EXCEPT !.len = 0, !.in = 0, !.out = 0, !.status = "none", !.wr = TRUE, !.fin = FALSE,
              !.started = FALSE, !.wq = 0, !.mode = "direct"]

(* A local redirect: the request starts again, for another resource and
   without a body. *)
LocalRedirect(r) ==
    [r EXCEPT !.ka = @ /\ (r.len # 0 => r.len = r.in - r.out), !.len = 0, !.in = 0, !.out = 0,
              !.status = "none", !.wr = TRUE, !.fin = FALSE, !.started = FALSE, !.wq = 0,
              !.mode = "direct"]

(* The header is complete: a local redirect (followed five times at most), a
   file to send instead (found or refused), or the start of the body. *)
HeaderRead(r) ==
    IF r.h.data = "local"
    THEN {CgiOut(LocalRedirect(r), "COMEBACK"),
          CgiOut([r EXCEPT !.status = "500", !.mode = "direct"], "FINISHED")}
    ELSE {CgiOut([r EXCEPT !.started = TRUE, !.fin = TRUE, !.wq = 1], "FINISHED"),
          CgiOut([r EXCEPT !.started = TRUE, !.status = "403", !.mode = "direct"], "FINISHED"),
          CgiOut(r, "ERROR"),
          ReadEmpty([r EXCEPT !.started = TRUE]),
          ReadEmpty([r EXCEPT !.started = TRUE, !.wq = 1])}

(* More of the body: with much of it queued reading stops, for the time being
   if the client takes something, else until it does. *)
BodyRead(r) ==
    {CgiOut(r, "ERROR")}
    \cup UNION {IF BufMin /\ w = 2
                THEN {CgiOut([r EXCEPT !.wq = w, !.h.data = d, !.h.ev = @ /\ r.wr], "NOT_FINISHED") :
                         d \in {"none", r.h.data}}
                ELSE {ReadEmpty([r EXCEPT !.wq = w])} : w \in {x \in {1, 2} : x >= r.wq}}

(* cgi_demux_response() *)
cgi_demux_response(r) ==
    CASE r.h.data = "none" -> {ReadEmpty(r)}
      [] r.h.data # "none" /\ r.started -> BodyRead(r)
      [] r.h.data = "part" /\ ~r.started ->
            {ReadEmpty([r EXCEPT !.h.hdr = TRUE]),
             CgiOut([r EXCEPT !.status = "502", !.mode = "direct"], "FINISHED")}
      [] OTHER -> HeaderRead(r)

(* cgi_recv_response() *)
cgi_recv_response(r) ==
    {CASE o.ret = "NOT_FINISHED" -> [o EXCEPT !.ret = "GO_ON"]
       [] o.ret = "COMEBACK"     -> cgi_connection_close(o.con, "COMEBACK")
       [] OTHER                  -> cgi_connection_close(o.con, "FINISHED") :
        o \in cgi_demux_response(r)}

(* Read to the end of a pipe that nobody writes to any more. *)
DrainCgi(r) ==
    UNION {IF o.ret # "GO_ON" THEN {o}
           ELSE cgi_recv_response([o.con EXCEPT !.h.data = "none"]) : o \in cgi_recv_response(r)}

(* The script hung up: the rest is read if the header is complete; a header
   that is not is a body in reality. *)
HungUp(r) ==
    CASE r.started -> DrainCgi(r)
      [] ~r.started /\ r.h.hdr ->
            {cgi_connection_close([r EXCEPT !.started = TRUE, !.wq = 1], "FINISHED"),
             cgi_connection_close([r EXCEPT !.started = TRUE], "ERROR")}
      [] OTHER -> {cgi_connection_close(r, "FINISHED")}

(* cgi_handle_fdevent().  A pipe that is read from reports no other error. *)
cgi_handle_fdevent(r, revents) ==
    UNION {CASE o.ret # "GO_ON" -> {o}
             [] o.ret = "GO_ON" /\ "HUP" \in revents -> HungUp(o.con)
             [] OTHER -> {[o EXCEPT !.ret = "FINISHED"]} :
              o \in IF "IN" \in revents THEN cgi_recv_response(r) ELSE {CgiOut(r, "GO_ON")}}

----------------------------------------------------------------------------
(* Starting a script *)

(* cgi_create_env(): two pipes and a process.  Without them, or if the body
   cannot be written, the script is given up ("-1"). *)
cgi_create_env(r) ==
    {CgiOut(r, "-1")}
    \cup UNION {
        LET x == [r EXCEPT !.h.pid = t.pid, !.h.fd = t.from, !.h.reader = TRUE, !.h.writer = TRUE,
                           !.h.ev = TRUE]
            started == [CgiOut(x, "0") EXCEPT !.add = {<<t.from, "out">>}, !.new = t.pid]
            failed == After(started, cgi_connection_close(x, "-1"))
        IN  {failed}
            \cup IF r.len = 0 THEN {started}
                 ELSE {IF o.ret = "-1" THEN failed ELSE After(started, o) :
                          o \in cgi_write_request(x, t.to)} :
        t \in {n \in [pid : Pid, from : Fd, to : Fd] :
                  /\ n.from # n.to /\ fdarray[n.from] = CgiNil /\ fdarray[n.to] = CgiNil
                  /\ child[n.pid] = "free"}}

(* What is left of mod_cgi_handle_subrequest() once the body was read as far
   as it should be: start the script, or send it more. *)
StartOrSend(r) ==
    IF r.h.fd = CgiNil
    THEN {IF o.ret = "-1"
          THEN [o EXCEPT !.con.status = "500", !.con.mode = "direct", !.ret = "FINISHED"]
          ELSE [o EXCEPT !.ret = "WAIT_FOR_EVENT"] : o \in cgi_create_env(r)}
    ELSE IF r.in > r.out
    THEN {CASE o.ret = "-1" -> cgi_connection_close(o.con, "ERROR")
            [] o.ret = "0"  -> [o EXCEPT !.ret = "WAIT_FOR_EVENT"]
            [] OTHER        -> o : o \in cgi_write_request(r, r.h.fdtocgi)}
    ELSE {CgiOut(r, "WAIT_FOR_EVENT")}

ReadBody(r) ==
    IF r.in = r.len
    THEN StartOrSend(r)
    ELSE IF BufMin /\ r.in - r.out > High
    THEN LET x == [r EXCEPT !.pollin = FALSE]
         IN  IF r.h.fd # CgiNil THEN {CgiOut(x, "WAIT_FOR_EVENT")} ELSE StartOrSend(x)
    ELSE UNION {CASE o.con.in > o.con.out /\ o.con.h.evto = "OUT" ->
                       {IF o.ret = "GO_ON" THEN [o EXCEPT !.ret = "WAIT_FOR_EVENT"] ELSE o}
                  [] ~(o.con.in > o.con.out /\ o.con.h.evto = "OUT") /\ o.ret # "GO_ON" -> {o}
                  [] OTHER -> StartOrSend(o.con) :
                   o \in connection_handle_read_post_state(r)}

(* mod_cgi_handle_subrequest(): with streaming, the interest in the script's
   output follows the write queue. *)
mod_cgi_handle_subrequest(r) ==
    CASE r.mode # "cgi" \/ ~r.hctx -> {CgiOut(r, "GO_ON")}
      [] r.mode = "cgi" /\ r.hctx /\ BufMin /\ r.started /\ r.wq = 2 ->
            ReadBody([r EXCEPT !.h.ev = FALSE])
      [] r.mode = "cgi" /\ r.hctx /\ BufMin /\ r.started /\ r.wq # 2 /\ ~r.h.ev ->
            UNION {IF o.ret = "GO_ON" THEN ReadBody(o.con) ELSE {o} : o \in cgi_recv_response(r)}
      [] OTHER -> ReadBody(r)

----------------------------------------------------------------------------
(* The main loop, as far as it concerns the module *)

(* Outcome o of a handler for connection c takes effect.  A script that was
   left to itself is reaped if it is gone (waitpid), else it is told to end
   and queued (cgi_pid_add). *)
Apply(c, o) ==
    LET gone == o.left # CgiNil /\ child[o.left] = "zombie"
    IN  /\ con' = [con EXCEPT ![c] = o.con]
        /\ fdarray' = [f \in Fd |-> CASE f \in o.del -> CgiNil
                                      [] f \notin o.del /\ \E a \in o.add : a[1] = f ->
                                            <<(CHOOSE a \in o.add : a[1] = f)[2], c>>
                                      [] OTHER -> fdarray[f]]
        /\ child' = [p \in Pid |-> CASE p = o.new -> "run"
                                      [] p # o.new /\ p = o.left /\ gone -> "free"
                                      [] OTHER -> child[p]]
        /\ cgi_pid' = IF o.left = CgiNil \/ gone THEN cgi_pid ELSE Append(cgi_pid, o.left)

(* cgi_pid_del(): the last entry takes the place of the one that goes. *)
cgi_pid_del(i) ==
    cgi_pid' = SubSeq([cgi_pid EXCEPT ![i] = cgi_pid[Len(cgi_pid)]], 1, Len(cgi_pid) - 1)

(* Mutant: the check ends at the first script that runs. *)
Trigger_StopsAtRunning ==
    /\ pc = "trigger"
    /\ k <= Len(cgi_pid)
    /\ IF child[cgi_pid[k]] = "run"
       THEN /\ k' = Len(cgi_pid) + 1
            /\ UNCHANGED <<child, cgi_pid>>
       ELSE /\ child' = [child EXCEPT ![cgi_pid[k]] = "free"]
            /\ cgi_pid_del(k)
            /\ UNCHANGED k
    /\ UNCHANGED <<con, fdarray, batch, joblist, pc, cur>>

(* cgi_trigger(), once a second: reap the scripts that are gone. *)
TriggerStart ==
    /\ pc = "top"
    /\ pc' = "trigger"
    /\ k' = 1
    /\ UNCHANGED <<con, fdarray, child, cgi_pid, batch, joblist, cur>>

cgi_trigger ==
    /\ pc = "trigger"
    /\ k <= Len(cgi_pid)
    /\ IF child[cgi_pid[k]] = "run"
       THEN /\ k' = k + 1
            /\ UNCHANGED <<child, cgi_pid>>
       ELSE /\ child' = [child EXCEPT ![cgi_pid[k]] = "free"]
            /\ cgi_pid_del(k)
            /\ UNCHANGED k
    /\ UNCHANGED <<con, fdarray, batch, joblist, pc, cur>>

TriggerEnd ==
    /\ pc = "trigger"
    /\ k > Len(cgi_pid)
    /\ pc' = "poll"
    /\ k' = 1
    /\ UNCHANGED <<con, fdarray, child, cgi_pid, batch, joblist, cur>>

NoTrigger ==
    /\ pc = "top"
    /\ pc' = "poll"
    /\ UNCHANGED <<con, fdarray, child, cgi_pid, batch, joblist, cur, k>>

(* What the kernel reports of the pipe from the script and of the one to it. *)
FromCgi(h) ==
    (IF h.ev /\ h.data # "none" THEN {"IN"} ELSE {}) \cup (IF h.writer THEN {} ELSE {"HUP"})
ToCgi(h, room) ==
    (IF h.evto = "OUT" /\ (room \/ ~h.reader) THEN {"OUT"} ELSE {})
    \cup (IF h.reader \/ h.evto = "no" THEN {} ELSE {IF StdinHup THEN "HUP" ELSE "ERR"})

(* The kernel hands over all events there are. *)
fdevent_poll ==
    /\ pc = "poll"
    /\ \E room \in SUBSET CgiCon :
        batch' = {e \in {[fd |-> con[c].h.fd, revents |-> FromCgi(con[c].h)] :
                             c \in {d \in CgiCon : con[d].h.fd # CgiNil}}
                        \cup {[fd |-> con[c].h.fdtocgi, revents |-> ToCgi(con[c].h, c \in room)] :
                                 c \in {d \in CgiCon : con[d].h.fdtocgi # CgiNil}} :
                    e.revents # {}}
    /\ pc' = "dispatch"
    /\ UNCHANGED <<con, fdarray, child, cgi_pid, joblist, cur, k>>

(* fdevent_get_handler() and the handler it finds.  An event for a descriptor
   that is not registered any more ends the process. *)
Dispatch ==
    /\ pc = "dispatch"
    /\ \E e \in batch :
        /\ batch' = batch \ {e}
        /\ IF fdarray[e.fd] = CgiNil
           THEN /\ pc' = "abort"
                /\ UNCHANGED <<con, fdarray, child, cgi_pid, joblist>>
           ELSE LET c == fdarray[e.fd][2]
                IN  \E o \in IF fdarray[e.fd][1] = "out"
                             THEN cgi_handle_fdevent(con[c], e.revents)
                             ELSE cgi_handle_fdevent_send(con[c], e.revents) :
                        /\ Apply(c, o)
                        /\ joblist' = joblist \cup {c}
                        /\ pc' = IF o.ret = "ABORT" THEN "abort" ELSE pc
    /\ UNCHANGED <<cur, k>>

(* Events of the client's socket: it can be read, it can be written, it is
   gone; or a new client comes. *)
ClientEvent(c) ==
    /\ pc = "dispatch"
    /\ LET r == con[c]
       IN  \E x \in {[r EXCEPT !.rd = TRUE], [r EXCEPT !.wr = TRUE], [r EXCEPT !.st = "error"], Idle} :
            /\ x # r
            /\ x = Idle => r.st = "closed"
            /\ x.st = "error" => r.st # "closed"
            /\ x.rd # r.rd => r.st = "idle" \/ (r.pollin /\ r.st \in {"request", "write"})
            /\ x.wr # r.wr => r.st = "write" /\ r.wq > 0
            /\ con' = [con EXCEPT ![c] = x]
    /\ joblist' = joblist \cup {c}
    /\ UNCHANGED <<fdarray, child, cgi_pid, batch, loopVars>>

DispatchEnd ==
    /\ pc = "dispatch"
    /\ batch = {}
    /\ pc' = "jobs"
    /\ UNCHANGED <<con, fdarray, child, cgi_pid, batch, joblist, cur, k>>

RunJob(c) ==
    /\ pc = "jobs"
    /\ c \in joblist
    /\ joblist' = joblist \ {c}
    /\ cur' = c
    /\ pc' = "sm"
    /\ UNCHANGED <<con, fdarray, child, cgi_pid, batch, k>>

JobsEnd ==
    /\ pc = "jobs"
    /\ joblist = {}
    /\ pc' = "top"
    /\ UNCHANGED <<con, fdarray, child, cgi_pid, batch, joblist, cur, k>>

----------------------------------------------------------------------------
(* connection_state_machine(cur) *)

Round(o, again) ==
    /\ Apply(cur, o)
    /\ pc' = IF again THEN "sm" ELSE "jobs"
    /\ UNCHANGED <<batch, joblist, cur, k>>

(* A request for a script (cgi_is_handled), with a body or without. *)
cgi_is_handled(r) == [r EXCEPT !.mode = "cgi", !.hctx = TRUE]

SmRead ==
    /\ pc = "sm"
    /\ con[cur].st \in {"idle", "closed"}
    /\ \/ Round(CgiOut([con[cur] EXCEPT !.rd = FALSE], ""), FALSE)
       \/ /\ con[cur].st = "idle" /\ con[cur].rd
          /\ \E n \in 0 .. MaxBody, keep, more \in BOOLEAN :
                Round(CgiOut(cgi_is_handled([con[cur] EXCEPT !.st = "request", !.count = @ + 1, !.ka = keep,
                                                          !.len = n, !.owed = @ + n, !.rd = more]), ""),
                      TRUE)

(* The response begins; a file or an error page is complete. *)
StartResponse(r) ==
    LET x == [r EXCEPT !.st = "write", !.ka = @ /\ r.count <= max_keep_alive_requests]
    IN  IF r.mode = "direct" THEN [x EXCEPT !.fin = TRUE, !.wq = 1] ELSE x

SmHandleRequest ==
    /\ pc = "sm"
    /\ con[cur].st = "request"
    /\ IF con[cur].mode = "direct" /\ con[cur].status = "none"
       THEN \/ Round(CgiOut(cgi_is_handled(con[cur]), ""), TRUE)
            \/ Round(CgiOut(StartResponse(con[cur]), ""), TRUE)
       ELSE \E o \in mod_cgi_handle_subrequest(con[cur]) :
            CASE o.ret = "ERROR" -> Round([o EXCEPT !.con.st = "error"], TRUE)
              [] o.ret = "COMEBACK" -> Round(o, TRUE)
              [] \/ o.ret \in {"FINISHED", "GO_ON"}
                 \/ o.ret = "WAIT_FOR_EVENT" /\ (o.con.fin \/ (o.con.started /\ Streaming)) ->
                    Round([o EXCEPT !.con = StartResponse(@)], TRUE)
              [] OTHER -> Round(o, FALSE)

(* Write what is queued, then let the module add to it. *)
Written(r) ==
    IF r.wq > 0 /\ r.wr
    THEN {[r EXCEPT !.wq = 0, !.st = IF r.fin THEN "end" ELSE @], [r EXCEPT !.st = "error"]}
         \cup {[r EXCEPT !.wq = w, !.wr = FALSE] : w \in 1 .. r.wq}
    ELSE {[r EXCEPT !.st = IF r.wq = 0 /\ r.fin THEN "end" ELSE @]}

SmWrite ==
    /\ pc = "sm"
    /\ con[cur].st = "write"
    /\ \E r \in Written(con[cur]) :
        \E o \in IF r.st = "write" /\ r.mode = "cgi" /\ ~r.fin
                 THEN mod_cgi_handle_subrequest(r) ELSE {CgiOut(r, "")} :
            LET x == IF o.ret \in {"COMEBACK", "ERROR"} THEN [o.con EXCEPT !.st = "error"] ELSE o.con
            IN  Round([o EXCEPT !.con = x],
                      x.st # "write" \/ IF x.wq > 0 THEN x.wr ELSE x.fin)

(* connection_reset() makes the module close its pipes.  The connection is
   kept alive, or closed with what the client still sends. *)
SmResponseEnd ==
    /\ pc = "sm"
    /\ con[cur].st \in {"end", "error"}
    /\ LET r == con[cur]
           o == IF r.hctx THEN cgi_connection_close(r, "") ELSE CgiOut(r, "")
           keep == r.st = "end" /\ r.ka /\ r.len <= r.in
       IN  Round([o EXCEPT !.con = IF keep THEN [Idle EXCEPT !.rd = TRUE, !.owed = r.owed, !.count = r.count]
                                           ELSE [Idle EXCEPT !.st = "closed"]], keep)

----------------------------------------------------------------------------
(* What scripts do.  A script that ends leaves both pipes. *)

Running(c) == con[c].h.pid # CgiNil /\ child[con[c].h.pid] = "run"
Anywhere == pc \in {"poll", "dispatch", "jobs"}

ScriptPrint(c) ==
    /\ Anywhere /\ Running(c)
    /\ con[c].h.writer /\ con[c].h.data = "none"
    /\ \E d \in Printed : con' = [con EXCEPT ![c].h.data = d]
    /\ UNCHANGED <<fdarray, child, cgi_pid, batch, joblist, loopVars>>

ScriptClose(c) ==
    /\ Anywhere /\ Running(c)
    /\ \/ con[c].h.reader /\ con' = [con EXCEPT ![c].h.reader = FALSE]
       \/ con[c].h.writer /\ con' = [con EXCEPT ![c].h.writer = FALSE]
    /\ UNCHANGED <<fdarray, child, cgi_pid, batch, joblist, loopVars>>

ScriptExit(p) ==
    /\ Anywhere
    /\ child[p] = "run"
    /\ child' = [child EXCEPT ![p] = "zombie"]
    /\ con' = [c \in CgiCon |-> IF con[c].h.pid = p
                             THEN [con[c] EXCEPT !.h.reader = FALSE, !.h.writer = FALSE]
                             ELSE con[c]]
    /\ UNCHANGED <<fdarray, cgi_pid, batch, joblist, loopVars>>

Process ==
    \/ TriggerStart \/ cgi_trigger \/ TriggerEnd \/ NoTrigger
    \/ fdevent_poll \/ Dispatch \/ DispatchEnd \/ JobsEnd
    \/ SmRead \/ SmHandleRequest \/ SmWrite \/ SmResponseEnd
    \/ \E c \in CgiCon : RunJob(c)

Next ==
    \/ Process
    \/ \E c \in CgiCon : ClientEvent(c) \/ ScriptPrint(c) \/ ScriptClose(c)
    \/ \E p \in Pid : ScriptExit(p)

Spec == Init /\ [][Next]_vars

----------------------------------------------------------------------------
(* Type correctness. *)
CgiTypeOK ==
    /\ \A c \in CgiCon :
        /\ con[c].st \in {"closed", "idle", "request", "write", "end", "error"}
        /\ con[c].out \in 0 .. con[c].in /\ con[c].in \in 0 .. con[c].len
        /\ con[c].len \in 0 .. MaxBody /\ con[c].owed \in 0 .. MaxBody
        /\ con[c].h.fd \in Fd \cup {CgiNil} /\ con[c].h.fdtocgi \in Fd \cup {CgiNil}
    /\ fdarray \in [Fd -> {CgiNil} \cup ({"in", "out"} \X CgiCon)]
    /\ child \in [Pid -> {"free", "run", "zombie"}]
    /\ cgi_pid \in Seq(Pid)

(* Every registered descriptor is a pipe of the script it is registered for,
   and every pipe is registered: none is left open when its script is given
   up, and none is closed under a script that uses it, however the numbers
   are used again. *)
DescriptorsOwned ==
    /\ \A c \in CgiCon :
        /\ con[c].h.fd # CgiNil => fdarray[con[c].h.fd] = <<"out", c>>
        /\ con[c].h.fdtocgi # CgiNil => fdarray[con[c].h.fdtocgi] = <<"in", c>>
    /\ \A f \in Fd : fdarray[f] # CgiNil =>
            f \in {con[fdarray[f][2]].h.fd, con[fdarray[f][2]].h.fdtocgi}

(* Every process that was started and not reaped has one owner who will reap
   it: the connection it works for, or one entry of the list of those left to
   themselves.  A process that is gone has none, so that no signal and no
   waitpid() goes to a process with the same number. *)
ChildrenOwned ==
    \A p \in Pid :
        Cardinality({c \in CgiCon : con[c].h.pid = p})
        + Cardinality({i \in DOMAIN cgi_pid : cgi_pid[i] = p})
        = IF child[p] = "free" THEN 0 ELSE 1

(* Whatever a script, its client and its pipes do, in any order: no descriptor and no child is
   lost or released twice (cgi_connection_close, cgi_pid_del). *)
CgiInv == CgiTypeOK /\ DescriptorsOwned /\ ChildrenOwned

(* When the process sleeps, every script is watched: its output, or the client
   that does not take what was read of it; the pipe to it as long as a part of
   the body is queued, the client as long as a part of it is to come. *)
CgiNoLostWakeup ==
    pc = "poll" => \A c \in CgiCon :
        LET r == con[c] IN
        /\ r.st = "request" => r.h.fd # CgiNil \/ r.pollin
        /\ r.h.fd # CgiNil => r.h.ev \/ (r.st = "write" /\ r.wq > 0 /\ ~r.wr)
        /\ r.h.fdtocgi # CgiNil => IF r.in > r.out THEN r.h.evto = "OUT" ELSE r.pollin

(* A connection that is kept alive owes nothing: the body of the last request
   was read to its end, also if a local redirect forgot how long it was. *)
IdleOwesNothing == \A c \in CgiCon : con[c].st = "idle" => con[c].owed = 0

(* Every process that ended is reaped, whoever owns it and whatever became of
   the request it worked for. *)
Reaped == \A p \in Pid : child[p] = "zombie" ~> (child[p] # "zombie" \/ pc = "abort")

(* A script that hung up is noticed: its pipes are closed and the response is
   ended, even while reading from it is suspended. *)
HangupNoticed ==
    \A c \in CgiCon : (con[c].h.fd # CgiNil /\ ~con[c].h.writer)
                    ~> (con[c].h.fd = CgiNil \/ con[c].h.writer \/ pc = "abort")

(* What the loop owes every script: it is reaped, and its end is noticed. *)
ScriptsEnd == Reaped /\ HangupNoticed

----------------------------------------------------------------------------
(* What the code says of itself, and does not keep. *)

(* "if (ev->fdarray[fd] == NULL) SEGFAULT();": no event is for a descriptor
   that is not registered. *)
NoStaleEvent == pc # "abort"
=============================================================================
