---------------------------- MODULE Connection ----------------------------
(***************************************************************************)
(* One client connection: the handlers of connections.c,                   *)
(* connections-glue.c, response.c and network.c that a connection goes     *)
(* through, as operators on the connection object.                         *)
(*                                                                         *)
(* A handler maps a connection to the set of connections it can leave      *)
(* behind; the choice stands for what read(), write(), the client's bytes  *)
(* and the plugins decide.  A handler that also returns a value to the     *)
(* state machine or opens and closes the descriptor of a backend yields a  *)
(* record [con, ret, dfd]: dfd is what it adds to srv->cur_fds.            *)
(*                                                                         *)
(* The bytes themselves are abstracted.  The read queue is empty, holds    *)
(* part of a request header, or at least one whole header; the write queue *)
(* is empty or not.  Timestamps are kept as ages (srv->cur_ts minus the    *)
(* timestamp) and stop growing once their timeout has passed.              *)
(***************************************************************************)
EXTENDS Integers

CONSTANTS
    HTTP_LINGER_TIMEOUT,     \* seconds a closing connection lingers
    max_read_idle,           \* server.max-read-idle
    max_write_idle,          \* server.max-write-idle
    max_keep_alive_idle,     \* server.max-keep-alive-idle
    max_keep_alive_requests, \* server.max-keep-alive-requests
    stream_request_body,     \* is the request body streamed to a backend?
    stream_response_body,    \* is the response of a backend streamed?
    reconnects,              \* attempts to reach a backend again (5 in the code)
    error_handler,           \* "none", "all" (error-handler) or "404"
    TempfileFails,           \* may storing the request body on disk fail?
    Requests,                \* which requests the clients send
    Pipelined,               \* what may follow a header in the read queue
    ReadResults,             \* what read() on the client socket can do
    WriteResults,            \* what writing the queue can do
    Handling                 \* how the plugins may handle a request

ASSUME TimeoutAssumption ==
    /\ HTTP_LINGER_TIMEOUT \in Nat
    /\ max_read_idle \in Nat
    /\ max_write_idle \in Nat
    /\ max_keep_alive_idle \in Nat
    /\ max_keep_alive_requests \in Nat
    /\ reconnects \in Nat

ASSUME ChoiceAssumption ==
    /\ stream_request_body \in BOOLEAN
    /\ stream_response_body \in BOOLEAN
    /\ TempfileFails \in BOOLEAN
    /\ error_handler \in {"none", "all", "404"}
    /\ Requests \subseteq {"bad", "plain", "body"}
    /\ Pipelined \subseteq {"none", "part", "full"}
    /\ ReadResults \subseteq {"again", "intr", "error", "eof", "short", "full"}
    /\ WriteResults \subseteq {"done", "partial", "limit", "error"}
    /\ Handling \subseteq {"file", "status", "404", "backend", "error"}

(* connection_state_t *)
ConState ==
    {"CONNECT", "REQUEST_START", "READ", "REQUEST_END", "READ_POST",
     "HANDLE_REQUEST", "RESPONSE_START", "WRITE", "RESPONSE_END", "ERROR",
     "CLOSE"}

(* The states the comments of connection_state_machine call transient, and
   RESPONSE_START, which is left as soon as it is entered. *)
Transient ==
    {"REQUEST_START", "REQUEST_END", "RESPONSE_START", "RESPONSE_END", "ERROR"}

Queue == {"none", "part", "full"}

Bigger(a, b) == IF a >= b THEN a ELSE b

Connections ==
    [state   : ConState,
     fd      : BOOLEAN,       \* the socket is open and registered
     polled  : BOOLEAN,       \* the kernel knows the socket (fde_ndx # -1)
     ev      : SUBSET {"IN", "OUT"},  \* fdarray[fd]->events
     rd      : BOOLEAN,       \* is_readable
     wr      : BOOLEAN,       \* is_writable
     rq      : Queue,         \* read_queue
     wq      : BOOLEAN,       \* write_queue is not empty
     count   : 0 .. max_keep_alive_requests + 1,   \* request_count
     status  : {"none", "ok", "404", "error"},     \* http_status
     ka      : BOOLEAN,       \* keep_alive
     len     : BOOLEAN,       \* request.content_length > 0
     unread  : BOOLEAN,       \* body bytes of the request are still to come
     pollin  : BOOLEAN,       \* FDEVENT_STREAM_REQUEST_POLLIN
     started : BOOLEAN,       \* file_started
     fin     : BOOLEAN,       \* file_finished
     eh      : {"none", "new", "old"},  \* error_handler_saved_status: 0, > 0, < 0
     mode    : {"direct", "backend"},
     hctx    : BOOLEAN,       \* plugin_ctx of the backend module
     bfd     : BOOLEAN,       \* hctx->fd is open
     tries   : 0 .. reconnects,  \* hctx->reconnects
     rage    : 0 .. Bigger(max_read_idle, max_keep_alive_idle) + 1,
     wage    : -1 .. max_write_idle + 1,
     cage    : 0 .. HTTP_LINGER_TIMEOUT + 1,
     tl      : BOOLEAN]       \* traffic_limit_reached

(* connection_init(): an object that was never used. *)
connection_init ==
    [state |-> "CONNECT", fd |-> FALSE, polled |-> FALSE, ev |-> {},
     rd |-> FALSE, wr |-> FALSE, rq |-> "none", wq |-> FALSE, count |-> 0,
     status |-> "none", ka |-> FALSE, len |-> FALSE, unread |-> FALSE,
     pollin |-> FALSE, started |-> FALSE, fin |-> FALSE, eh |-> "none",
     mode |-> "direct", hctx |-> FALSE, bfd |-> FALSE, tries |-> 0,
     rage |-> 0, wage |-> -1, cage |-> 0, tl |-> FALSE]

Out(r, ret, dfd) == [con |-> r, ret |-> ret, dfd |-> dfd]
Fds(open) == IF open THEN 1 ELSE 0

----------------------------------------------------------------------------
(* Reading from the client *)

(* The read queue after a read(): new bytes may complete a header. *)
Received(rq, res) ==
    CASE res \notin {"short", "full"} -> {rq}
      [] rq = "full"                  -> {"full"}
      [] OTHER                        -> {"part", "full"}

(* connection_handle_read(): a read that did not fill its buffer waits for
   the next event; an error ends the connection. *)
connection_handle_read(r) ==
    UNION {{Out([r EXCEPT !.rd = res \in {"intr", "full"},
                          !.rq = q,
                          !.state = IF res = "error" THEN "ERROR" ELSE @], res, 0) :
               q \in Received(r.rq, res)} : res \in ReadResults}

(* What is left to do in CON_STATE_READ once the bytes are in the queue: a
   whole header is taken out of it (what follows it can be anything), an
   oversized one is answered with 414, and a half header on a closed
   connection is an error. *)
ScanHeader(r, closed) ==
    IF r.rq = "full"
    THEN {[r EXCEPT !.state = "REQUEST_END", !.rq = q] : q \in Pipelined}
    ELSE {[r EXCEPT !.state = IF closed THEN "ERROR" ELSE @]}
         \cup IF r.rq = "none" THEN {}
              ELSE {[r EXCEPT !.state = "HANDLE_REQUEST", !.status = "error", !.ka = FALSE]}

(* connection_handle_read_state() *)
connection_handle_read_state(r) ==
    IF ~r.rd
    THEN ScanHeader(r, FALSE)
    ELSE UNION {IF o.ret = "error" THEN {o.con} ELSE ScanHeader(o.con, o.ret = "eof") :
                   o \in connection_handle_read([r EXCEPT !.rage = 0])}

(* A good request may keep the connection alive and may announce a body, which 1 as return value
   of http_request_parse() (READ_POST) says; a bad one is answered with an error and closes the
   connection. *)
Parsed(r, req, keep) ==
    CASE req = "bad"   -> [r EXCEPT !.state = "HANDLE_REQUEST", !.status = "error", !.ka = FALSE]
      [] req = "plain" -> [r EXCEPT !.state = "HANDLE_REQUEST", !.ka = keep]
      [] req = "body"  -> [r EXCEPT !.state = "READ_POST", !.ka = keep, !.len = TRUE, !.unread = TRUE]

http_request_parse(r) == {Parsed(r, req, keep) : req \in Requests, keep \in BOOLEAN}

(* request.content_length > request_content_queue->bytes_in *)
Due(r) == r.len /\ r.unread

(* connection_handle_read_post_state(): move body bytes from the read queue
   to the request.  They may be all that is due, or not.  A large body goes
   to a temporary file; if that cannot be written the request is refused,
   also when a backend works on it already. *)
PostBytes(r, closed, fresh) ==
    {Out([r EXCEPT !.unread = @ /\ ~Due(r), !.rq = q, !.pollin = FALSE,
                   !.state = IF @ = "READ_POST" THEN "HANDLE_REQUEST" ELSE @], "GO_ON", 0) :
        q \in IF ~Due(r) THEN {r.rq} ELSE {x \in Pipelined : fresh \/ r.rq # "none"}}
    \cup
    {IF closed
     THEN Out([r EXCEPT !.rq = "none"], "ERROR", 0)
     ELSE Out([r EXCEPT !.rq = "none", !.pollin = TRUE],
              IF stream_request_body THEN "GO_ON" ELSE "WAIT_FOR_EVENT", 0) :
        x \in {y \in {r} : Due(y)}}
    \cup
    {Out([r EXCEPT !.rq = "none", !.status = "error", !.ka = FALSE, !.mode = "direct",
                   !.wq = FALSE], "FINISHED", 0) :
        x \in {y \in {r} : TempfileFails /\ Due(y)}}

connection_handle_read_post_state(r) ==
    IF ~r.rd
    THEN PostBytes(r, FALSE, FALSE)
    ELSE UNION {IF o.ret = "error"
                THEN {Out(o.con, "ERROR", 0)}
                ELSE PostBytes(o.con, o.ret = "eof", o.ret \in {"short", "full"}) :
                   o \in connection_handle_read([r EXCEPT !.rage = 0])}

----------------------------------------------------------------------------
(* The backend modules, as far as the connection sees them *)

(* Mutant: the end of the backend is not noted in file_finished. *)
BackendDone_NotFinished(r) ==
    IF r.state \in {"HANDLE_REQUEST", "READ_POST"} /\ ~r.started
    THEN {[r EXCEPT !.status = "error", !.mode = "direct"]}
    ELSE {r}

(* http_response_backend_done(): nothing was sent yet and the client gets a
   500, or the response that was started is ended, in chunked encoding with
   a last chunk. *)
http_response_backend_done(r) ==
    CASE r.state \in {"HANDLE_REQUEST", "READ_POST"} /\ ~r.started ->
            {[r EXCEPT !.status = "error", !.mode = "direct"]}
      [] r.state \in {"HANDLE_REQUEST", "READ_POST", "WRITE"} /\ ~r.fin
         /\ (r.started \/ r.state = "WRITE") ->
            {[r EXCEPT !.fin = TRUE], [r EXCEPT !.fin = TRUE, !.wq = TRUE]}
      [] OTHER -> {r}

(* http_response_backend_error(): a response that was started cannot be
   completed; the connection will be closed behind what was sent. *)
http_response_backend_error(r) ==
    IF r.started
    THEN [r EXCEPT !.mode = "direct", !.ka = FALSE, !.fin = TRUE]
    ELSE r

(* fcgi_connection_close(), scgi_connection_close(), proxy_connection_close() *)
backend_connection_close(r) ==
    LET closed == [r EXCEPT !.hctx = FALSE, !.bfd = FALSE, !.tries = 0]
    IN  IF r.mode = "backend" THEN http_response_backend_done(closed) ELSE {closed}

(* Mutant: the descriptor that is closed for the next attempt stays counted. *)
Reconnect_NotCounted(r) ==
    IF r.tries < reconnects /\ ~r.started
    THEN {Out([r EXCEPT !.bfd = FALSE, !.tries = @ + 1], "COMEBACK", 0)}
    ELSE {}

(* fcgi_reconnect(): as long as nothing was answered, another attempt. *)
backend_reconnect(r) ==
    IF r.tries < reconnects /\ ~r.started
    THEN {Out([r EXCEPT !.bfd = FALSE, !.tries = @ + 1], "COMEBACK", -Fds(r.bfd))}
    ELSE {}

(* fcgi_send_request(): open a connection to the backend, or go on writing
   the request to it.  A backend that cannot be reached is tried again and
   given up with a 503 in the end; socket() may be out of descriptors. *)
backend_send_request(r) ==
    {IF r.bfd THEN Out(r, "WAIT_FOR_EVENT", 0)
              ELSE Out([r EXCEPT !.bfd = TRUE], "WAIT_FOR_EVENT", 1)}
    \cup (IF r.bfd THEN {} ELSE {Out(r, "WAIT_FOR_FD", 0)})
    \cup {Out([x EXCEPT !.status = "error"], "FINISHED", -Fds(r.bfd)) :
             x \in backend_connection_close(r)}
    \cup backend_reconnect(r)

(* plugins_call_handle_subrequest(): the backend module that owns the
   connection reads more of the body and goes on with the request. *)
plugins_call_handle_subrequest(r) ==
    IF ~r.hctx \/ r.mode = "direct"
    THEN {Out(r, "GO_ON", 0)}
    ELSE UNION {IF o.ret = "GO_ON" THEN backend_send_request(o.con) ELSE {o} :
                   o \in IF r.state = "READ_POST" \/ Due(r)
                         THEN connection_handle_read_post_state(r)
                         ELSE {Out(r, "GO_ON", 0)}}

(* The event handler of the backend's descriptor (fcgi_handle_fdevent and its
   siblings): part of the response arrives, or all of it, or the backend
   takes more of the request, or it fails, or it went away before it was
   sent anything and is tried again. *)
backend_handle_fdevent(r) ==
    LET more == [r EXCEPT !.started = TRUE, !.wq = TRUE]
    IN  {Out(r, "GO_ON", 0), Out(more, "GO_ON", 0)}
        \cup {Out(x, "FINISHED", -Fds(r.bfd)) :
                 x \in backend_connection_close(more)
                       \cup backend_connection_close(r)
                       \cup backend_connection_close(http_response_backend_error(r))}
        \cup backend_send_request(r)

----------------------------------------------------------------------------
(* Handling a request *)

(* http_response_prepare(), as [con, ret, dfd].  A request that is not yet
   decided is answered from a file, refused with a status, or given to a
   backend module, which goes on in the same call. *)
Undecided(r) == r.mode = "direct" /\ r.status \in {"none", "ok"}

http_response_prepare(r) ==
    IF r.mode = "direct" /\ ~Undecided(r)
    THEN {Out([r EXCEPT !.wq = r.fin /\ r.wq], "FINISHED", 0)}
    ELSE IF Undecided(r)
    THEN UNION {CASE h = "file"    -> {Out([r EXCEPT !.wq = TRUE, !.fin = TRUE, !.status = "ok"],
                                           "FINISHED", 0)}
                  [] h = "status"  -> {Out([r EXCEPT !.status = "error"], "FINISHED", 0)}
                  [] h = "404"     -> {Out([r EXCEPT !.status = "404"], "FINISHED", 0)}
                  [] h = "error"   -> {Out(r, "ERROR", 0)}
                  [] h = "backend" -> plugins_call_handle_subrequest(
                                         [r EXCEPT !.mode = "backend", !.hctx = TRUE]) :
                   h \in Handling}
    ELSE {IF o.ret = "GO_ON" THEN Out(o.con, "FINISHED", 0) ELSE o :
             o \in plugins_call_handle_subrequest(r)}

(* The configured error handler takes this response over. *)
CallErrorHandler(r) ==
    /\ r.mode = "direct"
    /\ r.eh = "none"
    /\ \/ error_handler = "all" /\ r.status \in {"404", "error"}
       \/ error_handler = "404" /\ r.status = "404"

(* connection_handle_errdoc_init() and what goes with it: the request starts
   again as a GET of the error handler.  Under server.error-handler the
   backend modules are reset, what was read of the body is thrown away, and
   unless that was all of it the connection will not be kept alive. *)
Restarted(r, keep) ==
    Out([r EXCEPT !.hctx = FALSE, !.bfd = FALSE, !.tries = 0,
                  !.ka = keep, !.len = FALSE, !.wr = TRUE, !.fin = FALSE,
                  !.started = FALSE, !.eh = "new", !.wq = FALSE, !.status = "none"],
        "COMEBACK", -Fds(r.bfd))

RestartForErrorHandler(r) ==
    IF error_handler = "all"
    THEN {Restarted(r, keep) : keep \in IF ~r.len THEN {r.ka}
                                        ELSE IF r.unread THEN {FALSE} ELSE {r.ka, FALSE}}
    ELSE {Out([r EXCEPT !.eh = "old", !.wq = FALSE, !.status = "none"], "COMEBACK", 0)}

(* HANDLER_FINISHED in CON_STATE_HANDLE_REQUEST, no error handler to call: a
   response of the error handler keeps the status it was called for. *)
StartResponse(r) ==
    [r EXCEPT !.state = "RESPONSE_START",
              !.status = CASE r.mode = "direct" /\ r.eh = "new" -> "error"
                           [] r.status = "none" -> "ok"
                           [] OTHER -> r.status]

(* A response without a body (204, 205, 304) or to a HEAD request is
   complete once its header is sent; one of unknown length in HTTP/1.0, or
   when the backend asked for it, ends with the connection. *)
WritePrepared(r, headeronly, close) ==
    [r EXCEPT !.state = "WRITE", !.wq = TRUE, !.fin = @ \/ headeronly,
              !.ka = /\ @
                     /\ r.count <= max_keep_alive_requests
                     /\ max_keep_alive_idle # 0
                     /\ ~close]

connection_handle_write_prepare(r) ==
    LET errdoc == r.mode = "direct" /\ r.status \in {"404", "error"}
        body == IF errdoc THEN [r EXCEPT !.fin = TRUE] ELSE r
    IN  {WritePrepared(body, headeronly, close) :
            headeronly \in BOOLEAN, close \in {x \in BOOLEAN : x => ~body.fin}}

(* connection_handle_write() on network_write_chunkqueue() *)
connection_handle_write(r) ==
    {CASE res = "done"    -> [r EXCEPT !.wq = FALSE, !.wage = 0,
                                       !.state = IF r.fin THEN "RESPONSE_END" ELSE @]
       [] res = "partial" -> [r EXCEPT !.wage = 0, !.wr = FALSE]
       [] res = "limit"   -> [r EXCEPT !.wage = 0, !.wr = FALSE, !.tl = TRUE]
       [] res = "error"   -> [r EXCEPT !.state = "ERROR"] :
        res \in WriteResults}

----------------------------------------------------------------------------
(* The end of a request and of a connection *)

(* connection_reset(): plugins_call_connection_reset() makes the backend
   modules drop what they hold of the request.  keep_alive, the traffic
   limit and the timestamps survive. *)
connection_reset(r) ==
    [r EXCEPT !.hctx = FALSE, !.bfd = FALSE, !.tries = 0, !.mode = "direct",
              !.rd = TRUE, !.wr = TRUE, !.status = "none", !.fin = FALSE,
              !.started = FALSE, !.wq = FALSE, !.len = FALSE,
              !.pollin = FALSE, !.eh = "none"]

(* connection_close(): unregister, close, and take the connection out of the
   table (connection_del in ConnTable).  What the object still holds of
   keep_alive and of the read and linger timestamps is forgotten here: they
   are assigned again before the next connection in this object reads them. *)
connection_close(r) ==
    [r EXCEPT !.fd = FALSE, !.polled = FALSE, !.ev = {}, !.state = "CONNECT",
              !.unread = FALSE, !.ka = FALSE, !.rage = 0, !.cage = 0]

(* connection_handle_shutdown(): with the write side shut down the connection
   lingers in CON_STATE_CLOSE; if shutdown() fails it is closed at once. *)
connection_handle_shutdown(r) ==
    {[connection_reset(r) EXCEPT !.cage = 0, !.state = "CLOSE", !.unread = FALSE],
     connection_close(connection_reset(r))}

(* Mutant: the connection is kept alive with part of the body unread. *)
ResponseEnd_BodyLeft(r) ==
    IF r.ka /\ r.state # "ERROR"
    THEN {[connection_reset(r) EXCEPT !.state = "REQUEST_START"]}
    ELSE connection_handle_shutdown([r EXCEPT !.ka = FALSE])

(* connection_handle_response_end_state() *)
connection_handle_response_end_state(r) ==
    IF r.ka /\ ~Due(r) /\ r.state # "ERROR"
    THEN {[connection_reset(r) EXCEPT !.state = "REQUEST_START"]}
    ELSE connection_handle_shutdown([r EXCEPT !.ka = FALSE])

(* The read() of the lingering close: at end of file the wait is over. *)
Drain(r) == {r, [r EXCEPT !.cage = HTTP_LINGER_TIMEOUT + 1]}

(* connection_handle_close_state() *)
connection_handle_close_state(r) ==
    {IF x.cage > HTTP_LINGER_TIMEOUT THEN connection_close(x) ELSE x : x \in Drain(r)}

----------------------------------------------------------------------------
(* Events *)

(* connection_handle_fdevent(): note the event, then read, write or drain
   according to the state; the state machine itself runs from the joblist. *)
AfterRevents(r, revents) ==
    LET x == [r EXCEPT !.rd = @ \/ "IN" \in revents, !.wr = @ \/ "OUT" \in revents]
    IN  CASE "HUP" \in revents /\ x.state = "CLOSE" ->
                [x EXCEPT !.cage = HTTP_LINGER_TIMEOUT + 1]
          [] "HUP" \in revents \/ "ERR" \in revents -> [x EXCEPT !.state = "ERROR"]
          [] OTHER -> x

connection_handle_fdevent(r, revents) ==
    LET x == AfterRevents(r, revents)
    IN  CASE x.state = "READ" -> connection_handle_read_state(x)
          [] x.state = "WRITE" /\ x.wq /\ x.wr -> connection_handle_write(x)
          [] x.state = "CLOSE" -> Drain(x)
          [] OTHER -> {x}

(* The interest that the end of connection_state_machine() asks for. *)
Interest(r) ==
    CASE r.state \in {"READ", "CLOSE"} -> {"IN"}
      [] r.state \in {"WRITE", "READ_POST"} ->
            (IF r.state = "WRITE" /\ r.wq /\ ~r.wr /\ ~r.tl THEN {"OUT"} ELSE {})
            \cup (IF r.pollin THEN {"IN"} ELSE {})
      [] OTHER -> {}

UpdateInterest(r) ==
    IF ~r.fd THEN r
    ELSE LET ev == Interest(r)
         IN  [r EXCEPT !.ev = ev,
                       !.polled = @ \/ ev # r.ev,
                       !.rage = IF "IN" \in ev \ r.ev THEN 0 ELSE @,
                       !.wage = IF "OUT" \in ev \ r.ev THEN 0 ELSE @]

----------------------------------------------------------------------------
(* The once-a-second check of server.c *)

Older(age, limit) == IF age > limit THEN age ELSE age + 1

(* A second passes.  The age of the last read matters only under interest in
   reading, and starts anew with it; that of the shutdown only in CLOSE. *)
Aged(r) ==
    [r EXCEPT !.rage = IF "IN" \in r.ev
                       THEN Older(@, Bigger(max_read_idle, max_keep_alive_idle)) ELSE @,
              !.wage = IF @ = -1 THEN @ ELSE Older(@, max_write_idle),
              !.cage = IF r.state = "CLOSE" THEN Older(@, HTTP_LINGER_TIMEOUT) ELSE @]

LingerExpired(r) == r.state = "CLOSE" /\ r.cage > HTTP_LINGER_TIMEOUT
ReadExpired(r) ==
    /\ r.state # "CLOSE"
    /\ "IN" \in r.ev
    /\ r.rage > IF r.count = 1 \/ r.state # "READ" THEN max_read_idle ELSE max_keep_alive_idle

(* Mutant: only a connection that waits for its socket can time out. *)
WriteExpired_OutOnly(r) ==
    /\ r.state = "WRITE"
    /\ "OUT" \in r.ev
    /\ r.wage > max_write_idle

WriteExpired(r) ==
    /\ r.state = "WRITE"
    /\ r.wage > max_write_idle

Expired(r) == LingerExpired(r) \/ ReadExpired(r) \/ WriteExpired(r)
=============================================================================
