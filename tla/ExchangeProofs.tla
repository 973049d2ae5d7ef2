--------------------------- MODULE ExchangeProofs ---------------------------
(***************************************************************************)
(* The state machine implements the exchanges of module Exchange: what the *)
(* handlers do to the part of a request's body that is still to come and   *)
(* to the backend that holds the request, and how each step of the server  *)
(* maps to a step of one exchange or to none.                              *)
(***************************************************************************)
EXTENDS ServerProofs

(* A handler that does not touch the body, and does not give the request to a backend. *)
Calm(r, x) ==
    /\ x.len = r.len
    /\ x.unread = r.unread
    /\ x.hctx => r.hctx

(* A handler that may read from the body; only from READ_POST does it go on to another state. *)
Consumes(r, x) ==
    /\ x.len = r.len
    /\ x.unread => r.unread
    /\ x.state \in {r.state, "ERROR"} \/ r.state = "READ_POST"

LEMMA ConsumesInTurn ==
    ASSUME NEW r, NEW x, NEW y, Consumes(r, x), Consumes(x, y)
    PROVE  Consumes(r, y)
BY DEF Consumes

----------------------------------------------------------------------------
(* Reading the header *)

LEMMA ReadCalm ==
    ASSUME NEW r \in Connections, NEW o \in connection_handle_read(r)
    PROVE  Calm(r, o.con) /\ o.con.state \in {r.state, "ERROR"}
<1>1. PICK res \in ReadResults : \E q \in Received(r.rq, res) :
         o = Out([r EXCEPT !.rd = res \in {"intr", "full"}, !.rq = q,
                           !.state = IF res = "error" THEN "ERROR" ELSE @], res, 0)
  BY DEF connection_handle_read
<1>2. PICK q : o = Out([r EXCEPT !.rd = res \in {"intr", "full"}, !.rq = q,
                                 !.state = IF res = "error" THEN "ERROR" ELSE @], res, 0)
  BY <1>1
<1> DEFINE b == res \in {"intr", "full"}
           s == IF res = "error" THEN "ERROR" ELSE r.state
<1>3. o.con = [r EXCEPT !.rd = b, !.rq = q, !.state = s]
  BY <1>2 DEF Out
<1>4. s \in {r.state, "ERROR"}
  OBVIOUS
<1> HIDE DEF b, s
<1>5. QED
  BY <1>3, <1>4 DEF Calm, Connections

LEMMA ScanCalm ==
    ASSUME NEW r \in Connections, NEW closed, NEW x \in ScanHeader(r, closed)
    PROVE  Calm(r, x)
<1>1. \/ \E q : x = [r EXCEPT !.state = "REQUEST_END", !.rq = q]
      \/ x = [r EXCEPT !.state = IF closed THEN "ERROR" ELSE @]
      \/ x = [r EXCEPT !.state = "HANDLE_REQUEST", !.status = "error", !.ka = FALSE]
  BY DEF ScanHeader
<1>2. CASE \E q : x = [r EXCEPT !.state = "REQUEST_END", !.rq = q]
  BY <1>2 DEF Calm, Connections
<1>3. CASE x = [r EXCEPT !.state = IF closed THEN "ERROR" ELSE @]
  <2> DEFINE s == IF closed THEN "ERROR" ELSE r.state
  <2>1. x = [r EXCEPT !.state = s]
    BY <1>3
  <2> HIDE DEF s
  <2>2. QED
    BY <2>1 DEF Calm, Connections
<1>4. CASE x = [r EXCEPT !.state = "HANDLE_REQUEST", !.status = "error", !.ka = FALSE]
  BY <1>4 DEF Calm, Connections
<1>5. QED
  BY <1>1, <1>2, <1>3, <1>4

LEMMA RageCalm == ASSUME NEW r \in Connections PROVE Calm(r, [r EXCEPT !.rage = 0])
BY DEF Calm, Connections

(* connection_handle_read_state() *)
LEMMA ReadStateCalm ==
    ASSUME NEW r \in Connections, NEW x \in connection_handle_read_state(r)
    PROVE  Calm(r, x)
<1>1. CASE ~r.rd
  BY <1>1, ScanCalm DEF connection_handle_read_state
<1>2. CASE r.rd
  <2> DEFINE r0 == [r EXCEPT !.rage = 0]
  <2>1. PICK o \in connection_handle_read(r0) :
           x \in IF o.ret = "error" THEN {o.con} ELSE ScanHeader(o.con, o.ret = "eof")
    BY <1>2 DEF connection_handle_read_state
  <2>2. Handled(r, r0, 0, {"ERROR"}) /\ Calm(r, r0)
    BY RageReset, RageCalm
  <2> HIDE DEF r0
  <2>3. r0 \in Connections
    BY <2>2 DEF Handled
  <2>4. Handled(r0, o.con, 0, {"ERROR"}) /\ Calm(r0, o.con)
    BY <2>3, ReadHandled, ReadCalm
  <2>5. o.con \in Connections
    BY <2>4 DEF Handled
  <2>6. x = o.con \/ x \in ScanHeader(o.con, o.ret = "eof")
    BY <2>1
  <2>7. Calm(o.con, x)
    BY <2>5, <2>6, ScanCalm DEF Calm
  <2>8. QED
    BY <2>2, <2>4, <2>7 DEF Calm
<1>3. QED
  BY <1>1, <1>2

----------------------------------------------------------------------------
(* Reading the body *)

LEMMA PostBytesConsume ==
    ASSUME NEW r \in Connections, NEW closed, NEW fresh, NEW o \in PostBytes(r, closed, fresh)
    PROVE  Consumes(r, o.con)
<1>1. ASSUME NEW q,
             o = Out([r EXCEPT !.unread = @ /\ ~Due(r), !.rq = q, !.pollin = FALSE,
                               !.state = IF @ = "READ_POST" THEN "HANDLE_REQUEST" ELSE @], "GO_ON", 0)
      PROVE  Consumes(r, o.con)
  <2> DEFINE b == r.unread /\ ~Due(r)
             s == IF r.state = "READ_POST" THEN "HANDLE_REQUEST" ELSE r.state
  <2>1. o.con = [r EXCEPT !.unread = b, !.rq = q, !.pollin = FALSE, !.state = s]
    BY <1>1 DEF Out
  <2>2. (b => r.unread) /\ (s = r.state \/ r.state = "READ_POST")
    OBVIOUS
  <2> HIDE DEF b, s
  <2>3. o.con.len = r.len /\ o.con.unread = b /\ o.con.state = s
    BY <2>1 DEF Connections
  <2>4. QED
    BY <2>2, <2>3 DEF Consumes
<1>2. ASSUME o = Out([r EXCEPT !.rq = "none"], "ERROR", 0)
      PROVE  Consumes(r, o.con)
  BY <1>2 DEF Out, Consumes, Connections
<1>3. ASSUME NEW ret, o = Out([r EXCEPT !.rq = "none", !.pollin = TRUE], ret, 0)
      PROVE  Consumes(r, o.con)
  BY <1>3 DEF Out, Consumes, Connections
<1>4. ASSUME o = Out([r EXCEPT !.rq = "none", !.status = "error", !.ka = FALSE, !.mode = "direct",
                               !.wq = FALSE], "FINISHED", 0)
      PROVE  Consumes(r, o.con)
  BY <1>4 DEF Out, Consumes, Connections
<1>5. QED
  BY <1>1, <1>2, <1>3, <1>4 DEF PostBytes

(* connection_handle_read_post_state() *)
LEMMA ReadPostConsumes ==
    ASSUME NEW r \in Connections, NEW o \in connection_handle_read_post_state(r)
    PROVE  Consumes(r, o.con)
<1>1. CASE ~r.rd
  BY <1>1, PostBytesConsume DEF connection_handle_read_post_state
<1>2. CASE r.rd
  <2> DEFINE r0 == [r EXCEPT !.rage = 0]
  <2>1. PICK p \in connection_handle_read(r0) :
           o \in IF p.ret = "error" THEN {Out(p.con, "ERROR", 0)}
                 ELSE PostBytes(p.con, p.ret = "eof", p.ret \in {"short", "full"})
    BY <1>2 DEF connection_handle_read_post_state
  <2>2. Handled(r, r0, 0, {"ERROR"}) /\ Consumes(r, r0)
    BY RageReset DEF Consumes, Connections
  <2> HIDE DEF r0
  <2>3. r0 \in Connections
    BY <2>2 DEF Handled
  <2>4. Handled(r0, p.con, 0, {"ERROR"}) /\ Calm(r0, p.con) /\ p.con.state \in {r0.state, "ERROR"}
    BY <2>3, ReadHandled, ReadCalm
  <2>5. p.con \in Connections /\ Consumes(r0, p.con)
    BY <2>4 DEF Handled, Calm, Consumes
  <2>6. o = Out(p.con, "ERROR", 0) \/ o \in PostBytes(p.con, p.ret = "eof", p.ret \in {"short", "full"})
    BY <2>1
  <2>7. Consumes(p.con, o.con)
    <3>1. CASE o = Out(p.con, "ERROR", 0)
      BY <3>1 DEF Out, Consumes
    <3>2. CASE o \in PostBytes(p.con, p.ret = "eof", p.ret \in {"short", "full"})
      BY <2>5, <3>2, PostBytesConsume
    <3>3. QED
      BY <2>6, <3>1, <3>2
  <2>8. QED
    BY <2>2, <2>5, <2>7, ConsumesInTurn
<1>3. QED
  BY <1>1, <1>2

----------------------------------------------------------------------------
(* The backend modules *)

LEMMA BackendDoneCalm ==
    ASSUME NEW r \in Connections, NEW x \in http_response_backend_done(r)
    PROVE  Calm(r, x)
<1>1. \/ x = [r EXCEPT !.status = "error", !.mode = "direct"]
      \/ x = [r EXCEPT !.fin = TRUE]
      \/ x = [r EXCEPT !.fin = TRUE, !.wq = TRUE]
      \/ x = r
  BY DEF http_response_backend_done
<1>2. QED
  BY <1>1 DEF Calm, Connections

LEMMA BackendCloseCalm ==
    ASSUME NEW r \in Connections, NEW x \in backend_connection_close(r)
    PROVE  Calm(r, x)
<1> DEFINE y == [r EXCEPT !.hctx = FALSE, !.bfd = FALSE, !.tries = 0]
<1>1. 0 \in 0 .. reconnects
  BY TimeoutAssumption
<1>2. y \in Connections /\ Calm(r, y)
  BY <1>1 DEF Connections, Calm
<1>3. x \in http_response_backend_done(y) \/ x = y
  BY DEF backend_connection_close
<1> HIDE DEF y
<1>4. x = y \/ Calm(y, x)
  BY <1>2, <1>3, BackendDoneCalm
<1>5. QED
  BY <1>2, <1>4 DEF Calm

LEMMA SendRequestCalm ==
    ASSUME NEW r \in Connections, NEW o \in backend_send_request(r)
    PROVE  Calm(r, o.con) /\ o.con.state = r.state
<1>1. o.con.state = r.state
  <2>1. Handled(r, o.con, o.dfd, {})
    BY SendRequestHandled
  <2>2. QED
    BY <2>1 DEF Handled
<1>2. \/ \E ret : o = Out(r, ret, 0)
      \/ o = Out([r EXCEPT !.bfd = TRUE], "WAIT_FOR_EVENT", 1)
      \/ \E x \in backend_connection_close(r) :
            o = Out([x EXCEPT !.status = "error"], "FINISHED", -Fds(r.bfd))
      \/ o \in backend_reconnect(r)
  BY DEF backend_send_request
<1>3. CASE \E ret : o = Out(r, ret, 0)
  BY <1>1, <1>3 DEF Out, Calm
<1>4. CASE o = Out([r EXCEPT !.bfd = TRUE], "WAIT_FOR_EVENT", 1)
  <2>1. o.con = [r EXCEPT !.bfd = TRUE]
    BY <1>4 DEF Out
  <2>2. QED
    BY <1>1, <2>1 DEF Calm, Connections
<1>5. CASE \E x \in backend_connection_close(r) :
              o = Out([x EXCEPT !.status = "error"], "FINISHED", -Fds(r.bfd))
  <2>1. PICK x \in backend_connection_close(r) : o.con = [x EXCEPT !.status = "error"]
    BY <1>5, SMTT(30) DEF Out
  <2>2. Handled(r, x, -Fds(r.bfd), {}) /\ Calm(r, x)
    BY BackendCloseHandled, BackendCloseCalm
  <2>3. x \in Connections
    BY <2>2 DEF Handled
  <2>4. Calm(x, o.con)
    BY <2>1, <2>3 DEF Calm, Connections
  <2>5. QED
    BY <1>1, <2>2, <2>4 DEF Calm
<1>6. CASE o \in backend_reconnect(r)
  <2>1. o.con = [r EXCEPT !.bfd = FALSE, !.tries = @ + 1]
    BY <1>6 DEF backend_reconnect, Out
  <2> DEFINE n == r.tries + 1
  <2>2. o.con = [r EXCEPT !.bfd = FALSE, !.tries = n]
    BY <2>1
  <2> HIDE DEF n
  <2>3. QED
    BY <1>1, <2>2 DEF Calm, Connections
<1>7. QED
  BY <1>2, <1>3, <1>4, <1>5, <1>6

LEMMA SubrequestConsumes ==
    ASSUME NEW r \in Connections, NEW o \in plugins_call_handle_subrequest(r)
    PROVE  Consumes(r, o.con)
<1>1. CASE o = Out(r, "GO_ON", 0)
  BY <1>1 DEF Out, Consumes
<1>2. ASSUME NEW p \in IF r.state = "READ_POST" \/ Due(r)
                       THEN connection_handle_read_post_state(r) ELSE {Out(r, "GO_ON", 0)},
             o \in IF p.ret = "GO_ON" THEN backend_send_request(p.con) ELSE {p}
      PROVE  Consumes(r, o.con)
  <2> DEFINE S == {"ERROR", "HANDLE_REQUEST"}
  <2>1. Handled(r, p.con, 0, S) /\ Consumes(r, p.con)
    <3>1. CASE p = Out(r, "GO_ON", 0)
      BY <3>1, Nothing DEF Out, Consumes
    <3>2. CASE p \in connection_handle_read_post_state(r)
      BY <3>2, ReadPostHandled, ReadPostConsumes
    <3>3. QED
      BY <1>2, <3>1, <3>2
  <2>2. p.con \in Connections
    BY <2>1 DEF Handled
  <2>3. o = p \/ o \in backend_send_request(p.con)
    BY <1>2
  <2>4. Consumes(p.con, o.con)
    BY <2>2, <2>3, SendRequestCalm DEF Calm, Consumes
  <2>5. QED
    BY <2>1, <2>4, ConsumesInTurn
<1>3. QED
  BY <1>1, <1>2 DEF plugins_call_handle_subrequest

(* backend_handle_fdevent() *)
LEMMA BackendEventCalm ==
    ASSUME NEW r \in Connections, NEW o \in backend_handle_fdevent(r)
    PROVE  Calm(r, o.con) /\ o.con.state = r.state
<1> DEFINE more == [r EXCEPT !.started = TRUE, !.wq = TRUE]
           failed == http_response_backend_error(r)
<1>1. o.con.state = r.state
  <2>1. Handled(r, o.con, o.dfd, {})
    BY BackendEventHandled
  <2>2. QED
    BY <2>1 DEF Handled
<1>2. more \in Connections /\ Calm(r, more)
  BY DEF Connections, Calm
<1>3. failed \in Connections /\ Calm(r, failed)
  <2>1. failed = [r EXCEPT !.mode = "direct", !.ka = FALSE, !.fin = TRUE] \/ failed = r
    BY DEF http_response_backend_error
  <2> HIDE DEF failed
  <2>2. CASE failed = [r EXCEPT !.mode = "direct", !.ka = FALSE, !.fin = TRUE]
    BY <2>2, ZenonT(40) DEF Connections, Calm
  <2>3. CASE failed = r
    BY <2>3 DEF Calm
  <2>4. QED
    BY <2>1, <2>2, <2>3
<1>4. \/ o = Out(r, "GO_ON", 0) \/ o = Out(more, "GO_ON", 0)
      \/ \E x \in backend_connection_close(more) \cup backend_connection_close(r)
                  \cup backend_connection_close(failed) : o = Out(x, "FINISHED", -Fds(r.bfd))
      \/ o \in backend_send_request(r)
  BY DEF backend_handle_fdevent
<1> HIDE DEF more, failed
<1>5. CASE o = Out(r, "GO_ON", 0) \/ o = Out(more, "GO_ON", 0)
  BY <1>1, <1>2, <1>5 DEF Out, Calm
<1>6. CASE \E x \in backend_connection_close(more) \cup backend_connection_close(r)
                  \cup backend_connection_close(failed) : o = Out(x, "FINISHED", -Fds(r.bfd))
  <2>1. PICK x : /\ o.con = x
                 /\ \/ x \in backend_connection_close(more)
                    \/ x \in backend_connection_close(r)
                    \/ x \in backend_connection_close(failed)
    BY <1>6 DEF Out
  <2>2. Calm(more, x) \/ Calm(r, x) \/ Calm(failed, x)
    BY <1>2, <1>3, <2>1, BackendCloseCalm
  <2>3. QED
    BY <1>1, <1>2, <1>3, <2>1, <2>2 DEF Calm
<1>7. CASE o \in backend_send_request(r)
  BY <1>7, SendRequestCalm
<1>8. QED
  BY <1>4, <1>5, <1>6, <1>7

----------------------------------------------------------------------------
(* Handling a request *)

(* A connection that will be kept alive although part of a body is still to come knows of that body:
   it is what connection_handle_response_end_state() looks at (Due). *)
Owes(r) == r.unread /\ r.ka => r.len

LEMMA PrepareOwes ==
    ASSUME NEW r \in Connections, Owes(r), NEW o \in http_response_prepare(r)
    PROVE  Owes(o.con)
<1>1. o.con.ka => r.ka
  <2>1. Handled(r, o.con, o.dfd, {"ERROR", "HANDLE_REQUEST"})
    BY PrepareHandled
  <2>2. QED
    BY <2>1 DEF Handled
<1>2. o.con.len = r.len /\ (o.con.unread => r.unread)
  <2>1. CASE r.mode = "direct" /\ ~Undecided(r)
    <3> DEFINE b == r.fin /\ r.wq
    <3>1. o.con = [r EXCEPT !.wq = b]
      BY <2>1 DEF http_response_prepare, Out
    <3> HIDE DEF b
    <3>2. QED
      BY <3>1 DEF Connections
  <2>2. CASE Undecided(r)
    <3> DEFINE given == [r EXCEPT !.mode = "backend", !.hctx = TRUE]
    <3>1. \/ o.con = [r EXCEPT !.wq = TRUE, !.fin = TRUE, !.status = "ok"]
          \/ o.con = [r EXCEPT !.status = "error"]
          \/ o.con = [r EXCEPT !.status = "404"]
          \/ o.con = r
          \/ o \in plugins_call_handle_subrequest(given)
      BY <2>2, ChoiceAssumption DEF http_response_prepare, Undecided, Out
    <3>2. given \in Connections /\ given.len = r.len /\ given.unread = r.unread
      BY DEF Connections
    <3>3. CASE o \in plugins_call_handle_subrequest(given)
      <4> HIDE DEF given
      <4>1. Consumes(given, o.con)
        BY <3>2, <3>3, SubrequestConsumes
      <4>2. QED
        BY <3>2, <4>1 DEF Consumes
    <3>4. QED
      BY <3>1, <3>3 DEF Connections
  <2>3. CASE r.mode # "direct"
    <3>1. PICK p \in plugins_call_handle_subrequest(r) :
             o = IF p.ret = "GO_ON" THEN Out(p.con, "FINISHED", 0) ELSE p
      BY <2>3 DEF http_response_prepare, Undecided
    <3>2. Consumes(r, p.con) /\ o.con = p.con
      BY <3>1, SubrequestConsumes DEF Out
    <3>3. QED
      BY <3>2 DEF Consumes
  <2>4. QED
    BY <2>1, <2>2, <2>3
<1>3. QED
  BY <1>1, <1>2 DEF Owes

(* The error handler forgets the length of the body it throws away; only a connection whose body was
   read stays to be kept alive then. *)
LEMMA RestartOwes ==
    ASSUME NEW r \in Connections, Owes(r), NEW o \in RestartForErrorHandler(r)
    PROVE  Owes(o.con)
<1>1. CASE error_handler = "all"
  <2>1. PICK keep \in IF ~r.len THEN {r.ka} ELSE IF r.unread THEN {FALSE} ELSE {r.ka, FALSE} :
           o = Restarted(r, keep)
    BY <1>1 DEF RestartForErrorHandler
  <2> DEFINE none == 0
             x == [r EXCEPT !.hctx = FALSE, !.bfd = FALSE, !.tries = none,
                            !.ka = keep, !.len = FALSE, !.wr = TRUE, !.fin = FALSE,
                            !.started = FALSE, !.eh = "new", !.wq = FALSE, !.status = "none"]
  <2>2. o.con = x
    BY <2>1 DEF Restarted, Out
  <2>3. x.unread = r.unread /\ x.ka = keep
    BY DEF Connections
  <2> HIDE DEF x
  <2>4. ~(r.unread /\ keep)
    BY <2>1 DEF Owes
  <2>5. QED
    BY <2>2, <2>3, <2>4 DEF Owes
<1>2. CASE error_handler # "all"
  <2>1. o.con = [r EXCEPT !.eh = "old", !.wq = FALSE, !.status = "none"]
    BY <1>2 DEF RestartForErrorHandler, Out
  <2>2. QED
    BY <2>1 DEF Owes, Connections
<1>3. QED
  BY <1>1, <1>2

LEMMA DecidedOwes ==
    ASSUME NEW r \in Connections, Owes(r), NEW p \in http_response_prepare(r), NEW o \in Decided(p)
    PROVE  Owes(o.con)
<1>1. Handled(r, p.con, p.dfd, {"ERROR", "HANDLE_REQUEST"}) /\ Owes(p.con)
  BY PrepareHandled, PrepareOwes
<1>2. p.con \in Connections
  BY <1>1 DEF Handled
<1>3. \/ \E e \in RestartForErrorHandler(p.con) : o = Out(e.con, e.ret, e.dfd + p.dfd)
      \/ o = Out(StartResponse(p.con), "FINISHED", p.dfd)
      \/ o = Out([p.con EXCEPT !.state = "ERROR"], p.ret, p.dfd)
      \/ o = p
  BY DEF Decided
<1>4. CASE \E e \in RestartForErrorHandler(p.con) : o = Out(e.con, e.ret, e.dfd + p.dfd)
  <2>1. PICK e \in RestartForErrorHandler(p.con) : o.con = e.con
    BY <1>4 DEF Out
  <2>2. QED
    BY <1>1, <1>2, <2>1, RestartOwes
<1>5. CASE o = Out(StartResponse(p.con), "FINISHED", p.dfd)
  <2> DEFINE v == CASE p.con.mode = "direct" /\ p.con.eh = "new" -> "error"
                    [] p.con.status = "none" -> "ok"
                    [] OTHER -> p.con.status
  <2>1. o.con = [p.con EXCEPT !.state = "RESPONSE_START", !.status = v]
    BY <1>5 DEF Out, StartResponse
  <2> HIDE DEF v
  <2>2. QED
    BY <1>1, <1>2, <2>1 DEF Owes, Connections
<1>6. CASE o = Out([p.con EXCEPT !.state = "ERROR"], p.ret, p.dfd)
  <2>1. o.con = [p.con EXCEPT !.state = "ERROR"]
    BY <1>6 DEF Out
  <2>2. QED
    BY <1>1, <1>2, <2>1 DEF Owes, Connections
<1>7. QED
  BY <1>1, <1>3, <1>4, <1>5, <1>6

----------------------------------------------------------------------------
(* The refinement *)

(* Where no request is there nothing is left of one: no body to come and no backend. *)
Clean(r) ==
    /\ r.state \in {"CONNECT", "REQUEST_START", "READ", "REQUEST_END", "CLOSE"} => ~r.unread /\ ~r.hctx
    /\ Owes(r)

ExchangeInv == \A c \in Con : Clean(con[c])

(* What a step may do to one connection: nothing an exchange sees, or a step of the exchange. *)
Moves(r, x) ==
    LET p == PhaseOf(r.state)
        q == PhaseOf(x.state)
        same == x.unread = r.unread
        none == ~x.unread /\ ~x.hctx
    IN  \/ p = q /\ same /\ x.hctx = r.hctx
        \/ p = q /\ p \in {"request", "response"}
        \/ p = q /\ p \in {"answered", "broken"} /\ same /\ ~x.hctx
        \/ p = "closed" /\ q = "idle" /\ none
        \/ p = "idle" /\ q = "request" /\ none
        \/ p = "request" /\ q = "response" /\ same
        \/ p = "response" /\ q = "answered"
        \/ p = "answered" /\ q = "idle" /\ ~r.unread /\ none
        \/ p \in {"idle", "lingering"} /\ q = "broken" /\ none
        \/ p \in {"request", "response"} /\ q = "broken"
        \/ p = "answered" /\ q = "broken" /\ same /\ x.hctx = r.hctx
        \/ p \in {"answered", "broken"} /\ q = "lingering" /\ none
        \/ p \in {"answered", "broken", "lingering"} /\ q = "closed" /\ none

Good(r, x) == x \in Connections /\ Moves(r, x) /\ Clean(x)

ExchangeView == <<[c \in Con |-> PhaseOf(con[c].state)], [c \in Con |-> con[c].unread],
                  [c \in Con |-> con[c].hctx]>>

LEMMA MoveOfStep ==
    ASSUME con \in [Con -> Connections], NEW c \in Con, NEW x, con' = [con EXCEPT ![c] = x]
    PROVE  Exch!Move(c, PhaseOf(con[c].state), PhaseOf(x.state), x.unread, x.hctx)
<1>1. ASSUME NEW d \in Con PROVE con'[d] = IF d = c THEN x ELSE con[d]
  OBVIOUS
<1>2. [d \in Con |-> PhaseOf(con[d].state)]'
        = [[d \in Con |-> PhaseOf(con[d].state)] EXCEPT ![c] = PhaseOf(x.state)]
  BY <1>1
<1>3. [d \in Con |-> con[d].unread]' = [[d \in Con |-> con[d].unread] EXCEPT ![c] = x.unread]
  BY <1>1
<1>4. [d \in Con |-> con[d].hctx]' = [[d \in Con |-> con[d].hctx] EXCEPT ![c] = x.hctx]
  BY <1>1
<1>5. [d \in Con |-> PhaseOf(con[d].state)][c] = PhaseOf(con[c].state)
  OBVIOUS
<1>6. QED
  BY <1>2, <1>3, <1>4, <1>5 DEF Exch!Move

LEMMA NoMove ==
    ASSUME con \in [Con -> Connections],
           \A c \in Con : /\ PhaseOf(con'[c].state) = PhaseOf(con[c].state)
                          /\ con'[c].unread = con[c].unread
                          /\ con'[c].hctx = con[c].hctx
    PROVE  UNCHANGED ExchangeView
BY DEF ExchangeView

(* Each kind of move is an action of the exchange. *)
LEMMA StepOfMove ==
    ASSUME con \in [Con -> Connections], NEW c \in Con, NEW x, x \in Connections,
           con' = [con EXCEPT ![c] = x], Moves(con[c], x)
    PROVE  [Exch!Next]_ExchangeView
<1> DEFINE r == con[c]
           p == PhaseOf(r.state)
           q == PhaseOf(x.state)
           b == x.unread
           h == x.hctx
<1>1. Exch!Move(c, p, q, b, h)
  BY MoveOfStep
<1>2. b \in BOOLEAN /\ h \in BOOLEAN
  BY DEF Connections
<1>3. /\ [d \in Con |-> con[d].unread][c] = r.unread
      /\ [d \in Con |-> con[d].hctx][c] = r.hctx
  OBVIOUS
<1>4. CASE p = q /\ b = r.unread /\ h = r.hctx
  <2>1. \A d \in Con : con'[d] = IF d = c THEN x ELSE con[d]
    OBVIOUS
  <2>2. UNCHANGED ExchangeView
    BY <1>4, <2>1, NoMove
  <2>3. QED
    BY <2>2
<1>5. SUFFICES ASSUME ~(p = q /\ b = r.unread /\ h = r.hctx)
               PROVE  \/ Exch!Accept(c) \/ Exch!Receive(c) \/ Exch!Work(c) \/ Exch!Answer(c)
                      \/ Exch!Complete(c) \/ Exch!Release(c) \/ Exch!KeepAlive(c) \/ Exch!Break(c)
                      \/ Exch!Linger(c) \/ Exch!Close(c)
  BY <1>4 DEF Exch!Next
<1> DEFINE none == b = FALSE /\ h = FALSE
<1>6. \/ p = q /\ p \in {"request", "response"}
      \/ p = q /\ p \in {"answered", "broken"} /\ b = r.unread /\ h = FALSE
      \/ p = "closed" /\ q = "idle" /\ none
      \/ p = "idle" /\ q = "request" /\ none
      \/ p = "request" /\ q = "response" /\ b = r.unread
      \/ p = "response" /\ q = "answered"
      \/ p = "answered" /\ q = "idle" /\ ~r.unread /\ none
      \/ p \in {"idle", "lingering"} /\ q = "broken" /\ none
      \/ p \in {"request", "response"} /\ q = "broken"
      \/ p = "answered" /\ q = "broken" /\ b = r.unread /\ h = r.hctx
      \/ p \in {"answered", "broken"} /\ q = "lingering" /\ none
      \/ p \in {"answered", "broken", "lingering"} /\ q = "closed" /\ none
  BY <1>2, <1>5 DEF Moves
<1> HIDE DEF p, q, b, h, r
<1>7. CASE p = q /\ p \in {"request", "response"}
  BY <1>1, <1>2, <1>7 DEF Exch!Work
<1>8. CASE p = q /\ p \in {"answered", "broken"} /\ b = r.unread /\ h = FALSE
  BY <1>1, <1>3, <1>8 DEF Exch!Release
<1>9. CASE p = "closed" /\ q = "idle" /\ none
  BY <1>1, <1>9 DEF Exch!Accept
<1>10. CASE p = "idle" /\ q = "request" /\ none
  BY <1>1, <1>10 DEF Exch!Receive
<1>11. CASE p = "request" /\ q = "response" /\ b = r.unread
  BY <1>1, <1>2, <1>3, <1>11 DEF Exch!Answer
<1>12. CASE p = "response" /\ q = "answered"
  BY <1>1, <1>2, <1>12 DEF Exch!Complete
<1>13. CASE p = "answered" /\ q = "idle" /\ ~r.unread /\ none
  BY <1>1, <1>3, <1>13 DEF Exch!KeepAlive
<1>14. CASE p \in {"idle", "lingering"} /\ q = "broken" /\ none
  BY <1>1, <1>14 DEF Exch!Break
<1>15. CASE p \in {"request", "response"} /\ q = "broken"
  BY <1>1, <1>2, <1>15 DEF Exch!Break
<1>16. CASE p = "answered" /\ q = "broken" /\ b = r.unread /\ h = r.hctx
  <2>1. Exch!Move(c, p, q, [d \in Con |-> con[d].unread][c], [d \in Con |-> con[d].hctx][c])
    BY <1>1, <1>3, <1>16 DEF Exch!Move
  <2>2. QED
    BY <1>16, <2>1 DEF Exch!Break, Exch!Move
<1>17. CASE p \in {"answered", "broken"} /\ q = "lingering" /\ none
  BY <1>1, <1>17 DEF Exch!Linger
<1>18. CASE p \in {"answered", "broken", "lingering"} /\ q = "closed" /\ none
  BY <1>1, <1>18 DEF Exch!Close
<1>19. QED
  BY <1>6, <1>7, <1>8, <1>9, <1>10, <1>11, <1>12, <1>13, <1>14, <1>15, <1>16, <1>17, <1>18

Maps == ExchangeInv' /\ [Exch!Next]_ExchangeView

LEMMA GoodStep ==
    ASSUME Parts, ExchangeInv, NEW c \in Con, NEW x, Good(con[c], x), con' = [con EXCEPT ![c] = x]
    PROVE  Maps
<1>1. con \in [Con -> Connections]
  BY DEF Parts, ConInv
<1>2. [Exch!Next]_ExchangeView
  BY <1>1, StepOfMove DEF Good
<1>3. ExchangeInv'
  BY <1>1 DEF ExchangeInv, Good
<1>4. QED
  BY <1>2, <1>3 DEF Maps

(* A step that changes nothing an exchange sees. *)
Unseen(r, x) ==
    /\ x.state = r.state /\ x.unread = r.unread /\ x.hctx = r.hctx
    /\ x.len = r.len /\ x.ka = r.ka

LEMMA UnseenGood ==
    ASSUME NEW r, Clean(r), NEW x, x \in Connections, Unseen(r, x)
    PROVE  Good(r, x)
BY DEF Unseen, Good, Moves, Clean, Owes

(* A connection fails. *)
LEMMA FailedGood ==
    ASSUME NEW r \in Connections, Clean(r), r.state # "CONNECT", NEW x, x \in Connections,
           x.state = "ERROR", x.unread = r.unread, x.hctx = r.hctx, x.len = r.len, x.ka => r.ka
    PROVE  Good(r, x)
<1>1. Clean(x)
  BY DEF Clean, Owes
<1>2. r.state \in ConState \ {"CONNECT"}
  BY ConnectionFields
<1>3. Moves(r, x)
  BY <1>2 DEF Moves, Clean, PhaseOf, ConState
<1>4. QED
  BY <1>1, <1>3 DEF Good

(* A request that is worked on. *)
LEMMA WorkGood ==
    ASSUME NEW r, NEW x \in Connections, Owes(x),
           \/ /\ r.state \in {"REQUEST_END", "READ_POST", "HANDLE_REQUEST"}
              /\ x.state \in {"READ_POST", "HANDLE_REQUEST", "RESPONSE_START", "ERROR"}
           \/ r.state = "WRITE" /\ x.state \in {"WRITE", "RESPONSE_END", "ERROR"}
    PROVE  Good(r, x)
<1>1. Clean(x)
  BY DEF Clean
<1>2. Moves(r, x)
  BY DEF Moves, PhaseOf
<1>3. QED
  BY <1>1, <1>2 DEF Good

LEMMA RequestStartGood ==
    ASSUME Parts, ExchangeInv, SmRequestStart
    PROVE  Maps
<1> DEFINE r == con[cur]
           n == r.count + 1
           x == [r EXCEPT !.rage = 0, !.count = n, !.state = "READ"]
<1>1. con' = [con EXCEPT ![cur] = x] /\ r.state = "REQUEST_START"
  BY DEF SmRequestStart, Running, Round
<1>2. cur \in Con /\ r \in Connections /\ Sound(r) /\ Clean(r)
  BY CurOfParts DEF ExchangeInv
<1>3. x \in Connections
  <2>1. Parts'
    BY RequestStartStep
  <2>2. con' \in [Con -> Connections]
    BY <2>1 DEF Parts, ConInv
  <2>3. con'[cur] = x
    BY <1>1, <1>2 DEF Parts, ConInv
  <2>4. QED
    BY <1>2, <2>2, <2>3
<1> HIDE DEF n
<1>4. x.state = "READ" /\ x.unread = r.unread /\ x.hctx = r.hctx /\ x.len = r.len /\ x.ka = r.ka
  BY <1>2 DEF Connections
<1> HIDE DEF x, r
<1>5. Good(r, x)
  BY <1>1, <1>2, <1>3, <1>4 DEF Good, Moves, PhaseOf, Clean, Owes
<1>6. QED
  BY <1>1, <1>2, <1>5, GoodStep DEF r

(* connection_handle_read_state(): what it finds may be a request, which has neither a body nor a
   backend yet. *)
LEMMA ReadGood ==
    ASSUME NEW r \in Connections, Clean(r), r.state = "READ", NEW x \in connection_handle_read_state(r)
    PROVE  Good(r, x)
<1>1. Calm(r, x) /\ Handled(r, x, 0, {"REQUEST_END", "ERROR", "HANDLE_REQUEST"})
  BY ReadStateCalm, ReadStateHandled
<1>2. x \in Connections /\ x.state \in {"READ", "REQUEST_END", "ERROR", "HANDLE_REQUEST"}
  BY <1>1 DEF Handled
<1>3. ~x.unread /\ ~x.hctx /\ r.unread = x.unread /\ r.hctx = x.hctx
  BY <1>1, <1>2 DEF Calm, Clean, Connections
<1>4. QED
  BY <1>2, <1>3 DEF Good, Moves, PhaseOf, Clean, Owes

LEMMA ParseGood ==
    ASSUME NEW r \in Connections, Clean(r), r.state = "REQUEST_END", NEW x \in http_request_parse(r)
    PROVE  Good(r, x)
<1>1. x \in Connections /\ x.state \in {"HANDLE_REQUEST", "READ_POST"}
  BY ParseTyped
<1>2. Owes(x)
  <2>1. PICK req \in Requests, keep \in BOOLEAN : x = Parsed(r, req, keep)
    BY DEF http_request_parse
  <2>2. ~r.unread
    BY DEF Clean
  <2>3. CASE x = [r EXCEPT !.state = "HANDLE_REQUEST", !.status = "error", !.ka = FALSE]
    BY <2>2, <2>3 DEF Owes, Connections
  <2>4. CASE x = [r EXCEPT !.state = "HANDLE_REQUEST", !.ka = keep]
    BY <2>2, <2>4 DEF Owes, Connections
  <2>5. CASE x = [r EXCEPT !.state = "READ_POST", !.ka = keep, !.len = TRUE, !.unread = TRUE]
    BY <2>5 DEF Owes, Connections
  <2>6. QED
    BY <2>1, <2>3, <2>4, <2>5, ChoiceAssumption DEF Parsed
<1>3. QED
  BY <1>1, <1>2, WorkGood

(* connection_handle_write_prepare() *)
LEMMA WritePrepareGood ==
    ASSUME NEW r \in Connections, Clean(r), r.state = "RESPONSE_START",
           NEW x \in connection_handle_write_prepare(r)
    PROVE  Good(r, x)
<1> DEFINE full == [r EXCEPT !.fin = TRUE]
<1>1. PICK body, headeronly, close : /\ body = r \/ body = full
                                     /\ x = WritePrepared(body, headeronly, close)
  BY DEF connection_handle_write_prepare
<1>2. full \in Connections /\ full.unread = r.unread /\ full.len = r.len
  BY DEF Connections
<1> HIDE DEF full
<1>3. body \in Connections /\ body.unread = r.unread /\ body.len = r.len
  BY <1>1, <1>2
<1> DEFINE f == body.fin \/ headeronly
           l == /\ body.ka
                /\ body.count <= max_keep_alive_requests
                /\ max_keep_alive_idle # 0
                /\ ~close
<1>4. x = [body EXCEPT !.state = "WRITE", !.wq = TRUE, !.fin = f, !.ka = l]
  BY <1>1 DEF WritePrepared
<1> HIDE DEF f, l
<1>5. x.unread = body.unread /\ x.len = body.len
  BY <1>3, <1>4 DEF Connections
<1>6. Handled(r, x, 0, {"WRITE"}) /\ x.state = "WRITE"
  BY WritePrepareHandled
<1>7. x \in Connections /\ (x.ka => r.ka)
  BY <1>6 DEF Handled
<1>8. x.unread = r.unread /\ Clean(x)
  BY <1>3, <1>5, <1>6, <1>7 DEF Clean, Owes
<1>9. QED
  BY <1>6, <1>7, <1>8 DEF Good, Moves, PhaseOf

(* connection_handle_write(), and the end of a response that has nothing left to write *)
LEMMA WriteCalm ==
    ASSUME NEW r \in Connections, NEW x \in connection_handle_write(r)
    PROVE  Calm(r, x)
<1> DEFINE s == IF r.fin THEN "RESPONSE_END" ELSE r.state
<1>1. \/ x = [r EXCEPT !.wq = FALSE, !.wage = 0, !.state = s]
      \/ x = [r EXCEPT !.wage = 0, !.wr = FALSE]
      \/ x = [r EXCEPT !.wage = 0, !.wr = FALSE, !.tl = TRUE]
      \/ x = [r EXCEPT !.state = "ERROR"]
  BY ChoiceAssumption DEF connection_handle_write
<1> HIDE DEF s
<1>2. CASE x = [r EXCEPT !.wq = FALSE, !.wage = 0, !.state = s]
  BY <1>2 DEF Calm, Connections
<1>3. CASE x = [r EXCEPT !.wage = 0, !.wr = FALSE]
  BY <1>3 DEF Calm, Connections
<1>4. CASE x = [r EXCEPT !.wage = 0, !.wr = FALSE, !.tl = TRUE]
  BY <1>4 DEF Calm, Connections
<1>5. CASE x = [r EXCEPT !.state = "ERROR"]
  BY <1>5 DEF Calm, Connections
<1>6. QED
  BY <1>1, <1>2, <1>3, <1>4, <1>5

LEMMA WriteGood ==
    ASSUME NEW r \in Connections, Clean(r), r.state = "WRITE", NEW x \in connection_handle_write(r)
    PROVE  Good(r, x)
<1>1. Calm(r, x) /\ Handled(r, x, 0, {"RESPONSE_END", "ERROR"})
  BY WriteCalm, WriteHandled
<1>2. x \in Connections /\ x.state \in {"WRITE", "RESPONSE_END", "ERROR"} /\ Owes(x)
  BY <1>1 DEF Calm, Handled, Clean, Owes
<1>3. QED
  BY <1>2, WorkGood

LEMMA WrittenGood ==
    ASSUME NEW r \in Connections, Clean(r), r.state = "WRITE", NEW x \in Written(r)
    PROVE  /\ x \in Connections /\ Owes(x)
           /\ x.state \in {"WRITE", "RESPONSE_END", "ERROR"}
<1>1. CASE x \in connection_handle_write(r)
  <2>1. Calm(r, x) /\ Handled(r, x, 0, {"RESPONSE_END", "ERROR"})
    BY <1>1, WriteCalm, WriteHandled
  <2>2. QED
    BY <2>1 DEF Calm, Handled, Clean, Owes
<1>2. CASE x = [r EXCEPT !.state = "RESPONSE_END"]
  <2>1. "RESPONSE_END" \in ConState
    BY DEF ConState
  <2>2. QED
    BY <1>2, <2>1 DEF Clean, Owes, Connections
<1>3. CASE x = r
  BY <1>3 DEF Clean
<1>4. QED
  BY <1>1, <1>2, <1>3 DEF Written

(* CON_STATE_WRITE: write, then let the backend module add to the response. *)
LEMMA SmWriteGood == ASSUME Parts, ExchangeInv, SmWrite PROVE Maps
<1>1. PICK r \in Written(con[cur]) :
        IF r.state = "WRITE" /\ r.mode = "backend" /\ ~r.fin
        THEN \E o \in plugins_call_handle_subrequest(r) :
                LET x == IF o.ret \in {"COMEBACK", "ERROR"}
                         THEN [o.con EXCEPT !.state = "ERROR"] ELSE o.con
                IN  /\ cur_fds' = cur_fds + o.dfd
                    /\ Round(x, WriteAgain(x))
                    /\ IF o.ret = "WAIT_FOR_FD"
                       THEN fdwaitqueue_append
                       ELSE UNCHANGED <<want_fds, fdwaitqueue>>
        ELSE /\ Round(r, WriteAgain(r))
             /\ UNCHANGED <<cur_fds, want_fds, fdwaitqueue>>
  BY DEF SmWrite
<1>2. con[cur].state = "WRITE"
  BY DEF SmWrite, Running
<1>3. cur \in Con /\ con[cur] \in Connections /\ Clean(con[cur])
  BY CurOfParts DEF ExchangeInv
<1>4. r \in Connections /\ Owes(r) /\ r.state \in {"WRITE", "RESPONSE_END", "ERROR"}
  BY <1>2, <1>3, WrittenGood
<1>5. PICK x : /\ x \in Connections /\ Owes(x) /\ x.state \in {"WRITE", "RESPONSE_END", "ERROR"}
               /\ con' = [con EXCEPT ![cur] = x]
  <2>1. CASE ~(r.state = "WRITE" /\ r.mode = "backend" /\ ~r.fin)
    BY <1>1, <1>4, <2>1 DEF Round
  <2>2. CASE r.state = "WRITE" /\ r.mode = "backend" /\ ~r.fin
    <3>1. PICK o \in plugins_call_handle_subrequest(r) :
             \E a : Round(IF o.ret \in {"COMEBACK", "ERROR"}
                          THEN [o.con EXCEPT !.state = "ERROR"] ELSE o.con, a)
      BY <1>1, <2>2
    <3> DEFINE y == o.con
               x == IF o.ret \in {"COMEBACK", "ERROR"} THEN [y EXCEPT !.state = "ERROR"] ELSE y
    <3>2. con' = [con EXCEPT ![cur] = x]
      BY <3>1 DEF Round
    <3>3. Handled(r, y, o.dfd, {"ERROR", "HANDLE_REQUEST"}) /\ Consumes(r, y)
      BY <1>4, SubrequestHandled, SubrequestConsumes
    <3>4. y \in Connections /\ Owes(y) /\ y.state \in {"WRITE", "ERROR"}
      BY <1>4, <2>2, <3>3 DEF Handled, Consumes, Owes
    <3>5. "ERROR" \in ConState
      BY DEF ConState
    <3> HIDE DEF y
    <3>6. x \in Connections /\ Owes(x) /\ x.state \in {"WRITE", "ERROR"}
      <4>1. CASE x = [y EXCEPT !.state = "ERROR"]
        BY <3>4, <3>5, <4>1 DEF Owes, Connections
      <4>2. CASE x = y
        BY <3>4, <4>2
      <4>3. QED
        BY <4>1, <4>2
    <3> HIDE DEF x
    <3>7. QED
      BY <3>2, <3>6
  <2>3. QED
    BY <2>1, <2>2
<1>6. Good(con[cur], x)
  BY <1>2, <1>5, WorkGood
<1>7. QED
  BY <1>3, <1>5, <1>6, GoodStep

(* connection_handle_response_end_state(): the connection is kept alive only if all of the body was
   read, and whatever happens no backend is left. *)
LEMMA ResetClean ==
    ASSUME NEW r \in Connections
    PROVE  connection_reset(r).unread = r.unread /\ connection_reset(r).hctx = FALSE
BY DEF connection_reset, Connections

LEMMA CloseClean ==
    ASSUME NEW r \in Connections
    PROVE  connection_close(r).unread = FALSE /\ connection_close(r).hctx = r.hctx
BY DEF connection_close, Connections

LEMMA ResponseEndGood ==
    ASSUME NEW r \in Connections, Sound(r), Clean(r), r.state \in {"RESPONSE_END", "ERROR"},
           NEW x \in connection_handle_response_end_state(r)
    PROVE  Good(r, x)
<1>0. x \in Connections
  BY ResponseEndSound
<1>1. CASE r.ka /\ ~Due(r) /\ r.state # "ERROR" /\ x = [connection_reset(r) EXCEPT !.state = "REQUEST_START"]
  <2> DEFINE y == connection_reset(r)
  <2>1. y \in Connections /\ y.unread = r.unread /\ y.hctx = FALSE
    BY ResetTyped, ResetClean
  <2>2. ~r.unread
    BY <1>1 DEF Clean, Owes, Due
  <2> HIDE DEF y
  <2>3. x = [y EXCEPT !.state = "REQUEST_START"]
    BY <1>1 DEF y
  <2>4. x.state = "REQUEST_START" /\ ~x.unread /\ ~x.hctx
    BY <2>1, <2>2, <2>3 DEF Connections
  <2>5. QED
    BY <1>0, <1>1, <2>2, <2>4 DEF Good, Moves, PhaseOf, Clean, Owes
<1>2. CASE x \in connection_handle_shutdown([r EXCEPT !.ka = FALSE])
  <2> DEFINE q == [r EXCEPT !.ka = FALSE]
             y == connection_reset(q)
  <2>1. q \in Connections
    BY DEF Connections
  <2> HIDE DEF q
  <2>2. y \in Connections /\ y.hctx = FALSE
    BY <2>1, ResetTyped, ResetClean
  <2>3. x = [y EXCEPT !.cage = 0, !.state = "CLOSE", !.unread = FALSE] \/ x = connection_close(y)
    BY <1>2 DEF connection_handle_shutdown, q
  <2> HIDE DEF y
  <2>4. x.state \in {"CLOSE", "CONNECT"} /\ ~x.unread /\ ~x.hctx
    <3>1. CASE x = [y EXCEPT !.cage = 0, !.state = "CLOSE", !.unread = FALSE]
      BY <2>2, <3>1 DEF Connections
    <3>2. CASE x = connection_close(y)
      BY <2>2, <3>2, CloseTyped, CloseClean
    <3>3. QED
      BY <2>3, <3>1, <3>2
  <2>5. QED
    BY <1>0, <2>4 DEF Good, Moves, PhaseOf, Clean, Owes
<1>3. QED
  BY <1>1, <1>2 DEF connection_handle_response_end_state

LEMMA DrainUnseen ==
    ASSUME NEW r \in Connections, NEW x \in Drain(r)
    PROVE  Unseen(r, x) /\ x \in Connections
<1> DEFINE due == HTTP_LINGER_TIMEOUT + 1
<1>1. x = r \/ x = [r EXCEPT !.cage = due]
  BY DEF Drain
<1>2. x \in Connections
  BY DrainTyped
<1> HIDE DEF due
<1>3. QED
  BY <1>1, <1>2 DEF Unseen, Connections

LEMMA CloseGood ==
    ASSUME NEW r \in Connections, Clean(r), r.state = "CLOSE", NEW x \in connection_handle_close_state(r)
    PROVE  Good(r, x)
<1>1. PICK y \in Drain(r) : x = y \/ x = connection_close(y)
  BY DEF connection_handle_close_state
<1>2. Unseen(r, y) /\ y \in Connections
  BY DrainUnseen
<1>3. CASE x = y
  BY <1>2, <1>3, UnseenGood
<1>4. CASE x = connection_close(y)
  <2>1. x \in Connections /\ x.state = "CONNECT" /\ ~x.unread /\ x.hctx = y.hctx
    BY <1>2, <1>4, CloseTyped, CloseClean
  <2>2. ~x.hctx
    BY <1>2, <2>1 DEF Unseen, Clean
  <2>3. QED
    BY <2>1, <2>2 DEF Good, Moves, PhaseOf, Clean, Owes
<1>5. QED
  BY <1>1, <1>3, <1>4

----------------------------------------------------------------------------
(* Events and the passing of time *)

LEMMA ReventsGood ==
    ASSUME NEW r \in Connections, NEW revents
    PROVE  LET x == AfterRevents(r, revents)
           IN  /\ x \in Connections /\ x.unread = r.unread /\ x.hctx = r.hctx
               /\ x.len = r.len /\ x.ka = r.ka /\ x.state \in {r.state, "ERROR"}
<1> DEFINE i == r.rd \/ "IN" \in revents
           o == r.wr \/ "OUT" \in revents
           due == HTTP_LINGER_TIMEOUT + 1
           y == [r EXCEPT !.rd = i, !.wr = o]
           x == AfterRevents(r, revents)
<1>0. x \in Connections
  <2>1. Handled(r, x, 0, {"ERROR"})
    BY ReventsTyped
  <2>2. QED
    BY <2>1 DEF Handled
<1>1. i \in BOOLEAN /\ o \in BOOLEAN
  OBVIOUS
<1>2. \/ x = [y EXCEPT !.cage = due]
      \/ x = [y EXCEPT !.state = "ERROR"]
      \/ x = y
  BY DEF AfterRevents
<1> HIDE DEF i, o, due, x
<1>3. /\ y \in Connections /\ y.unread = r.unread /\ y.hctx = r.hctx
      /\ y.len = r.len /\ y.ka = r.ka /\ y.state = r.state
  BY <1>1, ZenonT(40) DEF Connections
<1> HIDE DEF y
<1>4. /\ x.unread = y.unread /\ x.hctx = y.hctx
      /\ x.len = y.len /\ x.ka = y.ka /\ x.state \in {y.state, "ERROR"}
  <2>1. CASE x = [y EXCEPT !.cage = due]
    BY <1>3, <2>1 DEF Connections
  <2>2. CASE x = [y EXCEPT !.state = "ERROR"]
    BY <1>3, <2>2 DEF Connections
  <2>3. QED
    BY <1>2, <2>1, <2>2
<1>5. QED
  BY <1>0, <1>3, <1>4 DEF x

LEMMA FdeventGood ==
    ASSUME NEW r \in Connections, Clean(r), r.state # "CONNECT", NEW revents,
           NEW x \in connection_handle_fdevent(r, revents)
    PROVE  Good(r, x)
<1> DEFINE y == AfterRevents(r, revents)
<1>1. /\ y \in Connections /\ y.unread = r.unread /\ y.hctx = r.hctx
      /\ y.len = r.len /\ y.ka = r.ka /\ y.state \in {r.state, "ERROR"}
  BY ReventsGood
<1>2. \/ y.state = "READ" /\ x \in connection_handle_read_state(y)
      \/ y.state = "WRITE" /\ x \in connection_handle_write(y)
      \/ y.state = "CLOSE" /\ x \in Drain(y)
      \/ x = y
  BY DEF connection_handle_fdevent
<1> HIDE DEF y
<1>3. CASE x = y
  <2>1. CASE y.state = r.state
    BY <1>1, <1>3, <2>1, UnseenGood DEF Unseen
  <2>2. CASE y.state = "ERROR"
    BY <1>1, <1>3, <2>2, FailedGood
  <2>3. QED
    BY <1>1, <2>1, <2>2
<1>4. CASE y.state \in {"READ", "WRITE", "CLOSE"} /\ x # y
  <2>1. Clean(y) /\ y.state = r.state
    BY <1>1, <1>4 DEF Clean, Owes
  <2>2. Good(y, x)
    <3>1. CASE y.state = "READ" /\ x \in connection_handle_read_state(y)
      BY <1>1, <2>1, <3>1, ReadGood
    <3>2. CASE y.state = "WRITE" /\ x \in connection_handle_write(y)
      BY <1>1, <2>1, <3>2, WriteGood
    <3>3. CASE y.state = "CLOSE" /\ x \in Drain(y)
      BY <1>1, <2>1, <3>3, DrainUnseen, UnseenGood
    <3>4. QED
      BY <1>2, <1>4, <3>1, <3>2, <3>3
  <2>3. QED
    BY <1>1, <2>1, <2>2 DEF Good, Moves
<1>5. QED
  BY <1>2, <1>3, <1>4

LEMMA BackendEventGood ==
    ASSUME NEW r \in Connections, Clean(r), NEW o \in backend_handle_fdevent(r)
    PROVE  Good(r, o.con)
<1> DEFINE x == o.con
<1>1. Calm(r, x) /\ x.state = r.state /\ Handled(r, x, o.dfd, {})
  BY BackendEventCalm, BackendEventHandled
<1>2. x \in Connections /\ (x.ka => r.ka) /\ x.hctx \in BOOLEAN /\ r.hctx \in BOOLEAN
  BY <1>1 DEF Handled, Connections
<1>3. Clean(x)
  BY <1>1, <1>2 DEF Calm, Clean, Owes
<1>4. Moves(r, x)
  <2>1. x.unread = r.unread /\ (x.hctx => r.hctx)
    BY <1>1 DEF Calm
  <2>2. r.state \in ConState
    BY ConnectionFields
  <2>3. x.hctx = r.hctx \/ (r.hctx /\ ~x.hctx)
    BY <1>2, <2>1
  <2>4. CASE x.hctx = r.hctx
    BY <1>1, <2>1, <2>4 DEF Moves
  <2>5. CASE r.hctx /\ ~x.hctx
    <3>1. r.state \notin {"CONNECT", "REQUEST_START", "READ", "REQUEST_END", "CLOSE"}
      BY <2>5 DEF Clean
    <3>2. PhaseOf(r.state) \in {"request", "response", "answered", "broken"}
      BY <2>2, <3>1 DEF PhaseOf, ConState
    <3>3. QED
      BY <1>1, <2>1, <2>5, <3>2 DEF Moves
  <2>6. QED
    BY <2>3, <2>4, <2>5
<1>5. QED
  BY <1>2, <1>3, <1>4 DEF Good

(* The scan for timeouts *)
LEMMA TimedOutGood ==
    ASSUME NEW r \in Connections, Sound(r), r.fd, Clean(r), NEW limited \in BOOLEAN
    PROVE  Good(r, [TimedOut(r) EXCEPT !.tl = limited])
<1> DEFINE t == TimedOut(r)
           x == [t EXCEPT !.tl = limited]
<1>1. x \in Connections
  BY TimedOutSound
<1>2. "ERROR" \in ConState /\ r.state # "CONNECT"
  BY DEF ConState, Sound
<1>3. t = [r EXCEPT !.state = "ERROR"] \/ t = r
  BY DEF TimedOut
<1> HIDE DEF t
<1>4. /\ t \in Connections /\ t.unread = r.unread /\ t.hctx = r.hctx
      /\ t.len = r.len /\ t.ka = r.ka /\ t.state \in {r.state, "ERROR"}
  <2>1. CASE t = [r EXCEPT !.state = "ERROR"]
    BY <1>2, <2>1 DEF Connections
  <2>2. CASE t = r
    BY <2>2
  <2>3. QED
    BY <1>3, <2>1, <2>2
<1>5. /\ x.unread = t.unread /\ x.hctx = t.hctx
      /\ x.len = t.len /\ x.ka = t.ka /\ x.state = t.state
  BY <1>4 DEF Connections
<1> HIDE DEF x
<1>6. CASE t.state = r.state
  <2>1. Unseen(r, x)
    BY <1>4, <1>5, <1>6 DEF Unseen
  <2>2. Good(r, x)
    BY <1>1, <2>1, UnseenGood
  <2>3. QED
    BY <2>2 DEF x, t
<1>7. CASE t.state = "ERROR"
  <2>1. Good(r, x)
    BY <1>1, <1>2, <1>4, <1>5, <1>7, FailedGood
  <2>2. QED
    BY <2>1 DEF x, t
<1>8. QED
  BY <1>4, <1>6, <1>7

LEMMA ScanSlotGood == ASSUME Parts, ExchangeInv, ScanSlot PROVE Maps
<1>1. PICK limited \in BOOLEAN : con' = [con EXCEPT ![ptr[k]] = [TimedOut(@) EXCEPT !.tl = limited]]
  BY DEF ScanSlot
<1>2. PICK c \in Con : c = ptr[k] /\ ndx[c] = k /\ k \in Nat
  <2>1. k \in Nat /\ k < used
    BY DEF ScanSlot, Parts, ScanForward
  <2>2. k \in 0 .. used - 1 /\ k \in 0 .. size - 1
    BY <2>1 DEF Parts, TableInv, TableTypeOK
  <2>3. ptr[k] \in Con /\ ndx[ptr[k]] = k
    BY <2>2 DEF Parts, TableInv, TableTypeOK, NdxInverse
  <2>4. QED
    BY <2>1, <2>3
<1>3. con[c] \in Connections /\ Sound(con[c]) /\ con[c].fd /\ Clean(con[c])
  BY <1>2 DEF Parts, ConInv, InTable, ExchangeInv
<1> DEFINE x == [TimedOut(con[c]) EXCEPT !.tl = limited]
<1>4. con' = [con EXCEPT ![c] = x]
  BY <1>1, <1>2
<1>5. Good(con[c], x)
  BY <1>3, TimedOutGood
<1> HIDE DEF x
<1>6. QED
  BY <1>4, <1>5, GoodStep

LEMMA InterestUnseen ==
    ASSUME NEW r \in Connections
    PROVE  Unseen(r, UpdateInterest(r))
<1> DEFINE e == Interest(r)
           p == r.polled \/ e # r.ev
           a == IF "IN" \in e \ r.ev THEN 0 ELSE r.rage
           w == IF "OUT" \in e \ r.ev THEN 0 ELSE r.wage
<1>1. UpdateInterest(r) = r \/ UpdateInterest(r) = [r EXCEPT !.ev = e, !.polled = p, !.rage = a, !.wage = w]
  BY DEF UpdateInterest
<1> HIDE DEF e, p, a, w
<1>2. QED
  BY <1>1 DEF Unseen, Connections

LEMMA AgedUnseen ==
    ASSUME NEW r \in Connections
    PROVE  Unseen(r, Aged(r))
<1> DEFINE a == IF "IN" \in r.ev
                THEN Older(r.rage, Bigger(max_read_idle, max_keep_alive_idle)) ELSE r.rage
           w == IF r.wage = -1 THEN r.wage ELSE Older(r.wage, max_write_idle)
           c == IF r.state = "CLOSE" THEN Older(r.cage, HTTP_LINGER_TIMEOUT) ELSE r.cage
<1>1. Aged(r) = [r EXCEPT !.rage = a, !.wage = w, !.cage = c]
  BY DEF Aged
<1> HIDE DEF a, w, c
<1>2. QED
  BY <1>1 DEF Unseen, Connections

LEMMA TickGood == ASSUME Parts, ExchangeInv, Tick PROVE Maps
<1>1. con' = [c \in Con |-> Aged(con[c])]
  BY DEF Tick
<1>2. con \in [Con -> Connections]
  BY DEF Parts, ConInv
<1>3. ASSUME NEW c \in Con PROVE Unseen(con[c], con'[c]) /\ Clean(con'[c])
  <2>1. Unseen(con[c], con'[c])
    BY <1>1, <1>2, AgedUnseen
  <2>2. QED
    BY <2>1 DEF Unseen, Clean, Owes, ExchangeInv
<1>4. UNCHANGED ExchangeView
  BY <1>2, <1>3, NoMove DEF Unseen
<1>5. QED
  BY <1>3, <1>4 DEF Maps, ExchangeInv

(* Accepting: the object of an earlier connection starts again. *)
LEMMA AcceptGood ==
    ASSUME Parts, ExchangeInv, NEW c \in Con, connection_accept(c) \/ AcceptFailed(c)
    PROVE  Maps
<1> DEFINE r == con[c]
           y == connection_reset(r)
           x == [y EXCEPT !.fd = TRUE, !.state = "REQUEST_START"]
<1>1. con' = [con EXCEPT ![c] = x] /\ connections_get_new_connection(c)
  BY DEF connection_accept, AcceptFailed, connection_accepted
<1>2. r \in Connections /\ Sound(r) /\ Clean(r) /\ (r.fd <=> InTable(c))
  BY DEF Parts, ConInv, ExchangeInv
<1>3. ~InTable(c)
  BY <1>1, NewIndex DEF Parts
<1>4. r.state = "CONNECT" /\ ~r.unread
  BY <1>2, <1>3 DEF Sound, Clean
<1>5. y \in Connections /\ y.unread = r.unread /\ y.hctx = FALSE
  BY <1>2, ResetTyped, ResetClean
<1> HIDE DEF y
<1>6. "REQUEST_START" \in ConState
  BY DEF ConState
<1>7. x \in Connections /\ x.state = "REQUEST_START" /\ x.unread = y.unread /\ x.hctx = FALSE
  BY <1>5, <1>6 DEF Connections
<1> HIDE DEF x, r
<1>8. Good(r, x)
  BY <1>4, <1>5, <1>7 DEF Good, Moves, PhaseOf, Clean, Owes
<1>9. QED
  BY <1>1, <1>8, GoodStep DEF r

LEMMA EventGood ==
    ASSUME Parts, ExchangeInv, NEW c \in Con, ClientEvent(c) \/ BackendEvent(c)
    PROVE  Maps
<1>1. con[c] \in Connections /\ Sound(con[c]) /\ Clean(con[c])
  BY DEF Parts, ConInv, ExchangeInv
<1>2. CASE ClientEvent(c)
  <2>a. PICK revents \in Revents(con[c]) :
           \E x \in connection_handle_fdevent(con[c], revents) : con' = [con EXCEPT ![c] = x]
    BY <1>2 DEF ClientEvent
  <2>1. PICK x \in connection_handle_fdevent(con[c], revents) : con' = [con EXCEPT ![c] = x]
    BY <2>a
  <2>2. con[c].state # "CONNECT"
    BY <1>1, <1>2 DEF ClientEvent, Parts, EventsOfOpen, Sound
  <2>3. QED
    BY <1>1, <2>1, <2>2, FdeventGood, GoodStep
<1>3. CASE BackendEvent(c)
  <2>1. PICK o \in backend_handle_fdevent(con[c]) : con' = [con EXCEPT ![c] = o.con]
    BY <1>3 DEF BackendEvent
  <2>2. QED
    BY <1>1, <2>1, BackendEventGood, GoodStep
<1>4. QED
  BY <1>2, <1>3

(* A round of the state machine, and its end *)
LEMMA MachineGood ==
    ASSUME Parts, ExchangeInv, StateMachine
    PROVE  Maps
<1>0. cur \in Con /\ con[cur] \in Connections /\ Sound(con[cur]) /\ Clean(con[cur])
  BY CurOfParts DEF ExchangeInv
<1>1. CASE SmRead
  <2>1. PICK x \in connection_handle_read_state(con[cur]) : con' = [con EXCEPT ![cur] = x]
    BY <1>1 DEF SmRead, Round
  <2>2. con[cur].state = "READ"
    BY <1>1 DEF SmRead, Running
  <2>3. QED
    BY <1>0, <2>1, <2>2, ReadGood, GoodStep
<1>2. CASE SmRequestEnd
  <2>1. PICK x \in http_request_parse(con[cur]) : con' = [con EXCEPT ![cur] = x]
    BY <1>2 DEF SmRequestEnd, Round
  <2>2. con[cur].state = "REQUEST_END"
    BY <1>2 DEF SmRequestEnd, Running
  <2>3. QED
    BY <1>0, <2>1, <2>2, ParseGood, GoodStep
<1>3. CASE SmHandleRequest
  <2>1. PICK o : /\ \E p \in http_response_prepare(con[cur]) : o \in Decided(p)
                 /\ con' = [con EXCEPT ![cur] = o.con]
    BY <1>3 DEF SmHandleRequest, Round
  <2>2. PICK p \in http_response_prepare(con[cur]) : o \in Decided(p)
    BY <2>1
  <2>3. con[cur].state \in {"READ_POST", "HANDLE_REQUEST"} /\ Owes(con[cur])
    BY <1>0, <1>3 DEF SmHandleRequest, Running, Clean
  <2>4. Handled(con[cur], o.con, o.dfd, {"ERROR", "HANDLE_REQUEST", "RESPONSE_START"}) /\ Owes(o.con)
    BY <1>0, <2>2, <2>3, DecidedHandled, DecidedOwes
  <2>5. o.con \in Connections /\ o.con.state \in {"READ_POST", "HANDLE_REQUEST", "RESPONSE_START", "ERROR"}
    BY <2>3, <2>4 DEF Handled
  <2>6. Good(con[cur], o.con)
    BY <2>3, <2>4, <2>5, WorkGood
  <2>7. QED
    BY <1>0, <2>1, <2>6, GoodStep
<1>4. CASE SmResponseStart
  <2>1. PICK x \in connection_handle_write_prepare(con[cur]) : con' = [con EXCEPT ![cur] = x]
    BY <1>4 DEF SmResponseStart, Round
  <2>2. con[cur].state = "RESPONSE_START"
    BY <1>4 DEF SmResponseStart, Running
  <2>3. QED
    BY <1>0, <2>1, <2>2, WritePrepareGood, GoodStep
<1>5. CASE SmResponseEnd
  <2>1. PICK x \in connection_handle_response_end_state(con[cur]) : con' = [con EXCEPT ![cur] = x]
    BY <1>5 DEF SmResponseEnd, EndWith, Round
  <2>2. con[cur].state \in {"RESPONSE_END", "ERROR"}
    BY <1>5 DEF SmResponseEnd, Running
  <2>3. QED
    BY <1>0, <2>1, <2>2, ResponseEndGood, GoodStep
<1>6. CASE SmClose
  <2>1. PICK x \in connection_handle_close_state(con[cur]) : con' = [con EXCEPT ![cur] = x]
    BY <1>6 DEF SmClose, EndWith, Round
  <2>2. con[cur].state = "CLOSE"
    BY <1>6 DEF SmClose, Running
  <2>3. QED
    BY <1>0, <2>1, <2>2, CloseGood, GoodStep
<1>7. CASE SmConnect
  <2> DEFINE none == 0
             x == [con[cur] EXCEPT !.rq = "none", !.count = none]
  <2>1. con' = [con EXCEPT ![cur] = x]
    BY <1>7 DEF SmConnect, Round
  <2>2. none \in 0 .. max_keep_alive_requests + 1 /\ "none" \in Queue
    BY TimeoutAssumption DEF Queue
  <2> HIDE DEF none
  <2>3. x \in Connections /\ Unseen(con[cur], x)
    BY <1>0, <2>2 DEF Connections, Unseen
  <2>4. QED
    BY <1>0, <2>1, <2>3, UnseenGood, GoodStep
<1>8. CASE SmExit
  <2>1. con' = [con EXCEPT ![cur] = UpdateInterest(con[cur])]
    BY <1>8 DEF SmExit
  <2>2. UpdateInterest(con[cur]) \in Connections /\ Unseen(con[cur], UpdateInterest(con[cur]))
    BY <1>0, InterestSound, InterestUnseen
  <2>3. QED
    BY <1>0, <2>1, <2>2, UnseenGood, GoodStep
<1>9. QED
  BY <1>1, <1>2, <1>3, <1>4, <1>5, <1>6, <1>7, <1>8, RequestStartGood, SmWriteGood DEF StateMachine

(* The main loop itself does not touch the connections. *)
LEMMA LoopGood == ASSUME Parts, ExchangeInv, con' = con PROVE Maps
<1>1. UNCHANGED ExchangeView
  BY DEF ExchangeView
<1>2. QED
  BY <1>1 DEF Maps, ExchangeInv

LEMMA ExchangeStep == ASSUME Parts, ExchangeInv, [Next]_vars PROVE Maps
<1>1. CASE UNCHANGED vars
  BY <1>1, LoopGood DEF vars
<1>2. CASE StateMachine
  BY <1>2, MachineGood
<1>3. CASE \/ LoopEnd \/ NoTick \/ ScanEnd \/ EnableSockets \/ DisableSockets \/ LeaveSockets
           \/ GracefulEnd \/ StayUp \/ fdwaitqueue_unshift \/ fdevent_poll \/ ListenEvent \/ AcceptEnd
           \/ DispatchEnd \/ RunJob \/ JobsEnd \/ SIGTERM \/ SIGINT
  <2>1. con' = con
    BY <1>3, Zenon DEF LoopEnd, NoTick, ScanEnd, EnableSockets, DisableSockets, LeaveSockets,
       GracefulEnd, StayUp, fdwaitqueue_unshift, fdevent_poll, ListenEvent, AcceptEnd, DispatchEnd,
       RunJob, JobsEnd, SIGTERM, SIGINT
  <2>2. QED
    BY <2>1, LoopGood
<1>4. ASSUME NEW c \in Con, ClientEvent(c) \/ BackendEvent(c) \/ connection_accept(c) \/ AcceptFailed(c)
      PROVE  Maps
  BY <1>4, EventGood, AcceptGood
<1>5. QED
  BY <1>1, <1>2, <1>3, <1>4, TickGood, ScanSlotGood DEF Next, Process

LEMMA ExchangeInit ==
    ASSUME Init
    PROVE  ExchangeInv /\ Exch!Init
<1>1. ASSUME NEW c \in Con
      PROVE  /\ con[c].state = "CONNECT" /\ con[c].unread = FALSE /\ con[c].hctx = FALSE
             /\ PhaseOf(con[c].state) = "closed"
  BY DEF Init, connection_init, PhaseOf
<1>2. ExchangeInv
  BY <1>1 DEF ExchangeInv, Clean, Owes
<1>3. Exch!Init
  BY <1>1 DEF Exch!Init
<1>4. QED
  BY <1>2, <1>3

(* Every connection goes through exchanges of one request and one response: it is used for another
   request only when the response is complete and all of the request's body was read, never after an
   error, and whenever no request is there no backend holds one, whatever the clients, the backends
   and the timeouts do and in whatever order. *)
THEOREM ServerImplementsExchange == Spec => ImplementsExchange
<1>1. Init => Parts /\ ExchangeInv /\ Exch!Init
  BY PartsInit, ExchangeInit
<1>2. Parts /\ ExchangeInv /\ [Next]_vars => Parts' /\ Maps
  BY PartsStep, ExchangeStep
<1>3. Maps => ExchangeInv' /\ [Exch!Next]_ExchangeView
  BY DEF Maps
<1>4. QED
  BY <1>1, <1>2, <1>3, PTL DEF Spec, ImplementsExchange, Exch!Spec, ExchangeView
=============================================================================
