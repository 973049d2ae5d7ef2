-------------------------- MODULE ServicesProofs --------------------------
(***************************************************************************)
(* The services behind the server, for any number of them: the hosts that  *)
(* mod_proxy passes requests to, and the Redis that the workers charge for *)
(* the requests of a token, whatever replies are lost.                     *)
(***************************************************************************)
EXTENDS Proxy, Luna, FiniteSetTheorems, WellFoundedInduction, TLAPS

-----------------------------------------------------------------------------
(* The reverse proxy: a host's usage is the number of requests that hold it, however
   they end. *)

(* While a handler runs, a connection that was made is about to be written to. *)
Connected == {"CONNECT", "WRITE", "READ"}
MidContexts ==
    [state : {"none", "INIT", "CONNECT", "PREPARE_WRITE", "WRITE", "READ", "orphan"},
     host : PHost \cup {Nil}, fd : BOOLEAN, started : BOOLEAN]
PHosts == [usage : Int, disabled : 0 .. Pause]

(* What is true of a request between two handlers. *)
Fit(k) ==
    /\ k \in PContexts
    /\ k.host = Nil <=> k.state \in {"none", "orphan"}
    /\ k.fd <=> k.state \in Connected

(* A world in which c holds a host. *)
Holding(w, c) ==
    /\ w \in [ctx : [Con -> MidContexts], host : [PHost -> PHosts]]
    /\ w.ctx[c].host \in PHost

(* A handler of c leaves the other requests alone; c keeps its host, or gives it back. *)
OfOthers(w, x, c) == \A d \in Con \ {c} : x.ctx[d] = w.ctx[d]
KeepsIt(w, x, c) ==
    /\ x.ctx[c].host = w.ctx[c].host
    /\ \A h \in PHost : x.host[h].usage = w.host[h].usage
GivesBack(w, x, c) ==
    /\ x.ctx[c].host = Nil
    /\ x.host[w.ctx[c].host].usage = w.host[w.ctx[c].host].usage - 1
    /\ \A h \in PHost \ {w.ctx[c].host} : x.host[h].usage = w.host[h].usage

Goes(w, x, c) ==
    /\ x \in [ctx : [Con -> MidContexts], host : [PHost -> PHosts]]
    /\ OfOthers(w, x, c)
    /\ KeepsIt(w, x, c) \/ GivesBack(w, x, c)
ProxyHandled(w, x, c) == Goes(w, x, c) /\ Fit(x.ctx[c])

(* The pointer that is not set is no host. *)
LEMMA NilIsNoHost == Nil \notin PHost
BY ProxyAssumption DEF PHost

(* What a handler does after a part of it that kept the host, it does in all. *)
LEMMA GoesOn ==
    ASSUME NEW c \in Con, NEW w, NEW u, NEW x, Holding(w, c),
           Goes(w, u, c), KeepsIt(w, u, c), ProxyHandled(u, x, c)
    PROVE  ProxyHandled(w, x, c)
<1>1. OfOthers(w, x, c)
  BY DEF Goes, ProxyHandled, OfOthers
<1>2. CASE KeepsIt(u, x, c)
  <2>1. KeepsIt(w, x, c)
    BY <1>2 DEF KeepsIt
  <2> QED BY <1>1, <2>1 DEF Goes, ProxyHandled
<1>3. CASE GivesBack(u, x, c)
  <2>1. GivesBack(w, x, c)
    BY <1>3 DEF KeepsIt, GivesBack, Holding
  <2> QED BY <1>1, <2>1 DEF Goes, ProxyHandled
<1> QED BY <1>2, <1>3 DEF Goes, ProxyHandled

(* The request goes on with its host. *)
LEMMA Continued ==
    ASSUME NEW c \in Con, NEW w, Holding(w, c), NEW k \in MidContexts, k.host = w.ctx[c].host
    PROVE  LET x == [w EXCEPT !.ctx[c] = k]
           IN  Goes(w, x, c) /\ KeepsIt(w, x, c) /\ Holding(x, c) /\ x.ctx[c] = k
BY DEF Holding, Goes, KeepsIt, OfOthers

(* The next state of c. *)
Stage(w, c, s) == [w EXCEPT !.ctx[c].state = s]

(* proxy_set_state: the stage of the context changes, and nothing else of it. *)
LEMMA Staged ==
    ASSUME NEW c \in Con, NEW w, Holding(w, c),
           NEW s \in {"INIT", "CONNECT", "PREPARE_WRITE", "WRITE", "READ"}
    PROVE  LET x == Stage(w, c, s)
           IN  /\ Goes(w, x, c) /\ KeepsIt(w, x, c) /\ Holding(x, c)
               /\ x.ctx[c].state = s /\ x.ctx[c].fd = w.ctx[c].fd
<1> DEFINE k == [w.ctx[c] EXCEPT !.state = s]
<1>1. k \in MidContexts /\ k.host = w.ctx[c].host /\ k.state = s /\ k.fd = w.ctx[c].fd
  BY DEF Holding, MidContexts
<1>2. Stage(w, c, s) = [w EXCEPT !.ctx[c] = k]
  BY DEF Stage
<1> HIDE DEF k
<1>3. LET x == [w EXCEPT !.ctx[c] = k]
      IN  Goes(w, x, c) /\ KeepsIt(w, x, c) /\ Holding(x, c) /\ x.ctx[c] = k
  BY <1>1, Continued
<1> QED BY <1>1, <1>2, <1>3 DEF k

(* A request that is being served is fit if its descriptor is open. *)
LEMMA Serving ==
    ASSUME NEW c \in Con, NEW w, Holding(w, c), w.ctx[c].state \in Connected, w.ctx[c].fd
    PROVE  Fit(w.ctx[c])
BY NilIsNoHost DEF Holding, Fit, Connected, MidContexts, PContexts

(* proxy_connection_close() gives the host back. *)
LEMMA CloseHandled ==
    ASSUME NEW c \in Con, NEW w, Holding(w, c)
    PROVE  LET x == proxy_connection_close(w, c)
           IN  /\ ProxyHandled(w, x, c) /\ GivesBack(w, x, c)
               /\ x.ctx[c] = PNoContext
<1> DEFINE h == w.ctx[c].host
           n == w.host[h].usage - 1
           x == proxy_connection_close(w, c)
<1>1. h \in PHost /\ n \in Int /\ w.host[h].usage \in Int
  BY DEF Holding, PHosts
<1>2. x = [w EXCEPT !.ctx[c] = PNoContext, !.host[h].usage = n]
  BY DEF proxy_connection_close
<1>3. PNoContext \in MidContexts /\ Fit(PNoContext) /\ PNoContext.host = Nil
  BY DEF PNoContext, MidContexts, Fit, PContexts, Connected
<1>4. /\ x \in [ctx : [Con -> MidContexts], host : [PHost -> PHosts]]
      /\ x.ctx = [w.ctx EXCEPT ![c] = PNoContext]
      /\ x.host = [w.host EXCEPT ![h].usage = n]
  <2> HIDE DEF h, n, x
  <2> QED BY <1>1, <1>2, <1>3 DEF Holding, PHosts
<1>5. x.host[h].usage = n /\ \A g \in PHost \ {h} : x.host[g] = w.host[g]
  <2>1. w.host \in [PHost -> PHosts]
    BY DEF Holding
  <2> HIDE DEF h, n, x
  <2> QED BY <1>1, <1>4, <2>1 DEF PHosts
<1>6. x.ctx[c] = PNoContext /\ OfOthers(w, x, c)
  <2> HIDE DEF h, n, x
  <2> QED BY <1>4 DEF Holding, OfOthers
<1>7. GivesBack(w, x, c)
  <2> HIDE DEF x
  <2> QED BY <1>3, <1>5, <1>6 DEF GivesBack
<1> HIDE DEF x, h, n
<1> QED BY <1>3, <1>4, <1>6, <1>7 DEF ProxyHandled, Goes, x

(* So does disabling the host. *)
LEMMA DisabledHandled ==
    ASSUME NEW c \in Con, NEW w, Holding(w, c)
    PROVE  ProxyHandled(w, Disabled(w, c), c)
<1> DEFINE h == w.ctx[c].host
           v == [w EXCEPT !.host[h].disabled = Pause]
           y == proxy_connection_close(v, c)
           x == [y EXCEPT !.ctx[c].state = "orphan"]
<1>1. h \in PHost /\ Pause \in 0 .. Pause
  BY ProxyAssumption DEF Holding
<1>2. /\ v \in [ctx : [Con -> MidContexts], host : [PHost -> PHosts]]
      /\ v.ctx = w.ctx /\ v.host = [w.host EXCEPT ![h].disabled = Pause]
  <2> HIDE DEF h
  <2> QED BY <1>1 DEF Holding, PHosts
<1>3. Holding(v, c)
  <2> HIDE DEF v
  <2> QED BY <1>1, <1>2 DEF Holding
<1>4. ProxyHandled(v, y, c) /\ GivesBack(v, y, c) /\ y.ctx[c] = PNoContext
  <2> HIDE DEF v
  <2> QED BY <1>3, CloseHandled
<1>5. \A g \in PHost : v.host[g].usage = w.host[g].usage
  <2>1. w.host \in [PHost -> PHosts]
    BY DEF Holding
  <2> HIDE DEF v, h
  <2> QED BY <1>1, <1>2, <2>1 DEF PHosts
<1> DEFINE k == [PNoContext EXCEPT !.state = "orphan"]
<1>6. k \in MidContexts /\ Fit(k) /\ k.host = Nil
  BY DEF PNoContext, MidContexts, Fit, PContexts, Connected
<1>7. y \in [ctx : [Con -> MidContexts], host : [PHost -> PHosts]] /\ OfOthers(v, y, c)
  BY <1>4 DEF ProxyHandled, Goes
<1>8. /\ x \in [ctx : [Con -> MidContexts], host : [PHost -> PHosts]]
      /\ x.ctx[c] = k /\ x.host = y.host
      /\ \A d \in Con \ {c} : x.ctx[d] = y.ctx[d]
  <2>1. x = [y EXCEPT !.ctx[c] = [y.ctx[c] EXCEPT !.state = "orphan"]]
    OBVIOUS
  <2>2. x = [y EXCEPT !.ctx[c] = k]
    BY <1>4, <2>1
  <2> HIDE DEF y, k, x
  <2> QED BY <1>6, <1>7, <2>2
<1>9. OfOthers(w, x, c)
  <2> HIDE DEF x, y, v
  <2> QED BY <1>2, <1>7, <1>8 DEF OfOthers
<1>10. GivesBack(w, x, c)
  <2> HIDE DEF x, y, v, k
  <2> QED BY <1>1, <1>2, <1>4, <1>5, <1>6, <1>8 DEF GivesBack
<1>11. x = Disabled(w, c)
  BY DEF Disabled
<1> HIDE DEF x, y, v, k
<1> QED BY <1>6, <1>8, <1>9, <1>10, <1>11 DEF ProxyHandled, Goes

-----------------------------------------------------------------------------
(* The handlers *)

(* A request between two handlers that has a host. *)
Served(w, c) == Holding(w, c) /\ Fit(w.ctx[c])

(* The write of the request, with its retries, is within what a handler may do. *)
LEMMA WriteHandled ==
    ASSUME NEW c \in Con, NEW w, Holding(w, c), w.ctx[c].fd,
           NEW o \in PWriteRequest(w, c)
    PROVE  /\ Goes(w, o.w, c) /\ KeepsIt(w, o.w, c) /\ Holding(o.w, c)
           /\ ProxyHandled(w, o.w, c)
<1> DEFINE v == Stage(w, c, "WRITE")
           r == Stage(v, c, "READ")
<1>1. /\ Goes(w, v, c) /\ KeepsIt(w, v, c) /\ Holding(v, c)
      /\ v.ctx[c].state = "WRITE" /\ v.ctx[c].fd = w.ctx[c].fd
  BY Staged
<1>2. o.w = v \/ o.w = r
  BY DEF PWriteRequest, Out, Stage
<1>3. Fit(v.ctx[c])
  <2> HIDE DEF v
  <2> QED BY <1>1, Serving DEF Connected
<1>4. /\ Goes(v, r, c) /\ KeepsIt(v, r, c) /\ Holding(r, c)
      /\ r.ctx[c].state = "READ" /\ r.ctx[c].fd = v.ctx[c].fd
  <2> HIDE DEF v
  <2> QED BY <1>1, Staged
<1>5. Fit(r.ctx[c])
  <2> HIDE DEF v, r
  <2> QED BY <1>1, <1>4, Serving DEF Connected
<1>6. Goes(w, r, c) /\ KeepsIt(w, r, c)
  <2> HIDE DEF v, r
  <2> QED BY <1>1, <1>4 DEF Goes, KeepsIt, OfOthers
<1> HIDE DEF v, r
<1> QED BY <1>1, <1>2, <1>3, <1>4, <1>5, <1>6 DEF ProxyHandled

(* proxy_write_request() keeps the host; unless it reports an error, what is left of the request
   is fit. *)
LEMMA RequestHandled ==
    ASSUME NEW c \in Con, NEW w, Holding(w, c),
           \/ Fit(w.ctx[c])
           \/ w.ctx[c].state = "PREPARE_WRITE" /\ w.ctx[c].fd,
           NEW o \in proxy_write_request(w, c)
    PROVE  /\ Goes(w, o.w, c) /\ KeepsIt(w, o.w, c) /\ Holding(o.w, c)
           /\ o.ret # "ERROR" => ProxyHandled(w, o.w, c)
<1>0. Goes(w, w, c) /\ KeepsIt(w, w, c)
  BY DEF Holding, Goes, KeepsIt, OfOthers
<1>1. CASE w.ctx[c].state = "INIT"
  <2> DEFINE k == [w.ctx[c] EXCEPT !.fd = TRUE]
             open == [w EXCEPT !.ctx[c].fd = TRUE]
             v == Stage(open, c, "CONNECT")
  <2>1. k \in MidContexts /\ k.host = w.ctx[c].host /\ k.fd
    BY DEF Holding, MidContexts
  <2>2. open = [w EXCEPT !.ctx[c] = k]
    OBVIOUS
  <2>3. /\ Goes(w, open, c) /\ KeepsIt(w, open, c) /\ Holding(open, c)
        /\ open.ctx[c] = k
    <3> HIDE DEF k, open
    <3> QED BY <2>1, <2>2, Continued
  <2>4. open.ctx[c].fd
    <3> HIDE DEF k, open
    <3> QED BY <2>1, <2>3
  <2>5. /\ Goes(open, v, c) /\ KeepsIt(open, v, c) /\ Holding(v, c)
        /\ v.ctx[c].state = "CONNECT" /\ v.ctx[c].fd = open.ctx[c].fd
    <3> HIDE DEF open
    <3> QED BY <2>3, Staged
  <2>6. Fit(v.ctx[c])
    <3> HIDE DEF open, v
    <3> QED BY <2>4, <2>5, Serving DEF Connected
  <2>7. o = Out(w, "ERROR") \/ o = Out(open, "ERROR") \/ o = Out(v, "WAIT_FOR_EVENT")
        \/ o \in PWriteRequest(open, c)
    BY <1>1 DEF proxy_write_request, Stage
  <2> HIDE DEF open, v, k
  <2>8. CASE o \in PWriteRequest(open, c)
    <3>1. /\ Goes(open, o.w, c) /\ KeepsIt(open, o.w, c) /\ Holding(o.w, c)
          /\ ProxyHandled(open, o.w, c)
      BY <2>3, <2>4, <2>8, WriteHandled
    <3> QED BY <2>3, <3>1 DEF Goes, KeepsIt, OfOthers, ProxyHandled
  <2>9. CASE o = Out(v, "WAIT_FOR_EVENT")
    BY <2>3, <2>5, <2>6, <2>9 DEF Goes, KeepsIt, OfOthers, ProxyHandled, Out
  <2>10. CASE o = Out(w, "ERROR") \/ o = Out(open, "ERROR")
    BY <1>0, <2>3, <2>10 DEF Out
  <2> QED BY <2>7, <2>8, <2>9, <2>10
<1>2. CASE w.ctx[c].state \in {"PREPARE_WRITE", "WRITE"}
  <2>1. w.ctx[c].fd
    BY <1>2 DEF Fit, Connected, PContexts
  <2>2. o \in PWriteRequest(w, c)
    BY <1>2 DEF proxy_write_request
  <2> QED BY <2>1, <2>2, WriteHandled
<1>3. CASE w.ctx[c].state \notin {"INIT", "PREPARE_WRITE", "WRITE"}
  <2>1. o = Out(w, "WAIT_FOR_EVENT")
    BY <1>3 DEF proxy_write_request
  <2>2. Fit(w.ctx[c])
    BY <1>3
  <2> QED BY <1>0, <2>1, <2>2 DEF Out, ProxyHandled
<1> QED BY <1>1, <1>2, <1>3

(* proxy_send_request, an error of the write included, is within what a handler may do. *)
LEMMA SendHandled ==
    ASSUME NEW c \in Con, NEW w, Holding(w, c),
           \/ Fit(w.ctx[c])
           \/ w.ctx[c].state = "PREPARE_WRITE" /\ w.ctx[c].fd,
           NEW o \in proxy_send_request(w, c)
    PROVE  ProxyHandled(w, o.w, c)
<1>1. PICK q \in proxy_write_request(w, c) :
          o = IF q.ret = "ERROR" THEN Out(Disabled(q.w, c), "COMEBACK") ELSE q
  BY DEF proxy_send_request
<1>2. /\ Goes(w, q.w, c) /\ KeepsIt(w, q.w, c) /\ Holding(q.w, c)
      /\ q.ret # "ERROR" => ProxyHandled(w, q.w, c)
  BY RequestHandled
<1>3. CASE q.ret = "ERROR"
  <2>1. ProxyHandled(q.w, Disabled(q.w, c), c)
    BY <1>2, DisabledHandled
  <2>2. ProxyHandled(w, Disabled(q.w, c), c)
    BY <1>2, <2>1, GoesOn
  <2> QED BY <1>1, <1>3, <2>2 DEF Out
<1> QED BY <1>1, <1>2, <1>3

(* After a response was read and did not end, the request is as it was but for file_started. *)
LEMMA RecvHandled ==
    ASSUME NEW c \in Con, NEW w, Served(w, c), NEW o \in proxy_recv_response(w, c)
    PROVE  /\ ProxyHandled(w, o.w, c)
           /\ o.ret \in {"GO_ON", "FINISHED"}
           /\ o.ret = "GO_ON" =>
                /\ Goes(w, o.w, c) /\ KeepsIt(w, o.w, c) /\ Served(o.w, c)
                /\ o.w.ctx[c].fd = w.ctx[c].fd
<1>1. PICK q \in proxy_demux_response(w, c) :
          o = IF q.ret = "0" THEN Out(q.w, "GO_ON")
              ELSE Out(proxy_connection_close(q.w, c), "FINISHED")
  BY DEF proxy_recv_response
<1> DEFINE k == [w.ctx[c] EXCEPT !.started = TRUE]
           v == [w EXCEPT !.ctx[c].started = TRUE]
<1>2. q.w = w \/ q.w = v
  <2>1. proxy_demux_response(w, c) = {Out(w, "-1"), Out(w, "1"), Out(w, "0"), Out(v, "0")}
    BY DEF proxy_demux_response
  <2> HIDE DEF v
  <2> QED BY <2>1 DEF Out
<1>3. k \in MidContexts /\ k.host = w.ctx[c].host /\ Fit(k) /\ k.fd = w.ctx[c].fd
  BY DEF Served, Holding, Fit, MidContexts, PContexts
<1>4. Goes(w, v, c) /\ KeepsIt(w, v, c) /\ Holding(v, c) /\ v.ctx[c] = k
  <2>1. v = [w EXCEPT !.ctx[c] = k] /\ Holding(w, c)
    BY DEF Served
  <2> HIDE DEF v, k
  <2> QED BY <1>3, <2>1, Continued
<1>5. Goes(w, w, c) /\ KeepsIt(w, w, c)
  BY DEF Served, Holding, Goes, KeepsIt, OfOthers
<1> HIDE DEF k, v
<1>6. /\ Goes(w, q.w, c) /\ KeepsIt(w, q.w, c) /\ Served(q.w, c)
      /\ q.w.ctx[c].fd = w.ctx[c].fd
  BY <1>2, <1>3, <1>4, <1>5 DEF Served
<1>7. CASE q.ret = "0"
  BY <1>1, <1>6, <1>7 DEF Served, ProxyHandled, Out
<1>8. CASE q.ret # "0"
  <2>1. ProxyHandled(q.w, proxy_connection_close(q.w, c), c)
    BY <1>6, CloseHandled DEF Served
  <2>2. ProxyHandled(w, proxy_connection_close(q.w, c), c)
    BY <1>6, <2>1, GoesOn DEF Served
  <2> QED BY <1>1, <1>8, <2>2 DEF Out
<1> QED BY <1>7, <1>8

(* What a handler does after a part of it that kept the request served, it does in all. *)
LEMMA ThenHandled ==
    ASSUME NEW c \in Con, NEW w, Served(w, c), NEW u, NEW x,
           Goes(w, u, c), KeepsIt(w, u, c), ProxyHandled(u, x, c)
    PROVE  ProxyHandled(w, x, c)
BY GoesOn DEF Served

(* A writable socket is within what a handler may do, while connecting or later. *)
LEMMA WritableHandled ==
    ASSUME NEW c \in Con, NEW w, Served(w, c), w.ctx[c].fd, NEW o \in PWritable(w, c)
    PROVE  ProxyHandled(w, o.w, c)
<1> DEFINE v == Stage(w, c, "PREPARE_WRITE")
<1>1. /\ Goes(w, v, c) /\ KeepsIt(w, v, c) /\ Holding(v, c)
      /\ v.ctx[c].state = "PREPARE_WRITE" /\ v.ctx[c].fd
  BY Staged DEF Served
<1>2. ProxyHandled(w, w, c)
  BY DEF Served, Holding, Goes, KeepsIt, OfOthers, ProxyHandled
<1>3. CASE w.ctx[c].state = "CONNECT"
  <2>1. o = Out(w, "FINISHED") \/ o \in proxy_send_request(v, c)
    BY <1>3 DEF PWritable, Stage
  <2> HIDE DEF v
  <2>2. CASE o \in proxy_send_request(v, c)
    <3>1. ProxyHandled(v, o.w, c)
      BY <1>1, <2>2, SendHandled
    <3> QED BY <1>1, <3>1, ThenHandled
  <2> QED BY <1>2, <2>1, <2>2 DEF Out
<1>4. CASE w.ctx[c].state # "CONNECT"
  <2>1. o \in proxy_send_request(w, c)
    BY <1>4 DEF PWritable
  <2> QED BY <2>1, SendHandled DEF Served
<1> QED BY <1>3, <1>4

(* A backend that hung up is within what a handler may do. *)
LEMMA HungUpHandled ==
    ASSUME NEW c \in Con, NEW w, Served(w, c), NEW o \in PHungUp(w, c)
    PROVE  ProxyHandled(w, o.w, c)
<1>1. ProxyHandled(w, Disabled(w, c), c) /\ ProxyHandled(w, proxy_connection_close(w, c), c)
  BY DisabledHandled, CloseHandled DEF Served
<1>2. \/ o = Out(Disabled(w, c), "FINISHED")
      \/ o \in proxy_recv_response(w, c)
      \/ o = Out(proxy_connection_close(w, c), "FINISHED")
  <2>1. CASE w.ctx[c].state = "CONNECT"
    BY <2>1 DEF PHungUp
  <2>2. CASE w.ctx[c].state # "CONNECT" /\ w.ctx[c].started
    BY <2>2 DEF PHungUp
  <2>3. CASE w.ctx[c].state # "CONNECT" /\ ~w.ctx[c].started
    BY <2>3 DEF PHungUp
  <2> QED BY <2>1, <2>2, <2>3
<1> QED BY <1>1, <1>2, RecvHandled DEF Out

(* proxy_handle_fdevent, with the events in the order the code tests them. *)
LEMMA EventHandled ==
    ASSUME NEW c \in Con, NEW w, Served(w, c), w.ctx[c].fd, NEW revents,
           NEW o \in proxy_handle_fdevent(w, c, revents)
    PROVE  ProxyHandled(w, o.w, c)
<1> DEFINE First == IF "IN" \in revents THEN proxy_recv_response(w, c) ELSE {Out(w, "GO_ON")}
           Then(q) == CASE q.ret # "GO_ON" -> {q}
                        [] q.ret = "GO_ON" /\ "OUT" \in revents -> PWritable(q.w, c)
                        [] q.ret = "GO_ON" /\ "OUT" \notin revents /\ "HUP" \in revents ->
                              PHungUp(q.w, c)
                        [] q.ret = "GO_ON" /\ revents \cap {"OUT", "HUP"} = {}
                                          /\ "ERR" \in revents ->
                              {Out(proxy_connection_close(q.w, c), "FINISHED")}
                        [] OTHER -> {q}
<1>1. proxy_handle_fdevent(w, c, revents) = UNION {Then(q) : q \in First}
  BY DEF proxy_handle_fdevent
<1>2. PICK q \in First : o \in Then(q)
  <2> HIDE DEF Then, First
  <2> QED BY <1>1
<1>3. /\ ProxyHandled(w, q.w, c)
      /\ q.ret = "GO_ON" =>
            /\ Goes(w, q.w, c) /\ KeepsIt(w, q.w, c) /\ Served(q.w, c)
            /\ q.w.ctx[c].fd
  <2>1. CASE "IN" \in revents
    BY <1>2, <2>1, RecvHandled
  <2>2. CASE "IN" \notin revents
    <3>1. q.w = w
      BY <1>2, <2>2 DEF Out
    <3> QED BY <3>1 DEF Served, Holding, Goes, KeepsIt, OfOthers, ProxyHandled
  <2> QED BY <2>1, <2>2
<1>4. CASE q.ret # "GO_ON"
  <2>1. Then(q) = {q}
    BY <1>4
  <2> HIDE DEF Then
  <2> QED BY <1>2, <1>3, <2>1
<1>5. CASE q.ret = "GO_ON"
  <2>0. /\ Goes(w, q.w, c) /\ KeepsIt(w, q.w, c) /\ Served(q.w, c)
    BY <1>3, <1>5
  <2>1. \/ o \in PWritable(q.w, c)
        \/ o \in PHungUp(q.w, c)
        \/ o = Out(proxy_connection_close(q.w, c), "FINISHED")
        \/ o = q
    <3>1. CASE "OUT" \in revents
      BY <1>2, <1>5, <3>1
    <3>2. CASE "OUT" \notin revents /\ "HUP" \in revents
      BY <1>2, <1>5, <3>2
    <3>3. CASE "OUT" \notin revents /\ "HUP" \notin revents /\ "ERR" \in revents
      BY <1>2, <1>5, <3>3
    <3>4. CASE "OUT" \notin revents /\ "HUP" \notin revents /\ "ERR" \notin revents
      BY <1>2, <1>5, <3>4
    <3> QED BY <3>1, <3>2, <3>3, <3>4
  <2> HIDE DEF First, Then
  <2>3. CASE o \in PWritable(q.w, c)
    <3>1. q.w.ctx[c].fd
      BY <1>3, <1>5
    <3>2. ProxyHandled(q.w, o.w, c)
      BY <2>0, <2>3, <3>1, WritableHandled
    <3> QED BY <2>0, <3>2, ThenHandled
  <2>4. CASE o \in PHungUp(q.w, c)
    <3>1. ProxyHandled(q.w, o.w, c)
      BY <2>0, <2>4, HungUpHandled
    <3> QED BY <2>0, <3>1, ThenHandled
  <2>5. CASE o = Out(proxy_connection_close(q.w, c), "FINISHED")
    <3>1. ProxyHandled(q.w, proxy_connection_close(q.w, c), c)
      BY <2>0, CloseHandled DEF Served
    <3> QED BY <2>0, <2>5, <3>1, ThenHandled DEF Out
  <2> QED BY <1>3, <2>1, <2>3, <2>4, <2>5
<1> QED BY <1>4, <1>5

(* mod_proxy_handle_subrequest: read what has arrived, then send on. *)
LEMMA SubrequestHandled ==
    ASSUME NEW c \in Con, NEW w, Served(w, c), NEW o \in mod_proxy_handle_subrequest(w, c)
    PROVE  ProxyHandled(w, o.w, c)
<1> DEFINE First == {Out(w, "GO_ON")}
                    \cup IF w.ctx[c].started THEN proxy_recv_response(w, c) ELSE {}
           Then(q) == IF q.ret # "GO_ON" THEN {q}
                      ELSE {Out(q.w, "WAIT_FOR_EVENT")}
                           \cup (IF q.w.ctx[c].state # "READ" THEN proxy_send_request(q.w, c) ELSE {})
<1>0. w.ctx[c].state # "orphan"
  BY NilIsNoHost DEF Served, Holding, Fit
<1>1. mod_proxy_handle_subrequest(w, c) = UNION {Then(q) : q \in First}
  BY <1>0 DEF mod_proxy_handle_subrequest
<1>2. PICK q \in First : o \in Then(q)
  <2> HIDE DEF Then, First
  <2> QED BY <1>1
<1>3. /\ ProxyHandled(w, q.w, c)
      /\ q.ret = "GO_ON" => Goes(w, q.w, c) /\ KeepsIt(w, q.w, c) /\ Served(q.w, c)
  <2>1. CASE q \in proxy_recv_response(w, c)
    BY <2>1, RecvHandled
  <2>2. CASE q = Out(w, "GO_ON")
    <3>1. q.w = w
      BY <2>2 DEF Out
    <3> QED BY <3>1 DEF Served, Holding, Goes, KeepsIt, OfOthers, ProxyHandled
  <2> QED BY <1>2, <2>1, <2>2
<1>4. \/ o = q
      \/ q.ret = "GO_ON" /\ (o = Out(q.w, "WAIT_FOR_EVENT") \/ o \in proxy_send_request(q.w, c))
  BY <1>2
<1> HIDE DEF First, Then
<1>5. CASE q.ret = "GO_ON" /\ o \in proxy_send_request(q.w, c)
  <2>1. ProxyHandled(q.w, o.w, c)
    BY <1>3, <1>5, SendHandled DEF Served
  <2> QED BY <1>3, <1>5, <2>1, ThenHandled
<1> QED BY <1>3, <1>4, <1>5 DEF Out

-----------------------------------------------------------------------------
(* The actions *)

Holders(h) == {c \in Con : pctx[c].host = h}

(* The contexts that hold a host are a finite number. *)
LEMMA HoldersFinite == \A h : IsFiniteSet(Holders(h)) /\ Cardinality(Holders(h)) \in Nat
<1> TAKE h
<1>1. IsFiniteSet(Holders(h))
  BY BackendAssumption, FS_Subset DEF Holders
<1> QED BY <1>1, FS_CardinalityType

(* The request of c takes a host or gives one back. *)
LEMMA OneHolderMore ==
    ASSUME NEW c \in Con, NEW h, pctx[c].host # h, pctx'[c].host = h,
           \A d \in Con \ {c} : pctx'[d] = pctx[d]
    PROVE  Cardinality(Holders(h)') = Cardinality(Holders(h)) + 1
<1>1. Holders(h)' = Holders(h) \cup {c} /\ c \notin Holders(h)
  BY DEF Holders
<1> QED BY <1>1, HoldersFinite, FS_AddElement

(* A context that lets go of a host is one holder less. *)
LEMMA OneHolderLess ==
    ASSUME NEW c \in Con, NEW h, pctx[c].host = h, pctx'[c].host # h,
           \A d \in Con \ {c} : pctx'[d] = pctx[d]
    PROVE  Cardinality(Holders(h)') = Cardinality(Holders(h)) - 1
<1>1. Holders(h)' = Holders(h) \ {c} /\ c \in Holders(h)
  BY DEF Holders
<1> QED BY <1>1, HoldersFinite, FS_RemoveElement, ZenonT(40)

(* A step that keeps the hold of every context keeps the number of holders. *)
LEMMA SameHolders ==
    ASSUME NEW c \in Con, NEW h, pctx[c].host = h <=> pctx'[c].host = h,
           \A d \in Con \ {c} : pctx'[d] = pctx[d]
    PROVE  Cardinality(Holders(h)') = Cardinality(Holders(h))
BY DEF Holders
-----------------------------------------------------------------------------
(* The choice of a host *)

(* Every set of numbers that is not empty has a least one. *)
LEMMA LeastNumber ==
    ASSUME NEW T \in SUBSET Nat, T # {}
    PROVE  \E n \in T : \A m \in T : n <= m
<1> DEFINE R == OpToRel(<, Nat)
<1>1. IsWellFoundedOn(R, Nat)
  BY NatLessThanWellFounded
<1>2. R = {ss \in Nat \X Nat : ss[1] < ss[2]}
  BY DEF OpToRel
<1> HIDE DEF R
<1>3. \E n \in T : \A m \in T : ~(<<m, n>> \in R)
  BY <1>1, WFMin
<1>4. PICK n \in T : \A m \in T : ~(<<m, n>> \in R)
  BY <1>3
<1>5. ASSUME NEW m \in T PROVE n <= m
  <2>1. m \in Nat /\ n \in Nat
    OBVIOUS
  <2>2. m < n => <<m, n>> \in R
    BY <1>2, <2>1
  <2> QED BY <1>4, <2>1, <2>2
<1> QED BY <1>5

(* Of the hosts in S, one has the least value, and among those the least number. *)
LEMMA LeastHost ==
    ASSUME NEW S \in SUBSET PHost, S # {}, NEW b \in Int, NEW v,
           \A h \in S : v[h] \in Int /\ v[h] >= b
    PROVE  \E h \in S : \A g \in S : v[h] < v[g] \/ (v[h] = v[g] /\ h <= g)
<1> DEFINE T == {v[h] - b : h \in S}
<1>1. S \subseteq Nat
  BY ProxyAssumption DEF PHost
<1>2. T \in SUBSET Nat /\ T # {}
  OBVIOUS
<1>3. PICK n \in T : \A m \in T : n <= m
  <2> HIDE DEF T
  <2> QED BY <1>2, LeastNumber
<1> DEFINE U == {h \in S : v[h] - b = n}
<1>4. U \in SUBSET Nat /\ U # {}
  BY <1>1, <1>3
<1>5. PICK h \in U : \A g \in U : h <= g
  <2> HIDE DEF U
  <2> QED BY <1>4, LeastNumber
<1>6. ASSUME NEW g \in S PROVE v[h] < v[g] \/ (v[h] = v[g] /\ h <= g)
  <2>1. v[h] - b = n /\ h \in S
    BY <1>5
  <2>2. v[g] - b \in T
    OBVIOUS
  <2>3. n <= v[g] - b
    BY <1>3, <2>2
  <2>4. CASE v[g] - b = n
    <3>1. h <= g
      BY <1>5, <2>4
    <3> QED BY <2>1, <2>4, <3>1
  <2> HIDE DEF T
  <2>5. n \in Nat
    BY <1>2
  <2>6. CASE v[g] - b # n
    BY <2>1, <2>3, <2>5, <2>6
  <2> QED BY <2>4, <2>6
<1> QED BY <1>5, <1>6

(* The first host of a set. *)
LEMMA FirstUp ==
    ASSUME NEW S \in SUBSET PHost, S # {}
    PROVE  /\ FirstLeast(S, LAMBDA h : h) \in S
           /\ \A g \in S : FirstLeast(S, LAMBDA h : h) <= g
<1>1. S \subseteq Nat
  BY ProxyAssumption DEF PHost
<1>2. \E h \in S : \A g \in S : h < g \/ (h = g /\ h <= g)
  BY <1>1, LeastNumber
<1>3. FirstLeast(S, LAMBDA h : h) = CHOOSE h \in S : \A g \in S : h < g \/ (h = g /\ h <= g)
  BY DEF FirstLeast
<1> QED BY <1>1, <1>2, <1>3

(* The host with the least usage. *)
LEMMA FairChoice ==
    ASSUME NEW host \in [PHost -> [usage : Int, disabled : 0 .. Pause]],
           \A h \in PHost : host[h].usage >= 0, Enabled(host) # {}
    PROVE  /\ Fair(host) \in Enabled(host)
           /\ \A g \in Enabled(host) : host[Fair(host)].usage <= host[g].usage
<1> DEFINE S == Enabled(host)
           v == [h \in PHost |-> host[h].usage]
           b == 0
<1>1. S \in SUBSET PHost /\ S # {} /\ S \subseteq Nat
  BY ProxyAssumption DEF Enabled, PHost
<1>2. b \in Int /\ \A h \in S : v[h] \in Int /\ v[h] >= b /\ v[h] = host[h].usage
  BY DEF Enabled
<1>3. Fair(host) = CHOOSE h \in S : \A g \in S :
            host[h].usage < host[g].usage \/ (host[h].usage = host[g].usage /\ h <= g)
  BY DEF Fair, FirstLeast
<1> HIDE DEF S, v, b
<1>4. \E h \in S : \A g \in S : v[h] < v[g] \/ (v[h] = v[g] /\ h <= g)
  BY <1>1, <1>2, LeastHost
<1>5. \E h \in S : \A g \in S :
            host[h].usage < host[g].usage \/ (host[h].usage = host[g].usage /\ h <= g)
  BY <1>2, <1>4
<1>6. Fair(host) \in S /\ \A g \in S :
            host[Fair(host)].usage < host[g].usage
            \/ (host[Fair(host)].usage = host[g].usage /\ Fair(host) <= g)
  BY <1>3, <1>5
<1>7. \A h \in S : host[h].usage \in Int
  BY <1>2
<1> QED BY <1>6, <1>7 DEF S

(* (h - last - 1) % ProxyHosts is the distance from the last host to the next one. *)
LEMMA Distance ==
    ASSUME NEW N \in Nat \ {0}, NEW h \in 0 .. N - 1, NEW last \in -1 .. N - 1
    PROVE  (h - last - 1) % N = IF h > last THEN h - last - 1 ELSE h - last - 1 + N
OBVIOUS

(* Whatever the checksums are, a host that is enabled. *)
LEMMA HashChoice ==
    ASSUME NEW host \in [PHost -> [usage : Int, disabled : 0 .. Pause]],
           Enabled(host) # {}, NEW ndx \in ProxyHash(host)
    PROVE  ndx \in Enabled(host)
<1> DEFINE S == Enabled(host)
           b == -1
<1>1. PICK sum \in [PHost -> 0 .. 1] : ndx = FirstLeast(S, LAMBDA h : -sum[h])
  BY DEF ProxyHash
<1> DEFINE v == [h \in PHost |-> -sum[h]]
<1>2. S \in SUBSET PHost /\ S # {}
  BY DEF Enabled
<1>3. b \in Int /\ \A h \in S : v[h] \in Int /\ v[h] >= b /\ v[h] = -sum[h]
  BY <1>2
<1>4. ndx = CHOOSE h \in S : \A g \in S : -sum[h] < -sum[g] \/ (-sum[h] = -sum[g] /\ h <= g)
  BY <1>1 DEF FirstLeast
<1> HIDE DEF S, v, b
<1>5. \E h \in S : \A g \in S : v[h] < v[g] \/ (v[h] = v[g] /\ h <= g)
  BY <1>2, <1>3, LeastHost
<1>6. \E h \in S : \A g \in S : -sum[h] < -sum[g] \/ (-sum[h] = -sum[g] /\ h <= g)
  BY <1>3, <1>5
<1>7. ndx \in S
  BY <1>4, <1>6
<1> QED BY <1>7 DEF S

(* In turn: the first of those after the last one, else the first. *)
LEMMA TurnChoice ==
    ASSUME NEW host \in [PHost -> [usage : Int, disabled : 0 .. Pause]],
           NEW last \in -1 .. ProxyHosts - 1, Enabled(host) # {}
    PROVE  /\ RoundRobin(host, last) \in Enabled(host)
           /\ \A g \in Enabled(host) :
                (RoundRobin(host, last) - last - 1) % ProxyHosts <= (g - last - 1) % ProxyHosts
<1> DEFINE up == {h \in PHost : h > last /\ host[h].disabled = 0}
           down == {h \in PHost : h <= last /\ host[h].disabled = 0}
           r == RoundRobin(host, last)
<1>1. /\ up \in SUBSET PHost /\ down \in SUBSET PHost
      /\ \A g \in up : g > last
      /\ \A g \in down : g <= last
      /\ Enabled(host) = up \cup down
      /\ PHost = 0 .. ProxyHosts - 1 /\ ProxyHosts \in Nat \ {0}
  BY ProxyAssumption DEF Enabled, PHost
<1> DEFINE dist(g) == (g - last - 1) % ProxyHosts
<1>3. \A g \in PHost : dist(g) = IF g > last THEN g - last - 1 ELSE g - last - 1 + ProxyHosts
  BY <1>1, Distance
<1>2. r = IF up # {} THEN FirstLeast(up, LAMBDA h : h)
          ELSE IF down # {} THEN FirstLeast(down, LAMBDA h : h) ELSE -1
  BY DEF RoundRobin
<1>4. CASE up # {}
  <2>1. r \in up /\ \A g \in up : r <= g
    <3> HIDE DEF up, r
    <3> QED BY <1>1, <1>2, <1>4, FirstUp
  <2> HIDE DEF up, down, r, dist
  <2>2. ASSUME NEW g \in Enabled(host)
        PROVE  dist(r) <= dist(g)
    <3>0. /\ g \in 0 .. ProxyHosts - 1 /\ r \in 0 .. ProxyHosts - 1
          /\ r > last /\ (g > last => r <= g)
      <4>1. g \in 0 .. ProxyHosts - 1 /\ r \in 0 .. ProxyHosts - 1 /\ r > last
        BY <1>1, <2>1
      <4>2. g \in down => g <= last /\ ~(g > last)
        BY <1>1, <4>1
      <4>3. g \in up \/ g \in down
        BY <1>1
      <4> QED BY <2>1, <4>1, <4>2, <4>3
    <3> QED BY <1>1, <1>3, <3>0
  <2>3. r \in Enabled(host)
    BY <1>1, <2>1
  <2> QED BY <2>2, <2>3 DEF r, dist
<1>5. CASE up = {}
  <2>1. r \in down /\ \A g \in down : r <= g
    <3> HIDE DEF up, down, r
    <3> QED BY <1>1, <1>2, <1>5, FirstUp
  <2> HIDE DEF up, down, r, dist
  <2>2. ASSUME NEW g \in Enabled(host)
        PROVE  dist(r) <= dist(g)
    <3>0. /\ g \in 0 .. ProxyHosts - 1 /\ r \in 0 .. ProxyHosts - 1
          /\ g <= last /\ r <= last /\ r <= g
      BY <1>1, <1>5, <2>1
    <3> QED BY <1>1, <1>3, <3>0
  <2>3. r \in Enabled(host)
    BY <1>1, <2>1
  <2> QED BY <2>2, <2>3 DEF r, dist
<1> QED BY <1>4, <1>5

(* The host that is chosen: none if all are disabled. *)
LEMMA Choice ==
    ASSUME NEW host \in [PHost -> [usage : Int, disabled : 0 .. Pause]],
           \A h \in PHost : host[h].usage >= 0,
           NEW last \in -1 .. ProxyHosts - 1,
           NEW balance \in {"fair", "round-robin", "hash"},
           NEW ndx \in Chosen(host, last, balance)
    PROVE  \/ ndx = -1 /\ Enabled(host) = {}
           \/ /\ ndx \in Enabled(host)
              /\ balance = "round-robin" =>
                    \A g \in Enabled(host) :
                        (ndx - last - 1) % ProxyHosts <= (g - last - 1) % ProxyHosts
              /\ balance = "fair" => \A g \in Enabled(host) : host[ndx].usage <= host[g].usage
<1>1. CASE ProxyHosts = 1
  <2>1. ndx = IF host[0].disabled > 0 THEN -1 ELSE 0
    BY <1>1 DEF Chosen
  <2>2. PHost = {0}
    BY <1>1 DEF PHost
  <2>3. host[0].disabled \in Nat /\ host[0].usage \in Int
    BY <2>2, ProxyAssumption
  <2>4. CASE host[0].disabled = 0
    <3>1. Enabled(host) = {0} /\ ndx = 0
      BY <2>1, <2>2, <2>4 DEF Enabled
    <3>2. (0 - last - 1) % ProxyHosts \in Int
      BY <1>1, Distance
    <3>3. \A g \in Enabled(host) : g = ndx
      BY <3>1
    <3>4. /\ (ndx - last - 1) % ProxyHosts <= (ndx - last - 1) % ProxyHosts
          /\ host[ndx].usage <= host[ndx].usage
      BY <2>3, <3>1, <3>2
    <3> QED BY <3>1, <3>3, <3>4
  <2>5. CASE host[0].disabled > 0
    <3>1. Enabled(host) = {} /\ ndx = -1
      BY <2>1, <2>2, <2>5 DEF Enabled
    <3> QED BY <3>1
  <2> QED BY <2>3, <2>4, <2>5
<1>2. CASE ProxyHosts > 1
  <2>1. CASE balance = "hash"
    <3>1. ndx \in ProxyHash(host)
      BY <1>2, <2>1 DEF Chosen
    <3>2. CASE Enabled(host) = {}
      BY <3>1, <3>2 DEF ProxyHash
    <3> QED BY <2>1, <3>1, <3>2, HashChoice
  <2>2. CASE balance = "fair"
    <3>1. ndx = Fair(host)
      BY <1>2, <2>2 DEF Chosen
    <3>2. CASE Enabled(host) = {}
      BY <3>1, <3>2 DEF Fair
    <3> QED BY <2>2, <3>1, <3>2, FairChoice
  <2>3. CASE balance = "round-robin"
    <3>1. ndx = RoundRobin(host, last)
      BY <1>2, <2>3 DEF Chosen
    <3>2. CASE Enabled(host) = {}
      BY <3>1, <3>2 DEF RoundRobin, Enabled
    <3> QED BY <2>3, <3>1, <3>2, TurnChoice
  <2> QED BY <2>1, <2>2, <2>3
<1> QED BY <1>1, <1>2, ProxyAssumption

-----------------------------------------------------------------------------
(* The invariant *)

(* A request that has a host is served between two handlers. *)
LEMMA ServedNow ==
    ASSUME ProxyInv, NEW c \in Con, pctx[c].state \notin {"none", "orphan"}
    PROVE  Served(ProxyWorld, c) /\ ProxyWorld.ctx[c] = pctx[c]
<1>1. /\ pctx \in [Con -> PContexts] /\ phost \in [PHost -> PHosts]
      /\ pctx[c].host \in PHost
      /\ Fit(pctx[c])
  BY DEF ProxyInv, ProxyTypeOK, ProxyDescriptor, PHosts, Fit, PContexts, Connected
<1>2. PContexts \subseteq MidContexts
  BY DEF PContexts, MidContexts
<1>3. /\ ProxyWorld \in [ctx : [Con -> MidContexts], host : [PHost -> PHosts]]
      /\ ProxyWorld.ctx[c] = pctx[c]
  BY <1>1, <1>2 DEF ProxyWorld
<1> QED BY <1>1, <1>3 DEF Served, Holding

(* A handler of c leaves the hosts and the requests in agreement. *)
LEMMA Became ==
    ASSUME ProxyInv, NEW c \in Con, pctx[c].state \notin {"none", "orphan"},
           NEW x, ProxyHandled(ProxyWorld, x, c), ProxyBecome(x),
           plast' = plast, pagain' \in Con \cup {Nil}, pbalance' = pbalance
    PROVE  ProxyInv'
<1>1. /\ pctx \in [Con -> PContexts] /\ phost \in [PHost -> PHosts]
      /\ \A d \in Con : Fit(pctx[d])
      /\ pctx[c].host \in PHost
  BY DEF ProxyInv, ProxyTypeOK, ProxyDescriptor, PHosts, Fit, PContexts, Connected
<1>2. /\ pctx' \in [Con -> MidContexts] /\ phost' \in [PHost -> PHosts]
      /\ \A d \in Con \ {c} : pctx'[d] = pctx[d]
      /\ Fit(pctx'[c])
  BY DEF ProxyHandled, Goes, OfOthers, ProxyBecome, ProxyWorld
<1>3. \A d \in Con : Fit(pctx'[d])
  BY <1>1, <1>2
<1>4. pctx' \in [Con -> PContexts]
  BY <1>2, <1>3 DEF Fit
<1>5. ProxyTypeOK'
  BY <1>2, <1>3, <1>4 DEF ProxyInv, ProxyTypeOK, Fit, PHosts
<1>6. ProxyDescriptor'
  BY <1>3 DEF ProxyDescriptor, Fit, Connected
<1>7. ASSUME NEW h \in PHost
      PROVE  phost'[h].usage = Cardinality(Holders(h)')
  <2>0. phost[h].usage = Cardinality(Holders(h))
    BY DEF ProxyInv, ProxyUsage, Holders
  <2>1. CASE KeepsIt(ProxyWorld, x, c)
    <3>1. phost'[h].usage = phost[h].usage /\ pctx'[c].host = pctx[c].host
      BY <2>1 DEF KeepsIt, ProxyBecome, ProxyWorld
    <3> QED BY <1>2, <2>0, <3>1, SameHolders
  <2>2. CASE GivesBack(ProxyWorld, x, c) /\ h = pctx[c].host
    <3>1. phost'[h].usage = phost[h].usage - 1 /\ pctx'[c].host # h
      BY <2>2, NilIsNoHost DEF GivesBack, ProxyBecome, ProxyWorld
    <3> QED BY <1>2, <2>0, <2>2, <3>1, OneHolderLess
  <2>3. CASE GivesBack(ProxyWorld, x, c) /\ h # pctx[c].host
    <3>1. phost'[h].usage = phost[h].usage /\ pctx'[c].host # h
      BY <2>3, NilIsNoHost DEF GivesBack, ProxyBecome, ProxyWorld
    <3> QED BY <1>2, <2>0, <2>3, <3>1, SameHolders
  <2> QED BY <2>1, <2>2, <2>3 DEF ProxyHandled, Goes
<1>8. ProxyUsage'
  BY <1>7 DEF ProxyUsage, Holders
<1> QED BY <1>5, <1>6, <1>8 DEF ProxyInv

(* The host that a new request gets. *)
LEMMA HostOf ==
    ASSUME ProxyInv, NEW ndx \in Chosen(phost, plast, pbalance)
    PROVE  \/ ndx = -1 /\ Enabled(phost) = {}
           \/ /\ ndx \in PHost /\ phost[ndx].disabled = 0
              /\ pbalance = "round-robin" =>
                    \A g \in Enabled(phost) :
                        (ndx - plast - 1) % ProxyHosts <= (g - plast - 1) % ProxyHosts
              /\ pbalance = "fair" =>
                    \A g \in Enabled(phost) : phost[ndx].usage <= phost[g].usage
<1>1. ASSUME NEW h \in PHost PROVE phost[h].usage >= 0
  <2>1. phost[h].usage = Cardinality(Holders(h))
    BY DEF ProxyInv, ProxyUsage, Holders
  <2> QED BY <2>1, HoldersFinite
<1>2. /\ phost \in [PHost -> [usage : Int, disabled : 0 .. Pause]]
      /\ plast \in -1 .. ProxyHosts - 1
      /\ pbalance \in {"fair", "round-robin", "hash"}
  BY ProxyAssumption DEF ProxyInv, ProxyTypeOK
<1>3. \/ ndx = -1 /\ Enabled(phost) = {}
      \/ /\ ndx \in Enabled(phost)
         /\ pbalance = "round-robin" =>
               \A g \in Enabled(phost) :
                   (ndx - plast - 1) % ProxyHosts <= (g - plast - 1) % ProxyHosts
         /\ pbalance = "fair" => \A g \in Enabled(phost) : phost[ndx].usage <= phost[g].usage
  BY <1>1, <1>2, Choice
<1>4. \A h \in Enabled(phost) : h \in PHost /\ phost[h].disabled = 0
  BY DEF Enabled
<1> QED BY <1>3, <1>4

(* The choice of a host counts the context that now holds it. *)
LEMMA CheckKeepsInv ==
    ASSUME ProxyInv, NEW c \in Con, mod_proxy_check_extension(c)
    PROVE  ProxyInv'
<1>0. PICK ndx \in Chosen(phost, plast, pbalance) :
        /\ plast' = IF ProxyHosts > 1 /\ pbalance = "round-robin" THEN ndx ELSE plast
        /\ IF ndx = -1 THEN UNCHANGED <<pctx, phost, pagain>>
           ELSE /\ pctx' = [pctx EXCEPT ![c] = [PNoContext EXCEPT !.state = "INIT", !.host = ndx]]
                /\ phost' = [phost EXCEPT ![ndx].usage = @ + 1]
                /\ pagain' = c
  BY DEF mod_proxy_check_extension
<1>1. ndx = -1 \/ ndx \in PHost
  BY HostOf
<1>2. plast' \in -1 .. ProxyHosts - 1 /\ pbalance' = pbalance /\ pctx[c].state = "none"
  BY <1>0, <1>1, ProxyAssumption DEF ProxyInv, ProxyTypeOK, PHost, mod_proxy_check_extension
<1>3. CASE ndx = -1
  BY <1>0, <1>2, <1>3 DEF ProxyInv, ProxyTypeOK, ProxyUsage, ProxyDescriptor
<1>4. CASE ndx # -1
  <2> DEFINE k == [PNoContext EXCEPT !.state = "INIT", !.host = ndx]
             n == phost[ndx].usage + 1
  <2>0. ndx \in PHost /\ ndx # Nil
    BY <1>1, <1>4, NilIsNoHost
  <2>1. k \in PContexts /\ k.host = ndx /\ Fit(k)
    BY <2>0 DEF PNoContext, PContexts, Fit, Connected
  <2>2. /\ pctx \in [Con -> PContexts] /\ phost \in [PHost -> PHosts]
        /\ \A d \in Con : Fit(pctx[d])
        /\ pctx[c].host = Nil
    BY <1>2 DEF ProxyInv, ProxyTypeOK, ProxyDescriptor, PHosts, Fit, PContexts, Connected
  <2>3. n \in Int
    BY <2>0, <2>2 DEF PHosts
  <2>4. pctx' = [pctx EXCEPT ![c] = k] /\ phost' = [phost EXCEPT ![ndx].usage = n]
    BY <1>0, <1>4
  <2> HIDE DEF k, n
  <2>5. /\ pctx' \in [Con -> PContexts] /\ pctx'[c] = k
        /\ \A d \in Con \ {c} : pctx'[d] = pctx[d]
    BY <2>1, <2>2, <2>4
  <2>6. /\ phost' \in [PHost -> PHosts] /\ phost'[ndx].usage = n
        /\ \A h \in PHost \ {ndx} : phost'[h] = phost[h]
    BY <2>0, <2>2, <2>3, <2>4 DEF PHosts
  <2>7. \A d \in Con : Fit(pctx'[d])
    BY <2>1, <2>2, <2>5
  <2>8. pagain' = c
    BY <1>0, <1>4
  <2>9. ProxyTypeOK' /\ ProxyDescriptor'
    BY <1>2, <2>5, <2>6, <2>7, <2>8
       DEF ProxyInv, ProxyTypeOK, ProxyDescriptor, Fit, PHosts, Connected
  <2>10. ASSUME NEW h \in PHost
         PROVE  phost'[h].usage = Cardinality(Holders(h)')
    <3>0. phost[h].usage = Cardinality(Holders(h))
      BY DEF ProxyInv, ProxyUsage, Holders
    <3>1. CASE h = ndx
      BY <2>0, <2>1, <2>2, <2>5, <2>6, <3>0, <3>1, OneHolderMore DEF n
    <3>2. CASE h # ndx
      BY <2>0, <2>1, <2>2, <2>5, <2>6, <3>0, <3>2, SameHolders, NilIsNoHost
    <3> QED BY <3>1, <3>2
  <2>11. ProxyUsage'
    BY <2>10 DEF ProxyUsage, Holders
  <2> QED BY <2>9, <2>11 DEF ProxyInv
<1> QED BY <1>3, <1>4

(* Every step keeps the invariant, action by action. *)
LEMMA ProxyStep == ProxyInv /\ [ProxyNext]_proxyVars => ProxyInv'
<1> SUFFICES ASSUME ProxyInv, [ProxyNext]_proxyVars PROVE ProxyInv'
  OBVIOUS
<1>0. pagain \in Con \cup {Nil} /\ pctx \in [Con -> PContexts]
  BY DEF ProxyInv, ProxyTypeOK
<1>1. ASSUME NEW c \in Con, mod_proxy_check_extension(c)
      PROVE  ProxyInv'
  BY <1>1, CheckKeepsInv
<1>2. ASSUME NEW c \in Con, ProxyHandleRequest(c)
      PROVE  ProxyInv'
  <2>1. PICK o \in mod_proxy_handle_subrequest(ProxyWorld, c) :
          ProxyBecome(o.w) /\ pagain' = IF o.ret = "COMEBACK" THEN c ELSE Nil
    BY <1>2 DEF ProxyHandleRequest
  <2>2. plast' = plast /\ pbalance' = pbalance /\ pctx[c].state # "none"
    BY <1>2 DEF ProxyHandleRequest
  <2>3. CASE pctx[c].state = "orphan"
    <3>1. o = Out(ProxyWorld, "GO_ON")
      BY <2>1, <2>3 DEF mod_proxy_handle_subrequest, ProxyWorld
    <3>2. pctx' = pctx /\ phost' = phost
      BY <2>1, <3>1 DEF Out, ProxyBecome, ProxyWorld
    <3> QED BY <2>1, <2>2, <3>2 DEF ProxyInv, ProxyTypeOK, ProxyUsage, ProxyDescriptor
  <2>4. CASE pctx[c].state # "orphan"
    <3>1. ProxyHandled(ProxyWorld, o.w, c)
      BY <2>2, <2>4, ServedNow, SubrequestHandled
    <3> QED BY <2>1, <2>2, <2>4, <3>1, Became
  <2> QED BY <2>3, <2>4
<1>3. ASSUME NEW c \in Con, ProxyEvent(c)
      PROVE  ProxyInv'
  <2>1. PICK revents \in PRevents(pctx[c]) :
            \E o \in proxy_handle_fdevent(ProxyWorld, c, revents) : ProxyBecome(o.w)
    BY <1>3 DEF ProxyEvent
  <2>2. PICK o \in proxy_handle_fdevent(ProxyWorld, c, revents) : ProxyBecome(o.w)
    BY <2>1
  <2>3. pctx[c].fd /\ UNCHANGED <<plast, pbalance, pagain>>
    BY <1>3 DEF ProxyEvent
  <2>4. pctx[c].state \notin {"none", "orphan"}
    BY <2>3 DEF ProxyInv, ProxyDescriptor
  <2>5. ProxyHandled(ProxyWorld, o.w, c)
    BY <2>3, <2>4, ServedNow, EventHandled
  <2> QED BY <1>0, <2>2, <2>3, <2>4, <2>5, Became
<1>4. ASSUME NEW c \in Con, mod_proxy_connection_reset(c)
      PROVE  ProxyInv'
  <2>1. pctx[c].state # "none" /\ UNCHANGED <<plast, pbalance, pagain>>
    BY <1>4 DEF mod_proxy_connection_reset
  <2>2. CASE pctx[c].state = "orphan"
    <3>1. pctx' = [pctx EXCEPT ![c] = PNoContext] /\ phost' = phost
      BY <1>4, <2>2 DEF mod_proxy_connection_reset
    <3>2. PNoContext \in PContexts /\ Fit(PNoContext) /\ PNoContext.host = Nil
      BY DEF PNoContext, PContexts, Fit, Connected
    <3>3. /\ pctx' \in [Con -> PContexts] /\ pctx'[c] = PNoContext
          /\ \A d \in Con \ {c} : pctx'[d] = pctx[d]
      BY <1>0, <3>1, <3>2
    <3>4. pctx[c].host = Nil
      BY <2>2 DEF ProxyInv, ProxyTypeOK
    <3>5. ProxyTypeOK' /\ ProxyDescriptor'
      BY <2>1, <3>1, <3>2, <3>3 DEF ProxyInv, ProxyTypeOK, ProxyDescriptor, Fit, Connected
    <3>6. \A h \in PHost : Cardinality(Holders(h)') = Cardinality(Holders(h))
      BY <3>2, <3>3, <3>4, SameHolders
    <3>7. ProxyUsage'
      BY <3>1, <3>6 DEF ProxyInv, ProxyUsage, Holders
    <3> QED BY <3>5, <3>7 DEF ProxyInv
  <2>3. CASE pctx[c].state # "orphan"
    <3>1. ProxyBecome(proxy_connection_close(ProxyWorld, c))
      BY <1>4, <2>3 DEF mod_proxy_connection_reset
    <3>2. ProxyHandled(ProxyWorld, proxy_connection_close(ProxyWorld, c), c)
      BY <2>1, <2>3, ServedNow, CloseHandled DEF Served
    <3> QED BY <1>0, <2>1, <2>3, <3>1, <3>2, Became
  <2> QED BY <2>2, <2>3
<1>5. CASE mod_proxy_trigger
  <2>1. /\ phost' = [h \in PHost |->
                        [phost[h] EXCEPT !.disabled = IF @ > 0 THEN @ - 1 ELSE 0]]
        /\ UNCHANGED <<pctx, plast, pbalance, pagain>>
    BY <1>5 DEF mod_proxy_trigger
  <2>2. ASSUME NEW h \in PHost
        PROVE  phost'[h] \in PHosts /\ phost'[h].usage = phost[h].usage
    <3> DEFINE m == IF phost[h].disabled > 0 THEN phost[h].disabled - 1 ELSE 0
    <3>1. phost[h] \in PHosts /\ m \in 0 .. Pause
      BY ProxyAssumption DEF ProxyInv, ProxyTypeOK, PHosts
    <3>2. phost'[h] = [phost[h] EXCEPT !.disabled = m]
      BY <2>1
    <3> HIDE DEF m
    <3> QED BY <3>1, <3>2 DEF PHosts
  <2>3. phost' \in [PHost -> PHosts]
    BY <2>1, <2>2
  <2> QED BY <2>1, <2>2, <2>3 DEF ProxyInv, ProxyTypeOK, ProxyUsage, ProxyDescriptor, PHosts
<1>6. CASE UNCHANGED proxyVars
  BY <1>6 DEF proxyVars, ProxyInv, ProxyTypeOK, ProxyUsage, ProxyDescriptor
<1> QED BY <1>1, <1>2, <1>3, <1>4, <1>5, <1>6 DEF ProxyNext

(* No host is held at the start. *)
LEMMA ProxyStarts == ProxyInit => ProxyInv
<1> SUFFICES ASSUME ProxyInit PROVE ProxyInv
  OBVIOUS
<1>1. PNoContext \in PContexts /\ Fit(PNoContext) /\ PNoContext.host = Nil
  BY DEF PNoContext, PContexts, Fit, Connected
<1>2. ProxyTypeOK /\ ProxyDescriptor
  BY <1>1, ProxyAssumption DEF ProxyInit, ProxyTypeOK, ProxyDescriptor, Fit, Connected
<1>3. \A h \in PHost : {c \in Con : pctx[c].host = h} = {}
  BY <1>1, NilIsNoHost DEF ProxyInit
<1>4. ProxyUsage
  BY <1>3, FS_EmptySet DEF ProxyInit, ProxyUsage
<1> QED BY <1>2, <1>4 DEF ProxyInv

(* However requests fail, come back and end, the usage by which hosts are balanced is the number
   of requests that hold the host, and no request keeps a descriptor without a connection
   (proxy_connection_close, mod_proxy_check_extension). *)
THEOREM ProxyStaysSound == ProxySpec => []ProxyInv
BY ProxyStarts, ProxyStep, PTL DEF ProxySpec

(* A step that chooses a host chooses the one its balancing asks for. *)
LEMMA HostChosenStep == ProxyInv /\ [ProxyNext]_proxyVars => [HostChosen]_proxyVars
<1> SUFFICES ASSUME ProxyInv, NEW c \in Con, mod_proxy_check_extension(c)
             PROVE  IF pctx'[c] = pctx[c] THEN Enabled(phost) = {}
                    ELSE /\ phost[pctx'[c].host].disabled = 0
                         /\ pbalance = "round-robin" =>
                              \A h \in Enabled(phost) :
                                 (pctx'[c].host - plast - 1) % ProxyHosts
                                     <= (h - plast - 1) % ProxyHosts
                         /\ pbalance = "fair" => \A h \in Enabled(phost) :
                                                    phost[pctx'[c].host].usage <= phost[h].usage
  BY DEF HostChosen
<1>1. PICK ndx \in Chosen(phost, plast, pbalance) :
        IF ndx = -1 THEN UNCHANGED <<pctx, phost, pagain>>
        ELSE pctx' = [pctx EXCEPT ![c] = [PNoContext EXCEPT !.state = "INIT", !.host = ndx]]
  BY DEF mod_proxy_check_extension
<1>2. CASE ndx = -1
  <2>1. ndx \notin PHost
    BY <1>2 DEF PHost
  <2> QED BY <1>1, <1>2, <2>1, HostOf
<1>3. CASE ndx # -1
  <2>1. pctx'[c].host = ndx /\ pctx'[c].state = "INIT"
    BY <1>1, <1>3 DEF PNoContext, ProxyInv, ProxyTypeOK
  <2>2. pctx'[c] # pctx[c]
    BY <2>1 DEF mod_proxy_check_extension
  <2> QED BY <1>3, <2>1, <2>2, HostOf
<1> QED BY <1>2, <1>3

(* A request is refused only if every host is disabled; in turn nobody is passed over, and the
   fair choice is a host with the fewest requests (mod_proxy_check_extension), for any number of
   hosts. *)
THEOREM HostsInTurn == ProxySpec => ProxyTurn
<1>1. ProxySpec => []ProxyInv
  BY ProxyStaysSound
<1>2. ProxyInv /\ [ProxyNext]_proxyVars => [HostChosen]_proxyVars
  BY HostChosenStep
<1> QED BY <1>1, <1>2, PTL DEF ProxySpec, ProxyTurn

-----------------------------------------------------------------------------
(* Sums over finite sets *)

(* What SumFunction adds up for each subset of the domain. *)
SumsUp(f, sum) ==
    sum = [S \in SUBSET DOMAIN f |->
            IF S = {} THEN 0 ELSE LET x == CHOOSE x \in S : TRUE IN f[x] + sum[S \ {x}]]
SumOf(f) == CHOOSE sum : SumsUp(f, sum)

(* SumFunction is the value of that function at the whole domain. *)
LEMMA SumIsFold == ASSUME NEW f PROVE SumFunction(f) = SumOf(f)[DOMAIN f]
BY DEF SumFunction, SumFunctionOnSet, FoldFunctionOnSet, MapThenFoldSet, SumOf, SumsUp

(* Among subsets of a finite set there is one that contains no other. *)
LEMMA SmallestSubset ==
    ASSUME NEW W, IsFiniteSet(W), NEW Bad \in SUBSET SUBSET W, Bad # {}
    PROVE  \E S \in Bad : \A T \in Bad : ~(T \subseteq S /\ T # S)
<1>1. FiniteSubsetsOf(W) = SUBSET W
  BY FS_FiniteSubsetsOfFinite
<1>2. IsWellFoundedOn(StrictSubsetOrdering(W), SUBSET W)
  BY <1>1, FS_StrictSubsetOrderingWellFounded
<1>3. PICK S \in Bad : \A T \in Bad : ~(<<T, S>> \in StrictSubsetOrdering(W))
  BY <1>2, WFMin
<1>4. ASSUME NEW T \in Bad PROVE ~(T \subseteq S /\ T # S)
  <2>1. ~(<<T, S>> \in StrictSubsetOrdering(W))
    BY <1>3
  <2>2. T \in SUBSET W /\ S \in SUBSET W
    OBVIOUS
  <2> QED BY <2>1, <2>2 DEF StrictSubsetOrdering
<1> QED BY <1>4

(* The recursion, for the subsets of S. *)
Adds(f, S, g) ==
    /\ DOMAIN g = SUBSET S
    /\ \A T \in SUBSET S : g[T] = IF T = {} THEN 0 ELSE f[CHOOSE x \in T : TRUE] + g[T \ {CHOOSE x \in T : TRUE}]

(* Two functions that add up agree where both are defined. *)
LEMMA AddsUnique ==
    ASSUME NEW f, NEW S, NEW T, IsFiniteSet(T), T \subseteq S,
           NEW g, NEW h, Adds(f, S, g), Adds(f, T, h)
    PROVE  \A U \in SUBSET T : g[U] = h[U]
<1> DEFINE Bad == {U \in SUBSET T : g[U] # h[U]}
<1> SUFFICES ASSUME Bad # {} PROVE FALSE
  OBVIOUS
<1>1. PICK U \in Bad : \A V \in Bad : ~(V \subseteq U /\ V # U)
  <2>1. Bad \in SUBSET SUBSET T
    OBVIOUS
  <2> HIDE DEF Bad
  <2> QED BY <2>1, SmallestSubset
<1>2. U \in SUBSET T /\ U \in SUBSET S /\ g[U] # h[U]
  OBVIOUS
<1>3. U # {}
  BY <1>2 DEF Adds
<1> DEFINE x == CHOOSE x \in U : TRUE
<1>4. x \in U
  BY <1>3
<1>5. g[U] = f[x] + g[U \ {x}] /\ h[U] = f[x] + h[U \ {x}]
  BY <1>2, <1>3 DEF Adds
<1>6. U \ {x} \in SUBSET T /\ U \ {x} \subseteq U /\ U \ {x} # U
  BY <1>2, <1>4
<1> HIDE DEF x
<1>7. U \ {x} \notin Bad
  BY <1>1, <1>6
<1>8. g[U \ {x}] = h[U \ {x}]
  BY <1>6, <1>7
<1> QED BY <1>2, <1>5, <1>8

(* There is one for every finite set. *)
LEMMA AddsExists ==
    ASSUME NEW f, NEW W, IsFiniteSet(W)
    PROVE  \E g : Adds(f, W, g)
<1> DEFINE Bad == {S \in SUBSET W : ~\E g : Adds(f, S, g)}
<1> SUFFICES ASSUME Bad # {} PROVE FALSE
  OBVIOUS
<1>1. PICK S \in Bad : \A T \in Bad : ~(T \subseteq S /\ T # S)
  <2>1. Bad \in SUBSET SUBSET W
    OBVIOUS
  <2> HIDE DEF Bad
  <2> QED BY <2>1, SmallestSubset
<1> DEFINE G(T) == CHOOSE g : Adds(f, T, g)
<1>2. ASSUME NEW T \in SUBSET S, T # S PROVE Adds(f, T, G(T))
  <2>1. T \notin Bad /\ T \in SUBSET W
    BY <1>1, <1>2
  <2>2. \E g : Adds(f, T, g)
    BY <2>1
  <2> QED BY <2>2
<1> HIDE DEF G
<1>3. ASSUME NEW T \in SUBSET S, T # S, NEW U \in SUBSET T PROVE G(T)[U] = G(U)[U]
  <2>1. U # S /\ U \in SUBSET S
    BY <1>3
  <2>2. Adds(f, U, G(U)) /\ Adds(f, T, G(T))
    BY <1>2, <1>3, <2>1
  <2>3. IsFiniteSet(U)
    BY FS_Subset
  <2> DEFINE g1 == G(T)
             h1 == G(U)
  <2>4. Adds(f, T, g1) /\ Adds(f, U, h1)
    BY <2>2
  <2> HIDE DEF g1, h1, Bad
  <2>5. U \subseteq T
    OBVIOUS
  <2>6. \A V \in SUBSET U : g1[V] = h1[V]
    BY <2>3, <2>4, <2>5, AddsUnique, Z3
  <2>7. U \in SUBSET U
    OBVIOUS
  <2>8. g1[U] = h1[U]
    BY <2>6, <2>7
  <2> QED BY <2>8 DEF g1, h1
<1> DEFINE x == CHOOSE x \in S : TRUE
           g == [T \in SUBSET S |-> IF T # S THEN G(T)[T]
                                    ELSE IF S = {} THEN 0 ELSE f[x] + G(S \ {x})[S \ {x}]]
<1>4. ASSUME NEW T \in SUBSET S
      PROVE  g[T] = IF T = {} THEN 0 ELSE f[CHOOSE y \in T : TRUE] + g[T \ {CHOOSE y \in T : TRUE}]
  <2>1. CASE T = {}
    <3>1. CASE T = S
      BY <2>1, <3>1
    <3>2. CASE T # S
      <4>1. Adds(f, T, G(T))
        BY <1>2, <3>2
      <4>2. G(T)[T] = 0
        BY <4>1, <2>1 DEF Adds
      <4> QED BY <4>2, <3>2, <2>1
    <3> QED BY <3>1, <3>2
  <2>2. CASE T # {}
    <3> DEFINE y == CHOOSE y \in T : TRUE
    <3>1. y \in T /\ T \ {y} \in SUBSET S /\ T \ {y} # S
      BY <2>2
    <3>2. g[T \ {y}] = G(T \ {y})[T \ {y}]
      BY <3>1
    <3>3. CASE T = S
      <4>1. x = y
        BY <3>3
      <4>2. g[T] = f[x] + G(S \ {x})[S \ {x}]
        BY <2>2, <3>3
      <4> HIDE DEF g, x, y
      <4>3. g[T] = f[y] + g[T \ {y}]
        BY <4>1, <4>2, <3>2, <3>3
      <4> QED BY <4>3, <2>2 DEF y
    <3>4. CASE T # S
      <4>1. Adds(f, T, G(T))
        BY <1>2, <3>4
      <4>2. G(T)[T] = f[y] + G(T)[T \ {y}]
        BY <4>1, <2>2 DEF Adds
      <4>3. Adds(f, T \ {y}, G(T \ {y}))
        BY <1>2, <3>1
      <4>4. G(T)[T \ {y}] = G(T \ {y})[T \ {y}]
        BY <1>3, <3>1, <3>4
      <4>5. g[T] = G(T)[T]
        BY <3>4
      <4> HIDE DEF g, y
      <4>6. g[T] = f[y] + g[T \ {y}]
        BY <4>2, <4>4, <4>5, <3>2
      <4> QED BY <4>6, <2>2 DEF y
    <3> QED BY <3>3, <3>4
  <2> QED BY <2>1, <2>2
<1>5. DOMAIN g = SUBSET S
  OBVIOUS
<1> HIDE DEF g
<1>6. Adds(f, S, g)
  BY <1>4, <1>5 DEF Adds
<1> QED BY <1>6

(* The sum of a function over the empty set is nothing, and over any other set it is
   the value at any element and the sum over the rest. *)
LEMMA SumOfSteps ==
    ASSUME NEW W, IsFiniteSet(W), NEW f \in [W -> Int]
    PROVE  /\ SumOf(f) \in [SUBSET W -> Int]
           /\ SumOf(f)[{}] = 0
           /\ \A S \in SUBSET W : \A x \in S : SumOf(f)[S] = f[x] + SumOf(f)[S \ {x}]
<1>1. PICK g : Adds(f, W, g)
  BY AddsExists
<1>2. DOMAIN g = SUBSET DOMAIN f
  BY <1>1 DEF Adds
<1> DEFINE h == [S \in SUBSET DOMAIN f |-> g[S]]
<1>3. DOMAIN f = W
  OBVIOUS
<1>4. SumsUp(f, h)
  <2>1. ASSUME NEW S \in SUBSET DOMAIN f
        PROVE  h[S] = IF S = {} THEN 0 ELSE LET x == CHOOSE x \in S : TRUE IN f[x] + h[S \ {x}]
    <3> DEFINE x == CHOOSE x \in S : TRUE
    <3>1. h[S] = g[S]
      OBVIOUS
    <3>2. S \ {x} \in SUBSET DOMAIN f
      OBVIOUS
    <3>3. h[S \ {x}] = g[S \ {x}]
      BY <3>2
    <3>4. g[S] = IF S = {} THEN 0 ELSE f[x] + g[S \ {x}]
      BY <1>1, <1>3 DEF Adds
    <3> HIDE DEF h
    <3> QED BY <3>1, <3>3, <3>4
  <2>2. h = [S \in SUBSET DOMAIN f |-> h[S]]
    OBVIOUS
  <2>3. [S \in SUBSET DOMAIN f |-> h[S]]
         = [S \in SUBSET DOMAIN f |-> IF S = {} THEN 0 ELSE LET x == CHOOSE x \in S : TRUE IN f[x] + h[S \ {x}]]
    <3> HIDE DEF h
    <3> QED BY <2>1
  <2> HIDE DEF h
  <2> QED BY <2>2, <2>3 DEF SumsUp
<1>5. SumsUp(f, SumOf(f))
  <2> HIDE DEF h
  <2> QED BY <1>4 DEF SumOf
<1> DEFINE s == SumOf(f)
<1>6. /\ DOMAIN s = SUBSET W
      /\ s[{}] = 0
      /\ \A S \in SUBSET W : S # {} => s[S] = f[CHOOSE x \in S : TRUE] + s[S \ {CHOOSE x \in S : TRUE}]
  <2> HIDE DEF s
  <2>1. SumsUp(f, s)
    BY <1>5 DEF s
  <2> QED BY <2>1, <1>3 DEF SumsUp
<1> HIDE DEF s
<1>7. ASSUME NEW S \in SUBSET W PROVE s[S] \in Int
  <2> DEFINE Bad == {T \in SUBSET W : s[T] \notin Int}
  <2> SUFFICES ASSUME Bad # {} PROVE FALSE
    OBVIOUS
  <2>1. PICK T \in Bad : \A U \in Bad : ~(U \subseteq T /\ U # T)
    <3>1. Bad \in SUBSET SUBSET W
      OBVIOUS
    <3> HIDE DEF Bad
    <3> QED BY <3>1, SmallestSubset
  <2>2. T \in SUBSET W /\ s[T] \notin Int
    OBVIOUS
  <2>3. T # {}
    <3>1. s[{}] = 0
      BY <1>6
    <3>2. s[{}] \in Int
      BY <3>1
    <3> QED BY <2>2, <3>2
  <2> DEFINE x == CHOOSE x \in T : TRUE
  <2>4. x \in T /\ T \ {x} \in SUBSET W /\ T \ {x} \subseteq T /\ T \ {x} # T
    BY <2>2, <2>3
  <2>5. s[T] = f[x] + s[T \ {x}]
    BY <1>6, <2>2, <2>3
  <2> HIDE DEF x
  <2>6. s[T \ {x}] \in Int
    BY <2>1, <2>4
  <2>7. f[x] \in Int
    BY <2>4, <2>2
  <2> QED BY <2>2, <2>5, <2>6, <2>7
<1>8. ASSUME NEW S \in SUBSET W, NEW x \in S PROVE s[S] = f[x] + s[S \ {x}]
  <2> DEFINE Bad == {T \in SUBSET W : \E y \in T : s[T] # f[y] + s[T \ {y}]}
  <2> SUFFICES ASSUME Bad # {} PROVE FALSE
    OBVIOUS
  <2>1. PICK T \in Bad : \A U \in Bad : ~(U \subseteq T /\ U # T)
    <3>1. Bad \in SUBSET SUBSET W
      OBVIOUS
    <3> HIDE DEF Bad
    <3> QED BY <3>1, SmallestSubset
  <2>2. PICK y \in T : s[T] # f[y] + s[T \ {y}]
    OBVIOUS
  <2>a. T \in SUBSET W
    OBVIOUS
  <2> DEFINE z == CHOOSE z \in T : TRUE
  <2>3. z \in T /\ T # {}
    BY <2>2
  <2>4. s[T] = f[z] + s[T \ {z}]
    BY <1>6, <2>3, <2>a
  <2> HIDE DEF z
  <2>5. y # z
    BY <2>2, <2>4
  <2>6. /\ T \ {z} \in SUBSET W /\ T \ {z} \subseteq T /\ T \ {z} # T /\ y \in T \ {z}
        /\ T \ {y} \in SUBSET W /\ T \ {y} \subseteq T /\ T \ {y} # T /\ z \in T \ {y}
    BY <2>3, <2>5, <2>a
  <2>7. T \ {z} \notin Bad /\ T \ {y} \notin Bad
    BY <2>1, <2>6
  <2>8. s[T \ {z}] = f[y] + s[(T \ {z}) \ {y}]
    BY <2>6, <2>7
  <2>9. s[T \ {y}] = f[z] + s[(T \ {y}) \ {z}]
    BY <2>6, <2>7
  <2>10. (T \ {y}) \ {z} = (T \ {z}) \ {y}
    OBVIOUS
  <2>11. (T \ {z}) \ {y} \in SUBSET W
    BY <2>a
  <2>12. f[y] \in Int /\ f[z] \in Int /\ s[(T \ {z}) \ {y}] \in Int
    BY <2>3, <2>a, <2>11, <1>7
  <2> DEFINE rest == s[(T \ {z}) \ {y}]
  <2>13. s[T] = f[z] + (f[y] + rest) /\ s[T \ {y}] = f[z] + rest
    BY <2>4, <2>8, <2>9, <2>10
  <2>14. rest \in Int
    BY <2>12
  <2> HIDE DEF rest
  <2>15. f[y] + s[T \ {y}] = f[z] + (f[y] + rest)
    BY <2>12, <2>13, <2>14
  <2> QED BY <2>2, <2>13, <2>15
<1>9. s \in [SUBSET W -> Int]
  <2>1. s = [S \in SUBSET W |-> s[S]]
    BY <1>5, <1>3 DEF SumsUp, s
  <2> QED BY <2>1, <1>7
<1> QED BY <1>6, <1>8, <1>9 DEF s

(* A statement about all subsets of a finite set: if it holds of the empty set and
   passes from S \ {x} to S, it holds of the whole.  Bad are the subsets it fails for. *)
LEMMA NoSmallest ==
    ASSUME NEW W, IsFiniteSet(W), NEW Bad \in SUBSET SUBSET W, {} \notin Bad,
           \A S \in Bad : \A x \in S : S \ {x} \in Bad
    PROVE  Bad = {}
<1> SUFFICES ASSUME Bad # {} PROVE FALSE
  OBVIOUS
<1>1. PICK S \in Bad : \A T \in Bad : ~(T \subseteq S /\ T # S)
  BY SmallestSubset
<1>2. PICK x \in S : TRUE
  OBVIOUS
<1>3. S \ {x} \in Bad /\ S \ {x} \subseteq S /\ S \ {x} # S
  BY <1>2
<1> QED BY <1>1, <1>3

(* The sums over the subsets of W. *)
PartialSums(f, W, F) ==
    /\ F \in [SUBSET W -> Int] /\ F[{}] = 0 /\ F[W] = SumFunction(f)
    /\ \A S \in SUBSET W : \A x \in S : F[S] = f[x] + F[S \ {x}]

(* They exist. *)
LEMMA SumParts ==
    ASSUME NEW W, IsFiniteSet(W), NEW f \in [W -> Int]
    PROVE  \E F : PartialSums(f, W, F)
<1>1. SumFunction(f) = SumOf(f)[DOMAIN f] /\ DOMAIN f = W
  BY SumIsFold
<1>2. /\ SumOf(f) \in [SUBSET W -> Int] /\ SumOf(f)[{}] = 0
      /\ \A S \in SUBSET W : \A x \in S : SumOf(f)[S] = f[x] + SumOf(f)[S \ {x}]
  BY SumOfSteps
<1>3. PartialSums(f, W, SumOf(f))
  BY <1>1, <1>2 DEF PartialSums
<1> QED BY <1>3

(* Sums are integers. *)
LEMMA SumInt ==
    ASSUME NEW W, IsFiniteSet(W), NEW f \in [W -> Int]
    PROVE  SumFunction(f) \in Int
<1>1. PICK F : PartialSums(f, W, F)
  BY SumParts
<1>2. W \in SUBSET W
  OBVIOUS
<1> QED BY <1>1, <1>2 DEF PartialSums

(* Of two functions, and the number of elements: a bound for every element bounds the sum. *)
LEMMA SumBound ==
    ASSUME NEW W, IsFiniteSet(W), NEW f \in [W -> Int], NEW g \in [W -> Int], NEW b \in Nat,
           \A w \in W : f[w] + g[w] <= b
    PROVE  SumFunction(f) + SumFunction(g) <= Cardinality(W) * b
<1>1. PICK F : PartialSums(f, W, F)
  BY SumParts
<1>2. PICK G : PartialSums(g, W, G)
  BY SumParts
<1>3. SumFunction(f) = F[W] /\ SumFunction(g) = G[W]
  BY <1>1, <1>2 DEF PartialSums
<1> DEFINE Bad == {S \in SUBSET W : ~(F[S] + G[S] <= Cardinality(S) * b)}
<1>4. {} \notin Bad
  BY <1>1, <1>2, FS_EmptySet DEF PartialSums
<1>5. ASSUME NEW S \in Bad, NEW x \in S PROVE S \ {x} \in Bad
  <2> DEFINE R == S \ {x}
             n == Cardinality(R)
  <2>1. S \in SUBSET W /\ R \in SUBSET W /\ x \in W
    OBVIOUS
  <2>2. IsFiniteSet(S) /\ IsFiniteSet(R)
    BY <2>1, FS_Subset
  <2>3. n \in Nat /\ Cardinality(S) = n + 1
    <3>1. Cardinality(S \ {x}) = Cardinality(S) - 1
      BY <2>2, FS_RemoveElement
    <3>2. Cardinality(S) \in Nat /\ Cardinality(R) \in Nat
      BY <2>2, FS_CardinalityType
    <3> QED BY <3>1, <3>2
  <2>4. F[S] = f[x] + F[R] /\ G[S] = g[x] + G[R]
    BY <1>1, <1>2, <2>1 DEF PartialSums
  <2>5. ~(F[S] + G[S] <= (n + 1) * b)
    BY <2>3
  <2>6. F[R] \in Int /\ G[R] \in Int /\ f[x] \in Int /\ g[x] \in Int /\ f[x] + g[x] <= b
    BY <1>1, <1>2, <2>1 DEF PartialSums
  <2> HIDE DEF R, n
  <2>7. (n + 1) * b = n * b + b /\ n * b \in Int
    BY <2>3
  <2> DEFINE nb == n * b
             nb1 == (n + 1) * b
  <2>8. nb1 = nb + b /\ nb \in Int
    BY <2>7
  <2>9. ~(F[S] + G[S] <= nb1)
    BY <2>5
  <2> HIDE DEF nb, nb1
  <2>10. ~(F[R] + G[R] <= nb)
    BY <2>4, <2>6, <2>8, <2>9
  <2>11. ~(F[R] + G[R] <= Cardinality(R) * b)
    BY <2>10 DEF nb, n
  <2> QED BY <2>1, <2>11 DEF R
<1>6. Bad = {}
  <2>1. Bad \in SUBSET SUBSET W /\ \A S \in Bad : \A x \in S : S \ {x} \in Bad
    BY <1>5
  <2> HIDE DEF Bad
  <2> QED BY <1>4, <2>1, NoSmallest
<1>7. W \in SUBSET W
  OBVIOUS
<1>8. F[W] + G[W] <= Cardinality(W) * b
  BY <1>6, <1>7
<1> QED BY <1>3, <1>8

(* Smaller values have a smaller sum. *)
LEMMA SumMonotone ==
    ASSUME NEW W, IsFiniteSet(W), NEW f \in [W -> Int], NEW g \in [W -> Int],
           \A w \in W : f[w] <= g[w]
    PROVE  SumFunction(f) <= SumFunction(g)
<1>1. PICK F : PartialSums(f, W, F)
  BY SumParts
<1>2. PICK G : PartialSums(g, W, G)
  BY SumParts
<1>3. SumFunction(f) = F[W] /\ SumFunction(g) = G[W]
  BY <1>1, <1>2 DEF PartialSums
<1> DEFINE Bad == {S \in SUBSET W : ~(F[S] <= G[S])}
<1>4. {} \notin Bad
  BY <1>1, <1>2 DEF PartialSums
<1>5. ASSUME NEW S \in Bad, NEW x \in S PROVE S \ {x} \in Bad
  <2>1. S \in SUBSET W /\ S \ {x} \in SUBSET W /\ x \in W /\ ~(F[S] <= G[S])
    OBVIOUS
  <2>2. F[S] = f[x] + F[S \ {x}] /\ G[S] = g[x] + G[S \ {x}]
    BY <1>1, <1>2, <2>1 DEF PartialSums
  <2>3. F[S \ {x}] \in Int /\ G[S \ {x}] \in Int /\ f[x] \in Int /\ g[x] \in Int /\ f[x] <= g[x]
    BY <1>1, <1>2, <2>1 DEF PartialSums
  <2>4. ~(F[S \ {x}] <= G[S \ {x}])
    BY <2>1, <2>2, <2>3
  <2> QED BY <2>1, <2>4
<1>6. Bad = {}
  <2>1. Bad \in SUBSET SUBSET W /\ \A S \in Bad : \A x \in S : S \ {x} \in Bad
    BY <1>5
  <2> HIDE DEF Bad
  <2> QED BY <1>4, <2>1, NoSmallest
<1>7. F[W] <= G[W]
  <2>1. W \in SUBSET W
    OBVIOUS
  <2> QED BY <1>6, <2>1
<1> QED BY <1>3, <1>7

(* A change of one value changes the sum by as much. *)
LEMMA SumChange ==
    ASSUME NEW W, IsFiniteSet(W), NEW f \in [W -> Int], NEW g \in [W -> Int], NEW w \in W,
           \A v \in W \ {w} : f[v] = g[v]
    PROVE  SumFunction(g) = SumFunction(f) + g[w] - f[w]
<1>1. PICK F : PartialSums(f, W, F)
  BY SumParts
<1>2. PICK G : PartialSums(g, W, G)
  BY SumParts
<1>3. SumFunction(f) = F[W] /\ SumFunction(g) = G[W]
  BY <1>1, <1>2 DEF PartialSums
<1> DEFINE Bad == {S \in SUBSET W : w \notin S /\ F[S] # G[S]}
<1>4. {} \notin Bad
  BY <1>1, <1>2 DEF PartialSums
<1>5. ASSUME NEW S \in Bad, NEW x \in S PROVE S \ {x} \in Bad
  <2>1. S \in SUBSET W /\ S \ {x} \in SUBSET W /\ x \in W /\ w \notin S /\ F[S] # G[S] /\ x # w
    OBVIOUS
  <2>2. F[S] = f[x] + F[S \ {x}] /\ G[S] = g[x] + G[S \ {x}] /\ f[x] = g[x]
    BY <1>1, <1>2, <2>1 DEF PartialSums
  <2>3. F[S \ {x}] # G[S \ {x}]
    BY <2>1, <2>2
  <2> QED BY <2>1, <2>3
<1>6. Bad = {}
  <2>1. Bad \in SUBSET SUBSET W /\ \A S \in Bad : \A x \in S : S \ {x} \in Bad
    BY <1>5
  <2> HIDE DEF Bad
  <2> QED BY <1>4, <2>1, NoSmallest
<1> DEFINE R == W \ {w}
<1>7. W \in SUBSET W /\ R \in SUBSET W /\ w \notin R
  OBVIOUS
<1>8. F[R] = G[R]
  BY <1>6, <1>7
<1>9. F[W] = f[w] + F[R] /\ G[W] = g[w] + G[R]
  BY <1>1, <1>2, <1>7 DEF PartialSums
<1>10. F[R] \in Int /\ f[w] \in Int /\ g[w] \in Int
  BY <1>1, <1>7 DEF PartialSums
<1> HIDE DEF R
<1> QED BY <1>3, <1>8, <1>9, <1>10
(* A sum of naturals is one. *)
LEMMA SumNat ==
    ASSUME NEW W, IsFiniteSet(W), NEW f \in [W -> Nat]
    PROVE  SumFunction(f) \in Nat
<1>0. f \in [W -> Int]
  OBVIOUS
<1>1. PICK F : PartialSums(f, W, F)
  BY <1>0, SumParts
<1> DEFINE Bad == {S \in SUBSET W : F[S] \notin Nat}
<1>2. {} \notin Bad
  BY <1>1 DEF PartialSums
<1>3. ASSUME NEW S \in Bad, NEW x \in S PROVE S \ {x} \in Bad
  <2>1. S \in SUBSET W /\ S \ {x} \in SUBSET W /\ x \in W /\ F[S] \notin Nat
    OBVIOUS
  <2>2. F[S] = f[x] + F[S \ {x}] /\ F[S \ {x}] \in Int /\ f[x] \in Nat
    BY <1>1, <2>1 DEF PartialSums
  <2>3. F[S \ {x}] \notin Nat
    BY <2>1, <2>2
  <2> QED BY <2>1, <2>3
<1>4. Bad = {}
  <2>1. Bad \in SUBSET SUBSET W /\ \A S \in Bad : \A x \in S : S \ {x} \in Bad
    BY <1>3
  <2> HIDE DEF Bad
  <2> QED BY <1>2, <2>1, NoSmallest
<1>5. W \in SUBSET W
  OBVIOUS
<1>6. F[W] \in Nat
  BY <1>4, <1>5
<1> QED BY <1>1, <1>6 DEF PartialSums

-----------------------------------------------------------------------------
(* The tag service *)

(* A field of token_info, a worker, a command, a reply. *)
LunaInfos ==
    [known : BOOLEAN, total_req_count : Nat, qpm_req_count : Nat, total_req_remain : Nat,
     qpm_req_remain : Nat, use_total_limit : BOOLEAN]
LunaWorkers ==
    [ctx : {"own", "shared"}, step : Steps, token : Token \cup {"none"}, todo : SUBSET Token,
     sent : BOOLEAN, seen : 0 .. MaxPerSecond, fresh : [Token -> BOOLEAN]]
LunaCommands ==
    [of : Worker, token : Token, step : {"limit", "total", "qpm"}, late : BOOLEAN, count : Nat]
StringReplies ==
    [of : Worker, token : Token, step : {"limit"}, late : BOOLEAN, type : {"string"}, value : BOOLEAN]
IntegerReplies ==
    [of : Worker, token : Token, step : {"total", "qpm"}, late : BOOLEAN, type : {"integer"}, value : Nat]

LunaTypes ==
    /\ lwork \in [Worker -> LunaWorkers]
    /\ linfo \in [Worker -> [Token -> LunaInfos]]
    /\ lredis \in [Token -> [qpm : Floor .. Quota, total : Int, limit : BOOLEAN]]
    /\ lup \in BOOLEAN
    /\ lcommands \in Seq(LunaCommands)
    /\ lreplies \in Seq(StringReplies \cup IntegerReplies)
    /\ lhist \in [Token -> [admitted : 0 .. MaxRequests, blind : BOOLEAN, forgotten : Nat]]

Commands == {"limit", "total", "qpm"}

(* The trigger of w has yet to charge the requests for t. *)
Pend(w, t) == t \in lwork[w].todo \/ (lwork[w].step \in Commands /\ lwork[w].token = t)

(* How far the trigger of w can be. *)
TrigShapeOf(w) ==
    /\ lwork[w].step \in Commands => lwork[w].token \in Token /\ lwork[w].token \notin lwork[w].todo
    /\ lwork[w].step \notin Commands => lwork[w].todo = {} /\ ~lwork[w].sent
    /\ lwork[w].sent => lwork[w].ctx = "shared"
    /\ \A t \in Token : Pend(w, t) => linfo[w][t].known
TrigShape == \A w \in Worker : TrigShapeOf(w)

(* Who still has the first connection has admitted nothing; who does not know a token
   admits nothing for it. *)
NewComersOf(w) ==
    \A t \in Token :
        /\ lwork[w].ctx = "shared" => linfo[w][t].qpm_req_count = 0
        /\ lwork[w].ctx = "shared" /\ lwork[w].step \in {"idle", "absent"} => linfo[w][t].qpm_req_remain = 0
        /\ ~linfo[w][t].known => linfo[w][t].qpm_req_count = 0 /\ linfo[w][t].qpm_req_remain = 0
        /\ linfo[w][t].qpm_req_count <= lhist[t].admitted
NewComers == \A w \in Worker : NewComersOf(w)

(* Whose the commands and the replies on the first connection are. *)
Mark(m) == [of |-> m.of, token |-> m.token, step |-> m.step, late |-> m.late]
InFlight ==
    {Mark(lcommands[i]) : i \in DOMAIN lcommands} \cup {Mark(lreplies[i]) : i \in DOMAIN lreplies}

(* Neither is older than the command for which w could take the reply. *)
NoOldOf(w) ==
    \A m \in InFlight :
        m.of = w /\ m.step = "qpm" /\ ~m.late /\ lwork[w].ctx = "shared" =>
              /\ lwork[w].step \notin {"idle", "absent"}
              /\ m.token \notin lwork[w].todo
              /\ lwork[w].step \in Commands /\ lwork[w].token = m.token
                   => lwork[w].step = "qpm" /\ lwork[w].sent
NoOld == \A w \in Worker : NoOldOf(w)

(* Nothing was admitted without a fresh answer, and nothing forgotten. *)
Fine(t) == ~lhist[t].blind /\ lhist[t].forgotten = 0

(* A worker counts no more than it could admit in a second. *)
CountsOf(w) ==
    \A t \in Token : Fine(t) =>
        /\ linfo[w][t].qpm_req_count <= MaxPerSecond
        /\ ~Pend(w, t) /\ lwork[w].fresh[t] => linfo[w][t].qpm_req_count <= lwork[w].seen
Counts == \A w \in Worker : CountsOf(w)

(* A reply is there that lets w admit requests for t. *)
Waiting(w, t) ==
    /\ lwork[w].sent /\ lwork[w].step = "qpm" /\ lwork[w].token = t
    /\ \E i \in DOMAIN lreplies : OwnReply(lreplies[i], w) /\ lreplies[i].value > 0

(* How much w may still admit for t before Redis is asked again. *)
Room(w, t) ==
    IF Waiting(w, t) THEN MaxPerSecond
    ELSE IF ~Pend(w, t) /\ lwork[w].fresh[t] /\ linfo[w][t].qpm_req_remain > 0
         THEN MaxPerSecond - lwork[w].seen ELSE 0

SumRoom(t) == SumFunction([w \in Worker |-> Room(w, t)])

Limit == Quota - 1 + Cardinality(Worker) * MaxPerSecond

Over == \A t \in Token : Fine(t) => lhist[t].admitted + SumRoom(t) <= Limit

LunaIInv == LunaTypes /\ TrigShape /\ NewComers /\ NoOld /\ Counts /\ NeverUndercharged /\ Over

----------------------------------------------------------------------------
(* The greater of two numbers, as the maximum of a set. *)
LEMMA MaxTwo ==
    ASSUME NEW a \in Int, NEW b \in Int
    PROVE  Max({a, b}) = IF a >= b THEN a ELSE b
<1>1. \A x \in {a, b} : (\A y \in {a, b} : x >= y) => x = IF a >= b THEN a ELSE b
  OBVIOUS
<1>2. \E x \in {a, b} : \A y \in {a, b} : x >= y
  OBVIOUS
<1> QED BY <1>1, <1>2 DEF Max

(* Redis counts down to Floor. *)
LEMMA LessIs ==
    ASSUME NEW n \in Floor .. Quota, NEW d \in Nat
    PROVE  /\ Less(n, d) \in Floor .. Quota
           /\ Less(n, d) = n - d \/ (Less(n, d) = Floor /\ n - d <= Floor)
<1>1. Floor \in Int /\ n \in Int /\ Quota \in Int
  BY LunaAssumption DEF Floor
<1>2. Less(n, d) = IF Floor >= n - d THEN Floor ELSE n - d
  BY <1>1, MaxTwo DEF Less
<1> HIDE DEF Floor
<1> QED BY <1>1, <1>2

(* What is left of a quota never shows below zero. *)
LEMMA LeftIs ==
    ASSUME NEW n \in Int
    PROVE  Left(n) = IF n <= 0 THEN 0 ELSE n
<1>1. Left(n) = IF 0 >= n THEN 0 ELSE n
  BY MaxTwo DEF Left
<1> QED BY <1>1

(* The end of a command of w: the next one, or the next token, or what comes after the
   last one; and what is known of the token. *)
Finished(w, ctx, ok, value, own) ==
    LET work == lwork[w]
        work2 == lwork'[w]
    IN  /\ lwork' \in [Worker -> LunaWorkers]
        /\ linfo' \in [Worker -> [Token -> LunaInfos]]
        /\ \A v \in Worker \ {w} : lwork'[v] = lwork[v] /\ linfo'[v] = linfo[v]
        /\ work2.ctx = ctx /\ ~work2.sent /\ work2.seen = work.seen
        /\ work.step # "qpm" =>
             /\ work2.step \in {"total", "qpm"} /\ work2.token = work.token
             /\ work2.todo = work.todo /\ work2.fresh = work.fresh
        /\ work.step = "qpm" =>
             /\ work2.fresh[work.token] = own
             /\ \A t \in Token \ {work.token} : work2.fresh[t] = work.fresh[t]
             /\ work.todo = {} => work2.step = "after" /\ work2.todo = {}
             /\ work.todo # {} => /\ work2.step = "limit" /\ work2.token \in work.todo
                                  /\ work2.todo = work.todo \ {work2.token}
        /\ \A t \in Token \ {work.token} : linfo'[w][t] = linfo[w][t]
        /\ linfo'[w][work.token].known = linfo[w][work.token].known
        /\ work.step # "qpm" \/ ~ok =>
             /\ linfo'[w][work.token].qpm_req_count = linfo[w][work.token].qpm_req_count
             /\ linfo'[w][work.token].qpm_req_remain = linfo[w][work.token].qpm_req_remain
        /\ work.step = "qpm" /\ ok =>
             /\ linfo'[w][work.token].qpm_req_count = 0
             /\ linfo'[w][work.token].qpm_req_remain = value

(* What the end of a command does to the worker and to what it knows. *)
LEMMA FinishDoes ==
    ASSUME LunaTypes, TrigShape, NEW w \in Worker, lwork[w].step \in Commands,
           NEW ctx \in {"own", "shared"}, NEW ok \in BOOLEAN, NEW own \in BOOLEAN, NEW value,
           LunaFinish(w, ctx, ok, value, own),
           ok /\ lwork[w].step # "limit" => value \in Nat
    PROVE  Finished(w, ctx, ok, value, own)
<1> DEFINE work == lwork[w]
           tok == work.token
           base == [work EXCEPT !.ctx = ctx]
           info == linfo[w][tok]
           i == ti_update_token_info(info, work.step, ok, value)
           work2 == After(w, base, i, own)
<1>1. work \in LunaWorkers /\ tok \in Token /\ info \in LunaInfos /\ work.step \in Commands
  BY DEF LunaTypes, TrigShape, TrigShapeOf
<1>2. /\ lwork' = [lwork EXCEPT ![w] = work2]
      /\ linfo' = [linfo EXCEPT ![w][tok] = i]
  <2>1. base.step = work.step /\ base.token = work.token
    BY <1>1 DEF LunaWorkers
  <2> QED BY <2>1 DEF LunaFinish
<1>3. /\ i \in LunaInfos /\ i.known = info.known
      /\ work.step # "qpm" \/ ~ok => i.qpm_req_count = info.qpm_req_count /\ i.qpm_req_remain = info.qpm_req_remain
      /\ work.step = "qpm" /\ ok => i.qpm_req_count = 0 /\ i.qpm_req_remain = value
  <2> HIDE DEF work, info
  <2>1. CASE work.step = "limit"
    <3>1. i = [info EXCEPT !.use_total_limit = ok /\ value]
      BY <2>1 DEF ti_update_token_info
    <3> DEFINE b == ok /\ value
    <3>2. b \in BOOLEAN
      OBVIOUS
    <3>3. i = [info EXCEPT !.use_total_limit = b]
      BY <3>1
    <3> HIDE DEF b, i
    <3> QED BY <2>1, <3>2, <3>3, <1>1 DEF LunaInfos
  <2>2. CASE work.step = "total"
    <3>1. i = IF ok THEN [info EXCEPT !.total_req_count = 0, !.total_req_remain = value] ELSE info
      BY <2>2 DEF ti_update_token_info
    <3>2. ok => value \in Nat
      BY <2>2 DEF work
    <3> HIDE DEF i
    <3> QED BY <2>2, <3>1, <3>2, <1>1 DEF LunaInfos
  <2>3. CASE work.step = "qpm"
    <3>1. i = IF ok THEN [info EXCEPT !.qpm_req_count = 0, !.qpm_req_remain = value] ELSE info
      BY <2>3 DEF ti_update_token_info
    <3>2. ok => value \in Nat
      BY <2>3 DEF work
    <3> HIDE DEF i
    <3> QED BY <2>3, <3>1, <3>2, <1>1 DEF LunaInfos
  <2> QED BY <2>1, <2>2, <2>3, <1>1 DEF Commands
<1>4. base \in LunaWorkers /\ base.ctx = ctx /\ base.step = work.step /\ base.token = tok /\ base.todo = work.todo
        /\ base.seen = work.seen /\ base.fresh = work.fresh
  <2> HIDE DEF work
  <2> QED BY <1>1 DEF LunaWorkers
<1>5. /\ work2 \in LunaWorkers /\ work2.ctx = ctx /\ work2.sent = FALSE /\ work2.seen = work.seen
      /\ work.step # "qpm" =>
           /\ work2.step \in {"total", "qpm"} /\ work2.token = tok
           /\ work2.todo = work.todo /\ work2.fresh = work.fresh
      /\ work.step = "qpm" =>
           /\ work2.fresh[tok] = own
           /\ \A t \in Token \ {tok} : work2.fresh[t] = work.fresh[t]
           /\ work.todo = {} => work2.step = "after" /\ work2.todo = {}
           /\ work.todo # {} => /\ work2.step = "limit" /\ work2.token \in work.todo
                                /\ work2.todo = work.todo \ {work2.token}
  <2> HIDE DEF work, base, i
  <2>1. CASE work.step = "limit"
    <3>1. work2 = [base EXCEPT !.step = IF i.use_total_limit THEN "total" ELSE "qpm", !.sent = FALSE]
      BY <2>1, <1>4 DEF After
    <3> HIDE DEF work2
    <3> QED BY <2>1, <3>1, <1>4 DEF LunaWorkers, Steps
  <2>2. CASE work.step = "total"
    <3>1. work2 = [base EXCEPT !.step = "qpm", !.sent = FALSE]
      BY <2>2, <1>4 DEF After
    <3> HIDE DEF work2
    <3> QED BY <2>2, <3>1, <1>4 DEF LunaWorkers, Steps
  <2>3. CASE work.step = "qpm"
    <3> DEFINE mid == [base EXCEPT !.sent = FALSE, !.fresh[base.token] = own]
    <3>1. work2 = NextToken(w, mid)
      BY <2>3, <1>4 DEF After
    <3>2. /\ mid \in LunaWorkers /\ mid.ctx = ctx /\ mid.sent = FALSE /\ mid.seen = work.seen /\ mid.todo = work.todo
          /\ mid.fresh[tok] = own
          /\ \A t \in Token \ {tok} : mid.fresh[t] = work.fresh[t]
      BY <1>4, <1>1 DEF LunaWorkers
    <3> HIDE DEF mid, work2
    <3>3. CASE mid.todo = {}
      <4>1. work2 = [mid EXCEPT !.step = "after", !.token = "none"]
        BY <3>1, <3>3 DEF NextToken
      <4> QED BY <4>1, <3>2, <3>3, <2>3 DEF LunaWorkers, Steps
    <3>4. CASE mid.todo # {}
      <4>1. PICK t \in mid.todo : work2 = [mid EXCEPT !.step = "limit", !.token = t, !.todo = @ \ {t}]
        <5>1. (CHOOSE t \in mid.todo : TRUE) \in mid.todo
          BY <3>4
        <5> QED BY <5>1, <3>1, <3>4 DEF NextToken
      <4> QED BY <4>1, <3>2, <3>4, <2>3 DEF LunaWorkers, Steps
    <3> QED BY <3>3, <3>4
  <2> QED BY <2>1, <2>2, <2>3, <1>1 DEF Commands
<1> HIDE DEF i, work2
<1>6. lwork'[w] = work2 /\ lwork' \in [Worker -> LunaWorkers] /\ \A v \in Worker \ {w} : lwork'[v] = lwork[v]
  BY <1>2, <1>5 DEF LunaTypes
<1>7. /\ linfo'[w][tok] = i /\ linfo' \in [Worker -> [Token -> LunaInfos]]
      /\ \A v \in Worker \ {w} : linfo'[v] = linfo[v]
      /\ \A t \in Token \ {tok} : linfo'[w][t] = linfo[w][t]
  BY <1>1, <1>2, <1>3 DEF LunaTypes
<1> QED BY <1>3, <1>5, <1>6, <1>7 DEF Finished

----------------------------------------------------------------------------
(* Rooms are bounded, before and after a step. *)
LEMMA RoomType ==
    ASSUME LunaTypes, NEW t \in Token PROVE \A v \in Worker : Room(v, t) \in 0 .. MaxPerSecond
<1> SUFFICES ASSUME NEW v \in Worker PROVE Room(v, t) \in 0 .. MaxPerSecond
  OBVIOUS
<1>1. lwork[v].seen \in 0 .. MaxPerSecond /\ MaxPerSecond \in Nat
  BY LunaAssumption DEF LunaTypes, LunaWorkers
<1> QED BY <1>1 DEF Room

(* The same after the step. *)
LEMMA RoomTypeAfter ==
    ASSUME LunaTypes', NEW t \in Token PROVE \A v \in Worker : Room(v, t)' \in 0 .. MaxPerSecond
<1> SUFFICES ASSUME NEW v \in Worker PROVE Room(v, t)' \in 0 .. MaxPerSecond
  OBVIOUS
<1>1. lwork'[v].seen \in 0 .. MaxPerSecond /\ MaxPerSecond \in Nat
  BY LunaAssumption DEF LunaTypes, LunaWorkers
<1> QED BY <1>1 DEF Room

(* What a worker counts and may still admit fits in a second. *)
LEMMA RoomBound ==
    ASSUME LunaTypes', TrigShape', NewComers', Counts', NEW t \in Token, Fine(t)', NEW v \in Worker
    PROVE  linfo'[v][t].qpm_req_count + Room(v, t)' <= MaxPerSecond
<1>1. /\ lwork'[v].seen \in 0 .. MaxPerSecond /\ MaxPerSecond \in Nat
      /\ linfo'[v][t].qpm_req_count \in Nat
  <2>1. lwork'[v] \in LunaWorkers /\ linfo'[v][t] \in LunaInfos
    BY DEF LunaTypes
  <2>2. lwork'[v].seen \in 0 .. MaxPerSecond
    BY <2>1 DEF LunaWorkers
  <2>3. linfo'[v][t].qpm_req_count \in Nat
    BY <2>1 DEF LunaInfos
  <2> QED BY <2>2, <2>3, LunaAssumption
<1>2. linfo'[v][t].qpm_req_count <= MaxPerSecond
  BY DEF Counts, CountsOf
<1>3. Waiting(v, t)' => linfo'[v][t].qpm_req_count = 0
  BY DEF Waiting, TrigShape, TrigShapeOf, NewComers, NewComersOf
<1>4. ~Pend(v, t)' /\ lwork'[v].fresh[t] => linfo'[v][t].qpm_req_count <= lwork'[v].seen
  BY DEF Counts, CountsOf
<1> QED BY <1>1, <1>2, <1>3, <1>4 DEF Room

(* Redis has been told enough, if the step of w tells it as much as it stops counting. *)
LEMMA BalanceKept ==
    ASSUME LunaTypes, LunaTypes', NeverUndercharged, NEW w \in Worker,
           \A v \in Worker \ {w} : \A t \in Token : linfo'[v][t].qpm_req_count = linfo[v][t].qpm_req_count,
           \A t \in Token :
               \/ lredis'[t].qpm = Floor
               \/ (Quota - lredis'[t].qpm) + linfo'[w][t].qpm_req_count + lhist'[t].forgotten - lhist'[t].admitted
                    >= (Quota - lredis[t].qpm) + linfo[w][t].qpm_req_count + lhist[t].forgotten - lhist[t].admitted
    PROVE  NeverUndercharged'
<1> SUFFICES ASSUME NEW t \in Token
             PROVE  (Quota - lredis'[t].qpm) + Pending(t)' + lhist'[t].forgotten >= lhist'[t].admitted
  BY DEF NeverUndercharged
<1> DEFINE f == [v \in Worker |-> linfo[v][t].qpm_req_count]
           g == [v \in Worker |-> linfo'[v][t].qpm_req_count]
<1>1. f \in [Worker -> Nat] /\ g \in [Worker -> Nat] /\ f \in [Worker -> Int] /\ g \in [Worker -> Int]
  <2>1. \A v \in Worker : linfo[v][t] \in LunaInfos /\ linfo'[v][t] \in LunaInfos
    BY DEF LunaTypes
  <2>2. \A v \in Worker : linfo[v][t].qpm_req_count \in Nat /\ linfo'[v][t].qpm_req_count \in Nat
    BY <2>1 DEF LunaInfos
  <2>3. f \in [Worker -> Nat] /\ g \in [Worker -> Nat]
    BY <2>2
  <2>4. \A h : h \in [Worker -> Nat] => h \in [Worker -> Int]
    OBVIOUS
  <2> HIDE DEF f, g
  <2> QED BY <2>3, <2>4
<1>2. f[w] = linfo[w][t].qpm_req_count /\ g[w] = linfo'[w][t].qpm_req_count /\ \A v \in Worker \ {w} : f[v] = g[v]
  OBVIOUS
<1>3. Pending(t) = SumFunction(f) /\ Pending(t)' = SumFunction(g)
  BY DEF Pending
<1>4. /\ lredis[t].qpm \in Int /\ lredis'[t].qpm \in Int /\ Quota \in Int /\ MaxRequests \in Nat
      /\ lhist[t].admitted \in Int /\ lhist'[t].admitted \in 0 .. MaxRequests
      /\ lhist[t].forgotten \in Nat /\ lhist'[t].forgotten \in Nat
  <2>1. Quota \in Int /\ MaxRequests \in Nat /\ Floor \in Int
    BY LunaAssumption DEF Floor
  <2>2. lredis[t].qpm \in Floor .. Quota /\ lredis'[t].qpm \in Floor .. Quota
    BY DEF LunaTypes
  <2>3. lhist[t].admitted \in 0 .. MaxRequests /\ lhist[t].forgotten \in Nat
    BY DEF LunaTypes
  <2>4. lhist'[t].admitted \in 0 .. MaxRequests /\ lhist'[t].forgotten \in Nat
    BY DEF LunaTypes
  <2> HIDE DEF f, g
  <2> QED BY <2>1, <2>2, <2>3, <2>4
<1> HIDE DEF f, g
<1>5. IsFiniteSet(Worker)
  BY LunaAssumption
<1>6. SumFunction(f) \in Nat /\ SumFunction(g) \in Nat
  BY <1>1, <1>5, SumNat
<1>7. SumFunction(g) = SumFunction(f) + g[w] - f[w]
  BY <1>1, <1>2, <1>5, SumChange
<1>8. (Quota - lredis[t].qpm) + SumFunction(f) + lhist[t].forgotten >= lhist[t].admitted
  BY <1>3 DEF NeverUndercharged
<1>9. f[w] \in Int /\ g[w] \in Int
  BY <1>1
<1>10. CASE lredis'[t].qpm = Floor
  <2>1. Quota - lredis'[t].qpm = MaxRequests
    BY <1>10, <1>4 DEF Floor
  <2> QED BY <2>1, <1>3, <1>4, <1>6
<1>11. CASE (Quota - lredis'[t].qpm) + g[w] + lhist'[t].forgotten - lhist'[t].admitted
              >= (Quota - lredis[t].qpm) + f[w] + lhist[t].forgotten - lhist[t].admitted
  BY <1>11, <1>3, <1>4, <1>6, <1>7, <1>8, <1>9
<1> QED BY <1>10, <1>11, <1>2

(* The quota is overspent by no more than Limit, if a step that leaves nothing of it
   leaves no worker more room. *)
LEMMA OverKept ==
    ASSUME LunaTypes, LunaTypes', TrigShape', NewComers', Counts', NeverUndercharged', Over, NEW w \in Worker,
           \A t \in Token : Fine(t)' =>
               \/ lredis'[t].qpm > 0
               \/ /\ Fine(t)
                  /\ \A v \in Worker \ {w} : Room(v, t)' <= Room(v, t)
                  /\ lhist'[t].admitted + Room(w, t)' <= lhist[t].admitted + Room(w, t)
    PROVE  Over'
<1> SUFFICES ASSUME NEW t \in Token, Fine(t)'
             PROVE  lhist'[t].admitted + SumRoom(t)' <= Limit
  BY DEF Over, Limit
<1> DEFINE r == [v \in Worker |-> Room(v, t)]
           q == [v \in Worker |-> Room(v, t)']
           c == [v \in Worker |-> linfo'[v][t].qpm_req_count]
<1>1. SumRoom(t) = SumFunction(r) /\ SumRoom(t)' = SumFunction(q) /\ Pending(t)' = SumFunction(c)
  BY DEF SumRoom, Pending
<1>2. r \in [Worker -> Int] /\ q \in [Worker -> Int] /\ c \in [Worker -> Int]
  <2>1. \A v \in Worker : Room(v, t) \in 0 .. MaxPerSecond
    BY RoomType
  <2>2. \A v \in Worker : Room(v, t)' \in 0 .. MaxPerSecond
    BY RoomTypeAfter
  <2>3. \A v \in Worker : linfo'[v][t].qpm_req_count \in Nat
    BY DEF LunaTypes, LunaInfos
  <2>4. MaxPerSecond \in Nat
    BY LunaAssumption
  <2> QED BY <2>1, <2>2, <2>3, <2>4
<1>3. \A v \in Worker : r[v] = Room(v, t) /\ q[v] = Room(v, t)' /\ c[v] = linfo'[v][t].qpm_req_count
  OBVIOUS
<1>4. IsFiniteSet(Worker) /\ MaxPerSecond \in Nat /\ Quota \in Int
  BY LunaAssumption
<1>5. lhist[t].admitted \in Int /\ lhist'[t].admitted \in Int /\ lredis'[t].qpm \in Int /\ lhist'[t].forgotten = 0
  <2>1. Quota \in Int /\ MaxRequests \in Nat /\ Floor \in Int
    BY LunaAssumption DEF Floor
  <2>2. lredis'[t].qpm \in Floor .. Quota
    BY DEF LunaTypes
  <2>3. lhist[t].admitted \in 0 .. MaxRequests /\ lhist'[t].admitted \in 0 .. MaxRequests
    BY DEF LunaTypes
  <2>4. lhist'[t].forgotten = 0
    BY DEF Fine
  <2> HIDE DEF r, q, c
  <2> QED BY <2>1, <2>2, <2>3, <2>4
<1> HIDE DEF r, q, c
<1>6. CASE lredis'[t].qpm > 0
  <2>1. \A v \in Worker : c[v] + q[v] <= MaxPerSecond
    BY <1>3, RoomBound
  <2>2. SumFunction(c) + SumFunction(q) <= Cardinality(Worker) * MaxPerSecond
    BY <2>1, <1>2, <1>4, SumBound
  <2>3. (Quota - lredis'[t].qpm) + SumFunction(c) + 0 >= lhist'[t].admitted
    BY <1>1, <1>5 DEF NeverUndercharged
  <2>4. SumFunction(c) \in Int /\ SumFunction(q) \in Int /\ Cardinality(Worker) \in Nat
    BY <1>2, <1>4, SumInt, FS_CardinalityType
  <2> DEFINE nb == Cardinality(Worker) * MaxPerSecond
  <2>5. nb \in Int
    BY <2>4, <1>4
  <2>6. SumFunction(c) + SumFunction(q) <= nb
    BY <2>2
  <2> HIDE DEF nb
  <2>7. lhist'[t].admitted + SumFunction(q) <= Quota - 1 + nb
    BY <1>4, <1>5, <1>6, <2>3, <2>4, <2>5, <2>6
  <2> QED BY <2>7, <1>1 DEF Limit, nb
<1>7. CASE ~(lredis'[t].qpm > 0)
  <2>1. /\ Fine(t) /\ \A v \in Worker \ {w} : q[v] <= r[v]
        /\ lhist'[t].admitted + q[w] <= lhist[t].admitted + r[w]
    BY <1>3, <1>7
  <2> DEFINE mid == [r EXCEPT ![w] = q[w]]
  <2>2. mid \in [Worker -> Int] /\ mid[w] = q[w] /\ \A v \in Worker \ {w} : r[v] = mid[v]
    BY <1>2
  <2>3. \A v \in Worker : q[v] <= mid[v]
    <3>1. q[w] <= mid[w]
      BY <1>2, <2>2
    <3> QED BY <2>1, <2>2, <3>1
  <2> HIDE DEF mid
  <2>4. SumFunction(mid) = SumFunction(r) + mid[w] - r[w]
    BY <1>2, <1>4, <2>2, SumChange
  <2>5. SumFunction(q) <= SumFunction(mid)
    BY <1>2, <1>4, <2>2, <2>3, SumMonotone
  <2>6. SumFunction(mid) \in Int /\ SumFunction(r) \in Int /\ SumFunction(q) \in Int /\ Cardinality(Worker) \in Nat
    BY <1>2, <1>4, <2>2, SumInt, FS_CardinalityType
  <2>7. q[w] \in Int /\ r[w] \in Int
    BY <1>2
  <2> DEFINE nb == Limit
  <2>8. nb \in Int
    BY <1>4, <2>6 DEF Limit
  <2>9. lhist[t].admitted + SumFunction(r) <= nb
    BY <2>1, <1>1 DEF Over
  <2> HIDE DEF nb
  <2>10. lhist'[t].admitted + SumFunction(q) <= nb
    BY <1>5, <2>1, <2>2, <2>4, <2>5, <2>6, <2>7, <2>8, <2>9
  <2> QED BY <2>10, <1>1 DEF nb
<1> QED BY <1>6, <1>7

(* A step of w: the others stay as they are, and get no reply. *)
OnlyStep(w) ==
    /\ \A v \in Worker \ {w} : lwork'[v] = lwork[v] /\ linfo'[v] = linfo[v]
    /\ \A m \in InFlight' : m.of # w => m \in InFlight
    /\ \A i \in DOMAIN lreplies' : lreplies'[i].of # w => \E j \in DOMAIN lreplies : lreplies[j] = lreplies'[i]
    /\ \A t \in Token : lhist'[t].admitted >= lhist[t].admitted /\ (Fine(t)' => Fine(t))

(* Nothing changes for the others. *)
LEMMA OthersKept ==
    ASSUME LunaTypes, LunaTypes', TrigShape, NewComers, NoOld, Counts, NEW w \in Worker, OnlyStep(w),
           NEW v \in Worker \ {w}
    PROVE  /\ TrigShapeOf(v)' /\ NewComersOf(v)' /\ NoOldOf(v)' /\ CountsOf(v)'
           /\ \A t \in Token : Room(v, t)' <= Room(v, t)
<1>1. lwork'[v] = lwork[v] /\ linfo'[v] = linfo[v]
  BY DEF OnlyStep
<1>2. TrigShapeOf(v)'
  BY <1>1 DEF TrigShape, TrigShapeOf, Pend
<1>3. NewComersOf(v)'
  <2>1. ASSUME NEW t \in Token
        PROVE  linfo[v][t].qpm_req_count <= lhist'[t].admitted
    <3>1. linfo[v][t].qpm_req_count \in Int /\ lhist[t].admitted \in Int /\ lhist'[t].admitted \in Int
      <4>1. linfo[v][t] \in LunaInfos
        BY DEF LunaTypes
      <4>2. lhist[t].admitted \in 0 .. MaxRequests /\ lhist'[t].admitted \in 0 .. MaxRequests /\ MaxRequests \in Nat
        BY LunaAssumption DEF LunaTypes
      <4> QED BY <4>1, <4>2 DEF LunaInfos
    <3>2. linfo[v][t].qpm_req_count <= lhist[t].admitted /\ lhist'[t].admitted >= lhist[t].admitted
      BY DEF NewComers, NewComersOf, OnlyStep
    <3> QED BY <3>1, <3>2
  <2> QED BY <1>1, <2>1 DEF NewComers, NewComersOf
<1>4. NoOldOf(v)'
  <2>1. \A m \in InFlight' : m.of = v => m \in InFlight
    BY DEF OnlyStep
  <2> HIDE DEF InFlight
  <2> QED BY <1>1, <2>1 DEF NoOld, NoOldOf
<1>5. CountsOf(v)'
  BY <1>1 DEF Counts, CountsOf, Pend, OnlyStep
<1>6. ASSUME NEW t \in Token PROVE Room(v, t)' <= Room(v, t)
  <2>1. Waiting(v, t)' => Waiting(v, t)
    <3> SUFFICES ASSUME Waiting(v, t)' PROVE Waiting(v, t)
      OBVIOUS
    <3>1. PICK i \in DOMAIN lreplies' : /\ lreplies'[i].of = v /\ ~lreplies'[i].late
                                        /\ lreplies'[i].token = lwork[v].token /\ lreplies'[i].step = lwork[v].step
                                        /\ lreplies'[i].value > 0
      BY <1>1 DEF Waiting, OwnReply
    <3>2. PICK j \in DOMAIN lreplies : lreplies[j] = lreplies'[i]
      BY <3>1 DEF OnlyStep
    <3>3. OwnReply(lreplies[j], v) /\ lreplies[j].value > 0
      BY <3>1, <3>2 DEF OwnReply
    <3> QED BY <3>3, <1>1 DEF Waiting
  <2>2. Room(v, t) \in 0 .. MaxPerSecond /\ Room(v, t)' \in 0 .. MaxPerSecond /\ MaxPerSecond \in Nat
    BY RoomType, RoomTypeAfter, LunaAssumption
  <2>3. Pend(v, t)' = Pend(v, t)
    BY <1>1 DEF Pend
  <2>4. CASE Waiting(v, t)
    BY <2>2, <2>4 DEF Room
  <2>5. CASE ~Waiting(v, t)
    <3>1. ~Waiting(v, t)'
      BY <2>1, <2>5
    <3>2. Room(v, t)' = Room(v, t)
      BY <3>1, <2>5, <2>3, <1>1 DEF Room
    <3> QED BY <3>2, <2>2
  <2> QED BY <2>4, <2>5
<1> QED BY <1>2, <1>3, <1>4, <1>5, <1>6

(* What is left to show of a step of w. *)
LEMMA StepKept ==
    ASSUME LunaIInv, LunaTypes', NEW w \in Worker, OnlyStep(w),
           TrigShapeOf(w)', NewComersOf(w)', NoOldOf(w)', CountsOf(w)',
           \A t \in Token :
               \/ lredis'[t].qpm = Floor
               \/ (Quota - lredis'[t].qpm) + linfo'[w][t].qpm_req_count + lhist'[t].forgotten - lhist'[t].admitted
                    >= (Quota - lredis[t].qpm) + linfo[w][t].qpm_req_count + lhist[t].forgotten - lhist[t].admitted,
           \A t \in Token : Fine(t)' =>
               \/ lredis'[t].qpm > 0
               \/ lhist'[t].admitted + Room(w, t)' <= lhist[t].admitted + Room(w, t)
    PROVE  LunaIInv'
<1>1. /\ LunaTypes /\ TrigShape /\ NewComers /\ NoOld /\ Counts /\ NeverUndercharged /\ Over
  BY DEF LunaIInv
<1>2. \A v \in Worker \ {w} :
        /\ TrigShapeOf(v)' /\ NewComersOf(v)' /\ NoOldOf(v)' /\ CountsOf(v)'
        /\ \A t \in Token : Room(v, t)' <= Room(v, t)
  BY <1>1, OthersKept
<1>3. TrigShape' /\ NewComers' /\ NoOld' /\ Counts'
  BY <1>2 DEF TrigShape, NewComers, NoOld, Counts
<1>4. NeverUndercharged'
  <2>1. \A v \in Worker \ {w} : \A t \in Token : linfo'[v][t].qpm_req_count = linfo[v][t].qpm_req_count
    BY DEF OnlyStep
  <2> QED BY <1>1, <2>1, BalanceKept
<1>5. Over'
  <2>1. \A t \in Token : Fine(t)' => Fine(t)
    BY DEF OnlyStep
  <2> QED BY <1>1, <1>2, <1>3, <1>4, <2>1, OverKept
<1> QED BY <1>3, <1>4, <1>5 DEF LunaIInv

----------------------------------------------------------------------------
(* Nothing is sent, executed or read. *)
LEMMA SameInFlight ==
    ASSUME lcommands' = lcommands, lreplies' = lreplies PROVE InFlight' = InFlight
  BY DEF InFlight, Mark

(* A request. *)
LEMMA TagQueryKeeps ==
    ASSUME LunaIInv, NEW w \in Worker, NEW t \in Token, TagQuery(w, t)
    PROVE  LunaIInv'
<1> DEFINE work == lwork[w]
           info == linfo[w][t]
           hist == lhist[t]
           admitted == info.qpm_req_remain > 0
           one == IF admitted THEN 1 ELSE 0
           info2 == verify_qpm_total_request(w, t).info
<1>1. /\ LunaTypes /\ TrigShape /\ NewComers /\ NoOld /\ Counts /\ NeverUndercharged /\ Over
  BY DEF LunaIInv
<1>2. /\ work \in LunaWorkers /\ info \in LunaInfos
      /\ hist \in [admitted : 0 .. MaxRequests, blind : BOOLEAN, forgotten : Nat]
      /\ MaxRequests \in Nat /\ MaxPerSecond \in Nat /\ one \in {0, 1}
  BY <1>1, LunaAssumption DEF LunaTypes
<1>3. info.qpm_req_remain \in Nat
  BY <1>2 DEF LunaInfos
<1>4. (verify_qpm_total_request(w, t).status # 429) = admitted
  BY <1>3 DEF verify_qpm_total_request
<1>5. /\ work.step = "idle" /\ info.known /\ work.seen < MaxPerSecond
      /\ admitted => hist.admitted < MaxRequests
      /\ linfo' = [linfo EXCEPT ![w][t] = info2]
      /\ lhist' = [lhist EXCEPT ![t].admitted = @ + one, ![t].blind = @ \/ (admitted /\ ~work.fresh[t])]
      /\ lwork' = [lwork EXCEPT ![w].seen = @ + one]
      /\ lredis' = lredis /\ lreplies' = lreplies /\ lcommands' = lcommands /\ lup' = lup
  <2> HIDE DEF admitted, info2
  <2>1. /\ work.step = "idle" /\ info.known /\ work.seen < MaxPerSecond
        /\ linfo' = [linfo EXCEPT ![w][t] = info2]
        /\ lredis' = lredis /\ lreplies' = lreplies /\ lcommands' = lcommands /\ lup' = lup
    BY DEF TagQuery, info2, lunaConn
  <2>2. admitted => hist.admitted < MaxRequests
    BY <1>4 DEF TagQuery
  <2>3. lhist' = [lhist EXCEPT ![t].admitted = @ + one, ![t].blind = @ \/ (admitted /\ ~work.fresh[t])]
    BY <1>4 DEF TagQuery
  <2>4. lwork' = [lwork EXCEPT ![w].seen = @ + one]
    BY <1>4 DEF TagQuery
  <2> QED BY <2>1, <2>2, <2>3, <2>4
<1>6. /\ info2 \in LunaInfos /\ info2.known /\ info2.qpm_req_remain = info.qpm_req_remain
      /\ info2.qpm_req_count = info.qpm_req_count + one
  <2>1. CASE admitted
    <3>1. info2 = ti_incr_req_count(info)
      BY <2>1, <1>3 DEF verify_qpm_total_request
    <3> HIDE DEF info2, info
    <3>2. info2 = [info EXCEPT !.qpm_req_count = @ + 1,
                               !.total_req_count = IF info.use_total_limit THEN @ + 1 ELSE @]
      BY <3>1 DEF ti_incr_req_count
    <3> DEFINE total == IF info.use_total_limit THEN info.total_req_count + 1 ELSE info.total_req_count
           count == info.qpm_req_count + 1
    <3>3. total \in Nat /\ count \in Nat
      BY <1>2 DEF LunaInfos
    <3>4. info2 = [info EXCEPT !.qpm_req_count = count, !.total_req_count = total]
      BY <3>2
    <3>5. one = 1
      BY <2>1
    <3>6. info \in LunaInfos /\ info.known
      BY <1>2, <1>5
    <3> HIDE DEF total, count, one, admitted
    <3>7. info2 \in LunaInfos
      BY <3>3, <3>4, <3>6 DEF LunaInfos
    <3>8. /\ info2.known = info.known /\ info2.qpm_req_remain = info.qpm_req_remain
          /\ info2.qpm_req_count = count
      BY <3>4, <3>6 DEF LunaInfos
    <3> QED BY <3>5, <3>6, <3>7, <3>8 DEF count
  <2>2. CASE ~admitted
    <3>1. info2 = info
      BY <2>2, <1>3 DEF verify_qpm_total_request
    <3> HIDE DEF info2, info
    <3> QED BY <3>1, <2>2, <1>2, <1>5 DEF LunaInfos
  <2> QED BY <2>1, <2>2
<1> HIDE DEF info2
<1>7. /\ linfo' \in [Worker -> [Token -> LunaInfos]] /\ linfo'[w][t] = info2
      /\ \A v \in Worker \ {w} : linfo'[v] = linfo[v]
      /\ \A s \in Token \ {t} : linfo'[w][s] = linfo[w][s]
  BY <1>1, <1>5, <1>6 DEF LunaTypes
<1> DEFINE blind2 == hist.blind \/ (admitted /\ ~work.fresh[t])
<1>8. /\ lhist' \in [Token -> [admitted : 0 .. MaxRequests, blind : BOOLEAN, forgotten : Nat]]
      /\ lhist'[t].admitted = hist.admitted + one /\ lhist'[t].blind = blind2 /\ lhist'[t].forgotten = hist.forgotten
      /\ \A s \in Token \ {t} : lhist'[s] = lhist[s]
  <2>1. lhist' = [lhist EXCEPT ![t].admitted = @ + one, ![t].blind = blind2]
    BY <1>5
  <2>2. blind2 \in BOOLEAN
    BY <1>2
  <2>3. hist.admitted + one \in 0 .. MaxRequests
    BY <1>2, <1>5
  <2>4. lhist \in [Token -> [admitted : 0 .. MaxRequests, blind : BOOLEAN, forgotten : Nat]]
    BY <1>1 DEF LunaTypes
  <2> HIDE DEF blind2, one
  <2> QED BY <2>1, <2>2, <2>3, <2>4
<1>9. /\ lwork' \in [Worker -> LunaWorkers] /\ lwork'[w] = [work EXCEPT !.seen = @ + one]
      /\ \A v \in Worker \ {w} : lwork'[v] = lwork[v]
  <2>1. work.seen + one \in 0 .. MaxPerSecond
    BY <1>2, <1>5 DEF LunaWorkers
  <2>2. [work EXCEPT !.seen = @ + one] \in LunaWorkers
    <3> HIDE DEF work, one
    <3> QED BY <2>1, <1>2 DEF LunaWorkers
  <2> QED BY <2>2, <1>1, <1>5 DEF LunaTypes
<1>10. /\ lwork'[w].ctx = work.ctx /\ lwork'[w].step = work.step /\ lwork'[w].token = work.token
       /\ lwork'[w].todo = work.todo /\ lwork'[w].sent = work.sent /\ lwork'[w].fresh = work.fresh
       /\ lwork'[w].seen = work.seen + one
  <2> HIDE DEF work, one
  <2> QED BY <1>9, <1>2 DEF LunaWorkers
<1>11. LunaTypes'
  BY <1>1, <1>5, <1>7, <1>8, <1>9 DEF LunaTypes
<1>12. \A s \in Token : Fine(s)' => Fine(s)
  BY <1>8 DEF Fine
<1>13. OnlyStep(w)
  <2>1. \A s \in Token : lhist'[s].admitted >= lhist[s].admitted
    <3>1. \A s \in Token : lhist[s].admitted \in Int
      BY <1>1, <1>2 DEF LunaTypes
    <3> QED BY <3>1, <1>2, <1>8
  <2>2. InFlight' = InFlight
    BY <1>5, SameInFlight
  <2> HIDE DEF InFlight
  <2> QED BY <2>1, <2>2, <1>5, <1>7, <1>9, <1>12 DEF OnlyStep
<1>14. TrigShapeOf(w) /\ NewComersOf(w) /\ NoOldOf(w) /\ CountsOf(w)
  BY <1>1 DEF TrigShape, NewComers, NoOld, Counts
<1> HIDE DEF one, admitted, blind2, work, info, hist
<1>15. \A s \in Token : ~Pend(w, s) /\ ~Pend(w, s)'
  BY <1>5, <1>10, <1>14 DEF Pend, TrigShapeOf, Commands, work
<1>16. TrigShapeOf(w)'
  BY <1>5, <1>10, <1>14, <1>15 DEF TrigShapeOf, work, Commands
<1>17. NewComersOf(w)'
  <2>1. \A s \in Token \ {t} : lhist'[s] = lhist[s] /\ linfo'[w][s] = linfo[w][s]
    BY <1>7, <1>8
  <2>2. work.ctx = "shared" => one = 0 /\ info2.qpm_req_remain = 0 /\ info2.qpm_req_count = 0
    <3> SUFFICES ASSUME work.ctx = "shared" PROVE one = 0 /\ info2.qpm_req_remain = 0 /\ info2.qpm_req_count = 0
      OBVIOUS
    <3>1. info.qpm_req_remain = 0 /\ info.qpm_req_count = 0
      BY <1>5, <1>14 DEF NewComersOf, work, info
    <3>2. one = 0
      BY <3>1 DEF one, admitted
    <3> QED BY <3>1, <3>2, <1>6
  <2>3. info2.qpm_req_count <= lhist'[t].admitted
    <3>1. info.qpm_req_count <= hist.admitted
      BY <1>14 DEF NewComersOf, info, hist
    <3>2. info.qpm_req_count \in Int /\ hist.admitted \in Int /\ one \in Int
      BY <1>2 DEF LunaInfos
    <3> QED BY <3>1, <3>2, <1>6, <1>8
  <2> QED BY <2>1, <2>2, <2>3, <1>6, <1>7, <1>10, <1>14 DEF NewComersOf, work
<1>18. NoOldOf(w)'
  <2>1. InFlight' = InFlight
    BY <1>5, SameInFlight
  <2> QED BY <2>1, <1>5, <1>10, <1>14 DEF NoOldOf, work
<1>19. Fine(t)' => one = 0 \/ work.fresh[t]
  BY <1>8 DEF Fine, blind2, one
<1>20. CountsOf(w)'
  <2> SUFFICES ASSUME NEW s \in Token, Fine(s)'
               PROVE  /\ linfo'[w][s].qpm_req_count <= MaxPerSecond
                      /\ work.fresh[s] => linfo'[w][s].qpm_req_count <= lwork'[w].seen
    BY <1>10 DEF CountsOf
  <2>1. /\ linfo[w][s].qpm_req_count <= MaxPerSecond
        /\ work.fresh[s] => linfo[w][s].qpm_req_count <= work.seen
    BY <1>12, <1>14, <1>15 DEF CountsOf, work
  <2>2. linfo[w][s].qpm_req_count \in Nat
    BY <1>1 DEF LunaTypes, LunaInfos
  <2>3. work.seen \in Nat /\ lwork'[w].seen \in 0 .. MaxPerSecond
    BY <1>2, <1>9 DEF LunaWorkers
  <2>4. CASE s # t
    <3>1. linfo'[w][s] = linfo[w][s]
      BY <1>7, <2>4
    <3> QED BY <3>1, <2>1, <2>2, <2>3, <1>2, <1>10
  <2>5. CASE s = t
    <3>1. linfo'[w][s].qpm_req_count = linfo[w][s].qpm_req_count + one
      BY <1>6, <1>7, <2>5 DEF info
    <3>2. one = 0 \/ work.fresh[s]
      BY <1>19, <2>5
    <3> QED BY <3>1, <3>2, <2>1, <2>2, <2>3, <1>2, <1>10
  <2> QED BY <2>4, <2>5
<1>21. ASSUME NEW s \in Token
       PROVE  (Quota - lredis'[s].qpm) + linfo'[w][s].qpm_req_count + lhist'[s].forgotten - lhist'[s].admitted
                >= (Quota - lredis[s].qpm) + linfo[w][s].qpm_req_count + lhist[s].forgotten - lhist[s].admitted
  <2>1. lredis[s].qpm \in Int /\ Quota \in Int /\ linfo[w][s].qpm_req_count \in Int
    <3>1. lredis[s].qpm \in Floor .. Quota /\ linfo[w][s] \in LunaInfos
      BY <1>1 DEF LunaTypes
    <3> QED BY <3>1, LunaAssumption DEF LunaInfos, Floor
  <2>2. lhist[s].forgotten \in Int /\ lhist[s].admitted \in Int
    BY <1>1, <1>2 DEF LunaTypes
  <2>3. CASE s # t
    <3>1. lhist'[s] = lhist[s] /\ linfo'[w][s] = linfo[w][s]
      BY <1>7, <1>8, <2>3
    <3> QED BY <3>1, <2>1, <2>2, <1>5
  <2>4. CASE s = t
    BY <2>1, <2>2, <2>4, <1>2, <1>5, <1>6, <1>7, <1>8 DEF info, hist
  <2> QED BY <2>3, <2>4
<1>22. ASSUME NEW s \in Token, Fine(s)'
       PROVE  lhist'[s].admitted + Room(w, s)' <= lhist[s].admitted + Room(w, s)
  <2>1. ~Waiting(w, s) /\ ~Waiting(w, s)'
    BY <1>5, <1>10 DEF Waiting, work
  <2>2. Room(w, s) = IF work.fresh[s] /\ linfo[w][s].qpm_req_remain > 0 THEN MaxPerSecond - work.seen ELSE 0
    BY <2>1, <1>15 DEF Room, work
  <2>3. linfo'[w][s].qpm_req_remain = linfo[w][s].qpm_req_remain
    BY <1>6, <1>7 DEF info
  <2>4. Room(w, s)' = IF work.fresh[s] /\ linfo[w][s].qpm_req_remain > 0 THEN MaxPerSecond - (work.seen + one) ELSE 0
    BY <2>1, <2>3, <1>10, <1>15 DEF Room
  <2>5. work.seen \in Int /\ lhist[s].admitted \in Int
    BY <1>1, <1>2 DEF LunaWorkers, LunaTypes
  <2>6. CASE s # t
    <3>1. lhist'[s] = lhist[s]
      BY <1>8, <2>6
    <3> QED BY <3>1, <2>2, <2>4, <2>5, <1>2
  <2>7. CASE s = t
    <3>1. one = 0 \/ (work.fresh[s] /\ linfo[w][s].qpm_req_remain > 0)
      <4>1. Fine(t)'
        BY <1>22, <2>7 DEF Fine
      <4>2. one = 0 \/ work.fresh[s]
        BY <4>1, <1>19, <2>7
      <4>3. one = 0 \/ linfo[w][s].qpm_req_remain > 0
        BY <2>7 DEF one, admitted, info
      <4> QED BY <4>2, <4>3
    <3>2. lhist'[s].admitted = lhist[s].admitted + one
      BY <1>8, <2>7 DEF hist
    <3> QED BY <3>1, <3>2, <2>2, <2>4, <2>5, <1>2
  <2> QED BY <2>6, <2>7
<1> QED BY <1>11, <1>13, <1>16, <1>17, <1>18, <1>20, <1>21, <1>22, StepKept

(* The end of a command, with or without an answer. *)
LEMMA FinishKeeps ==
    ASSUME LunaIInv, NEW w \in Worker, lwork[w].step \in Commands,
           NEW ctx \in {"own", "shared"}, NEW ok \in BOOLEAN, NEW own \in BOOLEAN, NEW value,
           LunaFinish(w, ctx, ok, value, own), lhist' = lhist,
           ok /\ lwork[w].step # "limit" => value \in Nat,
           ctx = "shared" => lwork[w].ctx = "shared",
           lredis' \in [Token -> [qpm : Floor .. Quota, total : Int, limit : BOOLEAN]],
           \A s \in Token : lredis'[s].qpm <= lredis[s].qpm,
           ok /\ lwork[w].step = "qpm" =>
               \/ lredis'[lwork[w].token].qpm = Floor
               \/ lredis'[lwork[w].token].qpm + linfo[w][lwork[w].token].qpm_req_count <= lredis[lwork[w].token].qpm,
           lreplies' \in Seq(StringReplies \cup IntegerReplies), lcommands' = lcommands, lup' = lup,
           \A i \in DOMAIN lreplies' : \E j \in DOMAIN lreplies : lreplies[j] = lreplies'[i],
           own => ok,
           own /\ lwork[w].step = "qpm" =>
               value = 0 \/ lredis'[lwork[w].token].qpm > 0 \/ Waiting(w, lwork[w].token)
    PROVE  LunaIInv'
<1> DEFINE work == lwork[w]
           tok == work.token
           work2 == lwork'[w]
<1>1. /\ LunaTypes /\ TrigShape /\ NewComers /\ NoOld /\ Counts /\ NeverUndercharged /\ Over
  BY DEF LunaIInv
<1>f. Finished(w, ctx, ok, value, own)
  BY <1>1, FinishDoes
<1>2. /\ lwork' \in [Worker -> LunaWorkers]
      /\ linfo' \in [Worker -> [Token -> LunaInfos]]
      /\ \A v \in Worker \ {w} : lwork'[v] = lwork[v] /\ linfo'[v] = linfo[v]
      /\ work2.ctx = ctx /\ ~work2.sent /\ work2.seen = work.seen
      /\ \A t \in Token \ {tok} : linfo'[w][t] = linfo[w][t]
      /\ linfo'[w][tok].known = linfo[w][tok].known
  BY <1>f DEF Finished
<1>3. work.step # "qpm" =>
        /\ work2.step \in {"total", "qpm"} /\ work2.token = tok
        /\ work2.todo = work.todo /\ work2.fresh = work.fresh
  BY <1>f DEF Finished
<1>4. work.step = "qpm" =>
        /\ work2.fresh[tok] = own
        /\ \A t \in Token \ {tok} : work2.fresh[t] = work.fresh[t]
        /\ work.todo = {} => work2.step = "after" /\ work2.todo = {}
        /\ work.todo # {} => /\ work2.step = "limit" /\ work2.token \in work.todo
                             /\ work2.todo = work.todo \ {work2.token}
  BY <1>f DEF Finished
<1>5. /\ work.step # "qpm" \/ ~ok =>
           /\ linfo'[w][tok].qpm_req_count = linfo[w][tok].qpm_req_count
           /\ linfo'[w][tok].qpm_req_remain = linfo[w][tok].qpm_req_remain
      /\ work.step = "qpm" /\ ok =>
           /\ linfo'[w][tok].qpm_req_count = 0
           /\ linfo'[w][tok].qpm_req_remain = value
  BY <1>f DEF Finished
<1>6. /\ work \in LunaWorkers /\ work2 \in LunaWorkers /\ MaxPerSecond \in Nat /\ MaxRequests \in Nat
      /\ \A t \in Token : linfo[w][t] \in LunaInfos /\ linfo'[w][t] \in LunaInfos
  BY <1>1, <1>2, LunaAssumption DEF LunaTypes
<1>7. LunaTypes'
  BY <1>1, <1>2 DEF LunaTypes
<1>i. InFlight' \subseteq InFlight
  BY DEF InFlight, Mark
<1>8. OnlyStep(w)
  <2>1. \A t \in Token : lhist[t].admitted \in Int
    BY <1>1, <1>6 DEF LunaTypes
  <2> QED BY <1>2, <1>i, <2>1 DEF OnlyStep, Fine
<1>9. TrigShapeOf(w) /\ NewComersOf(w) /\ NoOldOf(w) /\ CountsOf(w) /\ tok \in Token
  BY <1>1 DEF TrigShape, TrigShapeOf, NewComers, NoOld, Counts
<1>10. /\ work.todo \in SUBSET Token /\ tok \notin work.todo /\ work.step \in Commands
       /\ work2.todo \subseteq work.todo
       /\ work2.step \in {"limit", "total", "qpm", "after"}
       /\ work2.step \in Commands => work2.token \in Token /\ work2.token \notin work2.todo
       /\ work2.step \notin Commands => work2.todo = {}
  BY <1>3, <1>4, <1>6, <1>9 DEF TrigShapeOf, LunaWorkers, Commands
<1>11. /\ \A s \in Token \ {tok} : Pend(w, s)' = Pend(w, s)
       /\ Pend(w, tok)
       /\ \A s \in Token : s = tok /\ work.step # "qpm" => Pend(w, s)'
  BY <1>3, <1>4, <1>9, <1>10 DEF Pend, Commands
<1>12. linfo[w][tok].known /\ \A s \in Token : linfo'[w][s].known = linfo[w][s].known
  BY <1>2, <1>9, <1>11 DEF TrigShapeOf
<1> HIDE DEF work, work2, tok
<1>13. TrigShapeOf(w)'
  <2>1. \A t \in Token : Pend(w, t)' => linfo'[w][t].known
    BY <1>9, <1>11, <1>12 DEF TrigShapeOf
  <2> QED BY <2>1, <1>2, <1>10 DEF TrigShapeOf, work2
<1>14. \A s \in Token : /\ linfo'[w][s].qpm_req_count \in Nat /\ linfo[w][s].qpm_req_count \in Nat
                        /\ linfo'[w][s].qpm_req_count <= linfo[w][s].qpm_req_count
  <2> SUFFICES ASSUME NEW s \in Token
               PROVE  /\ linfo'[w][s].qpm_req_count \in Nat /\ linfo[w][s].qpm_req_count \in Nat
                      /\ linfo'[w][s].qpm_req_count <= linfo[w][s].qpm_req_count
    OBVIOUS
  <2>1. linfo'[w][s].qpm_req_count \in Nat /\ linfo[w][s].qpm_req_count \in Nat
    BY <1>6 DEF LunaInfos
  <2>2. CASE s = tok
    BY <2>1, <2>2, <1>5
  <2>3. CASE s # tok
    <3>1. linfo'[w][s] = linfo[w][s]
      BY <1>2, <2>3
    <3> QED BY <2>1, <3>1
  <2> QED BY <2>2, <2>3
<1>15. NewComersOf(w)'
  <2> SUFFICES ASSUME NEW s \in Token
               PROVE  /\ ctx = "shared" => linfo'[w][s].qpm_req_count = 0
                      /\ ~linfo'[w][s].known => linfo'[w][s].qpm_req_count = 0 /\ linfo'[w][s].qpm_req_remain = 0
                      /\ linfo'[w][s].qpm_req_count <= lhist[s].admitted
    BY <1>2, <1>10 DEF NewComersOf, work2
  <2>1. ctx = "shared" => linfo'[w][s].qpm_req_count = 0
    <3>1. ctx = "shared" => linfo[w][s].qpm_req_count = 0
      BY <1>9 DEF NewComersOf
    <3> QED BY <3>1, <1>14
  <2>2. ASSUME ~linfo'[w][s].known PROVE linfo'[w][s].qpm_req_count = 0 /\ linfo'[w][s].qpm_req_remain = 0
    <3>1. s # tok /\ ~linfo[w][s].known
      BY <2>2, <1>12
    <3>2. linfo'[w][s] = linfo[w][s]
      BY <3>1, <1>2
    <3> QED BY <3>1, <3>2, <1>9 DEF NewComersOf
  <2>3. linfo'[w][s].qpm_req_count <= lhist[s].admitted
    <3>1. linfo[w][s].qpm_req_count <= lhist[s].admitted
      BY <1>9 DEF NewComersOf
    <3>2. lhist[s].admitted \in Int
      BY <1>1, <1>6 DEF LunaTypes
    <3> QED BY <3>1, <3>2, <1>14
  <2> QED BY <2>1, <2>2, <2>3
<1>16. NoOldOf(w)'
  <2> SUFFICES ASSUME NEW m \in InFlight', m.of = w, m.step = "qpm", ~m.late, ctx = "shared"
               PROVE  /\ work2.step \notin {"idle", "absent"}
                      /\ m.token \notin work2.todo
                      /\ ~(work2.step \in Commands /\ work2.token = m.token)
    BY <1>2 DEF NoOldOf, work2
  <2>1. m \in InFlight
    BY <1>i
  <2>2. work.ctx = "shared"
    BY DEF work
  <2>3. /\ m.token \notin work.todo
        /\ work.token = m.token => work.step = "qpm"
    BY <2>1, <2>2, <1>9, <1>10 DEF NoOldOf, work
  <2>4. ~(work2.step \in Commands /\ work2.token = m.token)
    <3>1. CASE work.step # "qpm"
      BY <3>1, <2>3, <1>3 DEF tok
    <3>2. CASE work.step = "qpm"
      BY <3>2, <2>3, <1>4 DEF Commands
    <3> QED BY <3>1, <3>2
  <2> QED BY <2>3, <2>4, <1>10
<1>17. CountsOf(w)'
  <2> SUFFICES ASSUME NEW s \in Token, Fine(s)
               PROVE  /\ linfo'[w][s].qpm_req_count <= MaxPerSecond
                      /\ ~Pend(w, s)' /\ work2.fresh[s] => linfo'[w][s].qpm_req_count <= work.seen
    BY <1>2 DEF CountsOf, Fine, work2
  <2>1. /\ linfo[w][s].qpm_req_count <= MaxPerSecond
        /\ ~Pend(w, s) /\ work.fresh[s] => linfo[w][s].qpm_req_count <= work.seen
    BY <1>9 DEF CountsOf, work
  <2>2. linfo'[w][s].qpm_req_count <= MaxPerSecond
    BY <2>1, <1>6, <1>14
  <2>3. work.seen \in Nat
    BY <1>6 DEF LunaWorkers
  <2>4. CASE s = tok
    <3> SUFFICES ASSUME ~Pend(w, s)', work2.fresh[s] PROVE linfo'[w][s].qpm_req_count <= work.seen
      BY <2>2
    <3>1. work.step = "qpm"
      BY <2>4, <1>11
    <3>2. own
      BY <2>4, <3>1, <1>4
    <3>3. linfo'[w][s].qpm_req_count = 0
      BY <2>4, <3>1, <3>2, <1>5
    <3> QED BY <3>3, <2>3
  <2>5. CASE s # tok
    <3>1. linfo'[w][s] = linfo[w][s] /\ Pend(w, s)' = Pend(w, s)
      BY <2>5, <1>2, <1>11
    <3>2. work2.fresh[s] = work.fresh[s]
      BY <2>5, <1>3, <1>4
    <3> QED BY <3>1, <3>2, <2>1
  <2> QED BY <2>4, <2>5
<1>18. ASSUME NEW s \in Token
       PROVE  \/ lredis'[s].qpm = Floor
              \/ (Quota - lredis'[s].qpm) + linfo'[w][s].qpm_req_count + lhist'[s].forgotten - lhist'[s].admitted
                   >= (Quota - lredis[s].qpm) + linfo[w][s].qpm_req_count + lhist[s].forgotten - lhist[s].admitted
  <2>1. lredis[s].qpm \in Int /\ lredis'[s].qpm \in Int /\ Quota \in Int
    <3>1. lredis[s].qpm \in Floor .. Quota /\ lredis'[s].qpm \in Floor .. Quota
      BY <1>1 DEF LunaTypes
    <3> QED BY <3>1, LunaAssumption DEF Floor
  <2>2. /\ lhist[s].forgotten \in Int /\ lhist[s].admitted \in Int
        /\ lhist'[s].forgotten = lhist[s].forgotten /\ lhist'[s].admitted = lhist[s].admitted
    BY <1>1, <1>6 DEF LunaTypes
  <2> DEFINE counted == linfo[w][s].qpm_req_count
             left == linfo'[w][s].qpm_req_count
  <2>6. counted \in Nat /\ left \in Nat
    BY <1>14
  <2> DEFINE q == lredis[s].qpm
             q2 == lredis'[s].qpm
             f == lhist[s].forgotten
             a == lhist[s].admitted
  <2>7. q \in Int /\ q2 \in Int /\ f \in Int /\ a \in Int
    BY <2>1, <2>2
  <2> HIDE DEF counted, left, q, q2, f, a
  <2>8. left - q2 >= counted - q => (Quota - q2) + left + f - a >= (Quota - q) + counted + f - a
    BY <2>1, <2>6, <2>7
  <2>9. SUFFICES \/ lredis'[s].qpm = Floor
                 \/ left - lredis'[s].qpm >= counted - lredis[s].qpm
    BY <2>2, <2>8 DEF counted, left, q, q2, f, a
  <2>3. lredis'[s].qpm <= lredis[s].qpm
    OBVIOUS
  <2>4. CASE s = tok /\ work.step = "qpm" /\ ok
    <3>1. lredis'[s].qpm = Floor \/ lredis'[s].qpm + counted <= lredis[s].qpm
      BY <2>4 DEF tok, work, counted
    <3>2. left = 0
      BY <2>4, <1>5 DEF left
    <3> QED BY <3>1, <3>2, <2>1, <2>6
  <2>5. CASE ~(s = tok /\ work.step = "qpm" /\ ok)
    <3>1. left = counted
      <4>1. CASE s = tok
        BY <4>1, <2>5, <1>5 DEF left, counted
      <4>2. CASE s # tok
        <5>1. linfo'[w][s] = linfo[w][s]
          BY <1>2, <4>2
        <5> QED BY <5>1 DEF left, counted
      <4> QED BY <4>1, <4>2
    <3> QED BY <3>1, <2>1, <2>3, <2>6
  <2> QED BY <2>4, <2>5
<1>19. ASSUME NEW s \in Token, Fine(s)'
       PROVE  \/ lredis'[s].qpm > 0
              \/ lhist'[s].admitted + Room(w, s)' <= lhist[s].admitted + Room(w, s)
  <2>1. ~Waiting(w, s)'
    BY <1>2 DEF Waiting, work2
  <2>2. Room(w, s) \in 0 .. MaxPerSecond /\ Room(w, s)' \in 0 .. MaxPerSecond
    BY <1>1, <1>7, RoomType, RoomTypeAfter
  <2>3. lhist[s].admitted \in Int
    BY <1>1, <1>6 DEF LunaTypes
  <2>4. SUFFICES ASSUME ~(lredis'[s].qpm > 0) PROVE Room(w, s)' <= Room(w, s)
    BY <2>2, <2>3, <1>6
  <2>5. CASE s # tok
    <3>1. linfo'[w][s] = linfo[w][s] /\ Pend(w, s)' = Pend(w, s)
      BY <2>5, <1>2, <1>11
    <3>2. work2.fresh[s] = work.fresh[s] /\ work2.seen = work.seen
      BY <2>5, <1>2, <1>3, <1>4
    <3>3. ~Waiting(w, s)
      BY <2>5 DEF Waiting, tok, work
    <3>4. Room(w, s)' = Room(w, s)
      BY <3>1, <3>2, <3>3, <2>1 DEF Room, work, work2
    <3> QED BY <3>4, <2>2, <1>6
  <2>6. CASE s = tok
    <3>1. CASE Room(w, s)' = 0
      BY <3>1, <2>2, <1>6
    <3>2. CASE Room(w, s)' # 0
      <4>1. ~Pend(w, s)' /\ work2.fresh[s] /\ linfo'[w][s].qpm_req_remain > 0
        BY <3>2, <2>1 DEF Room, work2
      <4>2. work.step = "qpm"
        BY <4>1, <2>6, <1>11
      <4>3. own
        BY <4>1, <4>2, <2>6, <1>4
      <4>4. linfo'[w][s].qpm_req_remain = value
        BY <4>2, <4>3, <2>6, <1>5
      <4>5. Waiting(w, s)
        BY <4>1, <4>2, <4>3, <4>4, <2>4, <2>6 DEF tok, work
      <4>6. Room(w, s) = MaxPerSecond
        BY <4>5 DEF Room
      <4> QED BY <4>6, <2>2, <1>6
    <3> QED BY <3>1, <3>2
  <2> QED BY <2>5, <2>6
<1> QED BY <1>7, <1>8, <1>13, <1>15, <1>16, <1>17, <1>18, <1>19, StepKept

(* A command charges no more than it is told, and no less unless Redis counts no further. *)
LEMMA ExecutedDoes ==
    ASSUME LunaTypes, NEW c \in LunaCommands, Executed(c), NEW t, t = c.token, NEW step, step = c.step
    PROVE  /\ lredis' \in [Token -> [qpm : Floor .. Quota, total : Int, limit : BOOLEAN]]
           /\ \A s \in Token : lredis'[s].qpm <= lredis[s].qpm
           /\ \A s \in Token : s # t \/ step # "qpm" => lredis'[s].qpm = lredis[s].qpm
           /\ step = "qpm" => \/ lredis'[t].qpm = Floor
                              \/ lredis'[t].qpm + c.count <= lredis[t].qpm
<1> DEFINE Keys == [qpm : Floor .. Quota, total : Int, limit : BOOLEAN]
<1>1. lredis \in [Token -> Keys] /\ t \in Token /\ step \in Commands
  BY DEF LunaTypes, LunaCommands, Commands
<1>2. Floor \in Int /\ Quota \in Int
  BY LunaAssumption DEF Floor
<1>3. \A s \in Token : lredis[s] \in Keys /\ lredis[s].qpm \in Floor .. Quota /\ lredis[s].qpm \in Int
                       /\ lredis[s].total \in Int
  BY <1>1, <1>2
<1>4. c.count \in Nat
  BY DEF LunaCommands
<1>5. CASE step = "limit"
  <2>1. lredis' = lredis
    BY <1>5 DEF Executed
  <2> QED BY <2>1, <1>1, <1>3, <1>5
<1>6. CASE step = "total"
  <2> DEFINE n == Less(lredis[t].total, c.count)
  <2>1. lredis' = [lredis EXCEPT ![t].total = n]
    BY <1>6 DEF Executed
  <2>2. n \in Int
    <3>1. lredis[t].total - c.count \in Int
      BY <1>1, <1>3, <1>4
    <3> QED BY <3>1, <1>2, MaxTwo DEF Less
  <2> HIDE DEF n
  <2>3. lredis' \in [Token -> Keys] /\ \A s \in Token : lredis'[s].qpm = lredis[s].qpm
    BY <2>1, <2>2, <1>1
  <2> QED BY <2>3, <1>3, <1>6
<1>7. CASE step = "qpm"
  <2> DEFINE n == Less(lredis[t].qpm, c.count)
  <2>1. lredis' = [lredis EXCEPT ![t].qpm = n]
    BY <1>7 DEF Executed
  <2>2. /\ n \in Floor .. Quota
        /\ \/ n = lredis[t].qpm - c.count
           \/ n = Floor /\ lredis[t].qpm - c.count <= Floor
    BY <1>1, <1>3, <1>4, LessIs
  <2> HIDE DEF n
  <2>3. lredis' \in [Token -> Keys] /\ lredis'[t].qpm = n /\ \A s \in Token \ {t} : lredis'[s].qpm = lredis[s].qpm
    BY <2>1, <2>2, <1>1
  <2>4. n <= lredis[t].qpm /\ (n = Floor \/ n + c.count <= lredis[t].qpm)
    BY <2>2, <1>1, <1>2, <1>3, <1>4
  <2> QED BY <2>3, <2>4, <1>3, <1>7
<1> QED BY <1>1, <1>5, <1>6, <1>7 DEF Commands

(* What Redis answers. *)
LEMMA ReplyIs ==
    ASSUME LunaTypes, lredis' \in [Token -> [qpm : Floor .. Quota, total : Int, limit : BOOLEAN]],
           NEW c \in LunaCommands, NEW t, t = c.token, NEW step, step = c.step
    PROVE  LET r == LunaReply(c)
           IN  /\ r.of = c.of /\ r.token = t /\ r.step = step /\ r.late = c.late
               /\ r \in StringReplies \cup IntegerReplies
               /\ step # "limit" => r.value \in Nat
               /\ step = "qpm" => r.value = 0 \/ lredis'[t].qpm > 0
<1> DEFINE v == CASE step = "limit" -> lredis[t].limit
                  [] step = "total" -> Left(lredis'[t].total)
                  [] step = "qpm" -> Left(lredis'[t].qpm)
           k == IF step = "limit" THEN "string" ELSE "integer"
<1>0. c.of \in Worker /\ t \in Token /\ step \in Commands /\ c.late \in BOOLEAN
  BY DEF LunaCommands, Commands
<1>1. LunaReply(c) = [of |-> c.of, token |-> t, step |-> step, late |-> c.late, type |-> k, value |-> v]
  BY DEF LunaReply
<1>2. lredis'[t].total \in Int /\ lredis'[t].qpm \in Int /\ lredis[t].limit \in BOOLEAN
  <2>1. Floor \in Int /\ Quota \in Int
    BY LunaAssumption DEF Floor
  <2>2. lredis'[t].total \in Int /\ lredis'[t].qpm \in Floor .. Quota
    BY <1>0
  <2>3. lredis[t].limit \in BOOLEAN
    BY <1>0 DEF LunaTypes
  <2> QED BY <2>1, <2>2, <2>3
<1>3. CASE step = "limit"
  <2>1. v = lredis[t].limit /\ k = "string"
    BY <1>3
  <2>2. v \in BOOLEAN
    BY <2>1, <1>2
  <2> HIDE DEF v, k
  <2> QED BY <2>1, <2>2, <1>0, <1>1, <1>3 DEF StringReplies
<1>4. CASE step = "total"
  <2>1. v = Left(lredis'[t].total) /\ k = "integer"
    BY <1>4
  <2> HIDE DEF v, k
  <2> DEFINE n == lredis'[t].total
  <2>3. n \in Int /\ v = Left(n)
    BY <2>1, <1>2
  <2> HIDE DEF n
  <2>2. v \in Nat
    BY <2>3, LeftIs
  <2> QED BY <2>1, <2>2, <1>0, <1>1, <1>4 DEF IntegerReplies
<1>5. CASE step = "qpm"
  <2>1. v = Left(lredis'[t].qpm) /\ k = "integer"
    BY <1>5
  <2> HIDE DEF v, k
  <2> DEFINE n == lredis'[t].qpm
  <2>3. n \in Int /\ v = Left(n)
    BY <2>1, <1>2
  <2> HIDE DEF n
  <2>4. v \in Nat /\ (v = 0 \/ n > 0)
    BY <2>3, LeftIs
  <2>2. v \in Nat /\ (v = 0 \/ lredis'[t].qpm > 0)
    BY <2>4 DEF n
  <2> QED BY <2>1, <2>2, <1>0, <1>1, <1>5 DEF IntegerReplies
<1> QED BY <1>0, <1>3, <1>4, <1>5 DEF Commands

(* The command that a worker sends. *)
LEMMA CommandIs ==
    ASSUME LunaTypes, TrigShape, NEW w \in Worker, lwork[w].step \in Commands
    PROVE  LET c == LunaCommand(w)
           IN  /\ c \in LunaCommands /\ c.of = w /\ c.token = lwork[w].token /\ c.step = lwork[w].step /\ ~c.late
               /\ c.step = "qpm" => c.count = linfo[w][lwork[w].token].qpm_req_count
<1> DEFINE t == lwork[w].token
           step == lwork[w].step
           n == CASE step = "total" -> linfo[w][t].total_req_count
                  [] step = "qpm" -> linfo[w][t].qpm_req_count
                  [] OTHER -> 0
<1>1. t \in Token /\ step \in {"limit", "total", "qpm"}
  BY DEF TrigShape, TrigShapeOf, Commands
<1>2. linfo[w][t].total_req_count \in Nat /\ linfo[w][t].qpm_req_count \in Nat
  <2>1. linfo[w][t] \in LunaInfos
    BY <1>1 DEF LunaTypes
  <2> QED BY <2>1 DEF LunaInfos
<1>3. n \in Nat /\ (step = "qpm" => n = linfo[w][t].qpm_req_count)
  BY <1>1, <1>2
<1>4. LunaCommand(w) = [of |-> w, token |-> t, step |-> step, late |-> FALSE, count |-> n]
  BY DEF LunaCommand
<1> HIDE DEF t, step, n
<1> QED BY <1>1, <1>3, <1>4 DEF LunaCommands, t, step

(* A command on a connection of the worker's own. *)
LEMMA CommandKeeps ==
    ASSUME LunaIInv, NEW w \in Worker, Command(w)
    PROVE  LunaIInv'
<1> DEFINE step == lwork[w].step
           tok == lwork[w].token
           c == LunaCommand(w)
           value == LunaReply(c).value
<1>1. LunaTypes /\ TrigShape
  BY DEF LunaIInv
<1>2. step \in Commands /\ lwork[w].ctx # "shared" /\ lhist' = lhist
        /\ lreplies' = lreplies /\ lcommands' = lcommands /\ lup' = lup
  BY DEF Command, Commands, lunaConn
<1>3. tok \in Token
  BY <1>1, <1>2 DEF TrigShape, TrigShapeOf
<1>4. /\ lreplies' \in Seq(StringReplies \cup IntegerReplies)
      /\ \A i \in DOMAIN lreplies' : \E j \in DOMAIN lreplies : lreplies[j] = lreplies'[i]
  BY <1>1, <1>2 DEF LunaTypes
<1>5. /\ lredis \in [Token -> [qpm : Floor .. Quota, total : Int, limit : BOOLEAN]]
      /\ \A s \in Token : lredis[s].qpm <= lredis[s].qpm
  <2>1. lredis \in [Token -> [qpm : Floor .. Quota, total : Int, limit : BOOLEAN]]
    BY <1>1 DEF LunaTypes
  <2>2. \A s \in Token : lredis[s].qpm \in Int
    <3>1. Floor \in Int /\ Quota \in Int
      BY LunaAssumption DEF Floor
    <3> QED BY <2>1, <3>1
  <2> QED BY <2>1, <2>2
<1>c. c \in LunaCommands /\ c.token = tok /\ c.step = step /\ (step = "qpm" => c.count = linfo[w][tok].qpm_req_count)
  BY <1>1, <1>2, CommandIs
<1> HIDE DEF c
<1>6. CASE Executed(c) /\ LunaFinish(w, "own", TRUE, value, TRUE)
  <2>1. /\ lredis' \in [Token -> [qpm : Floor .. Quota, total : Int, limit : BOOLEAN]]
        /\ \A s \in Token : lredis'[s].qpm <= lredis[s].qpm
        /\ step = "qpm" => \/ lredis'[tok].qpm = Floor
                           \/ lredis'[tok].qpm + linfo[w][tok].qpm_req_count <= lredis[tok].qpm
    BY <1>1, <1>c, <1>6, ExecutedDoes
  <2>2. /\ step # "limit" => value \in Nat
        /\ step = "qpm" => value = 0 \/ lredis'[tok].qpm > 0
    BY <1>1, <1>c, <2>1, ReplyIs
  <2> HIDE DEF value
  <2> QED BY <1>2, <1>4, <1>6, <2>1, <2>2, FinishKeeps
<1>7. CASE Executed(c) /\ LunaFinish(w, "own", FALSE, 0, FALSE)
  <2>1. /\ lredis' \in [Token -> [qpm : Floor .. Quota, total : Int, limit : BOOLEAN]]
        /\ \A s \in Token : lredis'[s].qpm <= lredis[s].qpm
    BY <1>1, <1>c, <1>7, ExecutedDoes
  <2> QED BY <1>2, <1>4, <1>7, <2>1, FinishKeeps
<1>8. CASE lredis' = lredis /\ LunaFinish(w, "own", FALSE, 0, FALSE)
  BY <1>2, <1>4, <1>5, <1>8, FinishKeeps
<1> QED BY <1>6, <1>7, <1>8 DEF Command, c

(* No reply on the first connection. *)
LEMMA FailSharedKeeps ==
    ASSUME LunaIInv, NEW w \in Worker, FailShared(w)
    PROVE  LunaIInv'
<1>1. LunaTypes
  BY DEF LunaIInv
<1>2. /\ lwork[w].step \in Commands /\ lhist' = lhist /\ lredis' = lredis
      /\ lreplies' = lreplies /\ lcommands' = lcommands /\ lup' = lup
      /\ LunaFinish(w, "own", FALSE, 0, FALSE)
  BY DEF FailShared, Commands, lunaConn
<1>3. /\ lreplies' \in Seq(StringReplies \cup IntegerReplies)
      /\ \A i \in DOMAIN lreplies' : \E j \in DOMAIN lreplies : lreplies[j] = lreplies'[i]
  BY <1>1, <1>2 DEF LunaTypes
<1>4. /\ lredis' \in [Token -> [qpm : Floor .. Quota, total : Int, limit : BOOLEAN]]
      /\ \A s \in Token : lredis'[s].qpm <= lredis[s].qpm
  <2>1. lredis \in [Token -> [qpm : Floor .. Quota, total : Int, limit : BOOLEAN]]
    BY <1>1 DEF LunaTypes
  <2>2. \A s \in Token : lredis[s].qpm \in Int
    <3>1. Floor \in Int /\ Quota \in Int
      BY LunaAssumption DEF Floor
    <3> QED BY <2>1, <3>1
  <2> QED BY <2>1, <2>2, <1>2
<1> QED BY <1>2, <1>3, <1>4, FinishKeeps

(* A reply on the first connection. *)
LEMMA ReceiveSharedKeeps ==
    ASSUME LunaIInv, NEW w \in Worker, ReceiveShared(w)
    PROVE  LunaIInv'
<1> DEFINE work == lwork[w]
           r == Head(lreplies)
           ok == r.type = Accepts(work.step)
           own == ok /\ OwnReply(r, w)
           value == r.value
           tok == work.token
<1>1. LunaTypes /\ TrigShape /\ NewComers
  BY DEF LunaIInv
<1>2. work.sent /\ lreplies # <<>> /\ LunaFinish(w, "shared", ok, value, own) /\ lreplies' = Tail(lreplies)
        /\ lredis' = lredis /\ lhist' = lhist /\ lcommands' = lcommands /\ lup' = lup
  BY DEF ReceiveShared
<1>3. work.step \in Commands /\ work.ctx = "shared" /\ tok \in Token
  BY <1>1, <1>2 DEF TrigShape, TrigShapeOf
<1> DEFINE R == StringReplies \cup IntegerReplies
<1>4. /\ lreplies' \in Seq(R) /\ r \in R /\ r = lreplies[1] /\ 1 \in DOMAIN lreplies
      /\ \A i \in DOMAIN lreplies' : \E j \in DOMAIN lreplies : lreplies[j] = lreplies'[i]
  <2>1. lreplies \in Seq(R)
    BY <1>1 DEF LunaTypes
  <2> HIDE DEF R
  <2>2. /\ lreplies' \in Seq(R) /\ r \in R /\ r = lreplies[1] /\ 1 \in DOMAIN lreplies
    BY <2>1, <1>2
  <2>3. ASSUME NEW i \in DOMAIN lreplies' PROVE \E j \in DOMAIN lreplies : lreplies[j] = lreplies'[i]
    <3>1. i + 1 \in DOMAIN lreplies /\ lreplies[i + 1] = lreplies'[i]
      BY <2>1, <1>2
    <3> QED BY <3>1
  <2> QED BY <2>2, <2>3
<1>5. ok /\ work.step # "limit" => value \in Nat
  <2> SUFFICES ASSUME ok, work.step # "limit" PROVE value \in Nat
    OBVIOUS
  <2>1. r.type = "integer"
    BY DEF Accepts
  <2> HIDE DEF r
  <2>2. r \in IntegerReplies
    BY <1>4, <2>1 DEF StringReplies
  <2> QED BY <2>2 DEF IntegerReplies
<1>6. /\ lredis' \in [Token -> [qpm : Floor .. Quota, total : Int, limit : BOOLEAN]]
      /\ \A s \in Token : lredis'[s].qpm <= lredis[s].qpm /\ lredis[s].qpm \in Int
  <2>1. lredis \in [Token -> [qpm : Floor .. Quota, total : Int, limit : BOOLEAN]]
    BY <1>1 DEF LunaTypes
  <2>2. \A s \in Token : lredis[s].qpm \in Int
    <3>1. Floor \in Int /\ Quota \in Int
      BY LunaAssumption DEF Floor
    <3> QED BY <2>1, <3>1
  <2> QED BY <2>1, <2>2, <1>2
<1>7. lredis'[tok].qpm + linfo[w][tok].qpm_req_count <= lredis[tok].qpm
  <2>1. linfo[w][tok].qpm_req_count = 0
    BY <1>1, <1>3 DEF NewComers, NewComersOf
  <2> QED BY <2>1, <1>2, <1>3, <1>6
<1>8. own /\ work.step = "qpm" => value = 0 \/ Waiting(w, tok)
  <2> SUFFICES ASSUME own, work.step = "qpm", value # 0 PROVE Waiting(w, tok)
    OBVIOUS
  <2>1. value \in Nat /\ value > 0
    BY <1>5
  <2>2. OwnReply(lreplies[1], w) /\ lreplies[1].value > 0 /\ 1 \in DOMAIN lreplies
    BY <2>1, <1>4
  <2> QED BY <2>2, <1>2 DEF Waiting
<1>9. ok \in BOOLEAN /\ own \in BOOLEAN /\ (own => ok)
  OBVIOUS
<1> HIDE DEF ok, own, value, r, R
<1> QED BY <1>2, <1>3, <1>4, <1>5, <1>6, <1>7, <1>8, <1>9, FinishKeeps DEF R

(* Redis has been told no less, if it counted down or stayed, and nobody counts otherwise. *)
LEMMA BalanceSame ==
    ASSUME LunaTypes, NEW w \in Worker, NEW s \in Token, linfo' = linfo, lhist' = lhist,
           lredis' = lredis \/ (LunaTypes' /\ lredis'[s].qpm <= lredis[s].qpm)
    PROVE  (Quota - lredis'[s].qpm) + linfo'[w][s].qpm_req_count + lhist'[s].forgotten - lhist'[s].admitted
             >= (Quota - lredis[s].qpm) + linfo[w][s].qpm_req_count + lhist[s].forgotten - lhist[s].admitted
<1> DEFINE q == lredis[s].qpm
           q2 == lredis'[s].qpm
           f == lhist[s].forgotten
           a == lhist[s].admitted
           c == linfo[w][s].qpm_req_count
<1>1. q \in Int /\ q2 \in Int /\ q2 <= q
  <2>1. Floor \in Int /\ Quota \in Int
    BY LunaAssumption DEF Floor
  <2>2. lredis[s].qpm \in Floor .. Quota
    BY DEF LunaTypes
  <2>3. CASE lredis' = lredis
    BY <2>1, <2>2, <2>3
  <2>4. CASE LunaTypes' /\ lredis'[s].qpm <= lredis[s].qpm
    <3>1. lredis'[s].qpm \in Floor .. Quota
      BY <2>4 DEF LunaTypes
    <3> QED BY <2>1, <2>2, <2>4, <3>1
  <2> QED BY <2>3, <2>4
<1>2. f \in Int /\ a \in Int /\ c \in Int
  <2>1. linfo[w][s] \in LunaInfos
    BY DEF LunaTypes
  <2>2. lhist[s].forgotten \in Int /\ lhist[s].admitted \in Int
    BY LunaAssumption DEF LunaTypes
  <2> QED BY <2>1, <2>2 DEF LunaInfos
<1> HIDE DEF q, q2, f, a, c
<1>3. (Quota - q2) + c + f - a >= (Quota - q) + c + f - a
  BY <1>1, <1>2, LunaAssumption
<1> QED BY <1>3 DEF q, q2, f, a, c

(* A command on the first connection. *)
LEMMA SendSharedKeeps ==
    ASSUME LunaIInv, NEW w \in Worker, SendShared(w)
    PROVE  LunaIInv'
<1> DEFINE work == lwork[w]
           tok == work.token
           c == LunaCommand(w)
<1>1. /\ LunaTypes /\ TrigShape /\ TrigShapeOf(w) /\ NewComersOf(w) /\ NoOldOf(w) /\ CountsOf(w)
  BY DEF LunaIInv, TrigShape, NewComers, NoOld, Counts
<1>2. /\ work.step \in Commands /\ work.ctx = "shared" /\ ~work.sent
      /\ lcommands' = Append(lcommands, c) \/ lcommands' = lcommands
      /\ lwork' = [lwork EXCEPT ![w].sent = TRUE]
      /\ linfo' = linfo /\ lhist' = lhist /\ lredis' = lredis /\ lreplies' = lreplies /\ lup' = lup
  BY DEF SendShared, Commands
<1>3. tok \in Token /\ tok \notin work.todo
  BY <1>1, <1>2 DEF TrigShapeOf
<1>5. c \in LunaCommands /\ c.of = w /\ c.token = tok /\ c.step = work.step
  BY <1>1, <1>2, CommandIs
<1>6. work \in LunaWorkers
  BY <1>1 DEF LunaTypes
<1>7. lwork'[w] = [work EXCEPT !.sent = TRUE] /\ \A v \in Worker \ {w} : lwork'[v] = lwork[v]
  BY <1>1, <1>2 DEF LunaTypes
<1>8. /\ lwork'[w] \in LunaWorkers
      /\ lwork'[w].ctx = "shared" /\ lwork'[w].step = work.step /\ lwork'[w].token = tok /\ lwork'[w].todo = work.todo
      /\ lwork'[w].sent /\ lwork'[w].seen = work.seen /\ lwork'[w].fresh = work.fresh
  <2>1. work \in LunaWorkers /\ lwork'[w] = [work EXCEPT !.sent = TRUE] /\ work.ctx = "shared"
    BY <1>2, <1>6, <1>7
  <2> HIDE DEF work
  <2> QED BY <2>1 DEF LunaWorkers
<1> HIDE DEF c
<1>9. lcommands' \in Seq(LunaCommands) /\ \A m \in InFlight' : m = Mark(c) \/ m \in InFlight
  <2>1. lcommands \in Seq(LunaCommands) /\ DOMAIN lcommands = 1 .. Len(lcommands) /\ Len(lcommands) \in Nat
    BY <1>1 DEF LunaTypes
  <2>2. CASE lcommands' = lcommands
    BY <2>1, <2>2, <1>2 DEF InFlight, Mark
  <2>3. CASE lcommands' = Append(lcommands, c)
    <3>1. /\ lcommands' \in Seq(LunaCommands) /\ DOMAIN lcommands' = 1 .. Len(lcommands) + 1
          /\ lcommands'[Len(lcommands) + 1] = c /\ \A i \in DOMAIN lcommands : lcommands'[i] = lcommands[i]
      BY <2>1, <2>3, <1>5
    <3>2. \A i \in DOMAIN lcommands' : lcommands'[i] = c \/ (i \in DOMAIN lcommands /\ lcommands'[i] = lcommands[i])
      BY <3>1, <2>1
    <3> QED BY <3>1, <3>2, <1>2 DEF InFlight, Mark
  <2> QED BY <2>2, <2>3, <1>2
<1>10. Mark(c).of = w /\ Mark(c).token = tok /\ Mark(c).step = work.step
  BY <1>5 DEF Mark
<1>11. LunaTypes'
  <2>1. lwork' \in [Worker -> LunaWorkers]
    <3>1. lwork \in [Worker -> LunaWorkers]
      BY <1>1 DEF LunaTypes
    <3> QED BY <3>1, <1>2, <1>7, <1>8
  <2> QED BY <2>1, <1>1, <1>2, <1>9 DEF LunaTypes
<1>12. OnlyStep(w)
  <2>1. \A t \in Token : lhist[t].admitted \in Int
    BY <1>1, LunaAssumption DEF LunaTypes
  <2>2. \A m \in InFlight' : m.of # w => m \in InFlight
    BY <1>9, <1>10
  <2> QED BY <2>1, <2>2, <1>2, <1>7 DEF OnlyStep, Fine
<1> HIDE DEF work, tok
<1>13. \A s \in Token : Pend(w, s)' = Pend(w, s)
  BY <1>8 DEF Pend, work, tok
<1>14. TrigShapeOf(w)'
  BY <1>1, <1>2, <1>8, <1>13 DEF TrigShapeOf, work, tok
<1>15. NewComersOf(w)'
  BY <1>1, <1>2, <1>8 DEF NewComersOf, work
<1>16. NoOldOf(w)'
  <2> SUFFICES ASSUME NEW m \in InFlight', m.of = w, m.step = "qpm", ~m.late
               PROVE  m.token \notin work.todo /\ (tok = m.token => work.step = "qpm")
    BY <1>2, <1>8 DEF NoOldOf, Commands
  <2>1. CASE m = Mark(c)
    BY <2>1, <1>3, <1>10
  <2>2. CASE m \in InFlight
    BY <2>2, <1>1, <1>2 DEF NoOldOf, work, tok
  <2> QED BY <2>1, <2>2, <1>9
<1>17. CountsOf(w)'
  BY <1>1, <1>2, <1>8, <1>13 DEF CountsOf, Fine, work
<1>18. ASSUME NEW s \in Token
       PROVE  (Quota - lredis'[s].qpm) + linfo'[w][s].qpm_req_count + lhist'[s].forgotten - lhist'[s].admitted
                >= (Quota - lredis[s].qpm) + linfo[w][s].qpm_req_count + lhist[s].forgotten - lhist[s].admitted
  BY <1>1, <1>2, BalanceSame
<1>19. ASSUME NEW s \in Token
       PROVE  lhist'[s].admitted + Room(w, s)' <= lhist[s].admitted + Room(w, s)
  <2>1. ~Waiting(w, s)
    BY <1>2 DEF Waiting, work
  <2>2. ~Waiting(w, s)'
    <3> SUFFICES ASSUME Waiting(w, s)' PROVE FALSE
      OBVIOUS
    <3>1. work.step = "qpm" /\ tok = s
      BY <1>8 DEF Waiting
    <3>2. PICK i \in DOMAIN lreplies : /\ lreplies[i].of = w /\ ~lreplies[i].late /\ lreplies[i].token = tok
                                       /\ lreplies[i].step = work.step
      BY <1>2, <1>8 DEF Waiting, OwnReply
    <3> DEFINE m == Mark(lreplies[i])
    <3>3. m \in InFlight
      BY DEF InFlight
    <3>4. m.of = w /\ ~m.late /\ m.token = tok /\ m.step = "qpm"
      BY <3>1, <3>2 DEF Mark
    <3> HIDE DEF m
    <3> QED BY <3>1, <3>3, <3>4, <1>1, <1>2 DEF NoOldOf, work, tok
  <2>3. Room(w, s)' = Room(w, s)
    BY <2>1, <2>2, <1>2, <1>8, <1>13 DEF Room, work
  <2>4. Room(w, s) \in Int /\ lhist[s].admitted \in Int
    <3>1. Room(w, s) \in 0 .. MaxPerSecond
      BY <1>1, RoomType
    <3>2. lhist[s].admitted \in 0 .. MaxRequests
      BY <1>1 DEF LunaTypes
    <3> QED BY <3>1, <3>2, LunaAssumption
  <2> QED BY <2>3, <2>4, <1>2
<1> QED BY <1>11, <1>12, <1>14, <1>15, <1>16, <1>17, <1>18, <1>19, StepKept

(* Redis executes a command of the first connection, whatever its sender does by then. *)
LEMMA RedisExecutesKeeps ==
    ASSUME LunaIInv, RedisExecutes
    PROVE  LunaIInv'
<1> DEFINE c == Head(lcommands)
           r == LunaReply(c)
           R == StringReplies \cup IntegerReplies
<1>1. LunaTypes
  BY DEF LunaIInv
<1>2. /\ lcommands # <<>> /\ Executed(c)
      /\ lcommands' = Tail(lcommands) /\ lreplies' = Append(lreplies, r)
      /\ lwork' = lwork /\ linfo' = linfo /\ lup' = lup /\ lhist' = lhist
  BY DEF RedisExecutes
<1>3. /\ lcommands' \in Seq(LunaCommands) /\ c \in LunaCommands /\ c = lcommands[1] /\ 1 \in DOMAIN lcommands
      /\ \A i \in DOMAIN lcommands' : \E j \in DOMAIN lcommands : lcommands[j] = lcommands'[i]
  <2>1. lcommands \in Seq(LunaCommands)
    BY <1>1 DEF LunaTypes
  <2>2. lcommands' \in Seq(LunaCommands) /\ c \in LunaCommands /\ c = lcommands[1] /\ 1 \in DOMAIN lcommands
    BY <2>1, <1>2
  <2>3. ASSUME NEW i \in DOMAIN lcommands' PROVE \E j \in DOMAIN lcommands : lcommands[j] = lcommands'[i]
    <3>1. i + 1 \in DOMAIN lcommands /\ lcommands[i + 1] = lcommands'[i]
      BY <2>1, <1>2
    <3> QED BY <3>1
  <2> QED BY <2>2, <2>3
<1> HIDE DEF c
<1>4. PICK w \in Worker : w = c.of
  BY <1>3 DEF LunaCommands
<1>5. /\ lredis' \in [Token -> [qpm : Floor .. Quota, total : Int, limit : BOOLEAN]]
      /\ \A s \in Token : lredis'[s].qpm <= lredis[s].qpm
  BY <1>1, <1>2, <1>3, ExecutedDoes
<1>6. /\ r \in R /\ r.of = c.of /\ r.token = c.token /\ r.step = c.step /\ r.late = c.late
      /\ c.step = "qpm" => r.value = 0 \/ lredis'[c.token].qpm > 0
  BY <1>1, <1>3, <1>5, ReplyIs
<1> HIDE DEF r, R
<1>7. lreplies' \in Seq(R) /\ \A i \in DOMAIN lreplies' : lreplies'[i] = r \/ (i \in DOMAIN lreplies /\ lreplies'[i] = lreplies[i])
  <2>1. lreplies \in Seq(R) /\ DOMAIN lreplies = 1 .. Len(lreplies) /\ Len(lreplies) \in Nat
    BY <1>1 DEF LunaTypes, R
  <2>2. /\ lreplies' \in Seq(R) /\ DOMAIN lreplies' = 1 .. Len(lreplies) + 1
        /\ lreplies'[Len(lreplies) + 1] = r /\ \A i \in DOMAIN lreplies : lreplies'[i] = lreplies[i]
    BY <2>1, <1>2, <1>6
  <2> QED BY <2>1, <2>2
<1>8. InFlight' \subseteq InFlight
  <2>1. Mark(r) = Mark(c)
    BY <1>6 DEF Mark
  <2>2. Mark(c) \in InFlight
    BY <1>3 DEF InFlight
  <2>3. \A i \in DOMAIN lreplies' : Mark(lreplies'[i]) \in InFlight
    BY <2>1, <2>2, <1>7 DEF InFlight
  <2>4. \A i \in DOMAIN lcommands' : Mark(lcommands'[i]) \in InFlight
    BY <1>3 DEF InFlight
  <2> QED BY <2>3, <2>4 DEF InFlight, Mark
<1>9. LunaTypes'
  BY <1>1, <1>2, <1>3, <1>5, <1>7 DEF LunaTypes, R
<1>10. /\ TrigShapeOf(w)' /\ NewComersOf(w)' /\ CountsOf(w)'
  <2>1. TrigShapeOf(w) /\ NewComersOf(w) /\ CountsOf(w)
    BY <1>4 DEF LunaIInv, TrigShape, NewComers, Counts
  <2>2. TrigShapeOf(w)'
    BY <2>1, <1>2 DEF TrigShapeOf, Pend
  <2>3. NewComersOf(w)'
    BY <2>1, <1>2 DEF NewComersOf
  <2>4. CountsOf(w)'
    BY <2>1, <1>2 DEF CountsOf, Fine, Pend
  <2> QED BY <2>2, <2>3, <2>4
<1>11. \A v \in Worker : NoOldOf(v)'
  <2> HIDE DEF InFlight
  <2> QED BY <1>2, <1>8 DEF LunaIInv, NoOld, NoOldOf
<1>12. \A v \in Worker : \A t \in Token : lredis'[t].qpm > 0 \/ Room(v, t)' <= Room(v, t)
  <2> SUFFICES ASSUME NEW v \in Worker, NEW t \in Token, ~(lredis'[t].qpm > 0) PROVE Room(v, t)' <= Room(v, t)
    OBVIOUS
  <2>1. Waiting(v, t)' => Waiting(v, t)
    <3> SUFFICES ASSUME Waiting(v, t)' PROVE Waiting(v, t)
      OBVIOUS
    <3>1. PICK i \in DOMAIN lreplies' : /\ lreplies'[i].of = v /\ ~lreplies'[i].late
                                        /\ lreplies'[i].token = lwork[v].token /\ lreplies'[i].step = lwork[v].step
                                        /\ lreplies'[i].value > 0
      BY <1>2 DEF Waiting, OwnReply
    <3>2. lwork[v].sent /\ lwork[v].step = "qpm" /\ lwork[v].token = t
      BY <1>2 DEF Waiting
    <3>3. lreplies'[i] # r
      <4> SUFFICES ASSUME lreplies'[i] = r PROVE FALSE
        OBVIOUS
      <4>1. c.step = "qpm" /\ c.token = t /\ r.value > 0
        BY <3>1, <3>2, <1>6
      <4> QED BY <4>1, <1>6
    <3>4. i \in DOMAIN lreplies /\ lreplies'[i] = lreplies[i]
      BY <3>3, <1>7
    <3> QED BY <3>1, <3>2, <3>4 DEF Waiting, OwnReply
  <2>2. Room(v, t) \in 0 .. MaxPerSecond /\ Room(v, t)' \in 0 .. MaxPerSecond /\ MaxPerSecond \in Nat
    BY <1>1, <1>9, RoomType, RoomTypeAfter, LunaAssumption
  <2>3. Pend(v, t)' = Pend(v, t)
    BY <1>2 DEF Pend
  <2>4. CASE Waiting(v, t)
    BY <2>2, <2>4 DEF Room
  <2>5. CASE ~Waiting(v, t)
    <3>1. ~Waiting(v, t)'
      BY <2>1, <2>5
    <3>2. Room(v, t)' = Room(v, t)
      BY <3>1, <2>5, <2>3, <1>2 DEF Room
    <3> QED BY <3>2, <2>2
  <2> QED BY <2>4, <2>5
<1>13. TrigShape' /\ NewComers' /\ NoOld' /\ Counts'
  <2>1. TrigShape'
    BY <1>2 DEF LunaIInv, TrigShape, TrigShapeOf, Pend
  <2>2. NewComers'
    BY <1>2 DEF LunaIInv, NewComers, NewComersOf
  <2>3. Counts'
    BY <1>2 DEF LunaIInv, Counts, CountsOf, Fine, Pend
  <2> QED BY <2>1, <2>2, <2>3, <1>11 DEF NoOld
<1>14. NeverUndercharged'
  <2>1. \A t \in Token :
          (Quota - lredis'[t].qpm) + linfo'[w][t].qpm_req_count + lhist'[t].forgotten - lhist'[t].admitted
            >= (Quota - lredis[t].qpm) + linfo[w][t].qpm_req_count + lhist[t].forgotten - lhist[t].admitted
    BY <1>1, <1>2, <1>4, <1>5, <1>9, BalanceSame
  <2> QED BY <2>1, <1>1, <1>2, <1>4, <1>9, BalanceKept DEF LunaIInv
<1>15. Over'
  <2>1. \A t \in Token : Fine(t)' => Fine(t)
    BY <1>2 DEF Fine
  <2>2. \A t \in Token : lredis'[t].qpm > 0 \/ lhist'[t].admitted + Room(w, t)' <= lhist[t].admitted + Room(w, t)
    <3> SUFFICES ASSUME NEW t \in Token, ~(lredis'[t].qpm > 0)
                 PROVE  lhist'[t].admitted + Room(w, t)' <= lhist[t].admitted + Room(w, t)
      OBVIOUS
    <3>1. Room(w, t) \in 0 .. MaxPerSecond /\ Room(w, t)' \in 0 .. MaxPerSecond
      BY <1>1, <1>4, <1>9, RoomType, RoomTypeAfter
    <3>2. lhist[t].admitted \in 0 .. MaxRequests
      BY <1>1 DEF LunaTypes
    <3>3. Room(w, t)' <= Room(w, t)
      BY <1>4, <1>12
    <3> QED BY <3>1, <3>2, <3>3, <1>2, LunaAssumption
  <2> QED BY <2>1, <2>2, <1>1, <1>9, <1>12, <1>13, <1>14, OverKept DEF LunaIInv
<1> QED BY <1>9, <1>13, <1>14, <1>15 DEF LunaIInv

(* The first connection breaks, and what was written to it is lost. *)
LEMMA SharedBreaksKeeps ==
    ASSUME LunaIInv, SharedBreaks
    PROVE  LunaIInv'
<1>1. /\ lwork' = lwork /\ linfo' = linfo /\ lredis' = lredis /\ lhist' = lhist
      /\ lup' = FALSE /\ lcommands' = <<>> /\ lreplies' = lreplies
  BY DEF SharedBreaks
<1>2. LunaTypes'
  <2>1. << >> \in Seq(LunaCommands) /\ FALSE \in BOOLEAN
    OBVIOUS
  <2>2. lup' \in BOOLEAN /\ lcommands' \in Seq(LunaCommands)
    <3>1. lup' = FALSE /\ lcommands' = << >>
      BY <1>1
    <3> QED BY <2>1, <3>1, Zenon
  <2> QED BY <2>2, <1>1 DEF LunaIInv, LunaTypes
<1>3. InFlight' \subseteq InFlight
  BY <1>1 DEF InFlight, Mark
<1>4. NoOld'
  <2> HIDE DEF InFlight
  <2> QED BY <1>1, <1>3 DEF LunaIInv, NoOld, NoOldOf
<1>5. TrigShape' = TrigShape
  BY <1>1 DEF TrigShape, TrigShapeOf, Pend
<1>6. NewComers' = NewComers
  BY <1>1 DEF NewComers, NewComersOf
<1>7. Counts' = Counts
  BY <1>1 DEF Counts, CountsOf, Fine, Pend
<1>8. NeverUndercharged' = NeverUndercharged
  BY <1>1 DEF NeverUndercharged, Pending
<1>9. Over' = Over
  BY <1>1 DEF Over, Fine, SumRoom, Room, Waiting, OwnReply, Pend
<1> QED BY <1>2, <1>4, <1>5, <1>6, <1>7, <1>8, <1>9 DEF LunaIInv

(* The trigger of a worker begins. *)
LEMMA ProcTrigKeeps ==
    ASSUME LunaIInv, NEW w \in Worker, ProcTrig(w)
    PROVE  LunaIInv'
<1> DEFINE work == lwork[w]
           K == {t \in Token : linfo[w][t].known}
           base == [work EXCEPT !.todo = K, !.seen = 0]
           work2 == lwork'[w]
<1>1. LunaTypes /\ TrigShapeOf(w) /\ NewComersOf(w) /\ NoOldOf(w) /\ CountsOf(w)
  BY DEF LunaIInv, TrigShape, NewComers, NoOld, Counts
<1>2. /\ work.step = "idle" /\ lwork' = [lwork EXCEPT ![w] = NextToken(w, base)]
      /\ linfo' = linfo /\ lredis' = lredis /\ lhist' = lhist
      /\ lreplies' = lreplies /\ lcommands' = lcommands /\ lup' = lup
  BY DEF ProcTrig, lunaConn
<1>3. work \in LunaWorkers /\ ~work.sent /\ work.todo = {}
  BY <1>1, <1>2 DEF LunaTypes, TrigShapeOf, Commands
<1>4. MaxPerSecond \in Nat /\ K \in SUBSET Token
  BY LunaAssumption
<1>5. /\ base \in LunaWorkers /\ base.ctx = work.ctx /\ base.todo = K /\ ~base.sent
      /\ base.seen = 0 /\ base.fresh = work.fresh
  <2>1. base = [work EXCEPT !.todo = K, !.seen = 0] /\ work \in LunaWorkers /\ ~work.sent
    BY <1>3
  <2> HIDE DEF work, K, base
  <2>2. 0 \in 0 .. MaxPerSecond
    BY <1>4
  <2>3. base \in LunaWorkers
    BY <2>1, <2>2, <1>4 DEF LunaWorkers
  <2>4. base.ctx = work.ctx /\ base.todo = K /\ base.sent = work.sent /\ base.seen = 0 /\ base.fresh = work.fresh
    BY <2>1 DEF LunaWorkers
  <2> QED BY <2>1, <2>3, <2>4
<1> HIDE DEF base
<1>6. lwork'[w] = NextToken(w, base) /\ \A v \in Worker \ {w} : lwork'[v] = lwork[v]
  BY <1>1, <1>2 DEF LunaTypes
<1> HIDE DEF K
<1>7. /\ work2 \in LunaWorkers /\ work2.ctx = work.ctx /\ ~work2.sent /\ work2.seen = 0 /\ work2.fresh = work.fresh
      /\ \/ K = {} /\ work2.step = "after" /\ work2.todo = {}
         \/ work2.step = "limit" /\ work2.token \in K /\ work2.todo = K \ {work2.token}
  <2> HIDE DEF work, work2
  <2>1. CASE K = {}
    <3>1. work2 = [base EXCEPT !.step = "after", !.token = "none"]
      BY <2>1, <1>5, <1>6 DEF NextToken, work2
    <3> QED BY <2>1, <3>1, <1>5 DEF LunaWorkers, Steps
  <2>2. CASE K # {}
    <3>1. PICK t \in K : work2 = [base EXCEPT !.step = "limit", !.token = t, !.todo = @ \ {t}]
      <4>1. (CHOOSE t \in base.todo : TRUE) \in base.todo
        BY <2>2, <1>5
      <4> QED BY <4>1, <2>2, <1>5, <1>6 DEF NextToken, work2
    <3> QED BY <2>2, <3>1, <1>5 DEF LunaWorkers, Steps
  <2> QED BY <2>1, <2>2
<1>8. LunaTypes'
  <2>1. lwork' \in [Worker -> LunaWorkers]
    <3>1. lwork \in [Worker -> LunaWorkers]
      BY <1>1 DEF LunaTypes
    <3> QED BY <3>1, <1>2, <1>6, <1>7
  <2> QED BY <2>1, <1>1, <1>2 DEF LunaTypes
<1>9. OnlyStep(w)
  <2>1. \A t \in Token : lhist[t].admitted \in Int
    BY <1>1, LunaAssumption DEF LunaTypes
  <2>2. InFlight' = InFlight
    BY <1>2, SameInFlight
  <2> QED BY <2>1, <2>2, <1>2, <1>6 DEF OnlyStep, Fine
<1> HIDE DEF work, work2
<1>10. \A s \in Token : ~Pend(w, s) /\ Pend(w, s)' = linfo[w][s].known
  <2> SUFFICES ASSUME NEW s \in Token PROVE ~Pend(w, s) /\ Pend(w, s)' = linfo[w][s].known
    OBVIOUS
  <2>1. ~Pend(w, s)
    BY <1>2, <1>3 DEF Pend, Commands, work
  <2>2. Pend(w, s)' <=> s \in K
    BY <1>7 DEF Pend, Commands, work2
  <2>3. s \in K <=> linfo[w][s].known
    BY DEF K
  <2>4. linfo[w][s].known \in BOOLEAN
    BY <1>1 DEF LunaTypes, LunaInfos
  <2>5. Pend(w, s)' \in BOOLEAN
    BY DEF Pend
  <2> QED BY <2>1, <2>2, <2>3, <2>4, <2>5
<1>11. TrigShapeOf(w)'
  BY <1>2, <1>4, <1>7, <1>10 DEF TrigShapeOf, work2, Commands, K
<1>12. NewComersOf(w)'
  BY <1>1, <1>2, <1>7 DEF NewComersOf, work, work2
<1>13. NoOldOf(w)'
  <2>1. InFlight' = InFlight
    BY <1>2, SameInFlight
  <2> QED BY <2>1, <1>1, <1>2, <1>7 DEF NoOldOf, work, work2
<1>14. CountsOf(w)'
  <2> SUFFICES ASSUME NEW s \in Token, Fine(s)
               PROVE  /\ linfo[w][s].qpm_req_count <= MaxPerSecond
                      /\ ~linfo[w][s].known => linfo[w][s].qpm_req_count <= 0
    BY <1>2, <1>7, <1>10 DEF CountsOf, Fine, work2
  <2> QED BY <1>1 DEF CountsOf, NewComersOf
<1>15. ASSUME NEW s \in Token
       PROVE  (Quota - lredis'[s].qpm) + linfo'[w][s].qpm_req_count + lhist'[s].forgotten - lhist'[s].admitted
                >= (Quota - lredis[s].qpm) + linfo[w][s].qpm_req_count + lhist[s].forgotten - lhist[s].admitted
  <2>1. lredis[s].qpm \in Int
    <3>1. lredis[s].qpm \in Floor .. Quota
      BY <1>1 DEF LunaTypes
    <3> QED BY <3>1, LunaAssumption DEF Floor
  <2>2. lhist[s].forgotten \in Int /\ lhist[s].admitted \in Int /\ linfo[w][s].qpm_req_count \in Int
    <3>1. linfo[w][s] \in LunaInfos
      BY <1>1 DEF LunaTypes
    <3>2. lhist[s].forgotten \in Int /\ lhist[s].admitted \in Int
      BY <1>1, LunaAssumption DEF LunaTypes
    <3> QED BY <3>1, <3>2 DEF LunaInfos
  <2> QED BY <2>1, <2>2, <1>2, LunaAssumption
<1>16. ASSUME NEW s \in Token
       PROVE  lhist'[s].admitted + Room(w, s)' <= lhist[s].admitted + Room(w, s)
  <2>1. ~Waiting(w, s)'
    BY <1>7 DEF Waiting, work2
  <2>2. Room(w, s)' = 0
    <3>1. CASE linfo[w][s].known
      BY <3>1, <2>1, <1>10 DEF Room
    <3>2. CASE ~linfo[w][s].known
      <4>1. linfo'[w][s].qpm_req_remain = 0
        BY <3>2, <1>1, <1>2 DEF NewComersOf
      <4> QED BY <4>1, <2>1 DEF Room
    <3> QED BY <3>1, <3>2
  <2>3. Room(w, s) \in Nat /\ lhist[s].admitted \in Int
    <3>1. Room(w, s) \in 0 .. MaxPerSecond
      BY <1>1, RoomType
    <3>2. lhist[s].admitted \in 0 .. MaxRequests
      BY <1>1 DEF LunaTypes
    <3> QED BY <3>1, <3>2, LunaAssumption
  <2> QED BY <2>2, <2>3, <1>2
<1> QED BY <1>8, <1>9, <1>11, <1>12, <1>13, <1>14, <1>15, <1>16, StepKept

(* What a second without quotas brings: tokens come and go, and the worker has a
   connection of its own, or none. *)
LEMMA AfterQuotasKeeps ==
    ASSUME LunaIInv, NEW w \in Worker, AfterQuotas(w)
    PROVE  LunaIInv'
<1> DEFINE work == lwork[w]
           work2 == lwork'[w]
           Hist == [admitted : 0 .. MaxRequests, blind : BOOLEAN, forgotten : Nat]
<1>1. LunaTypes /\ TrigShapeOf(w) /\ NewComersOf(w) /\ NoOldOf(w) /\ CountsOf(w)
  BY DEF LunaIInv, TrigShape, NewComers, NoOld, Counts
<1>2. /\ work.step = "after" /\ lredis' = lredis
      /\ lreplies' = lreplies /\ lcommands' = lcommands /\ lup' = lup
  BY DEF AfterQuotas, lunaConn
<1>3. /\ work \in LunaWorkers /\ ~work.sent /\ work.todo = {}
      /\ lhist \in [Token -> Hist] /\ linfo \in [Worker -> [Token -> LunaInfos]]
      /\ MaxPerSecond \in Nat /\ MaxRequests \in Nat
  BY <1>1, <1>2, LunaAssumption DEF LunaTypes, TrigShapeOf, Commands
<1>4. NewInfo \in LunaInfos /\ NewInfo.known /\ NewInfo.qpm_req_count = 0 /\ NewInfo.qpm_req_remain = 0
  BY DEF NewInfo, LunaInfos
<1>5. NoInfo \in LunaInfos /\ ~NoInfo.known /\ NoInfo.qpm_req_count = 0 /\ NoInfo.qpm_req_remain = 0
  BY <1>4 DEF NoInfo, LunaInfos
<1>6. /\ linfo' \in [Worker -> [Token -> LunaInfos]] /\ lhist' \in [Token -> Hist]
      /\ \A v \in Worker \ {w} : linfo'[v] = linfo[v]
      /\ \A t \in Token :
           /\ lhist'[t].admitted = lhist[t].admitted /\ lhist'[t].blind = lhist[t].blind
           /\ linfo'[w][t].qpm_req_count + lhist'[t].forgotten = linfo[w][t].qpm_req_count + lhist[t].forgotten
           /\ \/ linfo'[w][t] = linfo[w][t]
              \/ linfo'[w][t].qpm_req_count = 0 /\ linfo'[w][t].qpm_req_remain = 0
  <2>1. CASE linfo' = linfo /\ lhist' = lhist
    <3>1. \A t \in Token : lhist[t].forgotten \in Int /\ linfo[w][t].qpm_req_count \in Int
      BY <1>3 DEF LunaInfos
    <3> QED BY <2>1, <3>1, <1>3
  <2>2. CASE \E granted \in SUBSET Token : MetaSync(w, granted)
    <3>1. PICK granted \in SUBSET Token : MetaSync(w, granted)
      BY <2>2
    <3> DEFINE new == [t \in Token |-> Granted(linfo[w][t], t \in granted)]
               lost(t) == Forget(t, linfo[w][t], new[t])
    <3>2. /\ linfo' = [linfo EXCEPT ![w] = new]
          /\ lhist' = [t \in Token |-> [lhist[t] EXCEPT !.forgotten = @ + lost(t)]]
      BY <3>1 DEF MetaSync
    <3>3. ASSUME NEW t \in Token
          PROVE  /\ new[t] \in LunaInfos
                 /\ lost(t) \in Nat /\ new[t].qpm_req_count + lost(t) = linfo[w][t].qpm_req_count
                 /\ new[t] = linfo[w][t] \/ (new[t].qpm_req_count = 0 /\ new[t].qpm_req_remain = 0)
      <4> DEFINE i == linfo[w][t]
                 n == new[t]
      <4>1. i \in LunaInfos /\ i.qpm_req_count \in Nat
        BY <1>3 DEF LunaInfos
      <4>2. n = IF t \notin granted THEN NoInfo ELSE IF i.known THEN i ELSE NewInfo
        BY DEF Granted
      <4>3. lost(t) = IF n.qpm_req_count < i.qpm_req_count /\ ~n.known THEN i.qpm_req_count ELSE 0
        BY DEF Forget
      <4>4. ~i.known => i.qpm_req_count = 0
        BY <1>1 DEF NewComersOf
      <4> DEFINE l == lost(t)
      <4> HIDE DEF i, n, l
      <4>5. /\ n \in LunaInfos /\ l \in Nat /\ n.qpm_req_count + l = i.qpm_req_count
            /\ n = i \/ (n.qpm_req_count = 0 /\ n.qpm_req_remain = 0)
        <5>1. CASE t \notin granted
          BY <5>1, <4>1, <4>2, <4>3, <1>5 DEF l
        <5>2. CASE t \in granted /\ i.known
          BY <5>2, <4>1, <4>2, <4>3 DEF l
        <5>3. CASE t \in granted /\ ~i.known
          BY <5>3, <4>1, <4>2, <4>3, <4>4, <1>4 DEF l
        <5> QED BY <5>1, <5>2, <5>3
      <4> QED BY <4>5 DEF i, n, l
    <3>4. new \in [Token -> LunaInfos] /\ linfo'[w] = new
      <4> HIDE DEF lost
      <4>1. \A t \in Token : new[t] \in LunaInfos
        BY <3>3
      <4>2. new = [t \in Token |-> new[t]]
        OBVIOUS
      <4> HIDE DEF new
      <4>3. new \in [Token -> LunaInfos]
        BY <4>1, <4>2
      <4> QED BY <4>3, <3>2, <1>3
    <3> HIDE DEF new, lost
    <3>5. /\ linfo' \in [Worker -> [Token -> LunaInfos]]
          /\ \A v \in Worker \ {w} : linfo'[v] = linfo[v]
      BY <3>2, <3>4, <1>3
    <3>6. ASSUME NEW t \in Token
          PROVE  /\ lhist'[t] \in Hist
                 /\ lhist'[t].admitted = lhist[t].admitted /\ lhist'[t].blind = lhist[t].blind
                 /\ lhist'[t].forgotten = lhist[t].forgotten + lost(t)
      <4> DEFINE l == lost(t)
                 h == lhist[t]
      <4>1. lhist'[t] = [h EXCEPT !.forgotten = @ + l] /\ l \in Nat /\ h \in Hist
        BY <3>2, <3>3, <1>3
      <4> HIDE DEF l, h
      <4> QED BY <4>1 DEF l, h
    <3>7. lhist' \in [Token -> Hist]
      <4> HIDE DEF Hist
      <4> QED BY <3>2, <3>6
    <3>8. ASSUME NEW t \in Token
          PROVE  /\ linfo'[w][t].qpm_req_count + lhist'[t].forgotten = linfo[w][t].qpm_req_count + lhist[t].forgotten
                 /\ \/ linfo'[w][t] = linfo[w][t]
                    \/ linfo'[w][t].qpm_req_count = 0 /\ linfo'[w][t].qpm_req_remain = 0
      <4>1. linfo'[w][t] = new[t]
        BY <3>4
      <4>2. new[t].qpm_req_count \in Int /\ lost(t) \in Int /\ lhist[t].forgotten \in Int
        <5>1. new[t] \in LunaInfos
          BY <3>3
        <5> QED BY <5>1, <3>3, <1>3 DEF LunaInfos
      <4> QED BY <4>1, <4>2, <3>3, <3>6
    <3> QED BY <3>5, <3>6, <3>7, <3>8
  <2> QED BY <2>1, <2>2 DEF AfterQuotas
<1>7. /\ lwork' \in [Worker -> LunaWorkers] /\ \A v \in Worker \ {w} : lwork'[v] = lwork[v]
      /\ work2 \in LunaWorkers
      /\ work2.ctx = "own" /\ work2.step = "idle" /\ work2.todo = {} /\ ~work2.sent
      /\ work2.seen = work.seen
      /\ \A t \in Token : work2.fresh[t] => work.fresh[t]
  <2>1. lwork' = [lwork EXCEPT ![w] =
            [init_redis_cli(lwork[w]) EXCEPT !.fresh = [t \in Token |-> @[t] /\ linfo'[w][t].known]]]
    BY DEF AfterQuotas
  <2> DEFINE base == init_redis_cli(work)
             fresh == [t \in Token |-> base.fresh[t] /\ linfo'[w][t].known]
             next == [base EXCEPT !.fresh = fresh]
  <2>2. base = [work EXCEPT !.ctx = "own", !.step = "idle"]
    BY DEF init_redis_cli
  <2>3. lwork' = [lwork EXCEPT ![w] = next]
    BY <2>1
  <2>4. work \in LunaWorkers /\ ~work.sent /\ work.todo = {}
    BY <1>3
  <2> HIDE DEF base, work
  <2>5. base \in LunaWorkers
    BY <2>2, <2>4 DEF LunaWorkers, Steps
  <2>6. base.ctx = "own" /\ base.step = "idle" /\ base.todo = {} /\ ~base.sent /\ base.seen = work.seen
          /\ base.fresh = work.fresh
    BY <2>2, <2>4 DEF LunaWorkers
  <2>7. fresh \in [Token -> BOOLEAN] /\ \A t \in Token : fresh[t] => work.fresh[t]
    BY <2>6
  <2> HIDE DEF fresh
  <2>8. next \in LunaWorkers
    BY <2>5, <2>7 DEF LunaWorkers
  <2>9. next.ctx = base.ctx /\ next.step = base.step /\ next.todo = base.todo /\ next.sent = base.sent
          /\ next.seen = base.seen /\ next.fresh = fresh
    BY <2>5 DEF LunaWorkers
  <2> HIDE DEF next
  <2>10. /\ lwork' \in [Worker -> LunaWorkers] /\ lwork'[w] = next /\ \A v \in Worker \ {w} : lwork'[v] = lwork[v]
    <3>1. lwork \in [Worker -> LunaWorkers]
      BY <1>1 DEF LunaTypes
    <3> QED BY <3>1, <2>3, <2>8
  <2> QED BY <2>2, <2>6, <2>7, <2>8, <2>9, <2>10
<1>8. LunaTypes'
  BY <1>1, <1>2, <1>6, <1>7 DEF LunaTypes
<1>9. \A t \in Token : /\ lhist[t].forgotten \in Nat /\ lhist'[t].forgotten \in Nat /\ lhist[t].admitted \in Nat
                       /\ linfo[w][t].qpm_req_count \in Nat /\ linfo'[w][t].qpm_req_count \in Nat
                       /\ linfo'[w][t].qpm_req_count <= linfo[w][t].qpm_req_count
                       /\ lhist'[t].forgotten >= lhist[t].forgotten
  <2> SUFFICES ASSUME NEW t \in Token
               PROVE  /\ lhist[t].forgotten \in Nat /\ lhist'[t].forgotten \in Nat /\ lhist[t].admitted \in Nat
                      /\ linfo[w][t].qpm_req_count \in Nat /\ linfo'[w][t].qpm_req_count \in Nat
                      /\ linfo'[w][t].qpm_req_count <= linfo[w][t].qpm_req_count
                      /\ lhist'[t].forgotten >= lhist[t].forgotten
    OBVIOUS
  <2>1. lhist[t].forgotten \in Nat /\ lhist'[t].forgotten \in Nat /\ lhist[t].admitted \in Nat
    BY <1>3, <1>6
  <2>2. linfo[w][t] \in LunaInfos /\ linfo'[w][t] \in LunaInfos
    BY <1>3, <1>6
  <2>3. linfo[w][t].qpm_req_count \in Nat /\ linfo'[w][t].qpm_req_count \in Nat
    BY <2>2 DEF LunaInfos
  <2>4. linfo'[w][t].qpm_req_count <= linfo[w][t].qpm_req_count
    BY <2>3, <1>6
  <2>5. linfo'[w][t].qpm_req_count + lhist'[t].forgotten = linfo[w][t].qpm_req_count + lhist[t].forgotten
    BY <1>6
  <2> QED BY <2>1, <2>3, <2>4, <2>5
<1>10. \A t \in Token : Fine(t)' => Fine(t)
  BY <1>6, <1>9 DEF Fine
<1>11. OnlyStep(w)
  <2>1. InFlight' = InFlight
    BY <1>2, SameInFlight
  <2> QED BY <2>1, <1>2, <1>6, <1>7, <1>9, <1>10 DEF OnlyStep
<1> HIDE DEF work, work2, Hist
<1>12. \A s \in Token : ~Pend(w, s) /\ ~Pend(w, s)'
  BY <1>2, <1>3, <1>7 DEF Pend, Commands, work, work2
<1>13. TrigShapeOf(w)'
  BY <1>7, <1>12 DEF TrigShapeOf, work2, Commands
<1>14. NewComersOf(w)'
  <2> SUFFICES ASSUME NEW s \in Token
               PROVE  /\ ~linfo'[w][s].known => linfo'[w][s].qpm_req_count = 0 /\ linfo'[w][s].qpm_req_remain = 0
                      /\ linfo'[w][s].qpm_req_count <= lhist'[s].admitted
    BY <1>7 DEF NewComersOf, work2
  <2>1. linfo[w][s].qpm_req_count <= lhist[s].admitted
    BY <1>1 DEF NewComersOf
  <2>2. linfo'[w][s].qpm_req_count <= lhist'[s].admitted
    BY <2>1, <1>6, <1>9
  <2>3. ~linfo'[w][s].known => linfo'[w][s].qpm_req_count = 0 /\ linfo'[w][s].qpm_req_remain = 0
    <3>1. CASE linfo'[w][s] = linfo[w][s]
      BY <3>1, <1>1 DEF NewComersOf
    <3> QED BY <3>1, <1>6
  <2> QED BY <2>2, <2>3
<1>15. NoOldOf(w)'
  BY <1>7 DEF NoOldOf, work2
<1>16. CountsOf(w)'
  <2> SUFFICES ASSUME NEW s \in Token, Fine(s)'
               PROVE  /\ linfo'[w][s].qpm_req_count <= MaxPerSecond
                      /\ work2.fresh[s] => linfo'[w][s].qpm_req_count <= work.seen
    BY <1>7 DEF CountsOf, work2
  <2>1. Fine(s)
    BY <1>10
  <2>2. /\ linfo[w][s].qpm_req_count <= MaxPerSecond
        /\ work.fresh[s] => linfo[w][s].qpm_req_count <= work.seen
    BY <2>1, <1>1, <1>12 DEF CountsOf, work
  <2>3. work.seen \in Nat
    BY <1>3 DEF LunaWorkers
  <2> QED BY <2>2, <2>3, <1>3, <1>7, <1>9
<1>17. ASSUME NEW s \in Token
       PROVE  (Quota - lredis'[s].qpm) + linfo'[w][s].qpm_req_count + lhist'[s].forgotten - lhist'[s].admitted
                >= (Quota - lredis[s].qpm) + linfo[w][s].qpm_req_count + lhist[s].forgotten - lhist[s].admitted
  <2> DEFINE q == lredis[s].qpm
             f == lhist[s].forgotten
             f2 == lhist'[s].forgotten
             a == lhist[s].admitted
             c == linfo[w][s].qpm_req_count
             c2 == linfo'[w][s].qpm_req_count
  <2>1. q \in Int
    <3>1. lredis[s].qpm \in Floor .. Quota
      BY <1>1 DEF LunaTypes
    <3> QED BY <3>1, LunaAssumption DEF Floor
  <2>2. f \in Int /\ f2 \in Int /\ a \in Int /\ c \in Int /\ c2 \in Int /\ c2 + f2 = c + f
    BY <1>6, <1>9
  <2>3. lredis'[s].qpm = q /\ lhist'[s].admitted = a
    BY <1>2, <1>6
  <2> HIDE DEF q, f, f2, a, c, c2
  <2>4. (Quota - q) + c2 + f2 - a >= (Quota - q) + c + f - a
    BY <2>1, <2>2, LunaAssumption
  <2> QED BY <2>3, <2>4 DEF q, f, f2, a, c, c2
<1>18. ASSUME NEW s \in Token
       PROVE  lhist'[s].admitted + Room(w, s)' <= lhist[s].admitted + Room(w, s)
  <2>1. ~Waiting(w, s) /\ ~Waiting(w, s)'
    BY <1>2, <1>3, <1>7 DEF Waiting, work, work2
  <2>2. Room(w, s) \in 0 .. MaxPerSecond
    BY <1>1, RoomType
  <2>3. Room(w, s)' = 0 \/ Room(w, s)' = Room(w, s)
    <3>1. Room(w, s)' = IF work2.fresh[s] /\ linfo'[w][s].qpm_req_remain > 0 THEN MaxPerSecond - work2.seen ELSE 0
      BY <2>1, <1>12 DEF Room, work2
    <3>2. Room(w, s) = IF work.fresh[s] /\ linfo[w][s].qpm_req_remain > 0 THEN MaxPerSecond - work.seen ELSE 0
      BY <2>1, <1>12 DEF Room, work
    <3>3. CASE linfo'[w][s] = linfo[w][s]
      BY <3>1, <3>2, <3>3, <1>7
    <3>4. CASE linfo'[w][s].qpm_req_remain = 0
      BY <3>1, <3>4
    <3> QED BY <3>3, <3>4, <1>6
  <2> QED BY <2>2, <2>3, <1>3, <1>6, <1>9
<1> QED BY <1>8, <1>11, <1>13, <1>14, <1>15, <1>16, <1>17, <1>18, StepKept

(* Another worker takes the place of one that dies. *)
LEMMA WorkerRestartKeeps ==
    ASSUME LunaIInv, NEW w \in Worker, WorkerRestart(w)
    PROVE  LunaIInv'
<1> DEFINE Hist == [admitted : 0 .. MaxRequests, blind : BOOLEAN, forgotten : Nat]
           R == StringReplies \cup IntegerReplies
           counted(t) == linfo[w][t].qpm_req_count
<1>1. LunaTypes /\ TrigShapeOf(w) /\ NewComersOf(w) /\ NoOldOf(w) /\ CountsOf(w)
  BY DEF LunaIInv, TrigShape, NewComers, NoOld, Counts
<1>2. /\ lwork' = [lwork EXCEPT ![w] = NewWorker]
      /\ lhist' = [t \in Token |-> [lhist[t] EXCEPT !.forgotten = @ + counted(t)]]
      /\ linfo' = [linfo EXCEPT ![w] = [t \in Token |-> NewInfo]]
      /\ lreplies' = [i \in DOMAIN lreplies |-> [lreplies[i] EXCEPT !.late = @ \/ lreplies[i].of = w]]
      /\ lcommands' = [i \in DOMAIN lcommands |-> [lcommands[i] EXCEPT !.late = @ \/ lcommands[i].of = w]]
      /\ lredis' = lredis /\ lup' = lup
  BY DEF WorkerRestart
<1>3. /\ lhist \in [Token -> Hist] /\ linfo \in [Worker -> [Token -> LunaInfos]] /\ lwork \in [Worker -> LunaWorkers]
      /\ lreplies \in Seq(R) /\ lcommands \in Seq(LunaCommands) /\ MaxPerSecond \in Nat /\ MaxRequests \in Nat
  BY <1>1, LunaAssumption DEF LunaTypes
<1>4. NewInfo \in LunaInfos /\ NewInfo.known /\ NewInfo.qpm_req_count = 0 /\ NewInfo.qpm_req_remain = 0
  BY DEF NewInfo, LunaInfos
<1>5. /\ NewWorker \in LunaWorkers /\ NewWorker.ctx = "shared" /\ NewWorker.step = "idle" /\ NewWorker.todo = {}
      /\ NewWorker.sent = FALSE /\ NewWorker.seen = 0 /\ \A t \in Token : NewWorker.fresh[t] = FALSE
  <2>1. 0 \in 0 .. MaxPerSecond /\ [t \in Token |-> FALSE] \in [Token -> BOOLEAN]
    BY <1>3
  <2> QED BY <2>1 DEF NewWorker, LunaWorkers, Steps
<1>6. /\ lwork' \in [Worker -> LunaWorkers] /\ lwork'[w] = NewWorker /\ \A v \in Worker \ {w} : lwork'[v] = lwork[v]
      /\ linfo' \in [Worker -> [Token -> LunaInfos]] /\ \A v \in Worker \ {w} : linfo'[v] = linfo[v]
      /\ \A t \in Token : linfo'[w][t] = NewInfo
  BY <1>2, <1>3, <1>4, <1>5
<1>7. \A t \in Token : counted(t) \in Nat
  BY <1>3 DEF LunaInfos
<1>8. ASSUME NEW t \in Token
      PROVE  /\ lhist'[t] \in Hist
             /\ lhist'[t].admitted = lhist[t].admitted /\ lhist'[t].blind = lhist[t].blind
             /\ lhist'[t].forgotten = lhist[t].forgotten + counted(t)
             /\ lhist[t].admitted \in Nat /\ lhist[t].forgotten \in Nat
  <2> DEFINE c == counted(t)
             h == lhist[t]
  <2>1. lhist'[t] = [h EXCEPT !.forgotten = @ + c] /\ c \in Nat /\ h \in Hist
    BY <1>2, <1>3, <1>7
  <2> HIDE DEF c, h
  <2>2. /\ lhist'[t] \in Hist /\ lhist'[t].admitted = h.admitted /\ lhist'[t].blind = h.blind
        /\ lhist'[t].forgotten = h.forgotten + c
    BY <2>1
  <2>3. h.admitted \in Nat /\ h.forgotten \in Nat
    BY <2>1, <1>3
  <2> QED BY <2>2, <2>3 DEF c, h
<1>9. lhist' \in [Token -> Hist]
  <2> HIDE DEF Hist
  <2> QED BY <1>2, <1>8
<1>10. ASSUME NEW i \in DOMAIN lreplies
       PROVE  /\ lreplies'[i] \in R /\ lreplies'[i].of = lreplies[i].of
              /\ lreplies[i].of # w => lreplies'[i] = lreplies[i]
              /\ lreplies[i].of = w => lreplies'[i].late
  <2> DEFINE r == lreplies[i]
             late == r.late \/ r.of = w
             r2 == lreplies'[i]
  <2>1. r2 = [r EXCEPT !.late = late]
    BY <1>2
  <2>2. r \in R
    <3> HIDE DEF R
    <3> QED BY <1>3
  <2>3. late \in BOOLEAN /\ (r.of = w => late) /\ r.late \in BOOLEAN
    <3> HIDE DEF r
    <3> QED BY <2>2 DEF StringReplies, IntegerReplies
  <2>4. r.of # w => late = r.late
    <3> HIDE DEF r
    <3> QED BY <2>3
  <2> HIDE DEF r, late, r2
  <2>5. r2 \in R /\ r2.of = r.of /\ (r.of = w => r2.late) /\ (r.of # w => r2 = r)
    <3>1. CASE r \in StringReplies
      BY <3>1, <2>1, <2>3, <2>4 DEF StringReplies
    <3>2. CASE r \in IntegerReplies
      BY <3>2, <2>1, <2>3, <2>4 DEF IntegerReplies
    <3> QED BY <3>1, <3>2, <2>2
  <2> QED BY <2>5 DEF r, r2
<1>11. DOMAIN lreplies' = DOMAIN lreplies /\ lreplies' \in Seq(R)
  <2> HIDE DEF R
  <2>1. DOMAIN lreplies = 1 .. Len(lreplies) /\ Len(lreplies) \in Nat
    BY <1>3
  <2>2. DOMAIN lreplies' = DOMAIN lreplies
    BY <1>2
  <2>3. lreplies' = [i \in 1 .. Len(lreplies) |-> lreplies'[i]]
    BY <1>2, <2>1
  <2>4. \A i \in 1 .. Len(lreplies) : lreplies'[i] \in R
    BY <2>1, <1>10
  <2> QED BY <2>1, <2>2, <2>3, <2>4
<1>a. ASSUME NEW i \in DOMAIN lcommands
      PROVE  /\ lcommands'[i] \in LunaCommands /\ lcommands'[i].of = lcommands[i].of
             /\ lcommands[i].of # w => lcommands'[i] = lcommands[i]
             /\ lcommands[i].of = w => lcommands'[i].late
  <2> DEFINE c == lcommands[i]
             late == c.late \/ c.of = w
             c2 == lcommands'[i]
  <2>1. c2 = [c EXCEPT !.late = late]
    BY <1>2
  <2>2. c \in LunaCommands
    BY <1>3
  <2>3. late \in BOOLEAN /\ (c.of = w => late) /\ (c.of # w => late = c.late)
    <3> HIDE DEF c
    <3> QED BY <2>2 DEF LunaCommands
  <2> HIDE DEF c, late, c2
  <2>4. c2 \in LunaCommands /\ c2.of = c.of /\ (c.of = w => c2.late) /\ (c.of # w => c2 = c)
    BY <2>1, <2>2, <2>3 DEF LunaCommands
  <2> QED BY <2>4 DEF c, c2
<1>b. DOMAIN lcommands' = DOMAIN lcommands /\ lcommands' \in Seq(LunaCommands)
  <2>1. DOMAIN lcommands = 1 .. Len(lcommands) /\ Len(lcommands) \in Nat
    BY <1>3
  <2>2. DOMAIN lcommands' = DOMAIN lcommands
    BY <1>2
  <2>3. lcommands' = [i \in 1 .. Len(lcommands) |-> lcommands'[i]]
    BY <1>2, <2>1
  <2>4. \A i \in 1 .. Len(lcommands) : lcommands'[i] \in LunaCommands
    BY <2>1, <1>a
  <2> QED BY <2>1, <2>2, <2>3, <2>4
<1>m. \A m \in InFlight' : (m.of = w => m.late) /\ (m.of # w => m \in InFlight)
  BY <1>10, <1>11, <1>a, <1>b DEF InFlight, Mark
<1> HIDE DEF counted
<1>12. LunaTypes'
  BY <1>1, <1>2, <1>6, <1>9, <1>11, <1>b DEF LunaTypes
<1>13. \A t \in Token : Fine(t)' => Fine(t)
  <2> SUFFICES ASSUME NEW t \in Token, Fine(t)' PROVE Fine(t)
    OBVIOUS
  <2>1. lhist[t].forgotten + counted(t) = 0 /\ ~lhist[t].blind
    BY <1>8 DEF Fine
  <2>2. lhist[t].forgotten \in Nat /\ counted(t) \in Nat
    BY <1>7, <1>8
  <2> QED BY <2>1, <2>2 DEF Fine
<1>14. OnlyStep(w)
  <2>1. \A i \in DOMAIN lreplies' : lreplies'[i].of # w => \E j \in DOMAIN lreplies : lreplies[j] = lreplies'[i]
    BY <1>10, <1>11
  <2>2. \A t \in Token : lhist'[t].admitted >= lhist[t].admitted
    BY <1>8
  <2> QED BY <2>1, <2>2, <1>6, <1>13, <1>m DEF OnlyStep
<1> HIDE DEF Hist, R
<1>15. \A s \in Token : ~Pend(w, s)'
  BY <1>5, <1>6 DEF Pend, Commands
<1>16. TrigShapeOf(w)'
  BY <1>5, <1>6, <1>15 DEF TrigShapeOf, Commands
<1>17. NewComersOf(w)'
  BY <1>4, <1>5, <1>6, <1>8 DEF NewComersOf
<1>18. NoOldOf(w)'
  BY <1>m DEF NoOldOf
<1>19. CountsOf(w)'
  BY <1>3, <1>4, <1>5, <1>6 DEF CountsOf
<1>20. ASSUME NEW s \in Token
       PROVE  (Quota - lredis'[s].qpm) + linfo'[w][s].qpm_req_count + lhist'[s].forgotten - lhist'[s].admitted
                >= (Quota - lredis[s].qpm) + linfo[w][s].qpm_req_count + lhist[s].forgotten - lhist[s].admitted
  <2> DEFINE q == lredis[s].qpm
             f == lhist[s].forgotten
             a == lhist[s].admitted
             c == counted(s)
  <2>1. q \in Int
    <3>1. lredis[s].qpm \in Floor .. Quota
      BY <1>1 DEF LunaTypes
    <3> QED BY <3>1, LunaAssumption DEF Floor
  <2>2. f \in Int /\ a \in Int /\ c \in Int
    BY <1>7, <1>8
  <2>3. lredis'[s].qpm = q /\ lhist'[s].admitted = a /\ lhist'[s].forgotten = f + c
          /\ linfo'[w][s].qpm_req_count = 0 /\ linfo[w][s].qpm_req_count = c
    BY <1>2, <1>4, <1>6, <1>8 DEF counted
  <2> HIDE DEF q, f, a, c
  <2>4. (Quota - q) + 0 + (f + c) - a >= (Quota - q) + c + f - a
    BY <2>1, <2>2, LunaAssumption
  <2> QED BY <2>3, <2>4 DEF q, f, a
<1>21. ASSUME NEW s \in Token
       PROVE  lhist'[s].admitted + Room(w, s)' <= lhist[s].admitted + Room(w, s)
  <2>1. ~Waiting(w, s)'
    BY <1>5, <1>6 DEF Waiting
  <2>2. Room(w, s)' = 0
    BY <2>1, <1>5, <1>6 DEF Room
  <2>3. Room(w, s) \in 0 .. MaxPerSecond
    BY <1>1, RoomType
  <2> QED BY <2>2, <2>3, <1>3, <1>8
<1> QED BY <1>12, <1>14, <1>16, <1>17, <1>18, <1>19, <1>20, <1>21, StepKept

(* At the start nothing is counted and nobody may admit anything. *)
LEMMA LunaStarts ==
    ASSUME LunaInit
    PROVE  LunaIInv
<1>1. /\ \A w \in Worker : lwork[w] \in {NewWorker, [NewWorker EXCEPT !.step = "absent"]}
      /\ lwork = [w \in Worker |-> lwork[w]]
      /\ linfo = [w \in Worker |-> [t \in Token |-> NewInfo]]
      /\ lredis \in [Token -> [qpm : {Quota}, total : {Quota}, limit : Limits]]
      /\ lup = TRUE /\ lcommands = <<>> /\ lreplies = <<>>
      /\ lhist = [t \in Token |-> [admitted |-> 0, blind |-> FALSE, forgotten |-> 0]]
  BY DEF LunaInit
<1>2. Quota \in Nat /\ MaxPerSecond \in Nat \ {0} /\ MaxRequests \in Nat /\ Limits \subseteq BOOLEAN
        /\ IsFiniteSet(Worker) /\ Worker # {}
  BY LunaAssumption
<1>3. NewInfo \in LunaInfos /\ NewInfo.known /\ NewInfo.qpm_req_count = 0 /\ NewInfo.qpm_req_remain = 0
  BY DEF NewInfo, LunaInfos
<1>4. /\ NewWorker \in LunaWorkers /\ NewWorker.ctx = "shared" /\ NewWorker.step = "idle" /\ NewWorker.todo = {}
      /\ NewWorker.sent = FALSE /\ NewWorker.seen = 0 /\ \A t \in Token : NewWorker.fresh[t] = FALSE
  <2>1. 0 \in 0 .. MaxPerSecond /\ [t \in Token |-> FALSE] \in [Token -> BOOLEAN]
    BY <1>2
  <2> QED BY <2>1 DEF NewWorker, LunaWorkers, Steps
<1> HIDE DEF NewWorker
<1>5. \A w \in Worker :
        /\ lwork[w] \in LunaWorkers /\ lwork[w].ctx = "shared" /\ lwork[w].step \in {"idle", "absent"}
        /\ lwork[w].todo = {} /\ ~lwork[w].sent /\ lwork[w].seen = 0 /\ \A t \in Token : ~lwork[w].fresh[t]
  <2> SUFFICES ASSUME NEW w \in Worker
               PROVE /\ lwork[w] \in LunaWorkers /\ lwork[w].ctx = "shared" /\ lwork[w].step \in {"idle", "absent"}
                     /\ lwork[w].todo = {} /\ ~lwork[w].sent /\ lwork[w].seen = 0 /\ \A t \in Token : ~lwork[w].fresh[t]
    OBVIOUS
  <2>1. CASE lwork[w] = NewWorker
    BY <2>1, <1>4
  <2>2. CASE lwork[w] = [NewWorker EXCEPT !.step = "absent"]
    BY <2>2, <1>4 DEF LunaWorkers, Steps
  <2> QED BY <2>1, <2>2, <1>1
<1>6. \A w \in Worker : \A t \in Token : linfo[w][t] = NewInfo
  BY <1>1
<1>7. \A t \in Token : lhist[t].admitted = 0 /\ ~lhist[t].blind /\ lhist[t].forgotten = 0 /\ lredis[t].qpm = Quota
  BY <1>1
<1>8. LunaTypes
  <2>1. lwork \in [Worker -> LunaWorkers]
    BY <1>1, <1>5
  <2>2. linfo \in [Worker -> [Token -> LunaInfos]]
    BY <1>1, <1>3
  <2>3. lredis \in [Token -> [qpm : Floor .. Quota, total : Int, limit : BOOLEAN]]
    <3>1. Quota \in Floor .. Quota /\ Quota \in Int
      BY <1>2 DEF Floor
    <3>2. ASSUME NEW t \in Token PROVE lredis[t] \in [qpm : Floor .. Quota, total : Int, limit : BOOLEAN]
      <4>1. lredis[t] \in [qpm : {Quota}, total : {Quota}, limit : Limits]
        BY <1>1
      <4> QED BY <4>1, <3>1, <1>2
    <3>3. lredis = [t \in Token |-> lredis[t]]
      BY <1>1
    <3> QED BY <3>2, <3>3
  <2>4. lup \in BOOLEAN /\ lcommands \in Seq(LunaCommands) /\ lreplies \in Seq(StringReplies \cup IntegerReplies)
    BY <1>1
  <2>5. lhist \in [Token -> [admitted : 0 .. MaxRequests, blind : BOOLEAN, forgotten : Nat]]
    BY <1>1, <1>2
  <2> QED BY <2>1, <2>2, <2>3, <2>4, <2>5 DEF LunaTypes
<1>9. \A w \in Worker : \A t \in Token : ~Pend(w, t) /\ ~Waiting(w, t) /\ Room(w, t) = 0
  <2>1. \A w \in Worker : \A t \in Token : ~Pend(w, t)
    BY <1>5 DEF Pend, Commands
  <2>2. \A w \in Worker : \A t \in Token : ~Waiting(w, t)
    BY <1>5 DEF Waiting
  <2> QED BY <2>1, <2>2, <1>5 DEF Room
<1>10. TrigShape
  BY <1>5, <1>9 DEF TrigShape, TrigShapeOf, Commands
<1>11. NewComers
  BY <1>3, <1>6, <1>7 DEF NewComers, NewComersOf
<1>12. NoOld
  <2>1. InFlight = {}
    BY <1>1 DEF InFlight
  <2> QED BY <2>1 DEF NoOld, NoOldOf
<1>13. Counts
  BY <1>2, <1>3, <1>5, <1>6 DEF Counts, CountsOf
<1>14. ASSUME NEW t \in Token
       PROVE  Pending(t) \in Nat /\ SumRoom(t) <= 0 /\ SumRoom(t) \in Int
  <2> DEFINE c == [w \in Worker |-> linfo[w][t].qpm_req_count]
             r == [w \in Worker |-> Room(w, t)]
  <2>1. c \in [Worker -> Nat] /\ c \in [Worker -> Int] /\ r \in [Worker -> Int] /\ \A w \in Worker : c[w] + r[w] <= 0
    BY <1>3, <1>6, <1>9
  <2>2. Pending(t) = SumFunction(c) /\ SumRoom(t) = SumFunction(r)
    BY DEF Pending, SumRoom
  <2> HIDE DEF c, r
  <2>3. SumFunction(c) \in Nat /\ SumFunction(r) \in Int
    BY <2>1, <1>2, SumNat, SumInt
  <2>4. SumFunction(c) + SumFunction(r) <= Cardinality(Worker) * 0
    BY <2>1, <1>2, SumBound
  <2>5. Cardinality(Worker) * 0 = 0
    <3>1. Cardinality(Worker) \in Nat
      BY <1>2, FS_CardinalityType
    <3> QED BY <3>1
  <2> QED BY <2>2, <2>3, <2>4, <2>5
<1>15. NeverUndercharged
  BY <1>2, <1>7, <1>14 DEF NeverUndercharged
<1>16. Over
  <2>1. Cardinality(Worker) \in Nat \ {0}
    BY <1>2, FS_CardinalityType, FS_EmptySet
  <2> DEFINE nb == Cardinality(Worker) * MaxPerSecond
  <2>2. nb \in Nat \ {0}
    <3> DEFINE n == Cardinality(Worker)
    <3> HIDE DEF n
    <3>1. n \in Nat \ {0} => n * MaxPerSecond \in Nat \ {0}
      BY <1>2
    <3> QED BY <2>1, <3>1 DEF n
  <2> HIDE DEF nb
  <2>3. ASSUME NEW t \in Token PROVE lhist[t].admitted + SumRoom(t) <= Quota - 1 + nb
    BY <2>2, <1>2, <1>7, <1>14
  <2> QED BY <2>3 DEF Over, Limit, nb
<1> QED BY <1>8, <1>10, <1>11, <1>12, <1>13, <1>15, <1>16 DEF LunaIInv

(* Every step keeps the invariant. *)
LEMMA LunaStep ==
    ASSUME LunaIInv, [LunaNext]_lunaVars
    PROVE  LunaIInv'
<1>1. ASSUME NEW w \in Worker, NEW t \in Token, TagQuery(w, t) PROVE LunaIInv'
  BY <1>1, TagQueryKeeps
<1>2. ASSUME NEW w \in Worker, ProcTrig(w) PROVE LunaIInv'
  BY <1>2, ProcTrigKeeps
<1>3. ASSUME NEW w \in Worker, Command(w) PROVE LunaIInv'
  BY <1>3, CommandKeeps
<1>4. ASSUME NEW w \in Worker, SendShared(w) PROVE LunaIInv'
  BY <1>4, SendSharedKeeps
<1>5. ASSUME NEW w \in Worker, ReceiveShared(w) PROVE LunaIInv'
  BY <1>5, ReceiveSharedKeeps
<1>6. ASSUME NEW w \in Worker, FailShared(w) PROVE LunaIInv'
  BY <1>6, FailSharedKeeps
<1>7. ASSUME NEW w \in Worker, AfterQuotas(w) PROVE LunaIInv'
  BY <1>7, AfterQuotasKeeps
<1>8. ASSUME NEW w \in Worker, WorkerRestart(w) PROVE LunaIInv'
  BY <1>8, WorkerRestartKeeps
<1>9. CASE UNCHANGED lunaVars
  <2>1. /\ lwork' = lwork /\ linfo' = linfo /\ lredis' = lredis /\ lhist' = lhist
        /\ lup' = lup /\ lcommands' = lcommands /\ lreplies' = lreplies
    BY <1>9 DEF lunaVars
  <2>2. LunaTypes' = LunaTypes
    BY <2>1 DEF LunaTypes
  <2>3. TrigShape' = TrigShape
    BY <2>1 DEF TrigShape, TrigShapeOf, Pend
  <2>4. NewComers' = NewComers
    BY <2>1 DEF NewComers, NewComersOf
  <2>5. NoOld' = NoOld
    BY <2>1 DEF NoOld, NoOldOf, InFlight, Mark
  <2>6. Counts' = Counts
    BY <2>1 DEF Counts, CountsOf, Fine, Pend
  <2>7. NeverUndercharged' = NeverUndercharged
    BY <2>1 DEF NeverUndercharged, Pending
  <2>8. Over' = Over
    BY <2>1 DEF Over, Fine, SumRoom, Room, Waiting, OwnReply, Pend
  <2> QED BY <2>2, <2>3, <2>4, <2>5, <2>6, <2>7, <2>8 DEF LunaIInv
<1>10. CASE RedisExecutes
  BY <1>10, RedisExecutesKeeps
<1>11. CASE SharedBreaks
  BY <1>11, SharedBreaksKeeps
<1> QED BY <1>1, <1>2, <1>3, <1>4, <1>5, <1>6, <1>7, <1>8, <1>9, <1>10, <1>11 DEF LunaNext

(* The invariant is enough. *)
LEMMA LunaIInvEnough ==
    ASSUME LunaIInv
    PROVE  LunaInv
<1>1. LunaTypes /\ TrigShape /\ NewComers /\ NeverUndercharged /\ Over
  BY DEF LunaIInv
<1>2. MaxRequests \in Nat /\ MaxPerSecond \in Nat /\ Quota \in Nat /\ IsFiniteSet(Worker)
  BY LunaAssumption
<1>3. ASSUME NEW w \in Worker, NEW t \in Token PROVE linfo[w][t].qpm_req_count \in 0 .. MaxRequests
  <2>1. linfo[w][t] \in LunaInfos
    BY <1>1 DEF LunaTypes
  <2>2. linfo[w][t].qpm_req_count \in Nat
    BY <2>1 DEF LunaInfos
  <2>3. lhist[t].admitted \in 0 .. MaxRequests
    BY <1>1 DEF LunaTypes
  <2>4. linfo[w][t].qpm_req_count <= lhist[t].admitted
    BY <1>1 DEF NewComers, NewComersOf
  <2> QED BY <2>2, <2>3, <2>4, <1>2
<1>4. LunaTypeOK
  <2>1. \A w \in Worker : lwork[w].step \in Steps /\ lwork[w].ctx \in {"own", "shared"}
    BY <1>1 DEF LunaTypes, LunaWorkers
  <2>2. \A w \in Worker : lwork[w].sent => lwork[w].ctx = "shared"
    BY <1>1 DEF TrigShape, TrigShapeOf
  <2>3. \A t \in Token : lredis[t].qpm \in Floor .. Quota
    BY <1>1 DEF LunaTypes
  <2> QED BY <2>1, <2>2, <2>3, <1>3 DEF LunaTypeOK
<1>5. OverspendBounded
  <2> SUFFICES ASSUME NEW t \in Token, ~lhist[t].blind, ~(lhist[t].forgotten > 0)
               PROVE  lhist[t].admitted <= Quota - 1 + Cardinality(Worker) * MaxPerSecond
    BY DEF OverspendBounded
  <2>1. lhist[t].forgotten \in Nat /\ lhist[t].admitted \in Int
    BY <1>1, <1>2 DEF LunaTypes
  <2>2. lhist[t].admitted + SumRoom(t) <= Limit
    BY <1>1, <2>1 DEF Over, Fine
  <2> DEFINE r == [w \in Worker |-> Room(w, t)]
  <2>3. r \in [Worker -> Nat]
    <3>1. \A w \in Worker : Room(w, t) \in 0 .. MaxPerSecond
      BY <1>1, RoomType
    <3> QED BY <3>1, <1>2
  <2>4. SumRoom(t) = SumFunction(r)
    BY DEF SumRoom
  <2> HIDE DEF r
  <2>5. SumRoom(t) \in Nat
    BY <2>3, <2>4, <1>2, SumNat
  <2> DEFINE nb == Cardinality(Worker) * MaxPerSecond
  <2>6. nb \in Int
    <3>1. Cardinality(Worker) \in Int
      BY <1>2, FS_CardinalityType
    <3> QED BY <3>1, <1>2
  <2>7. lhist[t].admitted + SumRoom(t) <= Quota - 1 + nb
    BY <2>2 DEF Limit
  <2> HIDE DEF nb
  <2>8. lhist[t].admitted <= Quota - 1 + nb
    BY <2>1, <2>5, <2>6, <2>7, <1>2
  <2> QED BY <2>8 DEF nb
<1> QED BY <1>1, <1>4, <1>5 DEF LunaInv

(* Whatever commands and replies are lost, late or read by another worker, whichever workers die and
   whichever tokens come and go, Redis has been charged for what was admitted or it is
   known who owes it, and the quota is overspent by no more than a second's requests
   (verify_qpm_total_request, ti_update_token_info): for any number of workers and
   tokens and any quota. *)
THEOREM TheQuotaIsCharged == LunaSpec => []LunaInv
<1>1. LunaInit => LunaIInv
  BY LunaStarts
<1>2. LunaIInv /\ [LunaNext]_lunaVars => LunaIInv'
  BY LunaStep
<1>3. LunaIInv => LunaInv
  BY LunaIInvEnough
<1> QED BY <1>1, <1>2, <1>3, PTL DEF LunaSpec

=============================================================================
