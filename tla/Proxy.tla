------------------------------- MODULE Proxy -------------------------------
(***************************************************************************)
(* The reverse proxy (mod_proxy.c): how a request gets its host under each *)
(* way of balancing, hosts that are disabled when a request fails and      *)
(* tried again after a while, and the connection of a request to its host. *)
(***************************************************************************)
EXTENDS Backend

CONSTANTS
    ProxyHosts,     \* number of hosts of the extension
    Pause,          \* seconds a host stays disabled (5)
    Balances        \* values of proxy.balance considered

ASSUME ProxyAssumption ==
    /\ ProxyHosts \in Nat \ {0} /\ Nil \notin 0 .. ProxyHosts - 1 /\ Pause \in Nat \ {0}
    /\ Balances \subseteq {"fair", "round-robin", "hash"}

VARIABLES
    pctx,           \* handler_ctx of each connection
    phost,          \* data_proxy: usage, and seconds until the host is tried again
    plast,          \* last_used_ndx of the first host
    pbalance,       \* the configured balancing
    pagain          \* connection whose request is handled again at once

proxyVars == <<pctx, phost, plast, pbalance, pagain>>

PHost == 0 .. ProxyHosts - 1

ProxyWorld == [ctx |-> pctx, host |-> phost]

(* started: the header of the response was read (file_started). *)
PNoContext == [state |-> "none", host |-> Nil, fd |-> FALSE, started |-> FALSE]

ProxyInit ==
    /\ pctx = [c \in Con |-> PNoContext]
    /\ phost = [h \in PHost |-> [usage |-> 0, disabled |-> 0]]
    /\ plast = 0
    /\ pbalance \in Balances
    /\ pagain = Nil

----------------------------------------------------------------------------
(* The choice of a host: ndx, or -1 *)

Enabled(host) == {h \in PHost : host[h].disabled = 0}

(* The first of the hosts in S that has the least value. *)
FirstLeast(S, value(_)) ==
    CHOOSE h \in S : \A g \in S : value(h) < value(g) \/ (value(h) = value(g) /\ h <= g)

Fair(host) ==
    IF Enabled(host) = {} THEN -1 ELSE FirstLeast(Enabled(host), LAMBDA h : host[h].usage)

(* The host with the highest sum of checksums, whatever they are; of equals the
   first. *)
ProxyHash(host) ==
    IF Enabled(host) = {} THEN {-1}
    ELSE {FirstLeast(Enabled(host), LAMBDA h : -sum[h]) : sum \in [PHost -> 0 .. 1]}

(* The next host after the last one, from the start again at the end of the list,
   up to the last one itself. *)
RoundRobin(host, last) ==
    LET up == {h \in PHost : h > last /\ host[h].disabled = 0}
        down == {h \in PHost : h <= last /\ host[h].disabled = 0}
    IN  IF up # {} THEN FirstLeast(up, LAMBDA h : h)
        ELSE IF down # {} THEN FirstLeast(down, LAMBDA h : h) ELSE -1

(* The possible choices; a single host is not balanced. *)
Chosen(host, last, balance) ==
    CASE ProxyHosts = 1 -> {IF host[0].disabled > 0 THEN -1 ELSE 0}
      [] ProxyHosts > 1 /\ balance = "hash" -> ProxyHash(host)
      [] ProxyHosts > 1 /\ balance = "fair" -> {Fair(host)}
      [] ProxyHosts > 1 /\ balance = "round-robin" -> {RoundRobin(host, last)}

----------------------------------------------------------------------------
(* A request and its host *)

(* Mutant: the host keeps the request if it has not answered. *)
PClose_KeepsUsage(w, c) ==
    [w EXCEPT !.ctx[c] = PNoContext,
              !.host[w.ctx[c].host].usage = IF w.ctx[c].started THEN @ - 1 ELSE @]

(* proxy_connection_close() and handler_ctx_free() *)
proxy_connection_close(w, c) ==
    [w EXCEPT !.ctx[c] = PNoContext, !.host[w.ctx[c].host].usage = @ - 1]

(* The host is disabled and the request is to be handled again: it keeps con->mode,
   but it has lost its handler_ctx. *)
Disabled(w, c) ==
    [proxy_connection_close([w EXCEPT !.host[w.ctx[c].host].disabled = Pause], c)
        EXCEPT !.ctx[c].state = "orphan"]

(* PROXY_STATE_PREPARE_WRITE and PROXY_STATE_WRITE: proxy_create_env(), and the
   request is written, all of it or less. *)
PWriteRequest(w, c) ==
    LET v == [w EXCEPT !.ctx[c].state = "WRITE"]
    IN  {Out(v, "ERROR"), Out(v, "WAIT_FOR_EVENT"),
         Out([v EXCEPT !.ctx[c].state = "READ"], "WAIT_FOR_EVENT")}

(* proxy_write_request() with proxy_establish_connection(): without a descriptor,
   with one that is no use, connect() that fails, takes its time or succeeds. *)
proxy_write_request(w, c) ==
    LET open == [w EXCEPT !.ctx[c].fd = TRUE]
    IN  CASE w.ctx[c].state = "INIT" ->
               {Out(w, "ERROR"), Out(open, "ERROR"),
                Out([open EXCEPT !.ctx[c].state = "CONNECT"], "WAIT_FOR_EVENT")}
               \cup PWriteRequest(open, c)
          [] w.ctx[c].state \in {"PREPARE_WRITE", "WRITE"} -> PWriteRequest(w, c)
          [] OTHER -> {Out(w, "WAIT_FOR_EVENT")}

proxy_send_request(w, c) ==
    {IF o.ret = "ERROR" THEN Out(Disabled(o.w, c), "COMEBACK") ELSE o : o \in proxy_write_request(w, c)}

(* proxy_demux_response(): an error, the end, nothing or a part of the header, or
   the beginning of the response or more of it. *)
proxy_demux_response(w, c) ==
    {Out(w, "-1"), Out(w, "1"), Out(w, "0"), Out([w EXCEPT !.ctx[c].started = TRUE], "0")}

proxy_recv_response(w, c) ==
    {IF o.ret = "0" THEN Out(o.w, "GO_ON") ELSE Out(proxy_connection_close(o.w, c), "FINISHED") :
        o \in proxy_demux_response(w, c)}

(* Something can be written: a connection that was being made is made, or has
   failed, which is noticed and forgotten. *)
PWritable(w, c) ==
    IF w.ctx[c].state = "CONNECT"
    THEN {Out(w, "FINISHED")}
         \cup proxy_send_request([w EXCEPT !.ctx[c].state = "PREPARE_WRITE"], c)
    ELSE proxy_send_request(w, c)

PHungUp(w, c) ==
    CASE w.ctx[c].state = "CONNECT" -> {Out(Disabled(w, c), "FINISHED")}
      [] w.ctx[c].state # "CONNECT" /\ w.ctx[c].started ->
            {o \in proxy_recv_response(w, c) : o.ret # "GO_ON"}
      [] OTHER -> {Out(proxy_connection_close(w, c), "FINISHED")}

proxy_handle_fdevent(w, c, revents) ==
    UNION {CASE o.ret # "GO_ON" -> {o}
             [] o.ret = "GO_ON" /\ "OUT" \in revents -> PWritable(o.w, c)
             [] o.ret = "GO_ON" /\ "OUT" \notin revents /\ "HUP" \in revents -> PHungUp(o.w, c)
             [] o.ret = "GO_ON" /\ revents \cap {"OUT", "HUP"} = {} /\ "ERR" \in revents ->
                   {Out(proxy_connection_close(o.w, c), "FINISHED")}
             [] OTHER -> {o} :
              o \in IF "IN" \in revents THEN proxy_recv_response(w, c) ELSE {Out(w, "GO_ON")}}

(* mod_proxy_handle_subrequest(): see Scgi. *)
mod_proxy_handle_subrequest(w, c) ==
    IF w.ctx[c].state = "orphan" THEN {Out(w, "GO_ON")}
    ELSE UNION {IF o.ret # "GO_ON" THEN {o}
                ELSE {Out(o.w, "WAIT_FOR_EVENT")}
                     \cup (IF o.w.ctx[c].state # "READ" THEN proxy_send_request(o.w, c) ELSE {}) :
                  o \in {Out(w, "GO_ON")}
                        \cup IF w.ctx[c].started THEN proxy_recv_response(w, c) ELSE {}}

----------------------------------------------------------------------------
(* Actions *)

ProxyBecome(w) == pctx' = w.ctx /\ phost' = w.host

(* A request for the extension; without a host it is refused. *)
mod_proxy_check_extension(c) ==
    /\ pagain = Nil
    /\ pctx[c].state = "none"
    /\ \E ndx \in Chosen(phost, plast, pbalance) :
        /\ plast' = IF ProxyHosts > 1 /\ pbalance = "round-robin" THEN ndx ELSE plast
        /\ IF ndx = -1 THEN UNCHANGED <<pctx, phost, pagain>>
           ELSE /\ pctx' = [pctx EXCEPT ![c] = [PNoContext EXCEPT !.state = "INIT", !.host = ndx]]
                /\ phost' = [phost EXCEPT ![ndx].usage = @ + 1]
                /\ pagain' = c
    /\ UNCHANGED pbalance

ProxyHandleRequest(c) ==
    /\ pagain \in {Nil, c}
    /\ pctx[c].state # "none"
    /\ \E o \in mod_proxy_handle_subrequest(ProxyWorld, c) :
        /\ ProxyBecome(o.w)
        /\ pagain' = IF o.ret = "COMEBACK" THEN c ELSE Nil
    /\ UNCHANGED <<plast, pbalance>>

(* What the kernel can report of the descriptor of a request. *)
PRevents(x) ==
    {in \cup rest :
        in \in {{}} \cup (IF x.state \in {"WRITE", "READ"} THEN {{"IN"}} ELSE {}),
        rest \in {{}, {"HUP"}, {"ERR"}}
                  \cup (IF x.state \in {"CONNECT", "WRITE"} THEN {{"OUT"}} ELSE {})}

ProxyEvent(c) ==
    /\ pagain = Nil
    /\ pctx[c].fd
    /\ \E revents \in PRevents(pctx[c]) :
        \E o \in proxy_handle_fdevent(ProxyWorld, c, revents) : ProxyBecome(o.w)
    /\ UNCHANGED <<plast, pbalance, pagain>>

(* The response is complete, or the client is gone. *)
mod_proxy_connection_reset(c) ==
    /\ pagain = Nil
    /\ pctx[c].state # "none"
    /\ IF pctx[c].state = "orphan"
       THEN pctx' = [pctx EXCEPT ![c] = PNoContext] /\ UNCHANGED phost
       ELSE ProxyBecome(proxy_connection_close(ProxyWorld, c))
    /\ UNCHANGED <<plast, pbalance, pagain>>

(* Mutant: a host is tried again only when nobody holds it. *)
Trigger_WhenIdle ==
    /\ pagain = Nil
    /\ phost' = [h \in PHost |-> [phost[h] EXCEPT !.disabled =
                    IF @ > 1 \/ (@ = 1 /\ phost[h].usage = 0) THEN @ - 1 ELSE @]]
    /\ UNCHANGED <<pctx, plast, pbalance, pagain>>

(* A second passes; hosts whose pause is over are tried again. *)
mod_proxy_trigger ==
    /\ pagain = Nil
    /\ phost' = [h \in PHost |-> [phost[h] EXCEPT !.disabled = IF @ > 0 THEN @ - 1 ELSE 0]]
    /\ UNCHANGED <<pctx, plast, pbalance, pagain>>

ProxyNext ==
    \/ \E c \in Con : \/ mod_proxy_check_extension(c) \/ ProxyHandleRequest(c)
                      \/ ProxyEvent(c) \/ mod_proxy_connection_reset(c)
    \/ mod_proxy_trigger

(* A request that comes back is handled at once. *)
ProxyAgain == \E c \in Con : pagain = c /\ ProxyHandleRequest(c)

ProxySpec == ProxyInit /\ [][ProxyNext]_proxyVars

----------------------------------------------------------------------------
(* Properties *)

(* Type correctness; a request that has no handler_ctx has no host. *)
PContexts ==
    [state : {"none", "INIT", "CONNECT", "WRITE", "READ", "orphan"}, host : PHost \cup {Nil},
     fd : BOOLEAN, started : BOOLEAN]
ProxyTypeOK ==
    /\ pctx \in [Con -> PContexts]
    /\ \A c \in Con : pctx[c].host = Nil <=> pctx[c].state \in {"none", "orphan"}
    /\ phost \in [PHost -> [usage : Int, disabled : 0 .. Pause]]
    /\ plast \in -1 .. ProxyHosts - 1 /\ pagain \in Con \cup {Nil}
    /\ pbalance \in Balances

(* The usage by which hosts are balanced is the number of requests that hold the
   host, whichever way they end. *)
ProxyUsage ==
    \A h \in PHost : phost[h].usage = Cardinality({c \in Con : pctx[c].host = h})

(* A request is only refused if every host is disabled; in turn, nobody is passed
   over: between the last host and the next one all are disabled. *)
HostChosen ==
    \A c \in Con : mod_proxy_check_extension(c) =>
        IF pctx'[c] = pctx[c] THEN Enabled(phost) = {}
        ELSE /\ phost[pctx'[c].host].disabled = 0
             /\ pbalance = "round-robin" =>
                  \A h \in Enabled(phost) :
                     (pctx'[c].host - plast - 1) % ProxyHosts <= (h - plast - 1) % ProxyHosts
             /\ pbalance = "fair" => \A h \in Enabled(phost) :
                                        phost[pctx'[c].host].usage <= phost[h].usage
ProxyTurn == [][HostChosen]_proxyVars

(* A descriptor is open exactly while a request is connected or being connected. *)
ProxyDescriptor ==
    \A c \in Con : pctx[c].fd <=> pctx[c].state \in {"CONNECT", "WRITE", "READ"}

(* "the trigger re-enables the disabled connections after the timeout is over": a
   host that was disabled is tried again, whatever its last requests do. *)
ProxyReenabled == \A h \in PHost : phost[h].disabled > 0 ~> phost[h].disabled = 0

(* The hosts and the requests that hold them agree, however requests end, fail and come back
   (proxy_connection_close, mod_proxy_check_extension). *)
ProxyInv == ProxyTypeOK /\ ProxyUsage /\ ProxyDescriptor

(* Every host gets its share: chosen in its turn, and tried again after a failure. *)
HostsServe == ProxyTurn /\ ProxyReenabled
=============================================================================
