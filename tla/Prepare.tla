------------------------------ MODULE Prepare ------------------------------
(***************************************************************************)
(* From a parsed request to a decision (http_response_prepare in           *)
(* response.c, the hooks of plugin.c, and HANDLE_REQUEST in connections.c).*)
(* The hooks run in the order of the modules; rewriting (mod_rewrite), a   *)
(* script that redirects locally (mod_cgi) and an error handler start the  *)
(* preparation anew with another URL; mod_extforward takes the client's    *)
(* address from a header for the time of the request; mod_redirect,        *)
(* mod_access and mod_luna decide early.                                   *)
(***************************************************************************)
EXTENDS Conditions

CONSTANTS
    MaxRewrites,    \* 100 in mod_rewrite.c
    MaxLoops,       \* 5 in mod_cgi.c
    Configs         \* configurations considered: [order, trust, luna, handler, tree]

ASSUME PrepareAssumption == MaxRewrites \in Nat /\ MaxLoops \in Nat

VARIABLES
    rq,             \* the request and the connection's address
    ccache,         \* con->cond_cache
    pconf           \* the configuration

prepareVars == <<rq, ccache, pconf>>

(* phase: where the preparation is; hook: the next module of handle_uri_raw; url: what
   $HTTP["url"] sees; first: what it saw when the conditions were reset; mode, status and
   path: con->mode, con->http_status, whether con->physical.path is set; wanted: a module
   took the request; saved: con->error_handler_saved_status; loops:
   con->loops_per_request; rewrites, final: handler_ctx of mod_rewrite, -1 for none;
   remote: con->dst_addr, 0 for the peer's own; old: what mod_extforward saved, or -1;
   fwd: the request has an X-Forwarded-For header with a client's address; lost (history):
   mod_extforward saved an address of its own over the peer's. *)
Idle(remote, lost) ==
    [phase |-> "idle", hook |-> 1, url |-> 0, first |-> 0, mode |-> "direct", status |-> 0, path |-> FALSE,
     wanted |-> FALSE, saved |-> 0, loops |-> 0, rewrites |-> -1, final |-> FALSE,
     remote |-> remote, old |-> -1, fwd |-> FALSE, lost |-> lost]

(* connection_accept(): the address and the URL are not known to the conditions yet. *)
PrepareInit ==
    /\ pconf \in Configs
    /\ rq = Idle(0, FALSE)
    /\ ccache = config_cond_cache_reset

Sees(r) == [c \in Comp |-> IF c = "ip" THEN r.remote ELSE r.url]

Patched(r, c) == PatchConnection(pconf.tree, Sees(r), Comp, c)

(* A request arrives. *)
NewRequest ==
    /\ rq.phase = "idle"
    /\ \E url \in 0 .. 1, fwd \in BOOLEAN :
          rq' = [rq EXCEPT !.phase = "prepare", !.url = url, !.fwd = fwd]
    /\ UNCHANGED <<ccache, pconf>>

----------------------------------------------------------------------------
(* The preparation *)

Decided(r, status) == [r EXCEPT !.phase = "finished", !.status = status]

(* The beginning of http_response_prepare(): a decision that stands, a module that has
   the request already, or all of it anew. *)
http_response_prepare ==
    /\ rq.phase = "prepare"
    /\ \/ /\ rq.mode = "direct" /\ rq.status \notin {0, 200}
          /\ rq' = [rq EXCEPT !.phase = "finished"]
          /\ UNCHANGED ccache
       \/ /\ rq.mode = "direct" /\ rq.status \in {0, 200} /\ rq.path
          /\ rq' = [rq EXCEPT !.phase = "stat"]
          /\ UNCHANGED ccache
       \/ /\ rq.mode # "direct"
          /\ rq' = [rq EXCEPT !.phase = "subrequest"]
          /\ UNCHANGED ccache
       \/ /\ rq.mode = "direct" /\ rq.status \in {0, 200} /\ ~rq.path
          /\ ccache' = Patched(rq, config_cond_cache_reset)
          /\ rq' \in {[rq EXCEPT !.phase = "uri_raw", !.hook = 1, !.first = rq.url],
                      Decided([rq EXCEPT !.first = rq.url], 413)}
    /\ UNCHANGED pconf

(* The client's address is that of the header for now.  What was saved before is freed,
   not restored, and the present address is saved in its place. *)
Forward(r) == [r EXCEPT !.old = r.remote, !.remote = 1, !.lost = @ \/ r.old # -1]

(* is_proxy_trusted(): with "all", whatever the address is; otherwise only the peer. *)
Trusted(r) == pconf.trust = "all" \/ r.remote = 0

(* mod_extforward_uri_handler() *)
ExtForward ==
    /\ rq.phase = "uri_raw" /\ rq.hook <= Len(pconf.order) /\ pconf.order[rq.hook] = "extforward"
    /\ LET c == Patched(rq, ccache)
           next == [rq EXCEPT !.hook = @ + 1]
       IN  IF rq.fwd /\ Trusted(rq)
           THEN /\ rq' = Forward(next)
                /\ ccache' = config_cond_cache_reset_item(pconf.tree, "ip", c)
           ELSE rq' = next /\ ccache' = c
    /\ UNCHANGED pconf

(* mod_extforward_restore() *)
Restored(r) == IF r.old = -1 THEN r ELSE [r EXCEPT !.remote = r.old, !.old = -1]
RestoredCache(r, c) == IF r.old = -1 THEN c ELSE config_cond_cache_reset_item(pconf.tree, "ip", c)

(* process_rewrite_rules(), before the rules: what came back too often is an error. *)
Rewrites(r) ==
    IF r.rewrites = -1 THEN [go |-> "rules", r |-> r]
    ELSE IF r.rewrites > MaxRewrites THEN [go |-> "error", r |-> [r EXCEPT !.rewrites = @ + 1]]
    ELSE [go |-> IF r.final THEN "on" ELSE "rules", r |-> [r EXCEPT !.rewrites = @ + 1]]

(* process_rewrite_rules(): no rule matches or an empty one does; or the URL becomes
   another, and the preparation starts anew.  on: where it goes on otherwise. *)
ProcessRewriteRules(r, on) ==
    LET w == Rewrites(r)
    IN  CASE w.go = "error" -> {[w.r EXCEPT !.phase = "error"]}
          [] w.go = "on" -> {on}
          [] w.go = "rules" ->
               {[on EXCEPT !.rewrites = w.r.rewrites]} \cup
               {[w.r EXCEPT !.phase = "prepare", !.path = FALSE, !.url = url, !.final = once,
                            !.rewrites = IF @ = -1 THEN 0 ELSE @] : url \in 0 .. 1, once \in BOOLEAN}

(* mod_rewrite_uri_handler() *)
Rewrite ==
    /\ rq.phase = "uri_raw" /\ rq.hook <= Len(pconf.order) /\ pconf.order[rq.hook] = "rewrite"
    /\ ccache' = Patched(rq, ccache)
    /\ rq' \in ProcessRewriteRules(rq, [rq EXCEPT !.hook = @ + 1])
    /\ UNCHANGED pconf

UriRawEnd ==
    /\ rq.phase = "uri_raw" /\ rq.hook > Len(pconf.order)
    /\ rq' = [rq EXCEPT !.phase = "uri_clean"]
    /\ UNCHANGED <<ccache, pconf>>

(* Modules of handle_uri_clean: a redirection, a denial, an OPTIONS request; a backend
   that has the URL; mod_luna takes the mode before it looks at the URL. *)
UriClean ==
    /\ rq.phase = "uri_clean"
    /\ ccache' = Patched(rq, ccache)
    /\ \/ \E status \in {200, 301, 403} : rq' = [Decided(rq, status) EXCEPT !.wanted = TRUE]
       \/ rq' = [rq EXCEPT !.phase = "docroot", !.mode = "backend", !.wanted = TRUE]
       \/ pconf.luna /\ rq' = [rq EXCEPT !.phase = "docroot", !.mode = "luna"]
       \/ pconf.luna /\ rq' = [Decided(rq, 200) EXCEPT !.mode = "luna", !.wanted = TRUE]
       \/ ~pconf.luna /\ rq' = [rq EXCEPT !.phase = "docroot"]
    /\ UNCHANGED pconf

(* handle_docroot and handle_physical: the path of the file; then rules for what is not
   a file (mod_rewrite_physical), or a backend for this extension. *)
Physical ==
    /\ rq.phase = "docroot"
    /\ ccache' = Patched(rq, ccache)
    /\ LET on == [rq EXCEPT !.path = TRUE, !.phase = "stat"]
       IN  \/ rq' = on
           \/ rq.mode = "direct" /\ rq' \in ProcessRewriteRules(rq, on)
           \/ rq.mode = "direct" /\ rq' = [on EXCEPT !.mode = "backend", !.wanted = TRUE]
    /\ UNCHANGED pconf

(* The file: there, a directory, forbidden, missing; or the path goes on behind it, and
   the URL is shortened.  A request that a module has is not looked for. *)
Stat ==
    /\ rq.phase = "stat"
    /\ \/ rq.mode # "direct" /\ rq' = [rq EXCEPT !.phase = "subrequest"]
       \/ /\ rq.mode = "direct"
          /\ \/ rq' = [Decided(rq, 301) EXCEPT !.wanted = TRUE]
             \/ \E status \in {403, 404, 500} : rq' = [Decided(rq, status) EXCEPT !.path = FALSE]
             \/ \E url \in 0 .. 1 : rq' = [rq EXCEPT !.phase = "start", !.url = url]
    /\ UNCHANGED <<ccache, pconf>>

(* handle_subrequest_start: a module sends the file or takes the request; if nobody
   wants it the answer is 403. *)
SubrequestStart ==
    /\ rq.phase = "start"
    /\ ccache' = Patched(rq, ccache)
    /\ \/ rq' = [Decided(rq, 200) EXCEPT !.wanted = TRUE]
       \/ rq' = [rq EXCEPT !.phase = "subrequest", !.mode = "backend", !.wanted = TRUE]
       \/ rq' = Decided(rq, 403)
    /\ UNCHANGED pconf

(* A script answers with a local redirect: the URL is another. *)
LocalRedirect(r) ==
    IF r.loops + 1 > MaxLoops
    THEN {[Decided(r, 500) EXCEPT !.mode = "direct", !.loops = @ + 1]}
    ELSE {[r EXCEPT !.phase = "prepare", !.status = 0, !.path = FALSE, !.mode = "direct", !.url = url,
                    !.loops = @ + 1] : url \in 0 .. 1}

(* handle_subrequest of the module that has the request; mod_luna has none.  While the
   backend has not answered, the preparation is entered again and comes back here. *)
Subrequest ==
    /\ rq.phase = "subrequest"
    /\ \/ rq.mode = "luna" /\ rq' = [rq EXCEPT !.phase = "finished"]
       \/ /\ rq.mode = "backend"
          /\ \/ \E status \in {200, 404} : rq' = Decided(rq, status)
             \/ \E status \in {404, 500} : rq' = [Decided(rq, status) EXCEPT !.mode = "direct"]
             \/ rq' \in LocalRedirect(rq)
             \/ rq' = [rq EXCEPT !.phase = "error"]
    /\ UNCHANGED <<ccache, pconf>>

----------------------------------------------------------------------------
(* HANDLE_REQUEST with a decision *)

(* The error handler that is to be called for a status. *)
HandlerFor(status) ==
    IF pconf.handler = "404" /\ status \notin {403, 404} THEN "none" ELSE pconf.handler

(* Mutant: the error handler of an error handler is called. *)
Finished_Again(r) ==
    IF r.mode = "direct" /\ r.status >= 400 /\ HandlerFor(r.status) # "none" THEN "handler" ELSE "respond"

(* Whether the error handler is called: never for what it answers itself. *)
Finished(r) ==
    IF r.mode = "direct" /\ r.saved = 0 /\ r.status >= 400 /\ HandlerFor(r.status) # "none"
    THEN "handler" ELSE "respond"

(* The status that is sent: that of the request, not of the error handler, unless this is
   the old kind of handler and it found something. *)
FinalStatus(r) ==
    IF r.mode = "direct" /\ r.saved > 0 THEN r.saved
    ELSE IF r.mode = "direct" /\ r.saved < 0 /\ r.status \in {403, 404} THEN -r.saved
    ELSE IF r.status = 0 THEN 200 ELSE r.status

(* The error handler: server.error-handler resets the modules first, the older
   server.error-handler-404 does not. *)
ErrorHandler ==
    /\ rq.phase = "finished" /\ Finished(rq) = "handler"
    /\ LET r == IF pconf.handler = "any" THEN [Restored(rq) EXCEPT !.rewrites = -1, !.final = FALSE] ELSE rq
       IN  rq' = [r EXCEPT !.phase = "prepare", !.url = 1, !.path = FALSE, !.status = 0, !.wanted = FALSE,
                           !.saved = IF pconf.handler = "any" THEN rq.status ELSE -rq.status]
    /\ ccache' = IF pconf.handler = "any" THEN RestoredCache(rq, ccache) ELSE ccache
    /\ UNCHANGED pconf

Respond ==
    /\ rq.phase = "finished" /\ Finished(rq) = "respond"
    /\ rq' = [rq EXCEPT !.phase = "response", !.status = FinalStatus(rq)]
    /\ UNCHANGED <<ccache, pconf>>

(* handle_request_done and connection_reset() of the modules. *)
RequestDone(r) == Restored(r)

(* The request has been answered or given up; the connection waits for the next. *)
ResponseEnd ==
    /\ rq.phase \in {"response", "error"}
    /\ rq' = [Idle(RequestDone(rq).remote, rq.lost) EXCEPT !.first = rq.first, !.url = rq.first]
    /\ ccache' = RestoredCache(rq, ccache)
    /\ UNCHANGED pconf

PrepareStep ==
    \/ http_response_prepare \/ ExtForward \/ Rewrite \/ UriRawEnd \/ UriClean \/ Physical \/ Stat
    \/ SubrequestStart \/ Subrequest \/ ErrorHandler \/ Respond \/ ResponseEnd

PrepareNext == NewRequest \/ PrepareStep

PrepareSpec == PrepareInit /\ [][PrepareNext]_prepareVars

----------------------------------------------------------------------------
(* Properties *)

(* What the cache says of a block is what the block comes to: for the client's address as
   it is now, and for the URL with which this preparation began, however it was shortened
   since, whatever was reset and evaluated again in between
   (config_cond_cache_reset_item). *)
ConditionsConsistent ==
    LET truth == Truth(pconf.tree, [c \in Comp |-> IF c = "ip" THEN rq.remote ELSE rq.first], Comp)
    IN  \A n \in Context : ccache[n].result # "unset" => ccache[n].result = truth[n]

(* Between requests the connection has its peer's address again: "Things done by modules
   before we change the remoteip or after we reset it will match on the proxy's IP"
   (mod_extforward.c:42).  Only where everybody is trusted, so that the preparation of a
   request can forward it a second time when it starts anew, the address is lost, for as
   long as the connection lives. *)
AddressRestored ==
    /\ rq.phase = "idle" /\ ~rq.lost => rq.remote = 0
    /\ rq.lost => pconf.trust = "all"

(* An error handler is called at most once for a request, and what it answers does not
   hide that the request failed, unless it is of the old kind or a backend answered. *)
ErrorStands ==
    [][rq.phase = "finished" /\ rq.saved # 0
         => /\ rq'.phase = "response"
            /\ rq.saved > 0 /\ rq.mode = "direct" => rq'.status = rq.saved]_prepareVars

(* How often a preparation may still start anew: for an error handler once, for scripts
   and for rules as often as their counters allow, and those of the rules are gone with
   the modules' state when server.error-handler is called. *)
RoundsLeft(r) ==
    (IF r.saved = 0 THEN MaxLoops + MaxRewrites + 5 ELSE 0) + (MaxLoops + 2 - r.loops) + (MaxRewrites + 2 - r.rewrites)

(* However rules, scripts and error handlers send it round (HANDLER_COMEBACK in
   connection_state_machine), a request comes to an end: whatever starts the preparation
   anew uses up some of a bound that nothing gives back. *)
PreparationEnds ==
    [][rq'.phase = "prepare" /\ rq.phase # "idle" => RoundsLeft(rq') >= 0 /\ RoundsLeft(rq') < RoundsLeft(rq)]_prepareVars

(* What the phases decide rests on the address and the results the request has now. *)
PreparationSound == ConditionsConsistent /\ AddressRestored

(* And on the way: an error is not forgotten, and the way ends. *)
PreparationSteps == ErrorStands /\ PreparationEnds
=============================================================================
