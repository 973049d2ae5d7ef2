------------------------------- MODULE Luna -------------------------------
(***************************************************************************)
(* The tag service (mod_luna.c, luna.c, token_info.cpp, redis_util.cpp,    *)
(* hredis.cpp).  Every worker keeps, for each access token, the requests   *)
(* it has counted and what it last heard of the quota; once a second it    *)
(* charges the shared Redis for what it counted, and learns what is left.  *)
(* The connection to Redis is opened before the workers are forked, so     *)
(* that a new worker shares it with the others until its first trigger     *)
(* ends.  Commands and replies can be late, lost, or read by another       *)
(* worker.                                                                 *)
(***************************************************************************)
EXTENDS Integers, Sequences, FiniteSets, FiniteSetsExt, Functions

CONSTANTS
    Worker,         \* worker processes
    Token,          \* access tokens
    Quota,          \* <token>_qpm in Redis at the start; <token>_total is the same
    MaxPerSecond,   \* bound on the requests of a worker between two triggers
    MaxRequests,    \* bound on the requests that are admitted for a token
    Limits,         \* values of <token> in Redis considered: whether there is a total
    MaxInFlight,    \* bound on the commands and replies on the shared connection
    MaxRestarts     \* bound on the workers that die

ASSUME LunaAssumption ==
    /\ Worker # {} /\ IsFiniteSet(Worker) /\ IsFiniteSet(Token)
    /\ Quota \in Nat /\ MaxPerSecond \in Nat \ {0} /\ MaxRequests \in Nat
    /\ MaxInFlight \in Nat /\ MaxRestarts \in Nat
    /\ Limits \subseteq BOOLEAN

VARIABLES
    lwork,          \* worker: its connection to Redis and where its trigger is
    linfo,          \* worker -> token -> token_info
    lredis,         \* token -> the keys of Redis
    lup,            \* whether the shared connection is up
    lcommands,      \* commands on it that Redis has not executed
    lreplies,       \* replies on it that no worker has read
    lhist           \* token -> history: requests admitted, and those nobody can account for

lunaVars == <<lwork, linfo, lredis, lup, lcommands, lreplies, lhist>>
lunaConn == <<lup, lcommands, lreplies>>

Steps == {"absent", "idle", "limit", "total", "qpm", "after"}

(* Redis counts no further down than this; no property depends on it. *)
Floor == Quota - MaxRequests

(* struct info of a new token. *)
NewInfo == [known |-> TRUE, total_req_count |-> 0, qpm_req_count |-> 0, total_req_remain |-> 0,
            qpm_req_remain |-> 0, use_total_limit |-> FALSE]
NoInfo == [NewInfo EXCEPT !.known = FALSE]

(* ctx: the connection, "shared" if it was made before the fork, "own" if it is the worker's
   own, or is to be made by the next command because there is none; fresh: the last update
   succeeded, with the worker's own reply. *)
NewWorker == [ctx |-> "shared", step |-> "idle", token |-> "none", todo |-> {},
              sent |-> FALSE, seen |-> 0, fresh |-> [t \in Token |-> FALSE]]

(* luna_init() in the parent: the tokens of the first meta_sync(), the connection.  Then
   server.max-worker processes are forked. *)
LunaInit ==
    /\ \E started \in SUBSET Worker \ {{}} :
          lwork = [w \in Worker |-> IF w \in started THEN NewWorker ELSE [NewWorker EXCEPT !.step = "absent"]]
    /\ linfo = [w \in Worker |-> [t \in Token |-> NewInfo]]
    /\ lredis \in [Token -> [qpm : {Quota}, total : {Quota}, limit : Limits]]
    /\ lup = TRUE /\ lcommands = <<>> /\ lreplies = <<>>
    /\ lhist = [t \in Token |-> [admitted |-> 0, blind |-> FALSE, forgotten |-> 0]]

----------------------------------------------------------------------------
(* Requests *)

(* ti_incr_req_count() *)
ti_incr_req_count(i) == [i EXCEPT !.qpm_req_count = @ + 1,
                                  !.total_req_count = IF i.use_total_limit THEN @ + 1 ELSE @]

(* Mutant: a quota of which nothing is left still admits. *)
Verify_AtZero(w, t) ==
    LET i == linfo[w][t]
    IN  IF i.qpm_req_remain < 0 THEN [status |-> 429, info |-> i]
        ELSE [status |-> IF i.use_total_limit /\ i.total_req_remain <= 0 THEN 204 ELSE 200,
              info |-> ti_incr_req_count(i)]

(* verify_qpm_total_request(): a request beyond the total is counted before it is
   refused. *)
verify_qpm_total_request(w, t) ==
    LET i == linfo[w][t]
    IN  IF i.qpm_req_remain <= 0 THEN [status |-> 429, info |-> i]
        ELSE [status |-> IF i.use_total_limit /\ i.total_req_remain <= 0 THEN 204 ELSE 200,
              info |-> ti_incr_req_count(i)]

(* luna_pre(), for a query of tags by a token that is known; whether uuid and tid are
   there is looked at after it has been counted.  Every other request leaves no trace
   here: not a GET, no token, one that is not known, or a query of the meta data. *)
TagQuery(w, t) ==
    LET r == verify_qpm_total_request(w, t)
        admitted == r.status # 429
    IN  /\ lwork[w].step = "idle" /\ linfo[w][t].known
        /\ lwork[w].seen < MaxPerSecond
        /\ admitted => lhist[t].admitted < MaxRequests
        /\ linfo' = [linfo EXCEPT ![w][t] = r.info]
        /\ lhist' = [lhist EXCEPT ![t].admitted = @ + (IF admitted THEN 1 ELSE 0),
                                  ![t].blind = @ \/ (admitted /\ ~lwork[w].fresh[t])]
        /\ lwork' = [lwork EXCEPT ![w].seen = @ + (IF admitted THEN 1 ELSE 0)]
        /\ UNCHANGED <<lredis, lunaConn>>

----------------------------------------------------------------------------
(* The trigger of a worker: proc_trig() *)

(* All that a worker looks at is whether anything is left. *)
Left(n) == Max({0, n})

(* The command of the step of w, with what it charges.  late: whose command it is has died. *)
LunaCommand(w) ==
    LET t == lwork[w].token
        step == lwork[w].step
    IN  [of |-> w, token |-> t, step |-> step, late |-> FALSE,
         count |-> CASE step = "total" -> linfo[w][t].total_req_count
                     [] step = "qpm" -> linfo[w][t].qpm_req_count
                     [] OTHER -> 0]

(* The reply of Redis to a command: the type and the value; the rest is history. *)
LunaReply(c) ==
    [of |-> c.of, token |-> c.token, step |-> c.step, late |-> c.late,
     type |-> IF c.step = "limit" THEN "string" ELSE "integer",
     value |-> CASE c.step = "limit" -> lredis[c.token].limit
                 [] c.step = "total" -> Left(lredis'[c.token].total)
                 [] c.step = "qpm" -> Left(lredis'[c.token].qpm)]

(* Whether a reply is the one to the command of which w waits for the reply. *)
OwnReply(r, w) ==
    r.of = w /\ ~r.late /\ r.token = lwork[w].token /\ r.step = lwork[w].step

Less(n, d) == Max({Floor, n - d})

(* What a command does in Redis. *)
Executed(c) ==
    lredis' = CASE c.step = "total" -> [lredis EXCEPT ![c.token].total = Less(@, c.count)]
                [] c.step = "qpm" -> [lredis EXCEPT ![c.token].qpm = Less(@, c.count)]
                [] OTHER -> lredis

(* The next token, or what comes after the last one. *)
NextToken(w, work) ==
    IF work.todo = {} THEN [work EXCEPT !.step = "after", !.token = "none"]
    ELSE LET t == CHOOSE t \in work.todo : TRUE
         IN  [work EXCEPT !.step = "limit", !.token = t, !.todo = @ \ {t}]

ProcTrig(w) ==
    /\ lwork[w].step = "idle"
    /\ lwork' = [lwork EXCEPT ![w] =
                    NextToken(w, [lwork[w] EXCEPT !.todo = {t \in Token : linfo[w][t].known}, !.seen = 0])]
    /\ UNCHANGED <<linfo, lredis, lunaConn, lhist>>

(* The types of reply that a step accepts. *)
Accepts(step) == IF step = "limit" THEN "string" ELSE "integer"

(* ti_update_token_info(), for one key of one token: without a reply the count stays
   for the next time. *)
ti_update_token_info(i, step, ok, value) ==
    CASE step = "limit" -> [i EXCEPT !.use_total_limit = ok /\ value]
      [] step = "total" -> IF ok THEN [i EXCEPT !.total_req_count = 0, !.total_req_remain = value] ELSE i
      [] step = "qpm" -> IF ok THEN [i EXCEPT !.qpm_req_count = 0, !.qpm_req_remain = value] ELSE i

(* The step after a command.  own: the reply was to this worker's command. *)
After(w, work, i, own) ==
    CASE work.step = "limit" -> [work EXCEPT !.step = IF i.use_total_limit THEN "total" ELSE "qpm", !.sent = FALSE]
      [] work.step = "total" -> [work EXCEPT !.step = "qpm", !.sent = FALSE]
      [] work.step = "qpm" -> NextToken(w, [work EXCEPT !.sent = FALSE, !.fresh[work.token] = own])

(* The command of the step has ended: ok, with this value, or not. *)
LunaFinish(w, ctx, ok, value, own) ==
    LET work == [lwork[w] EXCEPT !.ctx = ctx]
        i == ti_update_token_info(linfo[w][work.token], work.step, ok, value)
    IN  /\ linfo' = [linfo EXCEPT ![w][work.token] = i]
        /\ lwork' = [lwork EXCEPT ![w] = After(w, work, i, own)]

(* A command over a connection of the worker's own, which is made first if there is
   none.  It is answered; or it is executed and the answer does not come in time; or
   Redis never sees it, because the connection cannot be made or breaks.  Without an
   answer the connection is freed, so that no late answer is ever read. *)
Command(w) ==
    LET work == lwork[w]
        c == LunaCommand(w)
    IN  /\ work.step \in {"limit", "total", "qpm"} /\ work.ctx # "shared"
        /\ \/ Executed(c) /\ LunaFinish(w, "own", TRUE, LunaReply(c).value, TRUE)
           \/ Executed(c) /\ LunaFinish(w, "own", FALSE, 0, FALSE)
           \/ UNCHANGED lredis /\ LunaFinish(w, "own", FALSE, 0, FALSE)
        /\ UNCHANGED <<lunaConn, lhist>>

(* The same over the connection that was made before the fork.  The command is written,
   which shows no error at first if the connection is down; then the worker waits. *)
SendShared(w) ==
    /\ lwork[w].step \in {"limit", "total", "qpm"} /\ lwork[w].ctx = "shared" /\ ~lwork[w].sent
    /\ Len(lcommands) + Len(lreplies) < MaxInFlight
    /\ lcommands' = IF lup THEN Append(lcommands, LunaCommand(w)) ELSE lcommands
    /\ lwork' = [lwork EXCEPT ![w].sent = TRUE]
    /\ UNCHANGED <<linfo, lredis, lup, lreplies, lhist>>

(* Redis executes the oldest command, whatever has become of who sent it, and answers. *)
RedisExecutes ==
    /\ lcommands # <<>>
    /\ Executed(Head(lcommands))
    /\ lcommands' = Tail(lcommands)
    /\ lreplies' = Append(lreplies, LunaReply(Head(lcommands)))
    /\ UNCHANGED <<lwork, linfo, lup, lhist>>

(* The oldest reply is read, by any worker that waits; one of another type is an error. *)
ReceiveShared(w) ==
    LET ok == Head(lreplies).type = Accepts(lwork[w].step)
    IN  /\ lwork[w].sent /\ lreplies # <<>>
        /\ LunaFinish(w, "shared", ok, Head(lreplies).value, ok /\ OwnReply(Head(lreplies), w))
        /\ lreplies' = Tail(lreplies)
        /\ UNCHANGED <<lredis, lup, lcommands, lhist>>

(* No reply in time, or the connection is down: this worker frees it. *)
FailShared(w) ==
    /\ lwork[w].step \in {"limit", "total", "qpm"} /\ lwork[w].ctx = "shared"
    /\ LunaFinish(w, "own", FALSE, 0, FALSE)
    /\ UNCHANGED <<lredis, lunaConn, lhist>>

(* ti_add_token(), or its removal: a token that stays keeps its counts. *)
Granted(i, granted) ==
    IF ~granted THEN NoInfo ELSE IF i.known THEN i ELSE NewInfo

(* What was counted for a token and is forgotten with it. *)
Forget(t, old, new) ==
    IF new.qpm_req_count < old.qpm_req_count /\ ~new.known THEN old.qpm_req_count ELSE 0

(* meta_sync(), in the first second of a minute: if the command printed no JSON, or a
   part is missing, the tokens stay; otherwise those that are not in it are removed. *)
MetaSync(w, granted) ==
    LET new == [t \in Token |-> Granted(linfo[w][t], t \in granted)]
    IN  /\ linfo' = [linfo EXCEPT ![w] = new]
        /\ lhist' = [t \in Token |-> [lhist[t] EXCEPT !.forgotten = @ + Forget(t, linfo[w][t], new[t])]]

(* init_redis_cli(): a process that has not done so yet makes its own connection; then
   it is tried, and made again if there is none or no reply.  That can fail too, which
   leaves none.  Only now does a new worker leave the connection that it shares. *)
init_redis_cli(work) == [work EXCEPT !.ctx = "own", !.step = "idle"]

(* proc_trig() after the quotas. *)
AfterQuotas(w) ==
    /\ lwork[w].step = "after"
    /\ \/ \E granted \in SUBSET Token : MetaSync(w, granted)
       \/ UNCHANGED <<linfo, lhist>>
    /\ lwork' = [lwork EXCEPT ![w] =
            [init_redis_cli(lwork[w]) EXCEPT !.fresh = [t \in Token |-> @[t] /\ linfo'[w][t].known]]]
    /\ UNCHANGED <<lredis, lunaConn>>

----------------------------------------------------------------------------
(* Faults *)

(* The shared connection breaks: the commands on it are never executed. *)
SharedBreaks ==
    /\ lup
    /\ lup' = FALSE /\ lcommands' = <<>>
    /\ UNCHANGED <<lwork, linfo, lredis, lreplies, lhist>>

(* A worker dies and the watcher forks another, from a parent that counts nothing and
   has the shared connection. *)
WorkerRestart(w) ==
    /\ SumFunction([t \in Token |-> lhist[t].forgotten]) < MaxRestarts
    /\ \E t \in Token : linfo[w][t].qpm_req_count > 0
    /\ lwork' = [lwork EXCEPT ![w] = NewWorker]
    /\ lhist' = [t \in Token |-> [lhist[t] EXCEPT !.forgotten = @ + linfo[w][t].qpm_req_count]]
    /\ linfo' = [linfo EXCEPT ![w] = [t \in Token |-> NewInfo]]
    /\ lcommands' = [i \in DOMAIN lcommands |-> [lcommands[i] EXCEPT !.late = @ \/ lcommands[i].of = w]]
    /\ lreplies' = [i \in DOMAIN lreplies |-> [lreplies[i] EXCEPT !.late = @ \/ lreplies[i].of = w]]
    /\ UNCHANGED <<lredis, lup>>

LunaNext ==
    \/ \E w \in Worker :
          \/ \E t \in Token : TagQuery(w, t)
          \/ ProcTrig(w) \/ Command(w)
          \/ SendShared(w) \/ ReceiveShared(w) \/ FailShared(w)
          \/ AfterQuotas(w)
          \/ WorkerRestart(w)
    \/ RedisExecutes \/ SharedBreaks

LunaSpec == LunaInit /\ [][LunaNext]_lunaVars

----------------------------------------------------------------------------
(* Properties *)

(* Type correctness.  Whoever waits for a reply still has the connection it comes on. *)
LunaTypeOK ==
    /\ \A w \in Worker :
        /\ lwork[w].step \in Steps /\ lwork[w].ctx \in {"own", "shared"}
        /\ lwork[w].sent => lwork[w].ctx = "shared"
        /\ \A t \in Token : linfo[w][t].qpm_req_count \in 0 .. MaxRequests
    /\ \A t \in Token : lredis[t].qpm \in Floor .. Quota

Pending(t) == SumFunction([w \in Worker |-> linfo[w][t].qpm_req_count])

(* No request is served for free: whatever commands and replies were lost, late or read
   by another worker, Redis has been charged for every request that was admitted, or a worker still
   has it on its count, or it went with the worker or the token (ti_update_token_info). *)
NeverUndercharged ==
    \A t \in Token : (Quota - lredis[t].qpm) + Pending(t) + lhist[t].forgotten >= lhist[t].admitted

(* While no update fails and nothing is forgotten, what is served beyond the quota is
   bounded by what the workers can admit in a second before they hear of it
   (verify_qpm_total_request with the qpm_req_remain of the last second). *)
OverspendBounded ==
    \A t \in Token :
        lhist[t].blind \/ lhist[t].forgotten > 0
          \/ lhist[t].admitted <= Quota - 1 + Cardinality(Worker) * MaxPerSecond

(* What the workers know of a token and what Redis was told add up, whatever is lost. *)
LunaInv == LunaTypeOK /\ NeverUndercharged /\ OverspendBounded
=============================================================================
