----------------------------- MODULE WakeProofs -----------------------------
(***************************************************************************)
(* The process never sleeps on work that is left to do.  First what the    *)
(* joblist and the state machine owe each other: nobody is left in a       *)
(* transient state.  Then what a connection waits for: each handler leaves *)
(* a connection that fits (Fit), the state machine rests only where there  *)
(* is something to wait for (Rest), and its last step asks for the events  *)
(* that go with it (InterestSettles).  A connection that an event leaves   *)
(* elsewhere is on the joblist, and that is empty before the process       *)
(* sleeps (WakeInv).                                                       *)
(***************************************************************************)
EXTENDS ExchangeProofs

Occurs(c, s) == \E i \in DOMAIN s : s[i] = c

LEMMA AppendOccurs ==
    ASSUME NEW S, NEW s \in Seq(S), NEW c \in S
    PROVE  Occurs(c, Append(s, c)) /\ \A d : Occurs(d, s) => Occurs(d, Append(s, c))
<1> DEFINE t == Append(s, c)
<1>1. /\ Len(s) \in Nat /\ DOMAIN s = 1 .. Len(s) /\ DOMAIN t = 1 .. Len(s) + 1
      /\ t[Len(s) + 1] = c /\ \A i \in 1 .. Len(s) : t[i] = s[i]
  OBVIOUS
<1> HIDE DEF t
<1>2. Occurs(c, t)
  <2>1. Len(s) + 1 \in DOMAIN t
    BY <1>1
  <2>2. QED
    BY <1>1, <2>1 DEF Occurs
<1>3. ASSUME NEW d, Occurs(d, s) PROVE Occurs(d, t)
  <2>1. PICK i \in DOMAIN s : s[i] = d
    BY <1>3 DEF Occurs
  <2>2. i \in DOMAIN t /\ t[i] = d
    BY <1>1, <2>1
  <2>3. QED
    BY <2>2 DEF Occurs
<1>4. QED
  BY <1>2, <1>3 DEF t

LEMMA TailOccurs ==
    ASSUME NEW S, NEW s \in Seq(S), s # <<>>, NEW d, Occurs(d, s)
    PROVE  d = Head(s) \/ Occurs(d, Tail(s))
<1> DEFINE t == Tail(s)
<1>1. /\ Len(s) \in Nat /\ DOMAIN s = 1 .. Len(s) /\ DOMAIN t = 1 .. Len(s) - 1
      /\ \A i \in 1 .. Len(s) - 1 : t[i] = s[i + 1]
      /\ Head(s) = s[1]
  OBVIOUS
<1> HIDE DEF t
<1>2. PICK i \in DOMAIN s : s[i] = d
  BY DEF Occurs
<1>3. CASE i = 1
  BY <1>1, <1>2, <1>3
<1>4. CASE i # 1
  <2>1. i - 1 \in DOMAIN t /\ t[i - 1] = d
    BY <1>1, <1>2, <1>4
  <2>2. QED
    BY <2>1 DEF Occurs, t
<1>5. QED
  BY <1>3, <1>4

Listed(c) == Occurs(c, joblist)

(* The joblist is filled and emptied between the poll and the top of the main loop. *)
JobsTaken ==
    joblist # <<>> => pc \in {"dispatch", "accept", "jobs"}
                      \/ (InMachine /\ back \in {"accept", "jobs"})

(* A connection in a transient state is in the state machine or on the joblist. *)
JobsInv ==
    /\ \A c \in Con : con[c].state \in Transient => (pc = "sm" /\ cur = c) \/ Listed(c)
    /\ JobsTaken

LEMMA NobodyListed ==
    ASSUME joblist = <<>>, NEW c
    PROVE  ~Listed(c)
BY DEF Listed, Occurs

(* The steps of the main loop that concern no connection. *)
Phase ==
    \/ LoopEnd \/ NoTick \/ ScanEnd \/ EnableSockets \/ DisableSockets \/ LeaveSockets
    \/ GracefulEnd \/ StayUp \/ ListenEvent \/ AcceptEnd \/ DispatchEnd \/ JobsEnd
    \/ SIGTERM \/ SIGINT \/ fdevent_poll

LEMMA PhaseQuiet ==
    ASSUME Phase
    PROVE  /\ con' = con /\ joblist' = joblist /\ fdwaitqueue' = fdwaitqueue
           /\ ~InMachine /\ ~InMachine'
           /\ JobsTaken => JobsTaken'
<1>1. /\ con' = con /\ joblist' = joblist /\ fdwaitqueue' = fdwaitqueue
      /\ pc \notin {"sm", "smexit"} /\ pc' \notin {"sm", "smexit"}
  BY Zenon DEF Phase, LoopEnd, NoTick, ScanEnd, EnableSockets, DisableSockets, LeaveSockets, GracefulEnd,
     StayUp, ListenEvent, AcceptEnd, DispatchEnd, JobsEnd, SIGTERM, SIGINT, fdevent_poll, queueVars, loopVars
<1>2. \/ joblist = <<>>
      \/ pc' \in {"dispatch", "accept", "jobs"}
      \/ pc \notin {"dispatch", "accept", "jobs", "sm", "smexit"}
  BY Zenon DEF Phase, LoopEnd, NoTick, ScanEnd, EnableSockets, DisableSockets, LeaveSockets, GracefulEnd,
     StayUp, ListenEvent, AcceptEnd, DispatchEnd, JobsEnd, SIGTERM, SIGINT, fdevent_poll
<1>3. QED
  BY <1>1, <1>2 DEF InMachine, JobsTaken

(* A round of the state machine leaves a transient state behind only if it goes on. *)
LEMMA RoundJobs ==
    ASSUME Parts, JobsInv, pc = "sm", NEW x, NEW a, Round(x, a),
           x.state \in Transient => x.state # con[cur].state
    PROVE  JobsInv'
<1>1. /\ con' = [con EXCEPT ![cur] = x] /\ UNCHANGED <<cur, back, joblist>>
      /\ pc' = (IF a \/ x.state # con[cur].state THEN "sm" ELSE "smexit")
  BY DEF Round
<1>2. con \in [Con -> Connections] /\ cur \in Con
  BY DEF Parts, ConInv, LoopTyped
<1>3. ASSUME NEW c \in Con, con'[c].state \in Transient
      PROVE  (pc' = "sm" /\ cur' = c) \/ Listed(c)'
  <2>1. CASE c = cur
    BY <1>1, <1>2, <1>3, <2>1
  <2>2. CASE c # cur
    <3>1. con'[c] = con[c] /\ (Listed(c) => Listed(c)')
      BY <1>1, <1>2, <2>2 DEF Listed
    <3>2. QED
      BY <1>3, <2>2, <3>1 DEF JobsInv, JobsTaken
  <2>3. QED
    BY <2>1, <2>2
<1>4. InMachine'
  BY <1>1 DEF InMachine
<1>5. joblist' # <<>> => back' \in {"accept", "jobs"}
  BY <1>1 DEF JobsInv, JobsTaken
<1>6. QED
  BY <1>3, <1>4, <1>5 DEF JobsInv, JobsTaken

LEMMA MachineJobs ==
    ASSUME Parts, JobsInv, StateMachine, ~SmExit
    PROVE  JobsInv'
<1>0. cur \in Con /\ con[cur] \in Connections /\ Sound(con[cur])
  BY CurOfParts
<1>1. CASE SmRequestStart
  <2> DEFINE x == [con[cur] EXCEPT !.rage = 0, !.count = @ + 1, !.state = "READ"]
  <2>1. pc = "sm" /\ Round(x, FALSE)
    BY <1>1 DEF SmRequestStart, Running
  <2>2. x.state = "READ"
    BY <1>0 DEF Connections
  <2> HIDE DEF x
  <2>3. x.state \notin Transient
    BY <2>2 DEF Transient
  <2>4. QED
    BY <2>1, <2>3, RoundJobs
<1>2. CASE SmRead \/ SmHandleRequest \/ SmWrite \/ SmClose \/ SmConnect
  <2>1. pc = "sm" /\ con[cur].state \in {"READ", "READ_POST", "HANDLE_REQUEST", "WRITE", "CLOSE", "CONNECT"}
    BY <1>2 DEF SmRead, SmHandleRequest, SmWrite, SmClose, SmConnect, Running
  <2>2. PICK x, a : Round(x, a)
    BY <1>2, Zenon DEF SmRead, SmHandleRequest, SmWrite, SmClose, SmConnect, EndWith
  <2>3. x.state \in Transient => x.state # con[cur].state
    BY <2>1 DEF Transient
  <2>4. QED
    BY <2>1, <2>2, <2>3, RoundJobs
<1>3. CASE SmRequestEnd
  <2>1. PICK x \in http_request_parse(con[cur]) : Round(x, FALSE)
    BY <1>3 DEF SmRequestEnd
  <2>2. x.state \in {"HANDLE_REQUEST", "READ_POST"}
    BY <1>0, <2>1, ParseTyped
  <2>3. pc = "sm" /\ x.state \notin Transient
    BY <1>3, <2>2 DEF Transient, SmRequestEnd, Running
  <2>4. QED
    BY <2>1, <2>3, RoundJobs
<1>4. CASE SmResponseStart
  <2>1. PICK x \in connection_handle_write_prepare(con[cur]) : Round(x, FALSE)
    BY <1>4 DEF SmResponseStart
  <2>2. x.state = "WRITE"
    BY <1>0, <2>1, WritePrepareHandled
  <2>3. pc = "sm" /\ x.state \notin Transient
    BY <1>4, <2>2 DEF Transient, SmResponseStart, Running
  <2>4. QED
    BY <2>1, <2>3, RoundJobs
<1>5. CASE SmResponseEnd
  <2>1. PICK x \in connection_handle_response_end_state(con[cur]) : EndWith(x)
    BY <1>5 DEF SmResponseEnd
  <2>2. pc = "sm" /\ con[cur].state \in {"RESPONSE_END", "ERROR"}
    BY <1>5 DEF SmResponseEnd, Running
  <2>3. x.state # con[cur].state
    BY <1>0, <2>1, <2>2, ResponseEndSound
  <2>4. QED
    BY <2>1, <2>2, <2>3, RoundJobs DEF EndWith
<1>6. QED
  BY <1>1, <1>2, <1>3, <1>4, <1>5 DEF StateMachine

LEMMA ExitJobs == ASSUME Parts, JobsInv, SmExit PROVE JobsInv'
<1> DEFINE x == UpdateInterest(con[cur])
<1>1. /\ pc = "smexit" /\ pc' = back /\ con' = [con EXCEPT ![cur] = x] /\ joblist' = joblist
  BY DEF SmExit
<1>2. cur \in Con /\ con[cur] \in Connections /\ Sound(con[cur])
  BY CurOfParts
<1>3. x.state = con[cur].state
  BY <1>2, InterestSound
<1>4. con \in [Con -> Connections] /\ back \in {"top", "scan", "fdwait", "accept", "jobs"}
  BY DEF Parts, ConInv, LoopTyped
<1> HIDE DEF x
<1>5. \A c \in Con : con'[c].state = con[c].state /\ (Listed(c) => Listed(c)')
  BY <1>1, <1>2, <1>3, <1>4 DEF Listed
<1>6. joblist' # <<>> => pc' \in {"accept", "jobs"}
  BY <1>1, <1>4 DEF JobsInv, JobsTaken
<1>7. QED
  BY <1>1, <1>5, <1>6 DEF JobsInv, JobsTaken

LEMMA PhaseJobs == ASSUME Parts, JobsInv, Phase PROVE JobsInv'
<1>1. con' = con /\ joblist' = joblist /\ ~InMachine /\ JobsTaken'
  BY PhaseQuiet DEF JobsInv, JobsTaken
<1>2. \A c \in Con : con'[c].state \in Transient => Listed(c)'
  BY <1>1 DEF JobsInv, JobsTaken, InMachine, Listed
<1>3. QED
  BY <1>1, <1>2 DEF JobsInv, JobsTaken

(* Where the joblist is empty nobody is in a transient state. *)
LEMMA TickJobs == ASSUME Parts, JobsInv, Tick PROVE JobsInv'
<1>1. con' = [c \in Con |-> Aged(con[c])] /\ pc = "top" /\ joblist' = joblist
  BY DEF Tick, queueVars
<1>2. joblist = <<>>
  BY <1>1 DEF JobsInv, JobsTaken, InMachine
<1>3. ASSUME NEW c \in Con PROVE con'[c].state \notin Transient
  <2>1. con[c] \in Connections /\ Sound(con[c])
    BY DEF Parts, ConInv
  <2>2. con'[c].state = con[c].state
    BY <1>1, <2>1, AgedSound
  <2>3. con[c].state \notin Transient
    BY <1>1, <1>2, NobodyListed DEF JobsInv, JobsTaken
  <2>4. QED
    BY <2>2, <2>3
<1>4. QED
  BY <1>1, <1>2, <1>3 DEF JobsInv, JobsTaken

LEMMA ScanJobs == ASSUME Parts, JobsInv, ScanSlot PROVE JobsInv'
<1> DEFINE c == ptr[k]
<1>1. PICK limited \in BOOLEAN :
        /\ con' = [con EXCEPT ![c] = [TimedOut(@) EXCEPT !.tl = limited]]
        /\ IF Expired(con[c]) \/ limited # con[c].tl
           THEN pc' = "sm" /\ cur' = c
           ELSE UNCHANGED <<pc, cur, back>>
  BY DEF ScanSlot, Call
<1>2. pc = "scan" /\ joblist' = joblist
  BY DEF ScanSlot, queueVars
<1>3. joblist = <<>>
  BY <1>2 DEF JobsInv, JobsTaken, InMachine
<1>4. con \in [Con -> Connections]
  BY DEF Parts, ConInv
<1> HIDE DEF c
<1>5. ASSUME NEW d \in Con, con'[d].state \in Transient PROVE pc' = "sm" /\ cur' = d
  <2>1. con[d].state \notin Transient
    BY <1>2, <1>3, NobodyListed DEF JobsInv, JobsTaken
  <2>2. d = c
    BY <1>1, <1>4, <1>5, <2>1
  <2>3. con[d] \in Connections
    BY <1>4
  <2>4. con'[d] = [TimedOut(con[d]) EXCEPT !.tl = limited]
    BY <1>1, <1>4, <2>2
  <2>5. CASE Expired(con[d])
    BY <1>1, <2>2, <2>5
  <2>6. CASE ~Expired(con[d])
    <3>1. TimedOut(con[d]) = con[d]
      BY <2>6 DEF TimedOut, Expired
    <3>2. con'[d].state = con[d].state
      BY <2>3, <2>4, <3>1 DEF Connections
    <3>3. QED
      BY <1>5, <2>1, <3>2
  <2>7. QED
    BY <2>5, <2>6
<1>6. QED
  BY <1>2, <1>3, <1>5 DEF JobsInv, JobsTaken

LEMMA QueueJobs == ASSUME Parts, JobsInv, fdwaitqueue_unshift \/ RunJob PROVE JobsInv'
<1>0. joblist \in Seq(Con)
  BY DEF Parts, LoopTyped
<1>1. con' = con /\ pc' = "sm" /\ pc \in {"fdwait", "jobs"}
  BY Zenon DEF fdwaitqueue_unshift, RunJob, Call
<1>2. CASE fdwaitqueue_unshift
  <2>1. joblist = <<>> /\ joblist' = joblist
    BY <1>2 DEF fdwaitqueue_unshift, JobsInv, JobsTaken, InMachine
  <2>2. \A c \in Con : con[c].state \notin Transient
    BY <1>1, <2>1, NobodyListed DEF JobsInv, JobsTaken
  <2>3. QED
    BY <1>1, <2>1, <2>2 DEF JobsInv, JobsTaken
<1>3. CASE RunJob
  <2>1. joblist # <<>> /\ joblist' = Tail(joblist) /\ cur' = Head(joblist) /\ back' = "jobs"
    BY <1>3 DEF RunJob, Call
  <2>2. \A d \in Con : Listed(d) => d = Head(joblist) \/ Listed(d)'
    BY <1>0, <2>1, TailOccurs DEF Listed
  <2>3. \A c \in Con : con'[c].state \in Transient => (pc' = "sm" /\ cur' = c) \/ Listed(c)'
    BY <1>1, <2>1, <2>2 DEF JobsInv, JobsTaken
  <2>4. InMachine' /\ back' \in {"accept", "jobs"}
    BY <1>1, <2>1 DEF InMachine
  <2>5. QED
    BY <2>3, <2>4 DEF JobsInv, JobsTaken
<1>4. QED
  BY <1>2, <1>3

LEMMA EventJobs == ASSUME Parts, JobsInv, NEW c \in Con, ClientEvent(c) \/ BackendEvent(c) PROVE JobsInv'
<1>1. /\ pc = "dispatch" /\ pc' = pc /\ joblist' = Append(joblist, c)
      /\ \E r : con' = [con EXCEPT ![c] = r]
  BY Zenon DEF ClientEvent, BackendEvent, joblist_append
<1>2. joblist \in Seq(Con) /\ con \in [Con -> Connections]
  BY DEF Parts, LoopTyped, ConInv
<1>3. Listed(c)' /\ \A d \in Con : Listed(d) => Listed(d)'
  BY <1>1, <1>2, AppendOccurs DEF Listed
<1>4. \A d \in Con \ {c} : con'[d] = con[d]
  BY <1>1, <1>2
<1>5. \A d \in Con : con'[d].state \in Transient => Listed(d)'
  BY <1>1, <1>3, <1>4 DEF JobsInv, JobsTaken
<1>6. QED
  BY <1>1, <1>5 DEF JobsInv, JobsTaken

LEMMA AcceptJobs == ASSUME Parts, JobsInv, NEW c \in Con, connection_accept(c) PROVE JobsInv'
<1>1. /\ pc = "accept" /\ pc' = "sm" /\ cur' = c /\ back' = "accept" /\ joblist' = joblist
      /\ \E r : con' = [con EXCEPT ![c] = r]
  BY DEF connection_accept, connection_accepted, Call, queueVars
<1>2. con \in [Con -> Connections]
  BY DEF Parts, ConInv
<1>3. \A d \in Con \ {c} : con'[d] = con[d]
  BY <1>1, <1>2
<1>4. \A d \in Con : Listed(d) => Listed(d)'
  BY <1>1 DEF Listed
<1>5. \A d \in Con : con'[d].state \in Transient => (pc' = "sm" /\ cur' = d) \/ Listed(d)'
  BY <1>1, <1>3, <1>4 DEF JobsInv, JobsTaken
<1>6. QED
  BY <1>1, <1>5 DEF JobsInv, JobsTaken, InMachine

LEMMA JobsStep ==
    ASSUME ~AcceptFails, Parts, JobsInv, [Next]_vars
    PROVE  JobsInv'
<1>1. CASE UNCHANGED vars
  <2>1. UNCHANGED <<con, joblist, pc, cur, back>>
    BY <1>1 DEF vars, queueVars, loopVars
  <2>2. QED
    BY <2>1 DEF JobsInv, JobsTaken, Listed, Occurs, InMachine
<1>2. CASE StateMachine
  BY <1>2, MachineJobs, ExitJobs
<1>3. ASSUME NEW c \in Con, ClientEvent(c) \/ BackendEvent(c) \/ connection_accept(c) \/ AcceptFailed(c)
      PROVE  JobsInv'
  BY <1>3, EventJobs, AcceptJobs DEF AcceptFailed
<1>4. QED
  BY <1>1, <1>2, <1>3, PhaseJobs, TickJobs, ScanJobs, QueueJobs DEF Next, Process, Phase

(* If setting up an accepted socket does not fail (an accepted connection that the set-up gave up
   stays in REQUEST_START until the client hangs up), the process never sleeps with a connection in
   a state that connection_state_machine() calls transient. *)
THEOREM NobodySleepsTransient == ~AcceptFails => (Spec => []NoTransientAsleep)
<1> SUFFICES ASSUME ~AcceptFails PROVE Spec => []NoTransientAsleep
  OBVIOUS
<1>1. Init => JobsInv
  <2> SUFFICES ASSUME Init PROVE JobsInv
    OBVIOUS
  <2>2. \A c \in Con : con[c].state = "CONNECT"
    BY InitTyped DEF Init, connection_init
  <2>3. joblist = <<>>
    BY DEF Init
  <2>4. QED
    BY <2>2, <2>3 DEF JobsInv, JobsTaken, Transient
<1>2. Init => Parts
  BY PartsInit
<1>3. Parts /\ [Next]_vars => Parts'
  BY PartsStep
<1>4. Parts /\ JobsInv /\ [Next]_vars => JobsInv'
  BY JobsStep
<1>5. JobsInv => NoTransientAsleep
  <2>1. SUFFICES ASSUME JobsInv, Asleep PROVE \A c \in Con : con[c].state \notin Transient
    BY DEF NoTransientAsleep
  <2>2. pc = "fdwait" /\ joblist = <<>>
    BY <2>1 DEF Asleep, JobsInv, JobsTaken, InMachine
  <2>3. QED
    BY <2>1, <2>2, NobodyListed DEF JobsInv, JobsTaken
<1>6. QED
  BY <1>1, <1>2, <1>3, <1>4, <1>5, PTL DEF Spec

----------------------------------------------------------------------------
(* What a connection can wait for, handler by handler. *)
Answering == {"READ_POST", "HANDLE_REQUEST"}

(* What a connection is, seen from what it can wait for: nothing of a backend is left before a
   request is read; a request that is still to be answered has its whole body when it is handled;
   and a response that is not complete comes from a backend that is connected, or was given up. *)
Fit(r) ==
    /\ r.state \in {"REQUEST_START", "READ", "REQUEST_END"} =>
           r.mode = "direct" /\ ~r.started /\ ~r.bfd
    /\ r.state \in Answering /\ r.mode = "direct" =>
           ~r.bfd /\ (r.started /\ ~r.fin => r.status = "error")
    /\ r.state = "HANDLE_REQUEST" => ~Due(r)
    /\ r.state \in Answering \cup {"RESPONSE_START", "WRITE"} /\ r.mode = "backend" /\ ~r.fin =>
           r.hctx /\ (r.started => r.bfd)
    /\ r.state \in {"RESPONSE_START", "WRITE"} /\ r.mode = "backend" /\ ~r.fin => r.started
    /\ r.state = "RESPONSE_START" /\ r.mode = "direct" /\ ~r.fin => r.status \in {"404", "error"}
    /\ r.state = "WRITE" /\ r.mode = "direct" /\ ~r.fin => TempfileFails /\ r.started

(* A request in the hands of a backend module. *)
AtBackend(r) ==
    /\ r.mode = "backend" /\ r.hctx
    /\ r.started /\ ~r.fin => r.bfd
    /\ r.state = "HANDLE_REQUEST" => ~Due(r)
    /\ r.state = "WRITE" /\ ~r.fin => r.started

(* A handler that leaves the answer to the request alone. *)
SameAnswer(r, x) ==
    /\ x.hctx = r.hctx /\ x.bfd = r.bfd /\ x.started = r.started /\ x.fin = r.fin
    /\ x.mode = r.mode /\ x.status = r.status

LEMMA ReadSameAnswer ==
    ASSUME NEW r \in Connections, NEW o \in connection_handle_read(r)
    PROVE  /\ SameAnswer(r, o.con)
           /\ o.con.state = IF o.ret = "error" THEN "ERROR" ELSE r.state
<1>1. PICK res \in ReadResults : \E q \in Received(r.rq, res) :
         o = Out([r EXCEPT !.rd = res \in {"intr", "full"}, !.rq = q,
                           !.state = IF res = "error" THEN "ERROR" ELSE @], res, 0)
  BY DEF connection_handle_read
<1>2. PICK q : o = Out([r EXCEPT !.rd = res \in {"intr", "full"}, !.rq = q,
                                 !.state = IF res = "error" THEN "ERROR" ELSE @], res, 0)
  BY <1>1
<1> DEFINE b == res \in {"intr", "full"}
           s == IF res = "error" THEN "ERROR" ELSE r.state
<1>3. o.con = [r EXCEPT !.rd = b, !.rq = q, !.state = s] /\ o.ret = res
  BY <1>2 DEF Out
<1>4. s = IF o.ret = "error" THEN "ERROR" ELSE r.state
  BY <1>3
<1> HIDE DEF b, s
<1>5. QED
  BY <1>3, <1>4 DEF SameAnswer, Connections

(* connection_handle_read_state(): a header that is complete does not stay in the queue. *)
LEMMA ScanTakesHeader ==
    ASSUME NEW r \in Connections, NEW closed, NEW x \in ScanHeader(r, closed)
    PROVE  /\ x.hctx = r.hctx /\ x.bfd = r.bfd /\ x.started = r.started /\ x.fin = r.fin
           /\ x.mode = r.mode
           /\ x.state = r.state /\ r.state = "READ" => x.rq # "full"
<1>1. CASE r.rq = "full"
  <2>1. PICK q : x = [r EXCEPT !.state = "REQUEST_END", !.rq = q]
    BY <1>1 DEF ScanHeader
  <2>2. QED
    BY <2>1 DEF Connections
<1>2. CASE r.rq # "full"
  <2>1. \/ x = [r EXCEPT !.state = IF closed THEN "ERROR" ELSE @]
        \/ x = [r EXCEPT !.state = "HANDLE_REQUEST", !.status = "error", !.ka = FALSE]
    BY <1>2 DEF ScanHeader
  <2>2. CASE x = [r EXCEPT !.state = IF closed THEN "ERROR" ELSE @]
    <3> DEFINE s == IF closed THEN "ERROR" ELSE r.state
    <3>1. x = [r EXCEPT !.state = s]
      BY <2>2
    <3> HIDE DEF s
    <3>2. QED
      BY <1>2, <3>1 DEF Connections
  <2>3. CASE x = [r EXCEPT !.state = "HANDLE_REQUEST", !.status = "error", !.ka = FALSE]
    BY <1>2, <2>3 DEF Connections
  <2>4. QED
    BY <2>1, <2>2, <2>3
<1>3. QED
  BY <1>1, <1>2

LEMMA ReadStateFit ==
    ASSUME NEW r \in Connections, Fit(r), ~r.unread, r.state = "READ",
           NEW x \in connection_handle_read_state(r)
    PROVE  Fit(x) /\ x.state # "RESPONSE_START" /\ (x.state = "READ" => x.rq # "full")
<1>1. x.unread = r.unread
  BY ReadStateCalm DEF Calm
<1>2. x.state \in {"READ", "REQUEST_END", "ERROR", "HANDLE_REQUEST"}
  BY ReadStateHandled DEF Handled
<1>3. /\ x.bfd = r.bfd /\ x.started = r.started /\ x.fin = r.fin /\ x.mode = r.mode
      /\ x.state = "READ" => x.rq # "full"
  <2>1. CASE ~r.rd
    <3>1. x \in ScanHeader(r, FALSE)
      BY <2>1 DEF connection_handle_read_state
    <3>2. QED
      BY <3>1, ScanTakesHeader
  <2>2. CASE r.rd
    <3> DEFINE y == [r EXCEPT !.rage = 0]
    <3>0. y \in Connections /\ y.state = r.state /\ SameAnswer(r, y)
      <4>1. y \in Connections
        BY RageReset, Zenon DEF Handled
      <4>2. QED
        BY <4>1 DEF SameAnswer, Connections
    <3>1. PICK o \in connection_handle_read(y) :
             x \in IF o.ret = "error" THEN {o.con} ELSE ScanHeader(o.con, o.ret = "eof")
      BY <2>2 DEF connection_handle_read_state
    <3> HIDE DEF y
    <3>2. SameAnswer(y, o.con) /\ o.con.state = (IF o.ret = "error" THEN "ERROR" ELSE y.state)
      BY <3>0, ReadSameAnswer
    <3>a. o.con \in Connections
      BY <3>0, ReadHandled, Zenon DEF Handled
    <3>3. CASE o.ret = "error"
      <4>1. QED
        BY <3>0, <3>1, <3>2, <3>3 DEF SameAnswer
    <3>4. CASE o.ret # "error"
      <4>1. x \in ScanHeader(o.con, o.ret = "eof")
        BY <3>1, <3>4
      <4>2. /\ x.bfd = o.con.bfd /\ x.started = o.con.started /\ x.fin = o.con.fin /\ x.mode = o.con.mode
            /\ x.state = o.con.state /\ o.con.state = "READ" => x.rq # "full"
        BY <3>a, <4>1, ScanTakesHeader
      <4>3. QED
        BY <3>0, <3>2, <3>4, <4>2 DEF SameAnswer
    <3>5. QED
      BY <3>3, <3>4
  <2>3. QED
    BY <2>1, <2>2
<1>4. r.mode = "direct" /\ ~r.started /\ ~r.bfd
  BY DEF Fit
<1>5. QED
  BY <1>1, <1>2, <1>3, <1>4 DEF Fit, Due, Answering

LEMMA ParseFit ==
    ASSUME NEW r \in Connections, Fit(r), ~r.unread, r.state = "REQUEST_END",
           NEW x \in http_request_parse(r)
    PROVE  Fit(x)
<1>1. PICK req \in Requests, keep \in BOOLEAN : x = Parsed(r, req, keep)
  BY DEF http_request_parse
<1>2. req \in {"bad", "plain", "body"}
  BY ChoiceAssumption
<1>3. /\ x.mode = r.mode /\ x.started = r.started /\ x.bfd = r.bfd
      /\ \/ x.state = "HANDLE_REQUEST" /\ ~x.unread
         \/ x.state = "READ_POST"
  <2>1. CASE req = "bad"
    BY <1>1, <2>1 DEF Parsed, Connections
  <2>2. CASE req = "plain"
    BY <1>1, <2>2 DEF Parsed, Connections
  <2>3. CASE req = "body"
    BY <1>1, <2>3 DEF Parsed, Connections
  <2>4. QED
    BY <1>2, <2>1, <2>2, <2>3
<1>4. r.mode = "direct" /\ ~r.started /\ ~r.bfd
  BY DEF Fit
<1>5. QED
  BY <1>3, <1>4 DEF Fit, Due, Answering

----------------------------------------------------------------------------
(* Handling a request *)

(* connection_handle_read_post_state(), of a body that is due or before the request was handled. *)
Uploaded(r, o) ==
    /\ o.con.hctx = r.hctx /\ o.con.bfd = r.bfd /\ o.con.started = r.started /\ o.con.fin = r.fin
    /\ \/ o.ret = "ERROR"
       \/ /\ o.ret = "FINISHED" /\ TempfileFails
          /\ o.con.mode = "direct" /\ o.con.status = "error" /\ o.con.state = r.state
       \/ /\ o.ret = "WAIT_FOR_EVENT" /\ o.con.pollin
          /\ o.con.mode = r.mode /\ o.con.state = r.state
       \/ /\ o.ret = "GO_ON" /\ o.con.mode = r.mode
          /\ \/ o.con.state = r.state
             \/ r.state = "READ_POST" /\ o.con.state = "HANDLE_REQUEST" /\ ~Due(o.con)

LEMMA PostBytesUploaded ==
    ASSUME NEW r \in Connections, NEW closed, NEW fresh, NEW o \in PostBytes(r, closed, fresh)
    PROVE  Uploaded(r, o)
<1>1. ASSUME NEW q,
             o = Out([r EXCEPT !.unread = @ /\ ~Due(r), !.rq = q, !.pollin = FALSE,
                               !.state = IF @ = "READ_POST" THEN "HANDLE_REQUEST" ELSE @], "GO_ON", 0)
      PROVE  Uploaded(r, o)
  <2> DEFINE u == r.unread /\ ~Due(r)
             s == IF r.state = "READ_POST" THEN "HANDLE_REQUEST" ELSE r.state
  <2>1. o.con = [r EXCEPT !.unread = u, !.rq = q, !.pollin = FALSE, !.state = s] /\ o.ret = "GO_ON"
    BY <1>1 DEF Out
  <2>2. u => ~r.len
    BY Zenon DEF Due
  <2>3. s = r.state \/ (r.state = "READ_POST" /\ s = "HANDLE_REQUEST")
    BY Zenon
  <2> HIDE DEF u, s
  <2>4. /\ o.con.hctx = r.hctx /\ o.con.bfd = r.bfd /\ o.con.started = r.started
        /\ o.con.fin = r.fin /\ o.con.mode = r.mode /\ o.con.state = s /\ o.con.unread = u
        /\ o.con.len = r.len
    BY <2>1 DEF Connections
  <2>5. ~Due(o.con)
    BY <2>2, <2>4, Zenon DEF Due
  <2>6. QED
    BY <2>1, <2>3, <2>4, <2>5, Zenon DEF Uploaded
<1>2. ASSUME o = Out([r EXCEPT !.rq = "none"], "ERROR", 0)
      PROVE  Uploaded(r, o)
  BY <1>2 DEF Uploaded, Out, Connections
<1>3. ASSUME NEW ret \in {"GO_ON", "WAIT_FOR_EVENT"},
             o = Out([r EXCEPT !.rq = "none", !.pollin = TRUE], ret, 0)
      PROVE  Uploaded(r, o)
  BY <1>3 DEF Uploaded, Out, Connections
<1>4. ASSUME TempfileFails,
             o = Out([r EXCEPT !.rq = "none", !.status = "error", !.ka = FALSE, !.mode = "direct",
                               !.wq = FALSE], "FINISHED", 0)
      PROVE  Uploaded(r, o)
  BY <1>4 DEF Uploaded, Out, Connections
<1>5. \/ \E q : o = Out([r EXCEPT !.unread = @ /\ ~Due(r), !.rq = q, !.pollin = FALSE,
                               !.state = IF @ = "READ_POST" THEN "HANDLE_REQUEST" ELSE @], "GO_ON", 0)
      \/ o = Out([r EXCEPT !.rq = "none"], "ERROR", 0)
      \/ \E ret \in {"GO_ON", "WAIT_FOR_EVENT"} : o = Out([r EXCEPT !.rq = "none", !.pollin = TRUE], ret, 0)
      \/ TempfileFails
         /\ o = Out([r EXCEPT !.rq = "none", !.status = "error", !.ka = FALSE, !.mode = "direct",
                               !.wq = FALSE], "FINISHED", 0)
  BY DEF PostBytes
<1>6. QED
  BY <1>1, <1>2, <1>3, <1>4, <1>5

LEMMA ReadPostUploaded ==
    ASSUME NEW r \in Connections, NEW o \in connection_handle_read_post_state(r)
    PROVE  Uploaded(r, o)
<1>1. CASE ~r.rd
  <2>1. o \in PostBytes(r, FALSE, FALSE)
    BY <1>1 DEF connection_handle_read_post_state
  <2>2. QED
    BY <2>1, PostBytesUploaded
<1>2. CASE r.rd
  <2> DEFINE y == [r EXCEPT !.rage = 0]
  <2>1. y \in Connections
    BY RageReset, Zenon DEF Handled
  <2>2. y.state = r.state /\ SameAnswer(r, y)
    BY DEF SameAnswer, Connections
  <2>3. PICK p \in connection_handle_read(y) :
           o \in IF p.ret = "error" THEN {Out(p.con, "ERROR", 0)}
                 ELSE PostBytes(p.con, p.ret = "eof", p.ret \in {"short", "full"})
    BY <1>2 DEF connection_handle_read_post_state
  <2> HIDE DEF y
  <2>4. SameAnswer(y, p.con) /\ p.con.state = (IF p.ret = "error" THEN "ERROR" ELSE y.state)
    BY <2>1, ReadSameAnswer
  <2>5. p.con \in Connections
    BY <2>1, ReadHandled, Zenon DEF Handled
  <2>6. CASE p.ret = "error"
    <3>1. o.con = p.con /\ o.ret = "ERROR"
      BY <2>3, <2>6 DEF Out
    <3>2. QED
      BY <2>2, <2>4, <3>1 DEF SameAnswer, Uploaded
  <2>7. CASE p.ret # "error"
    <3>1. o \in PostBytes(p.con, p.ret = "eof", p.ret \in {"short", "full"})
      BY <2>3, <2>7
    <3>2. Uploaded(p.con, o)
      BY <2>5, <3>1, PostBytesUploaded
    <3>3. QED
      BY <2>2, <2>4, <2>7, <3>2 DEF SameAnswer, Uploaded
  <2>8. QED
    BY <2>6, <2>7
<1>3. QED
  BY <1>1, <1>2

(* The backend module lets the request go: the client gets an error, or what was sent is ended. *)
LEMMA BackendCloseEnds ==
    ASSUME NEW r \in Connections, r.state \in Answering \cup {"WRITE"},
           NEW x \in backend_connection_close(r)
    PROVE  /\ x.state = r.state /\ x.bfd = FALSE
           /\ r.mode = "direct" => /\ x.mode = "direct" /\ x.status = r.status
                                   /\ x.started = r.started /\ x.fin = r.fin
           /\ r.mode = "backend" =>
                x.fin \/ (x.mode = "direct" /\ ~x.started /\ x.state # "WRITE" /\ x.status = "error")
<1> DEFINE y == [r EXCEPT !.hctx = FALSE, !.bfd = FALSE, !.tries = 0]
<1>1. /\ y.state = r.state /\ y.mode = r.mode /\ y.status = r.status /\ y.started = r.started
      /\ y.fin = r.fin /\ y.bfd = FALSE /\ y \in Connections
  <2>1. 0 \in 0 .. reconnects
    BY TimeoutAssumption
  <2>2. QED
    BY <2>1 DEF Connections
<1>2. x \in IF r.mode = "backend" THEN http_response_backend_done(y) ELSE {y}
  BY DEF backend_connection_close
<1> HIDE DEF y
<1>3. CASE r.mode = "direct"
  BY <1>1, <1>2, <1>3
<1>4. CASE r.mode # "direct"
  <2>1. r.mode = "backend" /\ x \in http_response_backend_done(y)
    BY <1>2, <1>4 DEF Connections
  <2>2. CASE y.state \in {"HANDLE_REQUEST", "READ_POST"} /\ ~y.started
    <3>1. x = [y EXCEPT !.status = "error", !.mode = "direct"]
      BY <2>1, <2>2 DEF http_response_backend_done
    <3>2. x.state = y.state /\ x.bfd = y.bfd /\ x.mode = "direct" /\ x.status = "error" /\ x.started = y.started
      BY <1>1, <3>1 DEF Connections
    <3>3. QED
      BY <1>1, <2>1, <2>2, <3>2
  <2>3. CASE ~(y.state \in {"HANDLE_REQUEST", "READ_POST"} /\ ~y.started) /\ ~y.fin
    <3>1. y.started \/ y.state = "WRITE"
      BY <1>1, <2>3 DEF Answering
    <3>2. x \in {[y EXCEPT !.fin = TRUE], [y EXCEPT !.fin = TRUE, !.wq = TRUE]}
      BY <1>1, <2>1, <2>3, <3>1 DEF http_response_backend_done, Answering
    <3>3. x.state = y.state /\ x.bfd = y.bfd /\ x.fin
      BY <1>1, <3>2, ZenonT(40) DEF Connections
    <3>4. QED
      BY <1>1, <2>1, <3>3
  <2>4. CASE ~(y.state \in {"HANDLE_REQUEST", "READ_POST"} /\ ~y.started) /\ y.fin
    <3>1. x = y
      BY <2>1, <2>4 DEF http_response_backend_done
    <3>2. QED
      BY <1>1, <2>1, <2>4, <3>1
  <2>5. QED
    BY <2>2, <2>3, <2>4
<1>5. QED
  BY <1>3, <1>4

(* What a backend module leaves of a request it was asked to go on with. *)
Waits(o) == o.ret \in {"WAIT_FOR_EVENT", "WAIT_FOR_FD"}

Attended(o, S) ==
    \/ o.ret = "ERROR"
    \/ /\ o.ret = "FINISHED" /\ o.con.state \in S /\ o.con.status = "error"
       /\ o.con.fin \/ (/\ o.con.mode = "direct"
                        /\ o.con.state = "WRITE" => TempfileFails /\ o.con.started)
    \/ /\ o.ret \in {"WAIT_FOR_EVENT", "WAIT_FOR_FD", "COMEBACK"}
       /\ o.con.state \in S /\ AtBackend(o.con)
       /\ o.ret = "WAIT_FOR_EVENT" =>
             \/ o.con.bfd
             \/ o.con.state = "READ_POST" /\ o.con.pollin
             \/ o.con.state = "WRITE"

LEMMA SendRequestAttended ==
    ASSUME NEW r \in Connections, AtBackend(r), NEW S, r.state \in S,
           r.state \in Answering \cup {"WRITE"}, NEW o \in backend_send_request(r)
    PROVE  Attended(o, S)
<1>1. CASE \/ o = Out(r, "WAIT_FOR_EVENT", 0) /\ r.bfd
           \/ o = Out(r, "WAIT_FOR_FD", 0)
  BY <1>1 DEF Attended, Out
<1>2. CASE o = Out([r EXCEPT !.bfd = TRUE], "WAIT_FOR_EVENT", 1)
  <2>1. /\ o.con.state = r.state /\ o.con.mode = r.mode /\ o.con.hctx = r.hctx /\ o.con.bfd
        /\ o.con.fin = r.fin /\ o.con.started = r.started /\ o.con.len = r.len
        /\ o.con.unread = r.unread /\ o.ret = "WAIT_FOR_EVENT"
    BY <1>2 DEF Out, Connections
  <2>2. QED
    BY <2>1 DEF Attended, AtBackend, Due
<1>3. CASE \E x \in backend_connection_close(r) :
              o = Out([x EXCEPT !.status = "error"], "FINISHED", -Fds(r.bfd))
  <2>1. PICK x \in backend_connection_close(r) :
              o = Out([x EXCEPT !.status = "error"], "FINISHED", -Fds(r.bfd))
    BY <1>3
  <2>2. x \in Connections
    BY BackendCloseHandled, Zenon DEF Handled
  <2>3. /\ o.con.status = "error" /\ o.con.state = x.state /\ o.con.mode = x.mode
        /\ o.con.fin = x.fin /\ o.ret = "FINISHED"
    BY <2>1, <2>2 DEF Out, Connections
  <2>4. r.mode = "backend"
    BY DEF AtBackend
  <2>5. x.state = r.state /\ (x.fin \/ (x.mode = "direct" /\ x.state # "WRITE"))
    BY <2>4, BackendCloseEnds
  <2>6. QED
    BY <2>3, <2>5 DEF Attended
<1>4. CASE o \in backend_reconnect(r)
  <2> DEFINE t == r.tries + 1
             x == [r EXCEPT !.bfd = FALSE, !.tries = t]
  <2>1. ~r.started /\ o.con = x /\ o.ret = "COMEBACK"
    BY <1>4 DEF backend_reconnect, Out
  <2> HIDE DEF t
  <2>2. /\ x.state = r.state /\ x.mode = r.mode /\ x.hctx = r.hctx
        /\ x.fin = r.fin /\ x.started = r.started /\ x.len = r.len /\ x.unread = r.unread
    BY DEF Connections
  <2>3. QED
    BY <2>1, <2>2 DEF Attended, AtBackend, Due
<1>5. QED
  BY <1>1, <1>2, <1>3, <1>4 DEF backend_send_request

LEMMA SubrequestAttended ==
    ASSUME NEW r \in Connections, AtBackend(r), NEW S, r.state \in S,
           r.state = "READ_POST" => "HANDLE_REQUEST" \in S,
           r.state \in Answering \cup {"WRITE"}, NEW o \in plugins_call_handle_subrequest(r)
    PROVE  Attended(o, S)
<1>1. \E p \in IF r.state = "READ_POST" \/ Due(r)
               THEN connection_handle_read_post_state(r)
               ELSE {Out(r, "GO_ON", 0)} :
         o \in IF p.ret = "GO_ON" THEN backend_send_request(p.con) ELSE {p}
  BY DEF plugins_call_handle_subrequest, AtBackend
<1>2. CASE ~(r.state = "READ_POST" \/ Due(r))
  <2>1. o \in backend_send_request(r)
    BY <1>1, <1>2 DEF Out
  <2>2. QED
    BY <2>1, SendRequestAttended
<1>3. CASE r.state = "READ_POST" \/ Due(r)
  <2>1. PICK p \in connection_handle_read_post_state(r) :
           o \in IF p.ret = "GO_ON" THEN backend_send_request(p.con) ELSE {p}
    BY <1>1, <1>3
  <2>2. Uploaded(r, p) /\ r.state # "HANDLE_REQUEST"
    BY <1>3, ReadPostUploaded DEF AtBackend
  <2>3. p.con \in Connections
    <3>1. Handled(r, p.con, 0, {"ERROR", "HANDLE_REQUEST"})
      BY ReadPostHandled, Zenon
    <3>2. QED
      BY <3>1, Zenon DEF Handled
  <2>4. CASE p.ret = "GO_ON"
    <3>1. /\ p.con.state \in S /\ p.con.state \in Answering \cup {"WRITE"}
          /\ p.con.state = "HANDLE_REQUEST" => ~Due(p.con)
          /\ p.con.state = "WRITE" => r.state = "WRITE"
          /\ p.con.hctx = r.hctx /\ p.con.bfd = r.bfd /\ p.con.started = r.started
          /\ p.con.fin = r.fin /\ p.con.mode = r.mode
      BY <2>2, <2>4 DEF Uploaded, Answering
    <3>2. AtBackend(p.con)
      BY <3>1 DEF AtBackend
    <3>3. QED
      BY <2>1, <2>3, <2>4, <3>1, <3>2, SendRequestAttended
  <2>5. CASE p.ret # "GO_ON"
    <3>1. o = p
      BY <2>1, <2>5
    <3>2. CASE p.ret = "ERROR"
      BY <3>1, <3>2 DEF Attended
    <3>3. CASE p.ret = "FINISHED"
      <4>1. /\ TempfileFails /\ p.con.mode = "direct" /\ p.con.status = "error" /\ p.con.state = r.state
            /\ p.con.started = r.started /\ p.con.fin = r.fin
        BY <2>2, <3>3 DEF Uploaded
      <4>2. QED
        BY <3>1, <3>3, <4>1 DEF Attended, AtBackend
    <3>4. CASE p.ret = "WAIT_FOR_EVENT"
      <4>1. /\ p.con.state = r.state /\ p.con.mode = r.mode /\ p.con.hctx = r.hctx /\ p.con.pollin
            /\ p.con.started = r.started /\ p.con.fin = r.fin /\ p.con.bfd = r.bfd
        BY <2>2, <3>4 DEF Uploaded
      <4>2. p.con.state \in {"READ_POST", "WRITE"}
        BY <2>2, <4>1 DEF Answering
      <4>3. QED
        BY <3>1, <3>4, <4>1, <4>2 DEF Attended, AtBackend
    <3>5. QED
      BY <2>2, <2>5, <3>2, <3>3, <3>4 DEF Uploaded
  <2>6. QED
    BY <2>4, <2>5
<1>4. QED
  BY <1>2, <1>3

(* http_response_prepare(): the request is answered, at least with a status, or it is in the hands
   of a backend module, which says what it waits for. *)
Prepared(o) ==
    \/ o.ret = "ERROR"
    \/ /\ o.ret = "FINISHED" /\ o.con.state \in Answering
       /\ o.con.fin \/ (o.con.mode = "direct" /\ o.con.status \in {"404", "error"})
       /\ o.con.mode = "direct" /\ o.con.status # "error" => Fit(o.con)
    \/ /\ o.ret \in {"WAIT_FOR_EVENT", "WAIT_FOR_FD", "COMEBACK"}
       /\ o.con.state \in Answering /\ AtBackend(o.con)
       /\ o.ret = "WAIT_FOR_EVENT" => o.con.bfd \/ (o.con.state = "READ_POST" /\ o.con.pollin)

LEMMA AttendedPrepared ==
    ASSUME NEW o, Attended(o, Answering)
    PROVE  Prepared(o)
BY DEF Attended, Prepared, Answering

LEMMA PrepareFit ==
    ASSUME NEW r \in Connections, Fit(r), r.state \in Answering, NEW o \in http_response_prepare(r)
    PROVE  Prepared(o)
<1>1. CASE r.mode = "direct" /\ ~Undecided(r)
  <2> DEFINE w == r.fin /\ r.wq
  <2>1. o.con = [r EXCEPT !.wq = w] /\ o.ret = "FINISHED"
    BY <1>1 DEF http_response_prepare, Out
  <2>2. r.status \in {"404", "error"}
    BY <1>1 DEF Undecided, Connections
  <2> HIDE DEF w
  <2>3. SameAnswer(r, o.con) /\ o.con.state = r.state /\ o.con.len = r.len /\ o.con.unread = r.unread
    BY <2>1 DEF SameAnswer, Connections
  <2>4. Fit(o.con)
    BY <2>3 DEF Fit, SameAnswer, Due
  <2>5. QED
    BY <1>1, <2>1, <2>2, <2>3, <2>4 DEF Prepared, SameAnswer
<1>2. CASE Undecided(r)
  <2>0. ~r.bfd /\ (r.started => r.fin) /\ r.mode = "direct"
    BY <1>2 DEF Fit, Undecided
  <2>1. CASE o = Out([r EXCEPT !.wq = TRUE, !.fin = TRUE, !.status = "ok"], "FINISHED", 0)
    <3>1. /\ o.con.state = r.state /\ o.con.mode = "direct" /\ o.con.fin /\ o.con.bfd = r.bfd
          /\ o.con.len = r.len /\ o.con.unread = r.unread /\ o.ret = "FINISHED"
      BY <2>0, <2>1 DEF Out, Connections
    <3>2. QED
      BY <2>0, <3>1 DEF Prepared, Fit, Due, Answering
  <2>2. CASE \E s \in {"404", "error"} : o = Out([r EXCEPT !.status = s], "FINISHED", 0)
    <3>1. PICK s \in {"404", "error"} : o = Out([r EXCEPT !.status = s], "FINISHED", 0)
      BY <2>2
    <3>2. /\ o.con.state = r.state /\ o.con.mode = "direct" /\ o.con.fin = r.fin /\ o.con.bfd = r.bfd
          /\ o.con.started = r.started /\ o.con.status = s
          /\ o.con.len = r.len /\ o.con.unread = r.unread /\ o.ret = "FINISHED"
      BY <2>0, <3>1 DEF Out, Connections
    <3>3. QED
      BY <2>0, <3>2 DEF Prepared, Fit, Due, Answering
  <2>3. CASE o = Out(r, "ERROR", 0)
    BY <2>3 DEF Prepared, Out
  <2>4. CASE o \in plugins_call_handle_subrequest([r EXCEPT !.mode = "backend", !.hctx = TRUE])
    <3> DEFINE y == [r EXCEPT !.mode = "backend", !.hctx = TRUE]
    <3>1. /\ y \in Connections /\ y.state = r.state /\ y.mode = "backend" /\ y.hctx
          /\ y.started = r.started /\ y.fin = r.fin /\ y.len = r.len /\ y.unread = r.unread
      BY DEF Connections
    <3> HIDE DEF y
    <3>2. AtBackend(y)
      BY <2>0, <3>1 DEF AtBackend, Fit, Due, Answering
    <3>3. Attended(o, Answering)
      BY <2>4, <3>1, <3>2, SubrequestAttended DEF Answering, y
    <3>4. QED
      BY <3>3, AttendedPrepared
  <2>5. QED
    <3>1. PICK h \in Handling :
             o \in CASE h = "file" -> {Out([r EXCEPT !.wq = TRUE, !.fin = TRUE, !.status = "ok"],
                                           "FINISHED", 0)}
                     [] h = "status"  -> {Out([r EXCEPT !.status = "error"], "FINISHED", 0)}
                     [] h = "404"     -> {Out([r EXCEPT !.status = "404"], "FINISHED", 0)}
                     [] h = "error"   -> {Out(r, "ERROR", 0)}
                     [] h = "backend" -> plugins_call_handle_subrequest(
                                            [r EXCEPT !.mode = "backend", !.hctx = TRUE])
      BY <1>2, ZenonT(40) DEF http_response_prepare, Undecided
    <3>2. h \in {"file", "status", "404", "backend", "error"}
      BY ChoiceAssumption
    <3>3. QED
      BY <2>1, <2>2, <2>3, <2>4, <3>1, <3>2
<1>3. CASE r.mode # "direct"
  <2>1. r.mode = "backend"
    BY <1>3 DEF Connections
  <2>2. PICK p \in plugins_call_handle_subrequest(r) :
           o = IF p.ret = "GO_ON" THEN Out(p.con, "FINISHED", 0) ELSE p
    BY <1>3 DEF http_response_prepare, Undecided
  <2>3. CASE ~r.hctx
    <3>1. r.fin
      BY <2>1, <2>3 DEF Fit, Answering
    <3>2. o = Out(r, "FINISHED", 0)
      BY <2>2, <2>3 DEF plugins_call_handle_subrequest, Out
    <3>3. QED
      BY <2>1, <3>1, <3>2 DEF Prepared, Out
  <2>4. CASE r.hctx
    <3>1. AtBackend(r)
      BY <2>1, <2>4 DEF AtBackend, Fit, Answering
    <3>2. Attended(p, Answering)
      BY <3>1, SubrequestAttended DEF Answering
    <3>3. o = p
      BY <2>2, <3>2 DEF Attended
    <3>4. QED
      BY <3>2, <3>3, AttendedPrepared
  <2>5. QED
    BY <2>3, <2>4
<1>4. QED
  BY <1>1, <1>2, <1>3

LEMMA StartFit ==
    ASSUME NEW r \in Connections,
           r.mode = "backend" /\ ~r.fin => r.hctx /\ r.bfd /\ r.started,
           r.mode = "direct" /\ ~r.fin => r.status \in {"404", "error"}
    PROVE  StartResponse(r).state = "RESPONSE_START" /\ Fit(StartResponse(r))
<1> DEFINE v == CASE r.mode = "direct" /\ r.eh = "new" -> "error"
                  [] r.status = "none" -> "ok"
                  [] OTHER -> r.status
           x == StartResponse(r)
<1>1. x = [r EXCEPT !.state = "RESPONSE_START", !.status = v]
  BY DEF StartResponse
<1>2. r.status \in {"404", "error"} => v \in {"404", "error"}
  BY Zenon
<1> HIDE DEF v
<1>3. /\ x.state = "RESPONSE_START" /\ x.mode = r.mode /\ x.fin = r.fin /\ x.hctx = r.hctx
      /\ x.bfd = r.bfd /\ x.started = r.started /\ x.status = v
  BY <1>1 DEF Connections
<1> HIDE DEF x
<1>4. Fit(x)
  BY <1>2, <1>3 DEF Fit, Answering
<1>5. QED
  BY <1>3, <1>4 DEF x

LEMMA RestartFit ==
    ASSUME NEW r \in Connections, r.state \in Answering, r.mode = "direct", CallErrorHandler(r),
           r.status # "error" => Fit(r),
           NEW e \in RestartForErrorHandler(r)
    PROVE  Fit(e.con) /\ e.con.state \in Answering /\ e.ret = "COMEBACK"
<1>1. CASE error_handler = "all"
  <2>1. PICK keep : e = Restarted(r, keep)
    BY <1>1 DEF RestartForErrorHandler
  <2> DEFINE x == [r EXCEPT !.hctx = FALSE, !.bfd = FALSE, !.tries = 0,
                            !.ka = keep, !.len = FALSE, !.wr = TRUE, !.fin = FALSE,
                            !.started = FALSE, !.eh = "new", !.wq = FALSE, !.status = "none"]
  <2>2. e.con = x /\ e.ret = "COMEBACK"
    BY <2>1 DEF Restarted, Out
  <2>3. x.state = r.state /\ x.mode = r.mode /\ ~x.bfd /\ ~x.started /\ ~x.len
    BY DEF Connections
  <2> HIDE DEF x
  <2>4. QED
    BY <2>2, <2>3 DEF Fit, Due, Answering
<1>2. CASE error_handler # "all"
  <2>1. r.status = "404"
    BY <1>2 DEF CallErrorHandler
  <2>2. e.con = [r EXCEPT !.eh = "old", !.wq = FALSE, !.status = "none"] /\ e.ret = "COMEBACK"
    BY <1>2 DEF RestartForErrorHandler, Out
  <2>3. /\ e.con.state = r.state /\ e.con.mode = r.mode /\ e.con.bfd = r.bfd /\ e.con.len = r.len
        /\ e.con.started = r.started /\ e.con.fin = r.fin /\ e.con.unread = r.unread
    BY <2>2 DEF Connections
  <2>4. Fit(r)
    BY <2>1
  <2>5. QED
    BY <2>1, <2>2, <2>3, <2>4 DEF Fit, Due, Answering
<1>3. QED
  BY <1>1, <1>2

LEMMA DecidedFit ==
    ASSUME NEW r \in Connections, Fit(r), r.state \in Answering,
           NEW p \in http_response_prepare(r), NEW o \in Decided(p)
    PROVE  /\ Fit(o.con)
           /\ o.con.state \in Answering \cup {"RESPONSE_START", "ERROR"}
           /\ o.con.state \in Answering =>
                \/ o.ret = "COMEBACK"
                \/ o.con.state = "READ_POST" /\ o.con.pollin
                \/ WaitsForBackend(o.con, o.ret = "WAIT_FOR_FD")
<1>1. Prepared(p)
  BY PrepareFit
<1>2. p.con \in Connections
  <2>1. Handled(r, p.con, p.dfd, {"ERROR", "HANDLE_REQUEST"})
    BY PrepareHandled, Zenon
  <2>2. QED
    BY <2>1, Zenon DEF Handled
<1>3. CASE ResponseReady(p) /\ CallErrorHandler(p.con)
  <2>0. p.ret # "ERROR"
    BY <1>3 DEF ResponseReady
  <2>1. PICK e \in RestartForErrorHandler(p.con) : o = Out(e.con, e.ret, e.dfd + p.dfd)
    BY <1>3, <2>0 DEF Decided
  <2>2. p.con.mode = "direct" /\ p.ret \in {"FINISHED", "WAIT_FOR_EVENT"}
    BY <1>3 DEF CallErrorHandler, ResponseReady
  <2>3. p.con.state \in Answering /\ (p.con.status # "error" => Fit(p.con))
    BY <1>1, <2>2 DEF Prepared, AtBackend
  <2>4. Fit(e.con) /\ e.con.state \in Answering /\ e.ret = "COMEBACK"
    BY <1>2, <1>3, <2>2, <2>3, RestartFit
  <2>5. QED
    BY <2>1, <2>4 DEF Out
<1>4. CASE ResponseReady(p) /\ ~CallErrorHandler(p.con)
  <2>0. p.ret # "ERROR"
    BY <1>4 DEF ResponseReady
  <2>1. o = Out(StartResponse(p.con), "FINISHED", p.dfd)
    BY <1>4, <2>0 DEF Decided
  <2>2. /\ p.con.mode = "backend" /\ ~p.con.fin => p.con.hctx /\ p.con.bfd /\ p.con.started
        /\ p.con.mode = "direct" /\ ~p.con.fin => p.con.status \in {"404", "error"}
    <3>1. CASE p.ret = "FINISHED"
      BY <1>1, <3>1 DEF Prepared
    <3>2. CASE p.ret # "FINISHED"
      BY <1>1, <1>4, <3>2 DEF Prepared, ResponseReady, AtBackend
    <3>3. QED
      BY <3>1, <3>2
  <2>3. StartResponse(p.con).state = "RESPONSE_START" /\ Fit(StartResponse(p.con))
    BY <1>2, <2>2, StartFit
  <2>4. o.con = StartResponse(p.con)
    BY <2>1 DEF Out
  <2>5. QED
    BY <2>3, <2>4 DEF Answering
<1>5. CASE ~ResponseReady(p) /\ p.ret = "ERROR"
  <2>1. o.con = [p.con EXCEPT !.state = "ERROR"]
    BY <1>5 DEF Decided, Out
  <2>2. o.con.state = "ERROR"
    BY <1>2, <2>1 DEF Connections
  <2>3. QED
    BY <2>2 DEF Fit, Answering
<1>6. CASE ~ResponseReady(p) /\ p.ret # "ERROR"
  <2>1. o = p
    BY <1>6 DEF Decided
  <2>2. p.ret \in {"WAIT_FOR_EVENT", "WAIT_FOR_FD", "COMEBACK"}
    BY <1>1, <1>6 DEF Prepared, ResponseReady
  <2>3. /\ p.con.state \in Answering /\ AtBackend(p.con)
        /\ p.ret = "WAIT_FOR_EVENT" => p.con.bfd \/ (p.con.state = "READ_POST" /\ p.con.pollin)
    BY <1>1, <2>2 DEF Prepared
  <2>4. Fit(p.con)
    BY <2>3 DEF Fit, AtBackend, Answering
  <2>5. QED
    BY <2>1, <2>2, <2>3, <2>4 DEF AtBackend, WaitsForBackend
<1>7. QED
  BY <1>3, <1>4, <1>5, <1>6

----------------------------------------------------------------------------
(* Writing the response *)

LEMMA WritePrepareFit ==
    ASSUME NEW r \in Connections, Fit(r), r.state = "RESPONSE_START",
           NEW x \in connection_handle_write_prepare(r)
    PROVE  Fit(x) /\ x.state = "WRITE"
<1> DEFINE errdoc == r.mode = "direct" /\ r.status \in {"404", "error"}
           full == [r EXCEPT !.fin = TRUE]
<1>a. PICK body, headeronly, close :
         /\ body = IF errdoc THEN full ELSE r
         /\ x = WritePrepared(body, headeronly, close)
  BY DEF connection_handle_write_prepare
<1>b. /\ full \in Connections /\ full.mode = r.mode /\ full.hctx = r.hctx /\ full.bfd = r.bfd
      /\ full.started = r.started /\ full.fin
  BY DEF Connections
<1> HIDE DEF full
<1>1. /\ body \in Connections /\ body.mode = r.mode /\ body.hctx = r.hctx /\ body.bfd = r.bfd
      /\ body.started = r.started /\ (r.fin => body.fin) /\ (errdoc => body.fin)
  BY <1>a, <1>b
<1>2. x = WritePrepared(body, headeronly, close)
  BY <1>a
<1> DEFINE f == body.fin \/ headeronly
           a == /\ body.ka
                /\ body.count <= max_keep_alive_requests
                /\ max_keep_alive_idle # 0
                /\ ~close
<1>3. x = [body EXCEPT !.state = "WRITE", !.wq = TRUE, !.fin = f, !.ka = a]
  BY <1>2 DEF WritePrepared
<1>4. body.fin => f
  OBVIOUS
<1> HIDE DEF f, a
<1>5. /\ x.state = "WRITE" /\ x.mode = body.mode /\ x.hctx = body.hctx /\ x.bfd = body.bfd
      /\ x.started = body.started /\ x.fin = f
  BY <1>1, <1>3 DEF Connections
<1>6. /\ x.mode = "direct" => x.fin
      /\ x.mode = "backend" /\ ~x.fin => x.started /\ x.hctx /\ x.bfd
  BY <1>1, <1>4, <1>5 DEF Fit, Answering
<1>7. QED
  BY <1>5, <1>6 DEF Fit, Answering

LEMMA WriteFit ==
    ASSUME NEW r \in Connections, Fit(r), r.state = "WRITE", NEW x \in connection_handle_write(r)
    PROVE  Fit(x) /\ x.state \in {"WRITE", "RESPONSE_END", "ERROR"}
<1>1. x \in Connections /\ x.state \in {"WRITE", "RESPONSE_END", "ERROR"}
  <2>1. Handled(r, x, 0, {"RESPONSE_END", "ERROR"})
    BY WriteHandled, Zenon
  <2>2. QED
    BY <2>1 DEF Handled
<1> DEFINE s == IF r.fin THEN "RESPONSE_END" ELSE r.state
<1>2. \/ x = [r EXCEPT !.wq = FALSE, !.wage = 0, !.state = s]
      \/ x = [r EXCEPT !.wage = 0, !.wr = FALSE]
      \/ x = [r EXCEPT !.wage = 0, !.wr = FALSE, !.tl = TRUE]
      \/ x = [r EXCEPT !.state = "ERROR"]
  BY ChoiceAssumption DEF connection_handle_write
<1> HIDE DEF s
<1>3. SameAnswer(r, x)
  <2>1. CASE x = [r EXCEPT !.wq = FALSE, !.wage = 0, !.state = s]
    BY <2>1 DEF SameAnswer, Connections
  <2>2. CASE x = [r EXCEPT !.wage = 0, !.wr = FALSE]
    BY <2>2 DEF SameAnswer, Connections
  <2>3. CASE x = [r EXCEPT !.wage = 0, !.wr = FALSE, !.tl = TRUE]
    BY <2>3 DEF SameAnswer, Connections
  <2>4. CASE x = [r EXCEPT !.state = "ERROR"]
    BY <2>4 DEF SameAnswer, Connections
  <2>5. QED
    BY <1>2, <2>1, <2>2, <2>3, <2>4
<1>4. QED
  BY <1>1, <1>3 DEF Fit, SameAnswer, Answering

LEMMA WrittenFit ==
    ASSUME NEW r \in Connections, Fit(r), r.state = "WRITE", NEW x \in Written(r)
    PROVE  x \in Connections /\ Fit(x) /\ x.state \in {"WRITE", "RESPONSE_END", "ERROR"}
<1>1. CASE x \in connection_handle_write(r)
  <2>1. Handled(r, x, 0, {"RESPONSE_END", "ERROR"})
    BY <1>1, WriteHandled, Zenon
  <2>2. x \in Connections
    BY <2>1, Zenon DEF Handled
  <2>3. QED
    BY <1>1, <2>2, WriteFit
<1>2. CASE x = [r EXCEPT !.state = "RESPONSE_END"]
  <2>1. x \in Connections /\ x.state = "RESPONSE_END"
    BY <1>2 DEF Connections, ConState
  <2>2. QED
    BY <2>1 DEF Fit, Answering
<1>3. CASE x = r
  BY <1>3
<1>4. QED
  BY <1>1, <1>2, <1>3 DEF Written

LEMMA AttendedWriteFit ==
    ASSUME NEW r \in Connections, Fit(r), r.state = "WRITE", r.mode = "backend", ~r.fin,
           NEW o \in plugins_call_handle_subrequest(r), o.con \in Connections,
           NEW x, x = IF o.ret \in {"COMEBACK", "ERROR"} THEN [o.con EXCEPT !.state = "ERROR"] ELSE o.con
    PROVE  Fit(x) /\ x.state \in {"WRITE", "ERROR"}
<1>1. AtBackend(r)
  BY DEF AtBackend, Fit
<1>2. Attended(o, {"WRITE"})
  BY <1>1, SubrequestAttended
<1>3. CASE o.ret \in {"COMEBACK", "ERROR"}
  <2>1. x.state = "ERROR"
    BY <1>3 DEF Connections
  <2>2. QED
    BY <2>1 DEF Fit, Answering
<1>4. CASE o.ret \notin {"COMEBACK", "ERROR"}
  BY <1>2, <1>4 DEF Attended, AtBackend, Fit, Answering
<1>5. QED
  BY <1>3, <1>4

----------------------------------------------------------------------------
(* The end of a request, events and timeouts *)

LEMMA QuietFit ==
    ASSUME NEW x, x.state \in {"CONNECT", "CLOSE", "RESPONSE_END", "ERROR"}
    PROVE  Fit(x)
BY DEF Fit, Answering

(* A handler that leaves alone what Fit speaks of. *)
LEMMA SameFit ==
    ASSUME NEW r, Fit(r), NEW x, SameAnswer(r, x), x.state = r.state, x.len = r.len, x.unread = r.unread
    PROVE  Fit(x)
BY DEF Fit, SameAnswer, Due

(* connection_reset() of a request that ended, or of an object that is handed out again. *)
LEMMA ResetFit ==
    ASSUME NEW r \in Connections, NEW x,
           \/ x = [connection_reset(r) EXCEPT !.state = "REQUEST_START"]
           \/ x = [connection_reset(r) EXCEPT !.fd = TRUE, !.state = "REQUEST_START"]
    PROVE  Fit(x) /\ x.state = "REQUEST_START"
<1> DEFINE y == connection_reset(r)
<1>1. y \in Connections
  BY ResetTyped
<1>2. y.mode = "direct" /\ ~y.started /\ ~y.bfd
  BY DEF connection_reset, Connections
<1> HIDE DEF y
<1>3. x = [y EXCEPT !.state = "REQUEST_START"] \/ x = [y EXCEPT !.fd = TRUE, !.state = "REQUEST_START"]
  BY DEF y
<1>4. x.mode = y.mode /\ x.started = y.started /\ x.bfd = y.bfd /\ x.state = "REQUEST_START"
  <2>1. CASE x = [y EXCEPT !.state = "REQUEST_START"]
    BY <1>1, <2>1 DEF Connections
  <2>2. CASE x = [y EXCEPT !.fd = TRUE, !.state = "REQUEST_START"]
    BY <1>1, <2>2 DEF Connections
  <2>3. QED
    BY <1>3, <2>1, <2>2
<1>5. QED
  BY <1>2, <1>4 DEF Fit, Answering

LEMMA ResponseEndFit ==
    ASSUME NEW r \in Connections, NEW x \in connection_handle_response_end_state(r)
    PROVE  Fit(x) /\ x.state \in {"REQUEST_START", "CLOSE", "CONNECT"}
<1> DEFINE y == [r EXCEPT !.ka = FALSE]
<1>1. y \in Connections
  BY DEF Connections
<1>2. \/ x = [connection_reset(r) EXCEPT !.state = "REQUEST_START"]
      \/ x \in connection_handle_shutdown(y)
  BY DEF connection_handle_response_end_state
<1> HIDE DEF y
<1> DEFINE z == connection_reset(y)
<1>3. z \in Connections
  BY <1>1, ResetTyped
<1>4. CASE x = [connection_reset(r) EXCEPT !.state = "REQUEST_START"]
  BY <1>4, ResetFit
<1>5. CASE x \in connection_handle_shutdown(y)
  <2>1. x = [z EXCEPT !.cage = 0, !.state = "CLOSE", !.unread = FALSE] \/ x = connection_close(z)
    BY <1>5 DEF connection_handle_shutdown
  <2> HIDE DEF z
  <2>2. x.state \in {"CLOSE", "CONNECT"}
    <3>1. CASE x = [z EXCEPT !.cage = 0, !.state = "CLOSE", !.unread = FALSE]
      BY <1>3, <3>1 DEF Connections
    <3>2. CASE x = connection_close(z)
      BY <1>3, <3>2, CloseTyped
    <3>3. QED
      BY <2>1, <3>1, <3>2
  <2>3. QED
    BY <2>2, QuietFit
<1>6. QED
  BY <1>2, <1>4, <1>5

LEMMA CloseFit ==
    ASSUME NEW r \in Connections, r.state = "CLOSE", NEW x \in connection_handle_close_state(r)
    PROVE  Fit(x) /\ x.state \in {"CLOSE", "CONNECT"}
<1>1. PICK y \in Drain(r) : x = y \/ x = connection_close(y)
  BY DEF connection_handle_close_state
<1>2. y \in Connections /\ y.state = "CLOSE"
  BY DrainTyped
<1>3. x.state \in {"CLOSE", "CONNECT"}
  BY <1>1, <1>2, CloseTyped
<1>4. QED
  BY <1>3, QuietFit

LEMMA ReventsFit ==
    ASSUME NEW r \in Connections, Fit(r), NEW revents
    PROVE  LET y == AfterRevents(r, revents)
           IN  y \in Connections /\ Fit(y) /\ y.state \in {r.state, "ERROR"} /\ y.unread = r.unread
<1> DEFINE i == r.rd \/ "IN" \in revents
           o == r.wr \/ "OUT" \in revents
           x == [r EXCEPT !.rd = i, !.wr = o]
           y == AfterRevents(r, revents)
<1>1. y \in Connections /\ y.unread = r.unread /\ y.len = r.len /\ y.state \in {r.state, "ERROR"}
  BY ReventsGood
<1>2. x \in Connections /\ SameAnswer(r, x)
  <2>1. i \in BOOLEAN /\ o \in BOOLEAN
    BY DEF Connections
  <2> HIDE DEF i, o
  <2>2. QED
    BY <2>1, ZenonT(40) DEF SameAnswer, Connections
<1>3. \/ y = [x EXCEPT !.cage = HTTP_LINGER_TIMEOUT + 1]
      \/ y = [x EXCEPT !.state = "ERROR"]
      \/ y = x
  BY DEF AfterRevents
<1> HIDE DEF x, y
<1>4. SameAnswer(x, y)
  <2>1. CASE y = [x EXCEPT !.cage = HTTP_LINGER_TIMEOUT + 1]
    BY <1>2, <2>1 DEF SameAnswer, Connections
  <2>2. CASE y = [x EXCEPT !.state = "ERROR"]
    BY <1>2, <2>2 DEF SameAnswer, Connections
  <2>3. CASE y = x
    BY <2>3 DEF SameAnswer
  <2>4. QED
    BY <1>3, <2>1, <2>2, <2>3
<1>5. SameAnswer(r, y)
  BY <1>2, <1>4 DEF SameAnswer
<1>6. Fit(y)
  BY <1>1, <1>5, SameFit, QuietFit
<1>7. QED
  BY <1>1, <1>6 DEF y

LEMMA FdeventFit ==
    ASSUME NEW r \in Connections, Fit(r), Clean(r), r.state # "RESPONSE_START", NEW revents,
           NEW x \in connection_handle_fdevent(r, revents)
    PROVE  Fit(x) /\ x.state # "RESPONSE_START"
<1> DEFINE y == AfterRevents(r, revents)
<1>1. y \in Connections /\ Fit(y) /\ y.state \in {r.state, "ERROR"} /\ y.unread = r.unread
  BY ReventsFit
<1>2. \/ y.state = "READ" /\ x \in connection_handle_read_state(y)
      \/ y.state = "WRITE" /\ x \in connection_handle_write(y)
      \/ y.state = "CLOSE" /\ x \in Drain(y)
      \/ x = y
  BY DEF connection_handle_fdevent
<1> HIDE DEF y
<1>3. CASE y.state = "READ" /\ x \in connection_handle_read_state(y)
  <2>1. ~y.unread
    BY <1>1, <1>3 DEF Clean
  <2>2. QED
    BY <1>1, <1>3, <2>1, ReadStateFit
<1>4. CASE y.state = "WRITE" /\ x \in connection_handle_write(y)
  BY <1>1, <1>4, WriteFit
<1>5. CASE y.state = "CLOSE" /\ x \in Drain(y)
  BY <1>1, <1>5, DrainTyped, QuietFit
<1>6. CASE x = y
  BY <1>1, <1>6
<1>7. QED
  BY <1>2, <1>3, <1>4, <1>5, <1>6

(* A backend that goes away leaves an error, a response that is ended, or one that was given up. *)
LEMMA BackendCloseFit ==
    ASSUME NEW r \in Connections, r.state \in Answering \cup {"WRITE"},
           r.state = "HANDLE_REQUEST" => ~Due(r),
           r.mode = "direct" => r.fin \/ (r.state = "WRITE" /\ TempfileFails /\ r.started),
           NEW x \in backend_connection_close(r)
    PROVE  Fit(x) /\ Fit([x EXCEPT !.status = "error"])
<1>1. x \in Connections
  BY BackendCloseHandled, Zenon DEF Handled
<1>2. x.len = r.len /\ x.unread = r.unread
  BY BackendCloseCalm DEF Calm
<1>3. /\ x.state = r.state /\ x.bfd = FALSE
      /\ \/ x.fin
         \/ x.mode = "direct" /\ ~x.started /\ x.state # "WRITE"
         \/ x.mode = "direct" /\ x.started /\ x.state = "WRITE" /\ TempfileFails
  <2>1. r.mode \in {"direct", "backend"}
    BY DEF Connections
  <2>2. QED
    BY <2>1, BackendCloseEnds
<1>4. ASSUME NEW y, y.state = x.state, y.bfd = x.bfd, y.fin = x.fin, y.mode = x.mode,
             y.started = x.started, y.len = x.len, y.unread = x.unread
      PROVE  Fit(y)
  BY <1>2, <1>3, <1>4 DEF Fit, Due, Answering
<1> DEFINE z == [x EXCEPT !.status = "error"]
<1>5. /\ z.state = x.state /\ z.bfd = x.bfd /\ z.fin = x.fin /\ z.mode = x.mode
      /\ z.started = x.started /\ z.len = x.len /\ z.unread = x.unread
  BY <1>1 DEF Connections
<1> HIDE DEF z
<1>6. Fit(x) /\ Fit(z)
  BY <1>4, <1>5
<1>7. QED
  BY <1>6 DEF z

LEMMA BackendEventFit ==
    ASSUME NEW r \in Connections, Fit(r), Sound(r), r.bfd, r.state # "RESPONSE_START",
           NEW o \in backend_handle_fdevent(r)
    PROVE  Fit(o.con) /\ o.con.state = r.state
<1>0. o.con.state = r.state
  BY BackendEventCalm
<1>1. r.state \in Answering \cup {"WRITE", "RESPONSE_END", "ERROR"}
  <2>1. r.state \in ConState /\ r.state \notin {"CONNECT", "CLOSE"}
    BY ConnectionFields DEF Sound
  <2>2. r.state \notin {"REQUEST_START", "READ", "REQUEST_END"}
    BY DEF Fit
  <2>3. QED
    BY <2>1, <2>2 DEF ConState, Answering
<1>2. CASE r.state \in {"RESPONSE_END", "ERROR"}
  BY <1>0, <1>2, QuietFit
<1>3. CASE r.state \in Answering \cup {"WRITE"}
  <2> DEFINE more == [r EXCEPT !.started = TRUE, !.wq = TRUE]
             err == http_response_backend_error(r)
  <2>1. /\ r.state = "HANDLE_REQUEST" => ~Due(r)
        /\ r.mode = "direct" => r.state = "WRITE" /\ (r.fin \/ (TempfileFails /\ r.started))
        /\ r.mode = "backend" /\ ~r.fin => r.hctx /\ (r.state = "WRITE" => r.started)
    BY <1>3 DEF Fit, Answering
  <2>2. /\ more \in Connections /\ more.state = r.state /\ more.len = r.len /\ more.unread = r.unread
        /\ more.mode = r.mode /\ more.fin = r.fin /\ more.started /\ more.hctx = r.hctx /\ more.bfd
    BY DEF Connections
  <2>3. /\ err \in Connections /\ err.state = r.state /\ err.len = r.len /\ err.unread = r.unread
        /\ err.mode = "direct" => err.fin \/ (err.state = "WRITE" /\ TempfileFails /\ err.started)
    <3>1. CASE r.started
      <4>1. err = [r EXCEPT !.mode = "direct", !.ka = FALSE, !.fin = TRUE]
        BY <3>1 DEF http_response_backend_error
      <4> HIDE DEF err, more
      <4>2. err \in Connections
        BY <4>1, ZenonT(40) DEF Connections
      <4>3. /\ err.state = r.state /\ err.len = r.len /\ err.unread = r.unread /\ err.fin
        BY <4>1 DEF Connections
      <4>4. QED
        BY <4>2, <4>3
    <3>2. CASE ~r.started
      <4>1. err = r
        BY <3>2 DEF http_response_backend_error
      <4> HIDE DEF err
      <4>2. QED
        BY <2>1, <4>1
    <3>3. QED
      BY <3>1, <3>2
  <2>4. \/ o.con = r \/ o.con = more
        \/ \E y \in {r, more, err} : o.con \in backend_connection_close(y)
        \/ o \in backend_send_request(r)
    <3>1. \/ o = Out(r, "GO_ON", 0) \/ o = Out(more, "GO_ON", 0)
          \/ \E x \in backend_connection_close(more) \cup backend_connection_close(r)
                      \cup backend_connection_close(err) : o = Out(x, "FINISHED", -Fds(r.bfd))
          \/ o \in backend_send_request(r)
      BY Zenon DEF backend_handle_fdevent
    <3> HIDE DEF more, err
    <3>2. ASSUME NEW x \in backend_connection_close(more) \cup backend_connection_close(r)
                           \cup backend_connection_close(err),
                 o = Out(x, "FINISHED", -Fds(r.bfd))
          PROVE  \E y \in {r, more, err} : o.con \in backend_connection_close(y)
      <4>1. o.con = x
        BY <3>2 DEF Out
      <4>2. QED
        BY <4>1
    <3>3. o = Out(r, "GO_ON", 0) \/ o = Out(more, "GO_ON", 0) => o.con = r \/ o.con = more
      BY DEF Out
    <3>4. QED
      BY <3>1, <3>2, <3>3
  <2> HIDE DEF more, err
  <2>5. Fit(more)
    BY <1>3, <2>1, <2>2 DEF Fit, Due, Answering
  <2>6. ASSUME NEW y \in {r, more, err}, NEW x \in backend_connection_close(y)
        PROVE  Fit(x) /\ Fit([x EXCEPT !.status = "error"])
    <3>1. /\ y \in Connections /\ y.state = r.state /\ (y.state = "HANDLE_REQUEST" => ~Due(y))
          /\ y.mode = "direct" => y.fin \/ (y.state = "WRITE" /\ TempfileFails /\ y.started)
      BY <2>1, <2>2, <2>3 DEF Due
    <3>2. QED
      BY <1>3, <3>1, BackendCloseFit
  <2>7. ASSUME o \in backend_send_request(r) PROVE Fit(o.con)
    <3>1. \/ o = Out(r, "WAIT_FOR_EVENT", 0)
          \/ \E x \in backend_connection_close(r) :
                o = Out([x EXCEPT !.status = "error"], "FINISHED", -Fds(r.bfd))
          \/ o \in backend_reconnect(r)
      BY <2>7 DEF backend_send_request
    <3>2. CASE o = Out(r, "WAIT_FOR_EVENT", 0)
      BY <3>2 DEF Out
    <3>3. CASE \E x \in backend_connection_close(r) :
                o = Out([x EXCEPT !.status = "error"], "FINISHED", -Fds(r.bfd))
      BY <2>6, <3>3 DEF Out
    <3>4. CASE o \in backend_reconnect(r)
      <4> DEFINE t == r.tries + 1
                 x == [r EXCEPT !.bfd = FALSE, !.tries = t]
      <4>0. ~r.started /\ o = Out(x, "COMEBACK", -Fds(r.bfd))
        BY <3>4 DEF backend_reconnect
      <4>1. ~r.started /\ o.con = x
        BY <4>0 DEF Out
      <4> HIDE DEF t
      <4>2. /\ x.state = r.state /\ x.mode = r.mode /\ x.hctx = r.hctx /\ x.bfd = FALSE
            /\ x.fin = r.fin /\ x.started = r.started /\ x.len = r.len /\ x.unread = r.unread
        BY DEF Connections
      <4> HIDE DEF x
      <4>3. Fit(x)
        BY <1>3, <2>1, <4>1, <4>2 DEF Fit, Due, Answering
      <4>4. QED
        BY <4>1, <4>3
    <3>5. QED
      BY <3>1, <3>2, <3>3, <3>4
  <2>8. QED
    BY <1>0, <2>4, <2>5, <2>6, <2>7
<1>4. QED
  BY <1>1, <1>2, <1>3

LEMMA TimedOutFit ==
    ASSUME NEW r \in Connections, Fit(r), NEW limited
    PROVE  Fit([TimedOut(r) EXCEPT !.tl = limited])
<1> DEFINE t == TimedOut(r)
           x == [t EXCEPT !.tl = limited]
<1>1. t = [r EXCEPT !.state = "ERROR"] \/ t = r
  BY DEF TimedOut
<1> HIDE DEF t
<1>2. CASE t = [r EXCEPT !.state = "ERROR"]
  <2>1. x.state = "ERROR"
    BY <1>2 DEF Connections
  <2> HIDE DEF x
  <2>2. Fit(x)
    BY <2>1, QuietFit
  <2>3. QED
    BY <2>2 DEF x, t
<1>3. CASE t = r
  <2>1. SameAnswer(r, x) /\ x.state = r.state /\ x.len = r.len /\ x.unread = r.unread
    BY <1>3 DEF SameAnswer, Connections
  <2> HIDE DEF x
  <2>2. Fit(x)
    BY <2>1, SameFit
  <2>3. QED
    BY <2>2 DEF x, t
<1>4. QED
  BY <1>1, <1>2, <1>3

LEMMA AgedFit ==
    ASSUME NEW r \in Connections, Fit(r)
    PROVE  /\ Fit(Aged(r)) /\ Aged(r).state = r.state
           /\ \A q : Settled(r, q) => Settled(Aged(r), q)
<1> DEFINE a == IF "IN" \in r.ev
                THEN Older(r.rage, Bigger(max_read_idle, max_keep_alive_idle)) ELSE r.rage
           w == IF r.wage = -1 THEN r.wage ELSE Older(r.wage, max_write_idle)
           c == IF r.state = "CLOSE" THEN Older(r.cage, HTTP_LINGER_TIMEOUT) ELSE r.cage
           x == Aged(r)
<1>1. x = [r EXCEPT !.rage = a, !.wage = w, !.cage = c]
  BY DEF Aged
<1> HIDE DEF a, w, c
<1>2. /\ SameAnswer(r, x) /\ x.state = r.state /\ x.len = r.len /\ x.unread = r.unread
      /\ x.ev = r.ev /\ x.rq = r.rq /\ x.wq = r.wq /\ x.tl = r.tl
  BY <1>1 DEF SameAnswer, Connections
<1> HIDE DEF x
<1>3. Fit(x)
  BY <1>2, SameFit
<1>4. ASSUME NEW q, Settled(r, q) PROVE Settled(x, q)
  BY <1>2, <1>4 DEF Settled, SameAnswer, WaitsForBackend, GivenUp
<1>5. QED
  BY <1>2, <1>3, <1>4 DEF x

----------------------------------------------------------------------------
(* Where connection_state_machine() leaves a connection. *)
Rest(r, queued) ==
    /\ r.state = "READ" => r.rq # "full"
    /\ r.state = "WRITE" => IF r.wq THEN ~r.wr ELSE ~r.fin
    /\ r.state \in Answering =>
           (r.state = "READ_POST" /\ r.pollin) \/ WaitsForBackend(r, queued)

(* The interest that is asked for there covers what the connection waits for. *)
LEMMA InterestSettles ==
    ASSUME NEW r \in Connections, Sound(r), Fit(r), NEW queued, Rest(r, queued)
    PROVE  Fit(UpdateInterest(r)) /\ Settled(UpdateInterest(r), queued)
<1> DEFINE e == Interest(r)
           p == r.polled \/ e # r.ev
           a == IF "IN" \in e \ r.ev THEN 0 ELSE r.rage
           w == IF "OUT" \in e \ r.ev THEN 0 ELSE r.wage
           x == UpdateInterest(r)
<1>1. CASE ~r.fd
  <2>1. x = r /\ r.state = "CONNECT"
    BY <1>1 DEF UpdateInterest, Sound
  <2>2. QED
    BY <2>1 DEF Settled
<1>2. CASE r.fd
  <2>1. x = [r EXCEPT !.ev = e, !.polled = p, !.rage = a, !.wage = w]
    BY <1>2 DEF UpdateInterest
  <2>2. /\ r.state \in {"READ", "CLOSE"} => "IN" \in e
        /\ r.state = "WRITE" /\ r.wq /\ ~r.wr => "OUT" \in e \/ r.tl
        /\ r.state = "READ_POST" /\ r.pollin => "IN" \in e
    BY DEF Interest
  <2> HIDE DEF e, p, a, w
  <2>3. /\ SameAnswer(r, x) /\ x.state = r.state /\ x.len = r.len /\ x.unread = r.unread
        /\ x.ev = e /\ x.rq = r.rq /\ x.wq = r.wq /\ x.tl = r.tl
    BY <2>1 DEF SameAnswer, Connections
  <2> HIDE DEF x
  <2>4. Fit(x)
    BY <2>3, SameFit
  <2>5. Settled(x, queued)
    <3>1. CASE r.state = "WRITE"
      <4>1. r.mode \in {"direct", "backend"}
        BY DEF Connections
      <4>2. CASE r.wq
        BY <2>2, <2>3, <3>1, <4>2 DEF Settled, Rest
      <4>3. CASE ~r.wq
        <5>1. ~r.fin /\ (WaitsForBackend(r, queued) \/ GivenUp(r))
          BY <3>1, <4>1, <4>3 DEF Rest, Fit, WaitsForBackend, GivenUp, Answering
        <5>2. QED
          BY <2>3, <3>1, <4>3, <5>1 DEF Settled, SameAnswer, WaitsForBackend, GivenUp
      <4>4. QED
        BY <4>2, <4>3
    <3>2. CASE r.state # "WRITE"
      BY <2>2, <2>3, <3>2 DEF Settled, Rest, SameAnswer, WaitsForBackend, Answering
    <3>3. QED
      BY <3>1, <3>2
  <2>6. QED
    BY <2>4, <2>5 DEF x
<1>3. QED
  BY <1>1, <1>2

----------------------------------------------------------------------------
(* Nobody is forgotten: a connection is on the joblist, or in the state machine, or waits for what
   will be noticed. *)
WakeOf(c) ==
    /\ Fit(con[c])
    /\ con[c].state = "RESPONSE_START" => pc = "sm" /\ cur = c
    /\ pc = "smexit" /\ cur = c => Rest(con[c], Queued(c))
    /\ Listed(c) \/ (InMachine /\ cur = c) \/ Settled(con[c], Queued(c))

WakeInv == JobsTaken /\ \A c \in Con : WakeOf(c)

LEMMA SettledMore ==
    ASSUME NEW r, NEW q \in BOOLEAN, NEW p \in BOOLEAN, q => p, Settled(r, q)
    PROVE  Settled(r, p)
<1>1. WaitsForBackend(r, q) => WaitsForBackend(r, p)
  BY DEF WaitsForBackend
<1>2. QED
  BY <1>1 DEF Settled

(* A step of another connection. *)
LEMMA OtherWakes ==
    ASSUME NEW d \in Con, WakeOf(d), con'[d] = con[d],
           InMachine => cur # d, pc' = "smexit" => cur' # d,
           Listed(d) => Listed(d)' \/ (InMachine' /\ cur' = d),
           Queued(d) => Queued(d)' \/ (InMachine' /\ cur' = d)
    PROVE  WakeOf(d)'
<1>1. con[d].state # "RESPONSE_START"
  BY DEF WakeOf, InMachine
<1>2. Listed(d) \/ Settled(con[d], Queued(d))
  BY DEF WakeOf
<1>3. CASE InMachine' /\ cur' = d
  BY <1>1, <1>3 DEF WakeOf
<1>4. CASE ~(InMachine' /\ cur' = d)
  <2>1. Queued(d) \in BOOLEAN /\ Queued(d)' \in BOOLEAN
    BY DEF Queued
  <2>2. Settled(con[d], Queued(d)) => Settled(con[d], Queued(d)')
    BY <1>4, <2>1, SettledMore
  <2>3. Listed(d)' \/ Settled(con[d], Queued(d)')
    BY <1>2, <1>4, <2>2
  <2>4. QED
    BY <1>1, <2>3 DEF WakeOf
<1>5. QED
  BY <1>3, <1>4

LEMMA RoundWakes ==
    ASSUME Parts, WakeInv, pc = "sm", NEW x, NEW a, Round(x, a), Fit(x),
           x.state = "RESPONSE_START" => x.state # con[cur].state,
           ~a /\ x.state = con[cur].state => Rest(x, Queued(cur)'),
           fdwaitqueue' = fdwaitqueue \/ fdwaitqueue' = Append(fdwaitqueue, cur)
    PROVE  WakeInv'
<1>1. con' = [con EXCEPT ![cur] = x] /\ UNCHANGED <<cur, back, joblist>>
      /\ pc' = (IF a \/ x.state # con[cur].state THEN "sm" ELSE "smexit")
  BY DEF Round
<1>2. con \in [Con -> Connections] /\ cur \in Con /\ fdwaitqueue \in Seq(Con)
  BY DEF Parts, ConInv, LoopTyped
<1>3. InMachine /\ InMachine'
  BY <1>1 DEF InMachine
<1>4. JobsTaken'
  BY <1>1, <1>3 DEF JobsTaken, WakeInv
<1>5. con'[cur] = x /\ WakeOf(cur)'
  <2>1. con'[cur] = x
    BY <1>1, <1>2
  <2>2. QED
    BY <1>1, <1>3, <2>1 DEF WakeOf
<1>6. ASSUME NEW d \in Con, d # cur PROVE WakeOf(d)'
  <2>1. con'[d] = con[d] /\ cur' # d /\ (Listed(d) => Listed(d)')
    BY <1>1, <1>2, <1>6 DEF Listed
  <2>2. Queued(d) => Queued(d)'
    <3>1. Queued(d) <=> Occurs(d, fdwaitqueue)
      BY DEF Queued, Occurs
    <3>2. Queued(d)' <=> Occurs(d, fdwaitqueue')
      BY DEF Queued, Occurs
    <3>3. QED
      BY <1>2, <3>1, <3>2, AppendOccurs
  <2>3. WakeOf(d)
    BY DEF WakeInv
  <2>4. QED
    BY <1>1, <1>6, <2>1, <2>2, <2>3, OtherWakes
<1>7. QED
  BY <1>1, <1>4, <1>5, <1>6 DEF WakeInv

LEMMA HandleRequestWakes == ASSUME Parts, ExchangeInv, WakeInv, SmHandleRequest PROVE WakeInv'
<1> DEFINE r == con[cur]
<1>1. pc = "sm" /\ r.state \in Answering /\ r \in Connections /\ Fit(r) /\ cur \in Con
  BY CurOfParts DEF SmHandleRequest, Running, WakeInv, WakeOf, Answering
<1>2. PICK o \in UNION {Decided(p) : p \in http_response_prepare(r)} :
        /\ Round(o.con, o.ret = "COMEBACK")
        /\ IF o.ret = "WAIT_FOR_FD" THEN fdwaitqueue_append ELSE UNCHANGED <<want_fds, fdwaitqueue>>
  BY DEF SmHandleRequest
<1>a. PICK p \in http_response_prepare(r) : o \in Decided(p)
  OBVIOUS
<1> HIDE DEF r
<1>3. /\ Fit(o.con)
      /\ o.con.state \in Answering \cup {"RESPONSE_START", "ERROR"}
      /\ o.con.state \in Answering =>
           \/ o.ret = "COMEBACK"
           \/ o.con.state = "READ_POST" /\ o.con.pollin
           \/ WaitsForBackend(o.con, o.ret = "WAIT_FOR_FD")
  BY <1>1, <1>a, DecidedFit
<1>4. fdwaitqueue' = (IF o.ret = "WAIT_FOR_FD" THEN Append(fdwaitqueue, cur) ELSE fdwaitqueue)
  BY <1>2 DEF fdwaitqueue_append
<1>5. o.ret = "WAIT_FOR_FD" => Queued(cur)'
  <2>1. Queued(cur)' <=> Occurs(cur, fdwaitqueue')
    BY <1>2 DEF Round, Queued, Occurs
  <2>2. fdwaitqueue \in Seq(Con)
    BY DEF Parts, LoopTyped
  <2>3. QED
    BY <1>1, <1>4, <2>1, <2>2, AppendOccurs
<1>6. o.ret # "COMEBACK" => Rest(o.con, Queued(cur)')
  BY <1>3, <1>5 DEF Rest, WaitsForBackend, Answering
<1>7. QED
  BY <1>1, <1>2, <1>3, <1>4, <1>6, RoundWakes DEF r, Answering

LEMMA WriteWakes == ASSUME Parts, WakeInv, SmWrite PROVE WakeInv'
<1>0. pc = "sm" /\ cur \in Con /\ con[cur].state = "WRITE" /\ con[cur] \in Connections /\ Fit(con[cur])
  BY CurOfParts DEF SmWrite, Running, WakeInv, WakeOf
<1>1. PICK r \in Written(con[cur]) :
        IF r.state = "WRITE" /\ r.mode = "backend" /\ ~r.fin
        THEN \E o \in plugins_call_handle_subrequest(r) :
                LET x == IF o.ret \in {"COMEBACK", "ERROR"}
                         THEN [o.con EXCEPT !.state = "ERROR"] ELSE o.con
                IN  /\ cur_fds' = cur_fds + o.dfd
                    /\ Round(x, WriteAgain(x))
                    /\ IF o.ret = "WAIT_FOR_FD"
                       THEN fdwaitqueue_append
                       ELSE UNCHANGED <<want_fds, fdwaitqueue>>
        ELSE /\ Round(r, WriteAgain(r))
             /\ UNCHANGED <<cur_fds, want_fds, fdwaitqueue>>
  BY DEF SmWrite
<1>2. r \in Connections /\ Fit(r) /\ r.state \in {"WRITE", "RESPONSE_END", "ERROR"}
  BY <1>0, WrittenFit
<1>3. PICK x : /\ Fit(x) /\ x.state \in {"WRITE", "RESPONSE_END", "ERROR"}
               /\ Round(x, WriteAgain(x))
               /\ fdwaitqueue' = fdwaitqueue \/ fdwaitqueue' = Append(fdwaitqueue, cur)
  <2>1. CASE ~(r.state = "WRITE" /\ r.mode = "backend" /\ ~r.fin)
    BY <1>1, <1>2, <2>1
  <2>2. CASE r.state = "WRITE" /\ r.mode = "backend" /\ ~r.fin
    <3>a. PICK o \in plugins_call_handle_subrequest(r) :
             \E x : /\ x = IF o.ret \in {"COMEBACK", "ERROR"} THEN [o.con EXCEPT !.state = "ERROR"] ELSE o.con
                    /\ Round(x, WriteAgain(x))
                    /\ IF o.ret = "WAIT_FOR_FD" THEN fdwaitqueue_append ELSE UNCHANGED <<want_fds, fdwaitqueue>>
      BY <1>1, <2>2
    <3>1. PICK x :
             /\ x = IF o.ret \in {"COMEBACK", "ERROR"} THEN [o.con EXCEPT !.state = "ERROR"] ELSE o.con
             /\ Round(x, WriteAgain(x))
             /\ IF o.ret = "WAIT_FOR_FD" THEN fdwaitqueue_append ELSE UNCHANGED <<want_fds, fdwaitqueue>>
      BY <3>a
    <3>2. Handled(r, o.con, o.dfd, {"ERROR", "HANDLE_REQUEST"})
      BY <1>2, SubrequestHandled
    <3>3. o.con \in Connections
      BY <3>2, Zenon DEF Handled
    <3>4. Fit(x) /\ x.state \in {"WRITE", "ERROR"}
      BY <1>2, <2>2, <3>1, <3>3, AttendedWriteFit
    <3>5. fdwaitqueue' = fdwaitqueue \/ fdwaitqueue' = Append(fdwaitqueue, cur)
      BY <3>1 DEF fdwaitqueue_append
    <3>6. QED
      BY <3>1, <3>4, <3>5
  <2>3. QED
    BY <2>1, <2>2
<1>4. ~WriteAgain(x) => Rest(x, Queued(cur)')
  BY <1>3 DEF WriteAgain, Rest, Answering
<1>5. QED
  BY <1>0, <1>3, <1>4, RoundWakes

LEMMA MachineWakes ==
    ASSUME Parts, ExchangeInv, WakeInv, StateMachine, ~SmExit
    PROVE  WakeInv'
<1>0. cur \in Con /\ con[cur] \in Connections /\ Sound(con[cur]) /\ Clean(con[cur]) /\ Fit(con[cur])
  BY CurOfParts DEF ExchangeInv, WakeInv, WakeOf
<1> DEFINE r == con[cur]
<1>1. CASE SmRequestStart
  <2> DEFINE n == r.count + 1
             x == [r EXCEPT !.rage = 0, !.count = n, !.state = "READ"]
  <2>1. pc = "sm" /\ r.state = "REQUEST_START" /\ Round(x, FALSE) /\ fdwaitqueue' = fdwaitqueue
    BY <1>1 DEF SmRequestStart, Running
  <2> HIDE DEF n
  <2>2. x.state = "READ" /\ x.mode = r.mode /\ x.started = r.started /\ x.bfd = r.bfd
    BY <1>0 DEF Connections
  <2> HIDE DEF x
  <2>3. Fit(x)
    BY <1>0, <2>1, <2>2 DEF Fit, Answering
  <2>4. QED
    BY <2>1, <2>2, <2>3, RoundWakes
<1>2. CASE SmRead
  <2>1. PICK x \in connection_handle_read_state(r) : Round(x, FALSE)
    BY <1>2 DEF SmRead
  <2>2. pc = "sm" /\ r.state = "READ" /\ fdwaitqueue' = fdwaitqueue /\ ~r.unread
    BY <1>0, <1>2 DEF SmRead, Running, Clean
  <2>3. Fit(x) /\ x.state # "RESPONSE_START" /\ (x.state = "READ" => x.rq # "full")
    BY <1>0, <2>1, <2>2, ReadStateFit
  <2>4. x.state = r.state => Rest(x, Queued(cur)')
    BY <2>2, <2>3 DEF Rest, Answering
  <2>5. QED
    BY <2>1, <2>2, <2>3, <2>4, RoundWakes
<1>3. CASE SmRequestEnd
  <2>1. PICK x \in http_request_parse(r) : Round(x, FALSE)
    BY <1>3 DEF SmRequestEnd
  <2>2. pc = "sm" /\ r.state = "REQUEST_END" /\ fdwaitqueue' = fdwaitqueue /\ ~r.unread
    BY <1>0, <1>3 DEF SmRequestEnd, Running, Clean
  <2>3. Fit(x) /\ x.state \in Answering
    BY <1>0, <2>1, <2>2, ParseFit, ParseTyped DEF Answering
  <2>4. QED
    BY <2>1, <2>2, <2>3, RoundWakes DEF Answering
<1>4. CASE SmResponseStart
  <2>1. PICK x \in connection_handle_write_prepare(r) : Round(x, FALSE)
    BY <1>4 DEF SmResponseStart
  <2>2. pc = "sm" /\ r.state = "RESPONSE_START" /\ fdwaitqueue' = fdwaitqueue
    BY <1>4 DEF SmResponseStart, Running
  <2>3. Fit(x) /\ x.state = "WRITE"
    BY <1>0, <2>1, <2>2, WritePrepareFit
  <2>4. QED
    BY <2>1, <2>2, <2>3, RoundWakes
<1>5. CASE SmResponseEnd
  <2>1. PICK x \in connection_handle_response_end_state(r) : EndWith(x)
    BY <1>5 DEF SmResponseEnd
  <2>2. pc = "sm" /\ r.state \in {"RESPONSE_END", "ERROR"} /\ fdwaitqueue' = fdwaitqueue /\ Round(x, FALSE)
    BY <1>5, <2>1 DEF SmResponseEnd, Running, EndWith
  <2>3. Fit(x) /\ x.state \in {"REQUEST_START", "CLOSE", "CONNECT"}
    BY <1>0, <2>1, ResponseEndFit
  <2>4. QED
    BY <2>2, <2>3, RoundWakes
<1>6. CASE SmClose
  <2>1. PICK x \in connection_handle_close_state(r) : EndWith(x)
    BY <1>6 DEF SmClose
  <2>2. pc = "sm" /\ r.state = "CLOSE" /\ fdwaitqueue' = fdwaitqueue /\ Round(x, FALSE)
    BY <1>6, <2>1 DEF SmClose, Running, EndWith
  <2>3. Fit(x) /\ x.state \in {"CLOSE", "CONNECT"}
    BY <1>0, <2>1, <2>2, CloseFit
  <2>4. Rest(x, Queued(cur)')
    BY <2>3 DEF Rest, Answering
  <2>5. QED
    BY <2>2, <2>3, <2>4, RoundWakes
<1>7. CASE SmConnect
  <2> DEFINE x == [r EXCEPT !.rq = "none", !.count = 0]
  <2>1. pc = "sm" /\ r.state = "CONNECT" /\ fdwaitqueue' = fdwaitqueue /\ Round(x, FALSE)
    BY <1>7 DEF SmConnect, Running
  <2>2. x.state = "CONNECT"
    BY <1>0, <2>1 DEF Connections
  <2> HIDE DEF x
  <2>3. Fit(x) /\ Rest(x, Queued(cur)')
    BY <2>2, QuietFit DEF Rest, Answering
  <2>4. QED
    BY <2>1, <2>2, <2>3, RoundWakes
<1>8. QED
  BY <1>1, <1>2, <1>3, <1>4, <1>5, <1>6, <1>7, HandleRequestWakes, WriteWakes DEF StateMachine

LEMMA ExitWakes == ASSUME Parts, WakeInv, SmExit PROVE WakeInv'
<1> DEFINE x == UpdateInterest(con[cur])
<1>1. /\ pc = "smexit" /\ pc' = back /\ cur' = cur /\ con' = [con EXCEPT ![cur] = x]
      /\ joblist' = joblist /\ fdwaitqueue' = fdwaitqueue
  BY DEF SmExit
<1>2. cur \in Con /\ con[cur] \in Connections /\ Sound(con[cur])
  BY CurOfParts
<1>3. Fit(con[cur]) /\ Rest(con[cur], Queued(cur)) /\ con[cur].state # "RESPONSE_START"
  BY <1>1, <1>2 DEF WakeInv, WakeOf
<1>4. Fit(x) /\ Settled(x, Queued(cur)) /\ x.state # "RESPONSE_START"
  BY <1>2, <1>3, InterestSettles, InterestSound
<1>5. con \in [Con -> Connections] /\ back \in {"top", "scan", "fdwait", "accept", "jobs"}
  BY DEF Parts, ConInv, LoopTyped
<1> HIDE DEF x
<1>6. Queued(cur)' = Queued(cur) /\ ~InMachine'
  BY <1>1, <1>5 DEF Queued, InMachine
<1>7. con'[cur] = x /\ WakeOf(cur)'
  <2>1. con'[cur] = x
    BY <1>1, <1>2, <1>5
  <2>2. QED
    BY <1>1, <1>4, <1>5, <1>6, <2>1 DEF WakeOf
<1>8. ASSUME NEW d \in Con, d # cur PROVE WakeOf(d)'
  <2>1. con'[d] = con[d] /\ (Listed(d) => Listed(d)') /\ (Queued(d) => Queued(d)')
    BY <1>1, <1>5, <1>8 DEF Listed, Queued
  <2>2. WakeOf(d) /\ pc' # "smexit"
    BY <1>1, <1>5 DEF WakeInv
  <2>3. QED
    BY <1>8, <2>1, <2>2, OtherWakes
<1>9. JobsTaken'
  <2>1. JobsTaken
    BY DEF WakeInv
  <2>2. joblist' # <<>> => pc' \in {"accept", "jobs"}
    BY <1>1, <1>5, <2>1 DEF JobsTaken, InMachine
  <2>3. QED
    BY <2>2 DEF JobsTaken
<1>10. QED
  BY <1>1, <1>7, <1>8, <1>9 DEF WakeInv

(* The main loop calls connection_state_machine() for c. *)
LEMMA CallWakes ==
    ASSUME Parts, WakeInv, ~InMachine, NEW c \in Con, NEW x, Fit(x),
           con' = [con EXCEPT ![c] = x], pc' = "sm", cur' = c,
           joblist' = joblist \/ (joblist # <<>> /\ c = Head(joblist) /\ joblist' = Tail(joblist)),
           \/ fdwaitqueue' = fdwaitqueue
           \/ fdwaitqueue # <<>> /\ c = Head(fdwaitqueue) /\ fdwaitqueue' = Tail(fdwaitqueue)
    PROVE  \A d \in Con : WakeOf(d)'
<1>1. con \in [Con -> Connections] /\ joblist \in Seq(Con) /\ fdwaitqueue \in Seq(Con)
  BY DEF Parts, ConInv, LoopTyped
<1>2. InMachine'
  BY DEF InMachine
<1>3. con'[c] = x /\ WakeOf(c)'
  <2>1. con'[c] = x
    BY <1>1
  <2>2. QED
    BY <1>2, <2>1 DEF WakeOf
<1>4. ASSUME NEW d \in Con, d # c PROVE WakeOf(d)'
  <2>1. con'[d] = con[d] /\ cur' # d
    BY <1>1, <1>4
  <2>2. Listed(d) => Listed(d)'
    BY <1>1, <1>4, TailOccurs DEF Listed
  <2>3. Queued(d) => Queued(d)'
    <3>1. (Queued(d) <=> Occurs(d, fdwaitqueue)) /\ (Queued(d)' <=> Occurs(d, fdwaitqueue'))
      BY DEF Queued, Occurs
    <3>2. QED
      BY <1>1, <1>4, <3>1, TailOccurs
  <2>4. WakeOf(d)
    BY DEF WakeInv
  <2>5. QED
    BY <2>1, <2>2, <2>3, <2>4, OtherWakes
<1>5. QED
  BY <1>3, <1>4

LEMMA QueueWakes ==
    ASSUME Parts, WakeInv, fdwaitqueue_unshift \/ RunJob
    PROVE  WakeInv'
<1>1. con \in [Con -> Connections] /\ joblist \in Seq(Con) /\ fdwaitqueue \in Seq(Con) /\ ~InMachine
  BY DEF Parts, ConInv, LoopTyped, fdwaitqueue_unshift, RunJob, InMachine
<1>2. CASE fdwaitqueue_unshift
  <2> DEFINE c == Head(fdwaitqueue)
  <2>1. /\ fdwaitqueue # <<>> /\ fdwaitqueue' = Tail(fdwaitqueue) /\ joblist' = joblist /\ con' = con
        /\ pc' = "sm" /\ cur' = c /\ pc = "fdwait"
    BY <1>2 DEF fdwaitqueue_unshift, Call
  <2>2. c \in Con
    BY <1>1, <2>1
  <2>3. con' = [con EXCEPT ![c] = con[c]] /\ Fit(con[c])
    BY <1>1, <2>1, <2>2 DEF WakeInv, WakeOf
  <2> HIDE DEF c
  <2>4. \A d \in Con : WakeOf(d)'
    BY <1>1, <2>1, <2>2, <2>3, CallWakes DEF c
  <2>5. JobsTaken'
    BY <2>1 DEF JobsTaken, WakeInv, InMachine
  <2>6. QED
    BY <2>4, <2>5 DEF WakeInv
<1>3. CASE RunJob
  <2> DEFINE c == Head(joblist)
  <2>1. /\ joblist # <<>> /\ joblist' = Tail(joblist) /\ fdwaitqueue' = fdwaitqueue /\ con' = con
        /\ pc' = "sm" /\ cur' = c /\ back' = "jobs"
    BY <1>3 DEF RunJob, Call
  <2>2. c \in Con
    BY <1>1, <2>1
  <2>3. con' = [con EXCEPT ![c] = con[c]] /\ Fit(con[c])
    BY <1>1, <2>1, <2>2 DEF WakeInv, WakeOf
  <2> HIDE DEF c
  <2>4. \A d \in Con : WakeOf(d)'
    BY <1>1, <2>1, <2>2, <2>3, CallWakes DEF c
  <2>5. JobsTaken'
    BY <2>1 DEF JobsTaken, InMachine
  <2>6. QED
    BY <2>4, <2>5 DEF WakeInv
<1>4. QED
  BY <1>2, <1>3

LEMMA ScanWakes == ASSUME Parts, WakeInv, ScanSlot PROVE WakeInv'
<1> DEFINE c == ptr[k]
<1>1. PICK limited \in BOOLEAN :
        /\ con' = [con EXCEPT ![c] = [TimedOut(@) EXCEPT !.tl = limited]]
        /\ IF Expired(con[c]) \/ limited # con[c].tl
           THEN pc' = "sm" /\ cur' = c
           ELSE UNCHANGED <<pc, cur, back>>
  BY DEF ScanSlot, Call
<1>2. pc = "scan" /\ joblist' = joblist /\ fdwaitqueue' = fdwaitqueue
  BY DEF ScanSlot, queueVars
<1>3. joblist = <<>>
  BY <1>2 DEF WakeInv, JobsTaken, InMachine
<1>4. con \in [Con -> Connections]
  BY DEF Parts, ConInv
<1>5. JobsTaken'
  BY <1>2, <1>3 DEF JobsTaken
<1>6. ~InMachine
  BY <1>2 DEF InMachine
<1> HIDE DEF c
<1>7. c \in Con
  <2>1. k \in Nat /\ k < used
    BY <1>2 DEF Parts, ScanForward, ScanSlot
  <2>2. k \in 0 .. used - 1 /\ k \in 0 .. size - 1
    BY <2>1 DEF Parts, TableInv, TableTypeOK
  <2>3. QED
    BY <2>2 DEF c, Parts, TableInv, TableTypeOK, NdxInverse
<1>8. CASE Expired(con[c]) \/ limited # con[c].tl
  <2> DEFINE x == [TimedOut(con[c]) EXCEPT !.tl = limited]
  <2>1. con' = [con EXCEPT ![c] = x]
    BY <1>1
  <2>2. Fit(x)
    BY <1>4, <1>7, TimedOutFit DEF WakeInv, WakeOf
  <2> HIDE DEF x
  <2>3. \A d \in Con : WakeOf(d)'
    BY <1>1, <1>2, <1>6, <1>7, <1>8, <2>1, <2>2, CallWakes
  <2>4. QED
    BY <1>5, <2>3 DEF WakeInv
<1>9. CASE ~Expired(con[c]) /\ limited = con[c].tl
  <2>1. TimedOut(con[c]) = con[c] /\ con[c] \in Connections
    BY <1>4, <1>7, <1>9 DEF TimedOut, Expired
  <2>2. [con[c] EXCEPT !.tl = limited] = con[c]
    BY <1>9, <2>1 DEF Connections
  <2>3. con' = con /\ pc' = "scan" /\ ~InMachine'
    BY <1>1, <1>2, <1>4, <1>9, <2>1, <2>2 DEF InMachine
  <2>4. ASSUME NEW d \in Con PROVE WakeOf(d)'
    <3>1. (Listed(d) => Listed(d)') /\ (Queued(d) => Queued(d)')
      BY <1>2 DEF Listed, Queued
    <3>2. WakeOf(d)
      BY DEF WakeInv
    <3>3. QED
      BY <1>6, <2>3, <3>1, <3>2, OtherWakes
  <2>5. QED
    BY <1>5, <2>4 DEF WakeInv
<1>10. QED
  BY <1>8, <1>9

LEMMA TickWakes == ASSUME Parts, WakeInv, Tick PROVE WakeInv'
<1>1. /\ con' = [c \in Con |-> Aged(con[c])] /\ pc = "top" /\ pc' = "scan"
      /\ joblist' = joblist /\ fdwaitqueue' = fdwaitqueue
  BY DEF Tick, queueVars
<1>2. JobsTaken' /\ joblist = <<>> /\ ~InMachine
  BY <1>1 DEF JobsTaken, WakeInv, InMachine
<1>3. ASSUME NEW c \in Con PROVE WakeOf(c)'
  <2>1. con[c] \in Connections /\ Fit(con[c])
    BY DEF Parts, ConInv, WakeInv, WakeOf
  <2>2. con[c].state # "RESPONSE_START" /\ Settled(con[c], Queued(c))
    BY <1>1, <1>2, NobodyListed DEF WakeInv, WakeOf
  <2>3. con'[c] = Aged(con[c])
    BY <1>1
  <2>a. Queued(c)' = Queued(c)
    BY <1>1 DEF Queued
  <2>4. Fit(con'[c]) /\ con'[c].state # "RESPONSE_START" /\ Settled(con'[c], Queued(c)')
    BY <2>1, <2>2, <2>3, <2>a, AgedFit
  <2>5. QED
    BY <1>1, <2>4 DEF WakeOf
<1>4. QED
  BY <1>2, <1>3 DEF WakeInv

LEMMA PhaseWakes == ASSUME Parts, WakeInv, Phase PROVE WakeInv'
<1>1. /\ con' = con /\ joblist' = joblist /\ fdwaitqueue' = fdwaitqueue /\ ~InMachine /\ ~InMachine'
      /\ JobsTaken'
  BY PhaseQuiet DEF WakeInv
<1>2. ASSUME NEW d \in Con PROVE WakeOf(d)'
  <2>1. (Listed(d) => Listed(d)') /\ (Queued(d) => Queued(d)')
    BY <1>1 DEF Listed, Queued
  <2>2. WakeOf(d) /\ con'[d] = con[d] /\ pc' # "smexit"
    BY <1>1 DEF WakeInv, InMachine
  <2>3. QED
    BY <1>1, <2>1, <2>2, OtherWakes
<1>3. QED
  BY <1>1, <1>2 DEF WakeInv

(* The connection of an event is put on the joblist, whatever its handler left it in. *)
LEMMA EventWakes ==
    ASSUME Parts, ExchangeInv, WakeInv, NEW c \in Con, ClientEvent(c) \/ BackendEvent(c)
    PROVE  WakeInv'
<1>1. con[c] \in Connections /\ Sound(con[c]) /\ Clean(con[c]) /\ Fit(con[c])
  BY DEF Parts, ConInv, ExchangeInv, WakeInv, WakeOf
<1>2. /\ pc = "dispatch" /\ pc' = pc /\ joblist' = Append(joblist, c) /\ fdwaitqueue' = fdwaitqueue
      /\ <<"backend", c>> \in todo \/ ~BackendEvent(c)
  BY Zenon DEF ClientEvent, BackendEvent, joblist_append
<1>3. con[c].state # "RESPONSE_START" /\ ~InMachine /\ ~InMachine'
  BY <1>2 DEF WakeInv, WakeOf, InMachine
<1>4. PICK x : con' = [con EXCEPT ![c] = x] /\ Fit(x) /\ x.state # "RESPONSE_START"
  <2>1. CASE ClientEvent(c)
    <3>a. PICK revents \in Revents(con[c]) :
             \E x \in connection_handle_fdevent(con[c], revents) : con' = [con EXCEPT ![c] = x]
      BY <2>1 DEF ClientEvent
    <3>1. PICK x \in connection_handle_fdevent(con[c], revents) : con' = [con EXCEPT ![c] = x]
      BY <3>a
    <3>2. Fit(x) /\ x.state # "RESPONSE_START"
      BY <1>1, <1>3, <3>1, FdeventFit
    <3>3. QED
      BY <3>1, <3>2
  <2>2. CASE BackendEvent(c)
    <3>1. PICK o \in backend_handle_fdevent(con[c]) : con' = [con EXCEPT ![c] = o.con]
      BY <2>2 DEF BackendEvent
    <3>2. con[c].bfd
      BY <1>2, <2>2 DEF Parts, EventsOfOpen
    <3>3. Fit(o.con) /\ o.con.state = con[c].state
      BY <1>1, <1>3, <3>1, <3>2, BackendEventFit
    <3>4. QED
      BY <1>3, <3>1, <3>3
  <2>3. QED
    BY <2>1, <2>2
<1>5. joblist \in Seq(Con) /\ con \in [Con -> Connections]
  BY DEF Parts, LoopTyped, ConInv
<1>6. Listed(c)' /\ \A d \in Con : Listed(d) => Listed(d)'
  BY <1>2, <1>5, AppendOccurs DEF Listed
<1>7. WakeOf(c)'
  <2>1. con'[c] = x
    BY <1>4, <1>5
  <2>2. QED
    BY <1>2, <1>4, <1>6, <2>1 DEF WakeOf
<1>8. ASSUME NEW d \in Con, d # c PROVE WakeOf(d)'
  <2>1. con'[d] = con[d] /\ (Listed(d) => Listed(d)') /\ pc' # "smexit"
    BY <1>2, <1>4, <1>6, <1>8
  <2>2. Queued(d) => Queued(d)'
    BY <1>2 DEF Queued
  <2>3. WakeOf(d)
    BY DEF WakeInv
  <2>4. QED
    BY <1>3, <2>1, <2>2, <2>3, OtherWakes
<1>9. JobsTaken'
  BY <1>2 DEF JobsTaken
<1>10. QED
  BY <1>7, <1>8, <1>9 DEF WakeInv

(* A connection that is accepted is run at once, and one whose set-up failed waits for its client. *)
LEMMA AcceptWakes ==
    ASSUME Parts, WakeInv, NEW c \in Con, connection_accept(c) \/ AcceptFailed(c)
    PROVE  WakeInv'
<1> DEFINE x == [connection_reset(con[c]) EXCEPT !.fd = TRUE, !.state = "REQUEST_START"]
<1>1. /\ pc = "accept" /\ joblist' = joblist /\ fdwaitqueue' = fdwaitqueue
      /\ con' = [con EXCEPT ![c] = x]
  BY DEF connection_accept, AcceptFailed, connection_accepted, queueVars
<1>2. con \in [Con -> Connections] /\ con[c] \in Connections /\ ~InMachine
  BY <1>1 DEF Parts, ConInv, InMachine
<1>3. Fit(x) /\ x.state = "REQUEST_START"
  BY <1>2, ResetFit
<1> HIDE DEF x
<1>4. CASE connection_accept(c)
  <2>1. pc' = "sm" /\ cur' = c /\ back' = "accept"
    BY <1>4 DEF connection_accept, Call
  <2>2. \A d \in Con : WakeOf(d)'
    BY <1>1, <1>2, <1>3, <2>1, CallWakes
  <2>3. JobsTaken'
    BY <2>1 DEF JobsTaken, InMachine
  <2>4. QED
    BY <2>2, <2>3 DEF WakeInv
<1>5. CASE AcceptFailed(c)
  <2>1. pc' = "dispatch" /\ ~InMachine'
    BY <1>5 DEF AcceptFailed, InMachine
  <2>2. WakeOf(c)'
    <3>1. con'[c] = x
      BY <1>1, <1>2
    <3>2. Settled(x, Queued(c)')
      BY <1>3 DEF Settled
    <3>3. QED
      BY <1>3, <2>1, <3>1, <3>2 DEF WakeOf
  <2>3. ASSUME NEW d \in Con, d # c PROVE WakeOf(d)'
    <3>1. con'[d] = con[d] /\ (Listed(d) => Listed(d)') /\ (Queued(d) => Queued(d)')
      BY <1>1, <1>2, <2>3 DEF Listed, Queued
    <3>2. WakeOf(d)
      BY DEF WakeInv
    <3>3. QED
      BY <1>2, <2>1, <3>1, <3>2, OtherWakes
  <2>4. JobsTaken'
    BY <2>1 DEF JobsTaken
  <2>5. QED
    BY <2>2, <2>3, <2>4 DEF WakeInv
<1>6. QED
  BY <1>4, <1>5

LEMMA WakeStep == ASSUME Parts, ExchangeInv, WakeInv, [Next]_vars PROVE WakeInv'
<1>1. CASE UNCHANGED vars
  <2>1. UNCHANGED <<con, joblist, fdwaitqueue, pc, cur, back>>
    BY <1>1 DEF vars, queueVars, loopVars
  <2>2. QED
    BY <2>1 DEF WakeInv, WakeOf, JobsTaken, Listed, Occurs, Queued, InMachine
<1>2. CASE StateMachine
  BY <1>2, MachineWakes, ExitWakes
<1>3. ASSUME NEW c \in Con, ClientEvent(c) \/ BackendEvent(c) \/ connection_accept(c) \/ AcceptFailed(c)
      PROVE  WakeInv'
  BY <1>3, EventWakes, AcceptWakes
<1>4. QED
  BY <1>1, <1>2, <1>3, PhaseWakes, TickWakes, ScanWakes, QueueWakes DEF Next, Process, Phase

LEMMA WakeInit == ASSUME Init PROVE WakeInv
<1>1. joblist = <<>> /\ pc = "top"
  BY DEF Init
<1>2. ASSUME NEW c \in Con PROVE WakeOf(c)
  <2>1. con[c].state = "CONNECT"
    BY InitTyped DEF Init, connection_init
  <2>2. Fit(con[c]) /\ Settled(con[c], Queued(c))
    BY <2>1, QuietFit DEF Settled
  <2>3. QED
    BY <1>1, <2>1, <2>2 DEF WakeOf
<1>3. QED
  BY <1>1, <1>2 DEF WakeInv, JobsTaken

(* No wakeup is lost: whenever the process goes to sleep in fdevent_poll(), each connection waits for
   something that will be noticed, an event it asked for, its backend, a place in the queue for a
   descriptor or the end of the traffic limit, whatever the handlers did since it slept last. *)
THEOREM NobodyIsForgotten == Spec => []NoLostWakeup
<1>1. Init => Parts /\ ExchangeInv /\ WakeInv
  BY PartsInit, ExchangeInit, WakeInit
<1>2. Parts /\ ExchangeInv /\ WakeInv /\ [Next]_vars => Parts' /\ ExchangeInv' /\ WakeInv'
  <2>1. Maps => ExchangeInv'
    BY DEF Maps
  <2>2. QED
    BY <2>1, PartsStep, ExchangeStep, WakeStep
<1>3. WakeInv => NoLostWakeup
  <2>1. SUFFICES ASSUME WakeInv, Asleep, NEW c \in Con PROVE Settled(con[c], Queued(c))
    BY DEF NoLostWakeup
  <2>2. pc = "fdwait" /\ joblist = <<>> /\ ~InMachine
    BY <2>1 DEF Asleep, WakeInv, JobsTaken, InMachine
  <2>3. QED
    BY <2>1, <2>2, NobodyListed DEF WakeInv, WakeOf
<1>4. QED
  BY <1>1, <1>2, <1>3, PTL DEF Spec
=============================================================================
