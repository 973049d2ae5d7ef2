---------------------------- MODULE ServerProofs ----------------------------
(***************************************************************************)
(* What the main loop keeps whatever the handlers do, for any number of    *)
(* connections and any limits.                                             *)
(***************************************************************************)
EXTENDS Server, ConnectionProofs, FiniteSetTheorems

----------------------------------------------------------------------------
(* The listening sockets.  The main loop accepts only on the word of the kernel that the socket was
   on when the process went to sleep, and switches it only where no such word is left. *)
Accepting == pc = "accept" \/ (pc \in {"sm", "smexit"} /\ back = "accept")

SocketInv ==
    /\ used \in Int
    /\ listening = "closed" => graceful_shutdown
    /\ <<"listen">> \in todo => pc = "dispatch" /\ listening = "on"
    /\ Accepting => listening = "on"

LEMMA ListenSource == <<"listen">> \in Sources => listening = "on"
<1>1. ASSUME NEW c \in Con PROVE <<"listen">> # <<"con", c>> /\ <<"listen">> # <<"backend", c>>
  BY Z3
<1>2. QED
  BY <1>1 DEF Sources

LEMMA NoMoreUsed ==
    ASSUME used \in Int, NEW c \in Con, connection_del(c)
    PROVE  used' \in Int /\ used' <= used
BY DEF connection_del, tableVars

(* No step of the state machine of a connection concerns the sockets. *)
LEMMA RoundKeepsSockets ==
    ASSUME SocketInv, pc = "sm", NEW r, NEW a, Round(r, a), used' \in Int
    PROVE  SocketInv' /\ listening' = listening
BY DEF SocketInv, Accepting, Round, sockVars, sigVars

LEMMA SocketStep ==
    ASSUME SocketInv, [Next]_vars
    PROVE  SocketInv' /\ (listening = "closed" => listening' = "closed" /\ used' <= used)
<1> USE DEF SocketInv
<1>1. CASE UNCHANGED vars
  BY <1>1 DEF vars, Accepting, tableVars, sockVars, sigVars, loopVars
<1>2. CASE SmRequestStart \/ SmRead \/ SmRequestEnd \/ SmHandleRequest \/ SmResponseStart \/ SmWrite
           \/ SmConnect
  <2>1. pc = "sm" /\ UNCHANGED used /\ \E r, a : Round(r, a)
    BY <1>2, Zenon DEF SmRequestStart, SmRead, SmRequestEnd, SmHandleRequest, SmResponseStart,
          SmWrite, SmConnect, Running, tableVars
  <2>2. QED
    BY <2>1, RoundKeepsSockets
<1>8. CASE SmResponseEnd \/ SmClose
  <2>1. pc = "sm" /\ \E r : Round(r, FALSE) /\ (connection_del(cur) \/ UNCHANGED tableVars)
    BY <1>8 DEF SmResponseEnd, SmClose, EndWith, Running
  <2>2. used' \in Int /\ used' <= used
    BY <2>1 DEF connection_del, tableVars
  <2>3. QED
    BY <2>1, <2>2, RoundKeepsSockets
<1>10. CASE SmExit
  BY <1>10 DEF SmExit, Accepting, tableVars, sockVars, sigVars
<1>11. CASE SIGTERM \/ SIGINT
  BY <1>11 DEF SIGTERM, SIGINT, Accepting, tableVars, sockVars, loopVars
<1>12. CASE LoopEnd \/ NoTick
  BY <1>12 DEF LoopEnd, NoTick, Accepting, tableVars, sockVars, sigVars
<1>13. CASE Tick
  <2>1. graceful_shutdown => graceful_shutdown'
    BY <1>13, Zenon DEF Tick
  <2>2. UNCHANGED <<listening, used, back, todo>> /\ pc = "top" /\ pc' = "scan"
    BY <1>13, Zenon DEF Tick, tableVars, sockVars
  <2>3. QED
    BY <2>1, <2>2 DEF Accepting
<1>9. CASE ScanSlot \/ ScanEnd
  <2>1. /\ UNCHANGED <<listening, graceful_shutdown, used, todo>> /\ pc = "scan"
        /\ pc' \in {"scan", "sockets"} \/ (pc' = "sm" /\ back' = "scan")
    BY <1>9, Zenon DEF ScanSlot, ScanEnd, Call, tableVars, sockVars, sigVars
  <2>2. QED
    BY <2>1 DEF Accepting
<1>14. CASE EnableSockets \/ DisableSockets \/ LeaveSockets
  BY <1>14 DEF EnableSockets, DisableSockets, LeaveSockets, Accepting, tableVars, sockVars, sigVars
<1>15. CASE GracefulEnd \/ StayUp
  BY <1>15 DEF GracefulEnd, StayUp, Accepting, tableVars, sockVars, sigVars
<1>16. CASE fdwaitqueue_unshift
  BY <1>16 DEF fdwaitqueue_unshift, Call, Accepting, tableVars, sockVars, sigVars
<1>17. CASE fdevent_poll
  BY <1>17, ListenSource DEF fdevent_poll, Accepting, tableVars, sockVars, sigVars
<1>18. CASE ListenEvent \/ AcceptEnd \/ DispatchEnd
  BY <1>18 DEF ListenEvent, AcceptEnd, DispatchEnd, Accepting, tableVars, sockVars, sigVars
<1>19. CASE RunJob \/ JobsEnd
  BY <1>19 DEF RunJob, JobsEnd, Call, Accepting, tableVars, sockVars, sigVars
<1>20. ASSUME NEW c \in Con, ClientEvent(c) \/ BackendEvent(c)
       PROVE  SocketInv' /\ (listening = "closed" => listening' = "closed" /\ used' <= used)
  BY <1>20 DEF ClientEvent, BackendEvent, Accepting, tableVars, sockVars, sigVars
<1>21. ASSUME NEW c \in Con, connection_accept(c) \/ AcceptFailed(c)
       PROVE  SocketInv' /\ (listening = "closed" => listening' = "closed" /\ used' <= used)
  <2>1. used' = used + 1
    BY <1>21 DEF connection_accept, AcceptFailed, connection_accepted, connections_get_new_connection
  <2>2. QED
    BY <1>21, <2>1 DEF connection_accept, AcceptFailed, connection_accepted, Call, Accepting,
          sockVars, sigVars
<1>22. QED
  BY <1>1, <1>2, <1>8, <1>9, <1>10, <1>11, <1>12, <1>13, <1>14,
     <1>15, <1>16, <1>17, <1>18, <1>19, <1>20, <1>21 DEF Next, Process, StateMachine

(* Once a graceful shutdown has closed the listening sockets (DisableSockets) no connection is
   accepted any more and nothing opens them again, however many events, timeouts and signals
   are on their way. *)
THEOREM ClosedStaysClosed == Spec => ClosedIsFinal
<1>1. Init => SocketInv
  BY DEF Init, TableInit, SocketInv, Accepting
<1>2. SocketInv /\ [Next]_vars => SocketInv'
  BY SocketStep
<1>3. SocketInv /\ [Next]_vars => [listening = "closed" => listening' = "closed" /\ used' <= used]_vars
  BY SocketStep
<1>4. QED
  BY <1>1, <1>2, <1>3, PTL DEF Spec, ClosedIsFinal

----------------------------------------------------------------------------
(* The bookkeeping.  The invariant falls into what the variables of the loop are, what the
   connections are, and the counts. *)
LoopTyped ==
    /\ cur_fds \in Int
    /\ want_fds \in Int
    /\ fdwaitqueue \in Seq(Con)
    /\ joblist \in Seq(Con)
    /\ listening \in {"on", "off", "closed"}
    /\ sockets_disabled \in BOOLEAN
    /\ graceful_shutdown \in BOOLEAN
    /\ srv_shutdown \in BOOLEAN
    /\ pid_file \in BOOLEAN
    /\ pc \in {"top", "scan", "sockets", "grace", "fdwait", "dispatch", "accept",
               "jobs", "sm", "smexit", "exit"}
    /\ cur \in Con
    /\ back \in {"top", "scan", "fdwait", "accept", "jobs"}
    /\ k \in Int

InTable(c) == ndx[c] # -1

ConInv ==
    /\ con \in [Con -> Connections]
    /\ \A c \in Con :
        /\ Sound(con[c])
        /\ con[c].fd <=> InTable(c)
        /\ con[c].state = "CONNECT" => con[c].count = 0 \/ (pc = "sm" /\ cur = c)

Parts ==
    /\ LoopTyped
    /\ TableInv
    /\ ConInv
    /\ FdsCounted
    /\ EventsOfOpen /\ ScanForward /\ WantFdsCounted

LEMMA PartsOfInv == ServerInv <=> Parts
<1>1. ASSUME con \in [Con -> Connections]
      PROVE  (OpenMeansInTable /\ BackendOfOpen /\ RequestsCounted) <=> ConInv
  BY <1>1 DEF OpenMeansInTable, BackendOfOpen, RequestsCounted, ConInv, Sound, InTable, Connections
<1>2. TypeOK <=> TableTypeOK /\ LoopTyped /\ con \in [Con -> Connections]
  BY DEF TypeOK, LoopTyped
<1>3. QED
  BY <1>1, <1>2 DEF ServerInv, Parts, ConInv, TableInv

(* Counting: a set that changes by one connection. *)
LEMMA CountOne ==
    ASSUME NEW A \in SUBSET Con, NEW B \in SUBSET Con, NEW c \in Con, A \ {c} = B \ {c}
    PROVE  Cardinality(B) = Cardinality(A) + Fds(c \in B) - Fds(c \in A)
<1> DEFINE D == A \ {c}
<1>1. IsFiniteSet(D)
  <2>1. D \subseteq Con
    OBVIOUS
  <2>2. QED
    BY <2>1, FS_Subset, ConAssumption
<1>2. Cardinality(D) \in Nat
  BY <1>1, FS_CardinalityType
<1>3. ASSUME NEW E, E = D \/ E = D \cup {c}, c \in E <=> E # D
      PROVE  Cardinality(E) = Cardinality(D) + Fds(c \in E)
  <2>1. c \notin D
    OBVIOUS
  <2>2. Cardinality(D \cup {c}) = Cardinality(D) + 1
    BY <1>1, <2>1, FS_AddElement
  <2>3. CASE c \in E
    BY <1>3, <2>2, <2>3 DEF Fds
  <2>4. CASE c \notin E
    BY <1>2, <1>3, <2>4 DEF Fds
  <2>5. QED
    BY <2>3, <2>4
<1>4. /\ A = D \/ A = D \cup {c}
      /\ c \in A <=> A # D
      /\ B = D \/ B = D \cup {c}
      /\ c \in B <=> B # D
  OBVIOUS
<1> HIDE DEF D
<1>5. Cardinality(A) = Cardinality(D) + Fds(c \in A) /\ Cardinality(B) = Cardinality(D) + Fds(c \in B)
  BY <1>3, <1>4
<1>6. Fds(c \in A) \in Int /\ Fds(c \in B) \in Int
  BY DEF Fds
<1>7. QED
  BY <1>2, <1>5, <1>6

(* ... hence srv->cur_fds, if what one connection opens and closes is added to it. *)
LEMMA FdsChange ==
    ASSUME con \in [Con -> Connections], cur_fds \in Int, FdsCounted,
           NEW c \in Con, NEW x \in Connections, con' = [con EXCEPT ![c] = x],
           cur_fds' = cur_fds + (Fds(x.bfd) - Fds(con[c].bfd)) + (Fds(x.fd) - Fds(con[c].fd))
    PROVE  FdsCounted' /\ cur_fds' \in Int
<1> DEFINE A == {d \in Con : con[d].fd}
           B == {d \in Con : con'[d].fd}
           C == {d \in Con : con[d].bfd}
           D == {d \in Con : con'[d].bfd}
<1>1. A \in SUBSET Con /\ B \in SUBSET Con /\ C \in SUBSET Con /\ D \in SUBSET Con
  OBVIOUS
<1>2. A \ {c} = B \ {c} /\ C \ {c} = D \ {c}
  OBVIOUS
<1>3. con'[c] = x
  OBVIOUS
<1>4. /\ Fds(c \in A) = Fds(con[c].fd) /\ Fds(c \in B) = Fds(x.fd)
      /\ Fds(c \in C) = Fds(con[c].bfd) /\ Fds(c \in D) = Fds(x.bfd)
  BY <1>3 DEF Fds
<1>5. /\ cur_fds = Cardinality(A) + Cardinality(C)
      /\ FdsCounted' <=> cur_fds' = Cardinality(B) + Cardinality(D)
  BY DEF FdsCounted
<1>6. Cardinality(A) \in Nat /\ Cardinality(C) \in Nat
  BY <1>1, FS_Subset, FS_CardinalityType, ConAssumption
<1>7. /\ Fds(x.fd) \in Int /\ Fds(x.bfd) \in Int
      /\ Fds(con[c].fd) \in Int /\ Fds(con[c].bfd) \in Int
  BY DEF Fds
<1> HIDE DEF A, B, C, D
<1>8. /\ Cardinality(B) = Cardinality(A) + Fds(x.fd) - Fds(con[c].fd)
      /\ Cardinality(D) = Cardinality(C) + Fds(x.bfd) - Fds(con[c].bfd)
  BY <1>1, <1>2, <1>4, CountOne
<1>9. QED
  BY <1>5, <1>6, <1>7, <1>8

LEMMA FdsSame ==
    ASSUME FdsCounted, cur_fds' = cur_fds, con \in [Con -> Connections], con' \in [Con -> Connections],
           \A c \in Con : con'[c].fd = con[c].fd /\ con'[c].bfd = con[c].bfd
    PROVE  FdsCounted'
<1>1. /\ {c \in Con : con'[c].fd} = {c \in Con : con[c].fd}
      /\ {c \in Con : con'[c].bfd} = {c \in Con : con[c].bfd}
  OBVIOUS
<1>2. QED
  BY <1>1 DEF FdsCounted

(* A phase of the main loop that leaves the connections alone. *)
LEMMA QuietPhase ==
    ASSUME TableInv, ConInv, FdsCounted, UNCHANGED <<tableVars, con, cur_fds>>, pc # "sm"
    PROVE  TableInv' /\ ConInv' /\ FdsCounted'
BY DEF TableInv, TableTypeOK, NoSharedSlot, NdxInverse, ConInv, InTable, FdsCounted, tableVars

(* One connection becomes x, which leaves the table if it is closed and enters it if it is opened. *)
LEMMA OneConnection ==
    ASSUME ConInv, FdsCounted, cur_fds \in Int,
           NEW c \in Con, NEW x \in Connections, Sound(x), con' = [con EXCEPT ![c] = x],
           cur_fds' = cur_fds + (Fds(x.bfd) - Fds(con[c].bfd)) + (Fds(x.fd) - Fds(con[c].fd)),
           ndx' \in [Con -> Int], \A d \in Con \ {c} : InTable(d)' <=> InTable(d),
           x.fd <=> InTable(c)',
           x.state = "CONNECT" => x.count = 0 \/ (pc' = "sm" /\ cur' = c),
           pc = "sm" => cur = c
    PROVE  ConInv' /\ FdsCounted' /\ cur_fds' \in Int
<1>1. FdsCounted' /\ cur_fds' \in Int
  BY FdsChange DEF ConInv
<1>2. con' \in [Con -> Connections]
  BY DEF ConInv
<1>3. ASSUME NEW d \in Con
      PROVE  /\ Sound(con'[d])
             /\ con'[d].fd <=> InTable(d)'
             /\ con'[d].state = "CONNECT" => con'[d].count = 0 \/ (pc' = "sm" /\ cur' = d)
  <2>1. CASE d = c
    BY <2>1 DEF ConInv
  <2>2. CASE d # c
    <3>1. con'[d] = con[d] /\ (InTable(d)' <=> InTable(d))
      BY <2>2 DEF ConInv
    <3>2. Sound(con[d]) /\ (con[d].fd <=> InTable(d))
          /\ (con[d].state = "CONNECT" => con[d].count = 0)
      BY <2>2 DEF ConInv
    <3>3. QED
      BY <3>1, <3>2
  <2>3. QED
    BY <2>1, <2>2
<1>4. QED
  BY <1>1, <1>2, <1>3 DEF ConInv

(* A round of connection_state_machine(). *)
RoundQueue == UNCHANGED <<want_fds, fdwaitqueue>> \/ fdwaitqueue_append

LEMMA RoundLoop ==
    ASSUME Parts, pc = "sm", NEW r, NEW a, Round(r, a), RoundQueue, cur_fds' \in Int,
           \A c \in Con : c # cur => con'[c] = con[c]
    PROVE  LoopTyped' /\ EventsOfOpen' /\ ScanForward' /\ WantFdsCounted'
<1>1. pc' \in {"sm", "smexit"} /\ UNCHANGED <<cur, back, k, todo, joblist, listening,
          sockets_disabled, pid_file, graceful_shutdown, srv_shutdown>>
  BY DEF Round, sockVars, sigVars
<1>2. /\ fdwaitqueue' \in Seq(Con) /\ want_fds' \in Int
      /\ want_fds' - Len(fdwaitqueue') = want_fds - Len(fdwaitqueue)
  <2>1. fdwaitqueue \in Seq(Con) /\ want_fds \in Int /\ cur \in Con
    BY DEF Parts, LoopTyped
  <2>2. CASE UNCHANGED <<want_fds, fdwaitqueue>>
    BY <2>1, <2>2
  <2>3. CASE fdwaitqueue_append
    <3>1. fdwaitqueue' = Append(fdwaitqueue, cur) /\ want_fds' = want_fds + 1
      BY <2>3 DEF fdwaitqueue_append
    <3>2. fdwaitqueue' \in Seq(Con) /\ Len(fdwaitqueue') = Len(fdwaitqueue) + 1
      BY <2>1, <3>1
    <3>3. QED
      BY <2>1, <3>1, <3>2
  <2>4. QED
    BY <2>2, <2>3 DEF RoundQueue
<1>3. LoopTyped'
  BY <1>1, <1>2 DEF Parts, LoopTyped
<1>4. ScanForward'
  BY <1>1 DEF Parts, ScanForward, InMachine
<1>5. WantFdsCounted'
  BY <1>1, <1>2 DEF Parts, WantFdsCounted, LoopTyped
<1>6. EventsOfOpen'
  <2>1. todo' # {} => InMachine' /\ back' = "accept"
    BY <1>1 DEF Parts, EventsOfOpen, InMachine
  <2>2. ASSUME NEW c \in Con
        PROVE  /\ <<"con", c>> \in todo' => con'[c].fd /\ ~(InMachine' /\ cur' = c)
               /\ <<"backend", c>> \in todo' => con'[c].bfd /\ ~(InMachine' /\ cur' = c)
    BY <1>1 DEF Parts, EventsOfOpen, InMachine
  <2>3. QED
    BY <2>1, <2>2 DEF EventsOfOpen
<1>7. QED
  BY <1>3, <1>4, <1>5, <1>6

LEMMA RoundStep ==
    ASSUME Parts, pc = "sm", NEW r \in Connections, Sound(r), NEW a, Round(r, a), RoundQueue,
           cur_fds' = cur_fds + (Fds(r.bfd) - Fds(con[cur].bfd)) + (Fds(r.fd) - Fds(con[cur].fd)),
           TableInv', \A d \in Con \ {cur} : InTable(d)' <=> InTable(d),
           r.fd <=> InTable(cur)',
           r.state = "CONNECT" => r.count = 0 \/ con[cur].state # "CONNECT"
    PROVE  Parts'
<1>1. con' = [con EXCEPT ![cur] = r] /\ cur' = cur /\ (r.state # con[cur].state => pc' = "sm")
  BY DEF Round
<1>2. cur \in Con /\ cur_fds \in Int /\ con \in [Con -> Connections]
  BY DEF Parts, LoopTyped, ConInv
<1>3. ndx' \in [Con -> Int]
  BY DEF TableInv, TableTypeOK
<1>4. ConInv' /\ FdsCounted' /\ cur_fds' \in Int
  BY <1>1, <1>2, <1>3, OneConnection DEF Parts
<1>5. LoopTyped' /\ EventsOfOpen' /\ ScanForward' /\ WantFdsCounted'
  BY <1>1, <1>2, <1>4, RoundLoop
<1>6. QED
  BY <1>4, <1>5 DEF Parts

(* A round that keeps the socket: what Handled and Sound say is enough. *)
LEMMA RoundKeepsSocket ==
    ASSUME Parts, pc = "sm", NEW r, r \in Connections, Sound(r), r.fd = con[cur].fd,
           NEW a, Round(r, a), RoundQueue, UNCHANGED tableVars,
           cur_fds' = cur_fds + (Fds(r.bfd) - Fds(con[cur].bfd)),
           r.state = "CONNECT" => r.count = 0
    PROVE  Parts'
<1>1. cur \in Con /\ cur_fds \in Int /\ con[cur] \in Connections /\ (con[cur].fd <=> InTable(cur))
  BY DEF Parts, LoopTyped, ConInv
<1>2. TableInv' /\ \A d \in Con : InTable(d)' <=> InTable(d)
  BY DEF Parts, TableInv, TableTypeOK, NoSharedSlot, NdxInverse, InTable, tableVars
<1>3. Fds(r.bfd) \in Int /\ Fds(con[cur].bfd) \in Int /\ Fds(con[cur].fd) \in Int
  BY DEF Fds
<1>a. Fds(r.fd) = Fds(con[cur].fd)
  OBVIOUS
<1>b. Fds(r.fd) \in Int
  BY <1>3, <1>a
<1>4. cur_fds' = cur_fds + (Fds(r.bfd) - Fds(con[cur].bfd)) + (Fds(r.fd) - Fds(con[cur].fd))
  <2> DEFINE p == Fds(r.bfd)
             q == Fds(con[cur].bfd)
             u == Fds(r.fd)
             v == Fds(con[cur].fd)
  <2>1. cur_fds \in Int /\ p \in Int /\ q \in Int /\ u \in Int /\ u = v /\ cur_fds' = cur_fds + (p - q)
    BY <1>1, <1>3, <1>a, <1>b
  <2> HIDE DEF p, q, u, v
  <2>2. cur_fds' = cur_fds + (p - q) + (u - v)
    BY <2>1
  <2>3. QED
    BY <2>2 DEF p, q, u, v
<1>5. r.fd <=> InTable(cur)'
  <2>1. cur' = cur
    BY DEF Round
  <2>2. InTable(cur)' <=> InTable(cur)
    BY <1>1, <1>2, <2>1 DEF InTable
  <2>3. QED
    BY <1>1, <2>2
<1>6. \A d \in Con \ {cur} : InTable(d)' <=> InTable(d)
  BY <1>2
<1>7. QED
  BY <1>2, <1>4, <1>5, <1>6, RoundStep

LEMMA RoundHandled ==
    ASSUME Parts, pc = "sm", con[cur].state \notin {"CONNECT", "CLOSE"},
           NEW x, NEW d, NEW S, Handled(con[cur], x, d, S),
           S \cap {"CONNECT", "CLOSE", "REQUEST_START"} = {},
           \/ x.state \notin {"WRITE", "RESPONSE_END"}
           \/ con[cur].state \in {"WRITE", "RESPONSE_END"}
           \/ x.ka => x.count <= max_keep_alive_requests,
           NEW a, Round(x, a), RoundQueue, UNCHANGED tableVars, cur_fds' = cur_fds + d
    PROVE  Parts'
<1>1. cur \in Con /\ con[cur] \in Connections /\ Sound(con[cur])
  BY DEF Parts, LoopTyped, ConInv
<1>2. x \in Connections /\ Sound(x) /\ x.fd
  BY <1>1, HandledSound
<1>3. x.fd = con[cur].fd /\ d = Fds(x.bfd) - Fds(con[cur].bfd)
  BY DEF Handled
<1>4. x.state # "CONNECT"
  BY <1>2 DEF Sound
<1>5. QED
  BY <1>2, <1>3, <1>4, RoundKeepsSocket

LEMMA CurOfParts ==
    ASSUME Parts
    PROVE  /\ cur \in Con /\ con[cur] \in Connections /\ Sound(con[cur]) /\ cur_fds \in Int
           /\ con[cur].bfd \in BOOLEAN /\ con[cur].fd \in BOOLEAN
           /\ Fds(con[cur].bfd) \in Int /\ Fds(con[cur].fd) \in Int
BY DEF Parts, LoopTyped, ConInv, Connections, Fds

LEMMA RequestStartStep == ASSUME Parts, SmRequestStart PROVE Parts'
<1> DEFINE r == con[cur]
           none == 0
           n == r.count + 1
           x == [r EXCEPT !.rage = none, !.count = n, !.state = "READ"]
<1>1. pc = "sm" /\ r.state = "REQUEST_START" /\ Round(x, FALSE) /\ UNCHANGED tableVars
      /\ cur_fds' = cur_fds /\ UNCHANGED <<want_fds, fdwaitqueue>>
  BY DEF SmRequestStart, Running
<1>2. r \in Connections /\ Sound(r) /\ cur_fds \in Int /\ Fds(r.bfd) \in Int
  BY CurOfParts
<1>3. n \in 0 .. max_keep_alive_requests + 1
  BY <1>1, <1>2, TimeoutAssumption DEF Sound, Connections
<1>4. none \in 0 .. Bigger(max_read_idle, max_keep_alive_idle) + 1 /\ "READ" \in ConState
  BY TimeoutAssumption DEF Bigger, ConState
<1> HIDE DEF r, n, none
<1>5. x \in Connections
  BY <1>2, <1>3, <1>4 DEF Connections
<1>6. x.fd = r.fd /\ x.polled = r.polled /\ x.bfd = r.bfd /\ x.state = "READ"
  BY <1>2 DEF Connections
<1> HIDE DEF x
<1>7. Sound(x)
  BY <1>1, <1>2, <1>6 DEF Sound
<1>8. cur_fds' = cur_fds + (Fds(x.bfd) - Fds(r.bfd))
  BY <1>1, <1>2, <1>6
<1>9. x.fd = con[cur].fd /\ cur_fds' = cur_fds + (Fds(x.bfd) - Fds(con[cur].bfd))
  BY <1>6, <1>8 DEF r
<1>10. QED
  BY <1>1, <1>5, <1>6, <1>7, <1>9, RoundKeepsSocket DEF RoundQueue

LEMMA ReadStep == ASSUME Parts, SmRead PROVE Parts'
<1>1. PICK x \in connection_handle_read_state(con[cur]) : Round(x, FALSE)
  BY DEF SmRead
<1>2. /\ pc = "sm" /\ con[cur].state = "READ" /\ UNCHANGED tableVars /\ cur_fds' = cur_fds
      /\ UNCHANGED <<want_fds, fdwaitqueue>>
  BY DEF SmRead, Running
<1>3. con[cur] \in Connections /\ cur_fds \in Int
  BY CurOfParts
<1> DEFINE S == {"REQUEST_END", "ERROR", "HANDLE_REQUEST"}
<1>4. Handled(con[cur], x, 0, S)
  BY <1>1, <1>3, ReadStateHandled
<1>5. x.state \notin {"WRITE", "RESPONSE_END"}
  BY <1>2, <1>4 DEF Handled
<1>6. cur_fds' = cur_fds + 0
  BY <1>2, <1>3
<1>7. S \cap {"CONNECT", "CLOSE", "REQUEST_START"} = {}
  OBVIOUS
<1>8. con[cur].state \notin {"CONNECT", "CLOSE"}
  BY <1>2
<1>9. RoundQueue
  BY <1>2 DEF RoundQueue
<1> HIDE DEF S
<1>10. QED
  BY <1>1, <1>2, <1>4, <1>5, <1>6, <1>7, <1>8, <1>9, RoundHandled

LEMMA RequestEndStep == ASSUME Parts, SmRequestEnd PROVE Parts'
<1>1. PICK x \in http_request_parse(con[cur]) : Round(x, FALSE)
  BY DEF SmRequestEnd
<1>2. /\ pc = "sm" /\ con[cur].state = "REQUEST_END" /\ UNCHANGED tableVars /\ cur_fds' = cur_fds
      /\ UNCHANGED <<want_fds, fdwaitqueue>>
  BY DEF SmRequestEnd, Running
<1>3. con[cur] \in Connections /\ cur_fds \in Int /\ Sound(con[cur]) /\ Fds(con[cur].bfd) \in Int
  BY CurOfParts
<1>4. /\ x \in Connections /\ x.state \in {"HANDLE_REQUEST", "READ_POST"}
      /\ x.fd = con[cur].fd /\ x.polled = con[cur].polled /\ x.bfd = con[cur].bfd
  BY <1>1, <1>3, ParseTyped
<1>5. Sound(x) /\ x.state # "CONNECT"
  BY <1>2, <1>3, <1>4 DEF Sound
<1>6. cur_fds' = cur_fds + (Fds(x.bfd) - Fds(con[cur].bfd))
  BY <1>2, <1>3, <1>4
<1>7. QED
  BY <1>1, <1>2, <1>4, <1>5, <1>6, RoundKeepsSocket DEF RoundQueue

LEMMA ResponseStartStep == ASSUME Parts, SmResponseStart PROVE Parts'
<1>1. PICK x \in connection_handle_write_prepare(con[cur]) : Round(x, FALSE)
  BY DEF SmResponseStart
<1>2. /\ pc = "sm" /\ con[cur].state = "RESPONSE_START" /\ UNCHANGED tableVars
      /\ cur_fds' = cur_fds /\ UNCHANGED <<want_fds, fdwaitqueue>>
  BY DEF SmResponseStart, Running
<1>3. con[cur] \in Connections /\ cur_fds \in Int
  BY CurOfParts
<1> DEFINE S == {"WRITE"}
<1>4. Handled(con[cur], x, 0, S) /\ (x.ka => x.count <= max_keep_alive_requests)
  BY <1>1, <1>3, WritePrepareHandled
<1>6. cur_fds' = cur_fds + 0
  BY <1>2, <1>3
<1>7. S \cap {"CONNECT", "CLOSE", "REQUEST_START"} = {}
  OBVIOUS
<1>8. con[cur].state \notin {"CONNECT", "CLOSE"}
  BY <1>2
<1>9. RoundQueue
  BY <1>2 DEF RoundQueue
<1> HIDE DEF S
<1>10. QED
  BY <1>1, <1>2, <1>4, <1>6, <1>7, <1>8, <1>9, RoundHandled

LEMMA ConnectStep == ASSUME Parts, SmConnect PROVE Parts'
<1> DEFINE r == con[cur]
           none == 0
           x == [r EXCEPT !.rq = "none", !.count = none]
<1>1. pc = "sm" /\ r.state = "CONNECT" /\ Round(x, FALSE) /\ UNCHANGED tableVars
      /\ cur_fds' = cur_fds /\ UNCHANGED <<want_fds, fdwaitqueue>>
  BY DEF SmConnect, Running
<1>2. r \in Connections /\ Sound(r) /\ cur_fds \in Int /\ Fds(r.bfd) \in Int
  BY CurOfParts
<1>3. none \in 0 .. max_keep_alive_requests + 1 /\ "none" \in Queue
  BY TimeoutAssumption DEF Queue
<1>4. none = 0
  OBVIOUS
<1> HIDE DEF r, none
<1>5. x \in Connections
  BY <1>2, <1>3 DEF Connections
<1>6. x.fd = r.fd /\ x.polled = r.polled /\ x.bfd = r.bfd /\ x.state = r.state /\ x.count = none
  BY <1>2 DEF Connections
<1> HIDE DEF x
<1>7. Sound(x)
  BY <1>1, <1>2, <1>6 DEF Sound
<1>8. cur_fds' = cur_fds + (Fds(x.bfd) - Fds(r.bfd))
  BY <1>1, <1>2, <1>6
<1>9. x.fd = con[cur].fd /\ cur_fds' = cur_fds + (Fds(x.bfd) - Fds(con[cur].bfd))
  BY <1>6, <1>8 DEF r
<1>10. QED
  BY <1>1, <1>4, <1>5, <1>6, <1>7, <1>9, RoundKeepsSocket DEF RoundQueue

LEMMA ErrorHandled ==
    ASSUME NEW r \in Connections, NEW S, "ERROR" \in S
    PROVE  Handled(r, [r EXCEPT !.state = "ERROR"], 0, S)
<1> DEFINE x == [r EXCEPT !.state = "ERROR"]
<1>1. "ERROR" \in ConState
  BY DEF ConState
<1>2. /\ x \in Connections /\ x.fd = r.fd /\ x.polled = r.polled /\ x.bfd = r.bfd
      /\ x.count = r.count /\ x.ka = r.ka /\ x.state = "ERROR"
  BY <1>1 DEF Connections
<1> HIDE DEF x
<1>3. Handled(r, x, 0, S)
  BY <1>2, SameSocket
<1>4. QED
  BY <1>3 DEF x

LEMMA DecidedHandled ==
    ASSUME NEW r \in Connections, NEW p \in http_response_prepare(r), NEW o \in Decided(p),
           NEW S, {"ERROR", "HANDLE_REQUEST", "RESPONSE_START"} \subseteq S
    PROVE  Handled(r, o.con, o.dfd, S)
<1>1. Handled(r, p.con, p.dfd, S)
  BY PrepareHandled
<1>2. p.con \in Connections /\ p.dfd \in Int
  BY <1>1, FdsType, ConnectionFields DEF Handled
<1>a. ResponseReady(p) => p.ret # "ERROR"
  BY DEF ResponseReady
<1>3. CASE ResponseReady(p) /\ CallErrorHandler(p.con)
  <2>1. PICK e \in RestartForErrorHandler(p.con) : o = Out(e.con, e.ret, e.dfd + p.dfd)
    <3>1. Decided(p) = {Out(e.con, e.ret, e.dfd + p.dfd) : e \in RestartForErrorHandler(p.con)}
      BY <1>a, <1>3 DEF Decided
    <3>2. QED
      BY <3>1
  <2>2. Handled(p.con, e.con, e.dfd, S)
    BY <1>2, RestartHandled
  <2>3. e.dfd \in Int
    BY <1>2, <2>2, FdsType, ConnectionFields DEF Handled
  <2>4. Handled(r, e.con, p.dfd + e.dfd, S)
    BY <1>1, <2>2, InTurn
  <2>5. o.con = e.con /\ o.dfd = p.dfd + e.dfd
    BY <1>2, <2>1, <2>3 DEF Out
  <2>6. QED
    BY <2>4, <2>5
<1>4. CASE ResponseReady(p) /\ ~CallErrorHandler(p.con)
  <2>1. o.con = StartResponse(p.con) /\ o.dfd = p.dfd
    <3>1. Decided(p) = {Out(StartResponse(p.con), "FINISHED", p.dfd)}
      BY <1>a, <1>4 DEF Decided
    <3>2. QED
      BY <3>1 DEF Out
  <2>2. Handled(p.con, StartResponse(p.con), 0, S)
    BY <1>2, StartHandled
  <2>3. Handled(r, StartResponse(p.con), p.dfd + 0, S)
    BY <1>1, <2>2, InTurn
  <2>4. QED
    BY <1>2, <2>1, <2>3
<1>5. CASE ~ResponseReady(p) /\ p.ret = "ERROR"
  <2>1. o.con = [p.con EXCEPT !.state = "ERROR"] /\ o.dfd = p.dfd
    BY <1>5 DEF Decided, Out
  <2>2. Handled(p.con, [p.con EXCEPT !.state = "ERROR"], 0, S)
    BY <1>2, ErrorHandled
  <2>3. Handled(r, [p.con EXCEPT !.state = "ERROR"], p.dfd + 0, S)
    BY <1>1, <2>2, InTurn
  <2>4. QED
    BY <1>2, <2>1, <2>3
<1>6. CASE ~ResponseReady(p) /\ p.ret # "ERROR"
  <2>1. o = p
    BY <1>6 DEF Decided
  <2>2. QED
    BY <1>1, <2>1
<1>7. QED
  BY <1>3, <1>4, <1>5, <1>6

LEMMA HandleRequestStep == ASSUME Parts, SmHandleRequest PROVE Parts'
<1>1. PICK o : /\ \E p \in http_response_prepare(con[cur]) : o \in Decided(p)
               /\ cur_fds' = cur_fds + o.dfd
               /\ Round(o.con, o.ret = "COMEBACK")
               /\ IF o.ret = "WAIT_FOR_FD"
                  THEN fdwaitqueue_append
                  ELSE UNCHANGED <<want_fds, fdwaitqueue>>
  BY DEF SmHandleRequest
<1>2. pc = "sm" /\ con[cur].state \in {"READ_POST", "HANDLE_REQUEST"} /\ UNCHANGED tableVars
  BY DEF SmHandleRequest, Running
<1>3. con[cur] \in Connections
  BY CurOfParts
<1> DEFINE S == {"ERROR", "HANDLE_REQUEST", "RESPONSE_START"}
<1>4. Handled(con[cur], o.con, o.dfd, S)
  BY <1>1, <1>3, DecidedHandled
<1>5. o.con.state \notin {"WRITE", "RESPONSE_END"}
  BY <1>2, <1>4 DEF Handled
<1>7. S \cap {"CONNECT", "CLOSE", "REQUEST_START"} = {}
  OBVIOUS
<1>8. con[cur].state \notin {"CONNECT", "CLOSE"}
  BY <1>2
<1>9. RoundQueue
  BY <1>1 DEF RoundQueue
<1> HIDE DEF S
<1>10. QED
  BY <1>1, <1>2, <1>4, <1>5, <1>7, <1>8, <1>9, RoundHandled

LEMMA WrittenHandled ==
    ASSUME NEW r \in Connections, NEW x \in Written(r), NEW S, {"RESPONSE_END", "ERROR"} \subseteq S
    PROVE  Handled(r, x, 0, S)
<1> DEFINE y == [r EXCEPT !.state = "RESPONSE_END"]
<1>1. x \in connection_handle_write(r) \/ x = y \/ x = r
  BY DEF Written
<1>2. "RESPONSE_END" \in ConState
  BY DEF ConState
<1>3. /\ y \in Connections /\ y.fd = r.fd /\ y.polled = r.polled /\ y.bfd = r.bfd
      /\ y.count = r.count /\ y.ka = r.ka /\ y.state = "RESPONSE_END"
  BY <1>2 DEF Connections
<1> HIDE DEF y
<1>4. Handled(r, y, 0, S)
  BY <1>3, SameSocket
<1>5. QED
  BY <1>1, <1>4, WriteHandled, Nothing

LEMMA WriteStep == ASSUME Parts, SmWrite PROVE Parts'
<1>1. PICK r \in Written(con[cur]) :
        IF r.state = "WRITE" /\ r.mode = "backend" /\ ~r.fin
        THEN \E o \in plugins_call_handle_subrequest(r) :
                LET x == IF o.ret \in {"COMEBACK", "ERROR"}
                         THEN [o.con EXCEPT !.state = "ERROR"] ELSE o.con
                IN  /\ cur_fds' = cur_fds + o.dfd
                    /\ Round(x, WriteAgain(x))
                    /\ IF o.ret = "WAIT_FOR_FD"
                       THEN fdwaitqueue_append
                       ELSE UNCHANGED <<want_fds, fdwaitqueue>>
        ELSE /\ Round(r, WriteAgain(r))
             /\ UNCHANGED <<cur_fds, want_fds, fdwaitqueue>>
  BY DEF SmWrite
<1>2. pc = "sm" /\ con[cur].state = "WRITE" /\ UNCHANGED tableVars
  BY DEF SmWrite, Running
<1>3. con[cur] \in Connections /\ cur_fds \in Int
  BY CurOfParts
<1> DEFINE S == {"RESPONSE_END", "ERROR", "HANDLE_REQUEST"}
<1>4. Handled(con[cur], r, 0, S)
  BY <1>3, WrittenHandled
<1>5. r \in Connections
  BY <1>4 DEF Handled
<1>6. PICK x, d, a : /\ Handled(r, x, d, S) /\ d \in Int /\ cur_fds' = cur_fds + d
                     /\ Round(x, a) /\ RoundQueue
  <2>1. CASE ~(r.state = "WRITE" /\ r.mode = "backend" /\ ~r.fin)
    <3>1. Handled(r, r, 0, S)
      BY <1>5, Nothing
    <3>2. cur_fds' = cur_fds + 0 /\ Round(r, WriteAgain(r)) /\ RoundQueue
      BY <1>1, <1>3, <2>1 DEF RoundQueue
    <3>3. QED
      BY <3>1, <3>2
  <2>2. CASE r.state = "WRITE" /\ r.mode = "backend" /\ ~r.fin
    <3>1. PICK o \in plugins_call_handle_subrequest(r) :
                LET x == IF o.ret \in {"COMEBACK", "ERROR"}
                         THEN [o.con EXCEPT !.state = "ERROR"] ELSE o.con
                IN  /\ cur_fds' = cur_fds + o.dfd
                    /\ Round(x, WriteAgain(x))
                    /\ IF o.ret = "WAIT_FOR_FD"
                       THEN fdwaitqueue_append
                       ELSE UNCHANGED <<want_fds, fdwaitqueue>>
      BY <1>1, <2>2
    <3> DEFINE x == IF o.ret \in {"COMEBACK", "ERROR"}
                    THEN [o.con EXCEPT !.state = "ERROR"] ELSE o.con
    <3>2. Handled(r, o.con, o.dfd, S)
      BY <1>5, SubrequestHandled
    <3>3. o.con \in Connections /\ o.dfd \in Int
      BY <1>5, <3>2, FdsType, ConnectionFields DEF Handled
    <3>4. Handled(o.con, x, 0, S)
      BY <3>3, ErrorHandled, Nothing
    <3> HIDE DEF S
    <3>5. Handled(r, x, o.dfd + 0, S)
      BY <1>5, <3>2, <3>4, InTurn
    <3>6. Handled(r, x, o.dfd, S)
      BY <3>3, <3>5
    <3>7. cur_fds' = cur_fds + o.dfd /\ Round(x, WriteAgain(x)) /\ RoundQueue
      BY <3>1 DEF RoundQueue
    <3>8. QED
      BY <3>3, <3>6, <3>7
  <2>3. QED
    BY <2>1, <2>2
<1>7. S \cap {"CONNECT", "CLOSE", "REQUEST_START"} = {}
  OBVIOUS
<1> HIDE DEF S
<1>8. Handled(con[cur], x, 0 + d, S)
  BY <1>3, <1>4, <1>6, InTurn
<1>9. cur_fds' = cur_fds + (0 + d)
  BY <1>6
<1>10. con[cur].state \notin {"CONNECT", "CLOSE"} /\ con[cur].state \in {"WRITE", "RESPONSE_END"}
  BY <1>2
<1>11. QED
  BY <1>2, <1>6, <1>7, <1>8, <1>9, <1>10, RoundHandled

(* A connection that is closed leaves the table, and nobody else does. *)
LEMMA DelIndex ==
    ASSUME TableInv, NEW c \in Con, connection_del(c)
    PROVE  /\ TableInv' /\ ~InTable(c)'
           /\ \A d \in Con \ {c} : InTable(d)' <=> InTable(d)
<1>1. TableInv'
  BY DelPreservesInv
<1>2. /\ size \in Nat /\ used \in 0 .. size /\ ptr \in [0 .. size - 1 -> Con]
      /\ ndx \in [Con -> {-1} \cup 0 .. size - 1]
      /\ ndx[c] # -1 => ndx[c] < used /\ ptr[ndx[c]] = c
      /\ \A i \in 0 .. used - 1 : ndx[ptr[i]] = i
  BY DEF TableInv, TableTypeOK, NdxInverse
<1>3. CASE ndx[c] = -1
  BY <1>1, <1>3 DEF connection_del, InTable, tableVars
<1>4. CASE ndx[c] # -1
  <2>1. used - 1 \in 0 .. used - 1 /\ ptr[ndx[c]] = c /\ ptr[used - 1] \in Con
        /\ ndx[ptr[used - 1]] = used - 1
    BY <1>2, <1>4
  <2>2. ndx' = [ndx EXCEPT ![ptr[used - 1]] = ndx[c], ![c] = -1]
    BY <1>2, <1>4, <2>1 DEF connection_del
  <2>3. ~InTable(c)'
    BY <1>2, <2>2 DEF InTable
  <2>4. ASSUME NEW d \in Con \ {c} PROVE InTable(d)' <=> InTable(d)
    <3>1. CASE d = ptr[used - 1]
      BY <1>2, <1>4, <2>1, <2>2, <3>1 DEF InTable
    <3>2. CASE d # ptr[used - 1]
      BY <1>2, <2>2, <3>2 DEF InTable
    <3>3. QED
      BY <3>1, <3>2
  <2>5. QED
    BY <1>1, <2>3, <2>4
<1>5. QED
  BY <1>3, <1>4

LEMMA EndStep ==
    ASSUME Parts, pc = "sm", con[cur].fd, NEW x \in Connections, Sound(x),
           con[cur].state # "CONNECT", EndWith(x)
    PROVE  Parts'
<1>1. /\ Round(x, FALSE) /\ UNCHANGED <<want_fds, fdwaitqueue>>
      /\ cur_fds' = cur_fds - (Fds(con[cur].bfd) - Fds(x.bfd)) - (Fds(con[cur].fd) - Fds(x.fd))
      /\ IF con[cur].fd /\ ~x.fd THEN connection_del(cur) ELSE UNCHANGED tableVars
  BY DEF EndWith
<1>2. cur \in Con /\ cur_fds \in Int /\ InTable(cur)
  BY DEF Parts, LoopTyped, ConInv
<1>3. /\ Fds(x.bfd) \in Int /\ Fds(con[cur].bfd) \in Int
      /\ Fds(x.fd) \in Int /\ Fds(con[cur].fd) \in Int
  BY DEF Fds
<1>a. cur_fds' = cur_fds - (Fds(con[cur].bfd) - Fds(x.bfd)) - (Fds(con[cur].fd) - Fds(x.fd))
  BY <1>1
<1>b. cur_fds \in Int
  BY <1>2
<1>4. cur_fds' = cur_fds + (Fds(x.bfd) - Fds(con[cur].bfd)) + (Fds(x.fd) - Fds(con[cur].fd))
  <2> DEFINE p == Fds(x.bfd)
             q == Fds(con[cur].bfd)
             u == Fds(x.fd)
             v == Fds(con[cur].fd)
  <2>1. /\ p \in Int /\ q \in Int /\ u \in Int /\ v \in Int /\ cur_fds \in Int
        /\ cur_fds' = cur_fds - (q - p) - (v - u)
    BY <1>a, <1>b, <1>3
  <2> HIDE DEF p, q, u, v
  <2>2. cur_fds' = cur_fds + (p - q) + (u - v)
    BY <2>1
  <2>3. QED
    BY <2>2 DEF p, q, u, v
<1>5. cur' = cur
  BY <1>1 DEF Round
<1>6. TableInv' /\ (\A d \in Con \ {cur} : InTable(d)' <=> InTable(d)) /\ (x.fd <=> InTable(cur)')
  <2>1. CASE x.fd
    <3>1. UNCHANGED tableVars
      BY <1>1, <2>1
    <3>2. TableInv' /\ (\A d \in Con : InTable(d)' <=> InTable(d))
      BY <3>1 DEF Parts, TableInv, TableTypeOK, NoSharedSlot, NdxInverse, InTable, tableVars
    <3>3. InTable(cur)'
      BY <1>2, <1>5, <3>1 DEF InTable, tableVars
    <3>4. QED
      BY <2>1, <3>2, <3>3
  <2>2. CASE ~x.fd
    <3>1. connection_del(cur)
      BY <1>1, <2>2
    <3>2. PICK c \in Con : c = cur
      BY <1>2
    <3>3. TableInv' /\ ~InTable(c)' /\ \A d \in Con \ {c} : InTable(d)' <=> InTable(d)
      BY <3>1, <3>2, DelIndex DEF Parts
    <3>4. ~InTable(cur)'
      BY <1>5, <3>2, <3>3 DEF InTable
    <3>5. QED
      BY <2>2, <3>2, <3>3, <3>4
  <2>3. QED
    BY <2>1, <2>2
<1>7. QED
  BY <1>1, <1>4, <1>6, RoundStep DEF RoundQueue

LEMMA ResponseEndStep == ASSUME Parts, SmResponseEnd PROVE Parts'
<1>1. PICK x \in connection_handle_response_end_state(con[cur]) : EndWith(x)
  BY DEF SmResponseEnd
<1>2. pc = "sm" /\ con[cur].state \in {"RESPONSE_END", "ERROR"}
  BY DEF SmResponseEnd, Running
<1>3. con[cur] \in Connections /\ Sound(con[cur])
  BY CurOfParts
<1>4. x \in Connections /\ Sound(x)
  BY <1>1, <1>2, <1>3, ResponseEndSound
<1>5. con[cur].fd /\ con[cur].state # "CONNECT"
  BY <1>2, <1>3 DEF Sound
<1>6. QED
  BY <1>1, <1>2, <1>4, <1>5, EndStep

LEMMA CloseStep == ASSUME Parts, SmClose PROVE Parts'
<1>1. PICK x \in connection_handle_close_state(con[cur]) : EndWith(x)
  BY DEF SmClose
<1>2. pc = "sm" /\ con[cur].state = "CLOSE"
  BY DEF SmClose, Running
<1>3. con[cur] \in Connections /\ Sound(con[cur])
  BY CurOfParts
<1>4. x \in Connections /\ Sound(x)
  BY <1>1, <1>2, <1>3, CloseSound
<1>5. con[cur].fd /\ con[cur].state # "CONNECT"
  BY <1>2, <1>3 DEF Sound
<1>6. QED
  BY <1>1, <1>2, <1>4, <1>5, EndStep

(* A connection that keeps its descriptors, in a step that leaves the table and srv->cur_fds alone. *)
LEMMA SameDescriptors ==
    ASSUME Parts, NEW c \in Con, NEW x \in Connections, Sound(x), con' = [con EXCEPT ![c] = x],
           x.fd = con[c].fd, x.bfd = con[c].bfd, UNCHANGED <<tableVars, cur_fds>>,
           x.state = "CONNECT" => x.count = 0 \/ (pc' = "sm" /\ cur' = c),
           pc = "sm" => cur = c
    PROVE  TableInv' /\ ConInv' /\ FdsCounted'
<1>1. /\ con \in [Con -> Connections] /\ cur_fds \in Int /\ (con[c].fd <=> InTable(c))
      /\ ndx \in [Con -> Int]
  BY DEF Parts, LoopTyped, ConInv, TableInv, TableTypeOK
<1>2. TableInv' /\ ndx' = ndx
  BY DEF Parts, TableInv, TableTypeOK, NoSharedSlot, NdxInverse, tableVars
<1>3. \A d \in Con : InTable(d)' <=> InTable(d)
  BY <1>2 DEF InTable
<1>4. FdsCounted'
  <2>1. con' \in [Con -> Connections] /\ \A d \in Con : con'[d].fd = con[d].fd /\ con'[d].bfd = con[d].bfd
    BY <1>1
  <2>2. QED
    BY <1>1, <2>1, FdsSame DEF Parts
<1>5. x.fd <=> InTable(c)'
  BY <1>1, <1>3
<1>6. con' \in [Con -> Connections]
  BY <1>1
<1>7. ASSUME NEW d \in Con
      PROVE  /\ Sound(con'[d])
             /\ con'[d].fd <=> InTable(d)'
             /\ con'[d].state = "CONNECT" => con'[d].count = 0 \/ (pc' = "sm" /\ cur' = d)
  <2>1. CASE d = c
    BY <1>1, <1>5, <2>1
  <2>2. CASE d # c
    <3>1. con'[d] = con[d] /\ (InTable(d)' <=> InTable(d))
      BY <1>1, <1>3, <2>2
    <3>2. Sound(con[d]) /\ (con[d].fd <=> InTable(d))
          /\ (con[d].state = "CONNECT" => con[d].count = 0)
      BY <2>2 DEF Parts, ConInv
    <3>3. QED
      BY <3>1, <3>2
  <2>3. QED
    BY <2>1, <2>2
<1>8. QED
  BY <1>2, <1>4, <1>6, <1>7 DEF ConInv

LEMMA ExitStep == ASSUME Parts, SmExit PROVE Parts'
<1> DEFINE x == UpdateInterest(con[cur])
<1>1. /\ pc = "smexit" /\ pc' = back /\ back' = "top" /\ cur' = cur
      /\ con' = [con EXCEPT ![cur] = x]
      /\ k' = (CASE back \in {"scan", "accept"} -> k + 1 [] back = "fdwait" -> k - 1 [] OTHER -> k)
      /\ want_fds' = (IF back = "fdwait" THEN want_fds - 1 ELSE want_fds)
      /\ UNCHANGED <<tableVars, cur_fds>> /\ UNCHANGED <<fdwaitqueue, joblist, todo>>
      /\ UNCHANGED <<sockVars, sigVars>>
  BY DEF SmExit
<1>2. cur \in Con /\ con[cur] \in Connections /\ Sound(con[cur])
  BY CurOfParts
<1>3. /\ x \in Connections /\ Sound(x) /\ x.fd = con[cur].fd /\ x.bfd = con[cur].bfd
      /\ x.state = con[cur].state /\ x.count = con[cur].count
  BY <1>2, InterestSound
<1> HIDE DEF x
<1>4. x.state = "CONNECT" => x.count = 0
  BY <1>1, <1>2, <1>3 DEF Parts, ConInv
<1>5. TableInv' /\ ConInv' /\ FdsCounted'
  BY <1>1, <1>2, <1>3, <1>4, SameDescriptors
<1>6. k \in Int /\ want_fds \in Int /\ back \in {"top", "scan", "fdwait", "accept", "jobs"}
      /\ con \in [Con -> Connections]
  BY DEF Parts, LoopTyped, ConInv
<1>7. k' \in Int /\ want_fds' \in Int
  BY <1>1, <1>6
<1>8. LoopTyped'
  BY <1>1, <1>6, <1>7 DEF Parts, LoopTyped, sockVars, sigVars
<1>9. ScanForward'
  BY <1>1, <1>6 DEF Parts, ScanForward, InMachine
<1>10. WantFdsCounted'
  <2>1. Len(fdwaitqueue) \in Nat
    BY DEF Parts, LoopTyped
  <2>2. QED
    BY <1>1, <1>6, <2>1 DEF Parts, WantFdsCounted
<1>11. EventsOfOpen'
  <2>1. ~InMachine'
    BY <1>1, <1>6 DEF InMachine
  <2>2. \A c \in Con : con'[c].fd = con[c].fd /\ con'[c].bfd = con[c].bfd
    BY <1>1, <1>2, <1>3, <1>6
  <2>3. todo # {} => back = "accept"
    BY <1>1 DEF Parts, EventsOfOpen
  <2>4. QED
    BY <1>1, <2>1, <2>2, <2>3 DEF Parts, EventsOfOpen
<1>12. QED
  BY <1>5, <1>8, <1>9, <1>10, <1>11 DEF Parts

(* The phases of the main loop. *)
LEMMA PhaseStep ==
    ASSUME Parts, \/ LoopEnd \/ NoTick \/ ScanEnd \/ EnableSockets \/ DisableSockets \/ LeaveSockets
                  \/ GracefulEnd \/ StayUp \/ ListenEvent \/ AcceptEnd \/ DispatchEnd \/ JobsEnd
                  \/ SIGTERM \/ SIGINT
    PROVE  Parts'
<1>1. UNCHANGED <<tableVars, con, cur_fds>> /\ UNCHANGED <<want_fds, fdwaitqueue, joblist>>
      /\ ~InMachine /\ pc # "sm" /\ ~InMachine' /\ cur' = cur
  BY Zenon DEF LoopEnd, NoTick, ScanEnd, EnableSockets, DisableSockets, LeaveSockets, GracefulEnd,
     StayUp, ListenEvent, AcceptEnd, DispatchEnd, JobsEnd, SIGTERM, SIGINT, queueVars, loopVars, InMachine
<1>2. TableInv' /\ ConInv' /\ FdsCounted'
  BY <1>1, QuietPhase DEF Parts
<1>3. LoopTyped'
  <2>1. k' = k \/ k' = 0 \/ k' = max_fds - cur_fds - ReservedFds
    BY DEF LoopEnd, NoTick, ScanEnd, EnableSockets, DisableSockets, LeaveSockets, GracefulEnd,
       StayUp, ListenEvent, AcceptEnd, DispatchEnd, JobsEnd, SIGTERM, SIGINT, loopVars
  <2>2. k' \in Int
    BY <2>1, LimitAssumption DEF Parts, LoopTyped
  <2>3. listening' \in {listening, "on", "off", "closed"} /\ back' = back
        /\ pc' \in {pc, "exit", "sockets", "grace", "fdwait", "accept", "dispatch", "jobs", "top"}
    BY Zenon DEF LoopEnd, NoTick, ScanEnd, EnableSockets, DisableSockets, LeaveSockets, GracefulEnd,
       StayUp, ListenEvent, AcceptEnd, DispatchEnd, JobsEnd, SIGTERM, SIGINT, loopVars, sockVars
  <2>4. /\ sockets_disabled' \in BOOLEAN /\ graceful_shutdown' \in BOOLEAN
        /\ srv_shutdown' \in BOOLEAN /\ pid_file' \in BOOLEAN
    BY Zenon DEF LoopEnd, NoTick, ScanEnd, EnableSockets, DisableSockets, LeaveSockets, GracefulEnd,
       StayUp, ListenEvent, AcceptEnd, DispatchEnd, JobsEnd, SIGTERM, SIGINT, loopVars, sockVars, sigVars,
       Parts, LoopTyped
  <2>5. QED
    BY <1>1, <2>2, <2>3, <2>4 DEF Parts, LoopTyped
<1>4. /\ pc' = "scan" => pc = "scan" /\ k' = k
      /\ todo' \subseteq todo
      /\ todo' # {} /\ pc \in {"dispatch", "accept"} => pc' \in {"dispatch", "accept"}
  BY DEF LoopEnd, NoTick, ScanEnd, EnableSockets, DisableSockets, LeaveSockets, GracefulEnd,
     StayUp, ListenEvent, AcceptEnd, DispatchEnd, JobsEnd, SIGTERM, SIGINT, loopVars
<1>5. ScanForward'
  BY <1>1, <1>4 DEF Parts, ScanForward
<1>6. EventsOfOpen'
  BY <1>1, <1>4 DEF Parts, EventsOfOpen
<1>7. WantFdsCounted'
  BY <1>1 DEF Parts, WantFdsCounted, InMachine
<1>8. QED
  BY <1>2, <1>3, <1>5, <1>6, <1>7 DEF Parts

LEMMA QueueStep ==
    ASSUME Parts, fdwaitqueue_unshift \/ RunJob
    PROVE  Parts'
<1>1. /\ UNCHANGED <<tableVars, con, cur_fds>> /\ UNCHANGED <<want_fds, k, todo>>
      /\ UNCHANGED <<sockVars, sigVars>> /\ pc \in {"fdwait", "jobs"} /\ pc' = "sm"
  BY Zenon DEF fdwaitqueue_unshift, RunJob, Call
<1>2. TableInv' /\ ConInv' /\ FdsCounted'
  BY <1>1, QuietPhase DEF Parts
<1>3. fdwaitqueue \in Seq(Con) /\ joblist \in Seq(Con)
  BY DEF Parts, LoopTyped
<1>4. /\ fdwaitqueue' \in Seq(Con) /\ joblist' \in Seq(Con) /\ cur' \in Con
      /\ back' \in {"fdwait", "jobs"}
      /\ Len(fdwaitqueue) = Len(fdwaitqueue') + (IF back' = "fdwait" THEN 1 ELSE 0)
  <2>1. CASE fdwaitqueue_unshift
    <3>1. /\ fdwaitqueue # <<>> /\ fdwaitqueue' = Tail(fdwaitqueue) /\ cur' = Head(fdwaitqueue)
          /\ back' = "fdwait" /\ joblist' = joblist
      BY <2>1 DEF fdwaitqueue_unshift, Call
    <3>2. Len(Tail(fdwaitqueue)) = Len(fdwaitqueue) - 1 /\ Tail(fdwaitqueue) \in Seq(Con)
          /\ Head(fdwaitqueue) \in Con /\ Len(fdwaitqueue) \in Nat
      BY <1>3, <3>1
    <3>3. QED
      BY <1>3, <3>1, <3>2
  <2>2. CASE RunJob
    <3>1. /\ joblist # <<>> /\ joblist' = Tail(joblist) /\ cur' = Head(joblist)
          /\ back' = "jobs" /\ fdwaitqueue' = fdwaitqueue
      BY <2>2 DEF RunJob, Call
    <3>2. Tail(joblist) \in Seq(Con) /\ Head(joblist) \in Con /\ Len(fdwaitqueue) \in Nat
      BY <1>3, <3>1
    <3>3. QED
      BY <1>3, <3>1, <3>2
  <2>3. QED
    BY <2>1, <2>2
<1>5. LoopTyped'
  BY <1>1, <1>4 DEF Parts, LoopTyped, sockVars, sigVars
<1>6. ScanForward'
  BY <1>1, <1>4 DEF ScanForward, InMachine
<1>7. WantFdsCounted'
  <2>1. Len(fdwaitqueue) \in Nat /\ Len(fdwaitqueue') \in Nat
    BY <1>3, <1>4
  <2>2. want_fds = Len(fdwaitqueue) + 0
    BY <1>1 DEF Parts, WantFdsCounted
  <2>3. want_fds' = Len(fdwaitqueue') + IF back' = "fdwait" THEN 1 ELSE 0
    BY <1>1, <1>4, <2>1, <2>2
  <2>4. QED
    BY <1>1, <2>3 DEF WantFdsCounted
<1>8. EventsOfOpen'
  <2>1. todo = {}
    BY <1>1 DEF Parts, EventsOfOpen, InMachine
  <2>2. QED
    BY <1>1, <2>1 DEF EventsOfOpen
<1>9. QED
  BY <1>2, <1>5, <1>6, <1>7, <1>8 DEF Parts

LEMMA SourceOfOpen ==
    ASSUME NEW c \in Con
    PROVE  /\ <<"con", c>> \in Sources => con[c].polled
           /\ <<"backend", c>> \in Sources => con[c].bfd
<1>1. ASSUME NEW d \in Con
      PROVE  /\ <<"con", c>> # <<"backend", d>> /\ <<"con", c>> # <<"listen">>
             /\ <<"backend", c>> # <<"listen">>
             /\ (<<"con", c>> = <<"con", d>> => c = d)
             /\ (<<"backend", c>> = <<"backend", d>> => c = d)
  BY Z3
<1>2. QED
  BY <1>1 DEF Sources

LEMMA PollStep == ASSUME Parts, fdevent_poll PROVE Parts'
<1>1. /\ UNCHANGED <<tableVars, con, cur_fds>> /\ UNCHANGED <<queueVars, sockVars, sigVars, cur, back>>
      /\ pc = "fdwait" /\ pc' = "dispatch" /\ k' = 0 /\ todo' = Sources
  BY DEF fdevent_poll
<1>2. TableInv' /\ ConInv' /\ FdsCounted'
  BY <1>1, QuietPhase DEF Parts
<1>3. LoopTyped'
  BY <1>1 DEF Parts, LoopTyped, queueVars, sockVars, sigVars
<1>4. ScanForward'
  BY <1>1 DEF ScanForward, InMachine
<1>5. WantFdsCounted'
  BY <1>1 DEF Parts, WantFdsCounted, queueVars
<1>6. EventsOfOpen'
  <2>1. \A c \in Con : con[c].polled => con[c].fd
    BY DEF Parts, ConInv, Sound
  <2>2. QED
    BY <1>1, <2>1, SourceOfOpen DEF EventsOfOpen, InMachine
<1>7. QED
  BY <1>2, <1>3, <1>4, <1>5, <1>6 DEF Parts

LEMMA TickStep == ASSUME Parts, Tick PROVE Parts'
<1>1. /\ con' = [c \in Con |-> Aged(con[c])] /\ pc = "top" /\ pc' = "scan" /\ k' = 0
      /\ UNCHANGED <<tableVars, cur_fds>> /\ UNCHANGED <<queueVars, sockVars, srv_shutdown, cur, back, todo>>
  BY DEF Tick
<1>2. graceful_shutdown' \in BOOLEAN
  BY Zenon DEF Tick, Parts, LoopTyped
<1>3. ASSUME NEW c \in Con
      PROVE  /\ con'[c] \in Connections /\ Sound(con'[c])
             /\ con'[c].fd = con[c].fd /\ con'[c].bfd = con[c].bfd
             /\ con'[c].state = con[c].state /\ con'[c].count = con[c].count
  <2>1. con[c] \in Connections /\ Sound(con[c])
    BY DEF Parts, ConInv
  <2>2. con'[c] = Aged(con[c])
    BY <1>1
  <2>3. QED
    BY <2>1, <2>2, AgedSound
<1>4. con' \in [Con -> Connections]
  BY <1>1, <1>3
<1>5. TableInv' /\ ndx' = ndx
  BY <1>1 DEF Parts, TableInv, TableTypeOK, NoSharedSlot, NdxInverse, tableVars
<1>6. FdsCounted'
  BY <1>1, <1>3, <1>4, FdsSame DEF Parts, ConInv
<1>7. ConInv'
  BY <1>1, <1>3, <1>4, <1>5 DEF Parts, ConInv, InTable
<1>8. LoopTyped'
  BY <1>1, <1>2 DEF Parts, LoopTyped, queueVars, sockVars
<1>9. ScanForward'
  BY <1>1 DEF ScanForward
<1>10. WantFdsCounted'
  BY <1>1 DEF Parts, WantFdsCounted, queueVars
<1>11. EventsOfOpen'
  BY <1>1 DEF Parts, EventsOfOpen, InMachine
<1>12. QED
  BY <1>5, <1>6, <1>7, <1>8, <1>9, <1>10, <1>11 DEF Parts

LEMMA TimedOutSound ==
    ASSUME NEW r \in Connections, Sound(r), r.fd, NEW limited \in BOOLEAN
    PROVE  LET x == [TimedOut(r) EXCEPT !.tl = limited]
           IN  x \in Connections /\ Sound(x) /\ x.fd = r.fd /\ x.bfd = r.bfd /\ x.state # "CONNECT"
<1> DEFINE e == [r EXCEPT !.state = "ERROR"]
           t == TimedOut(r)
           x == [t EXCEPT !.tl = limited]
<1>1. "ERROR" \in ConState /\ r.state # "CONNECT"
  BY DEF ConState, Sound
<1>2. e \in Connections /\ e.fd = r.fd /\ e.polled = r.polled /\ e.bfd = r.bfd /\ e.count = r.count
      /\ e.ka = r.ka /\ e.state = "ERROR"
  BY <1>1 DEF Connections
<1>3. t = e \/ t = r
  BY DEF TimedOut
<1>4. t \in Connections /\ t.fd = r.fd /\ t.polled = r.polled /\ t.bfd = r.bfd /\ t.count = r.count
      /\ t.ka = r.ka /\ t.state \in {r.state, "ERROR"}
  BY <1>2, <1>3
<1> HIDE DEF t
<1>5. x \in Connections /\ x.fd = t.fd /\ x.polled = t.polled /\ x.bfd = t.bfd /\ x.count = t.count
      /\ x.ka = t.ka /\ x.state = t.state
  BY <1>4, ZenonT(40) DEF Connections
<1> HIDE DEF x
<1>6. Sound(x) /\ x.state # "CONNECT"
  BY <1>1, <1>4, <1>5 DEF Sound
<1>7. x \in Connections /\ Sound(x) /\ x.fd = r.fd /\ x.bfd = r.bfd /\ x.state # "CONNECT"
  BY <1>4, <1>5, <1>6
<1>8. QED
  BY <1>7 DEF x, t

(* The connection in the slot of the scan is open. *)
LEMMA ScanSlotStep == ASSUME Parts, ScanSlot PROVE Parts'
<1>1. PICK limited \in BOOLEAN :
        /\ con' = [con EXCEPT ![ptr[k]] = [TimedOut(@) EXCEPT !.tl = limited]]
        /\ \/ pc' = "sm" /\ cur' = ptr[k] /\ back' = "scan" /\ UNCHANGED k
           \/ k' = k + 1 /\ UNCHANGED <<pc, cur, back>>
  BY DEF ScanSlot, Call
<1>2. /\ pc = "scan" /\ k < used /\ UNCHANGED <<tableVars, cur_fds>>
      /\ UNCHANGED <<queueVars, sockVars, sigVars, todo>>
  BY DEF ScanSlot
<1>3. PICK c \in Con : c = ptr[k] /\ ndx[c] = k /\ k \in Nat
  <2>1. k \in Nat
    BY <1>2 DEF Parts, ScanForward
  <2>2. k \in 0 .. used - 1 /\ k \in 0 .. size - 1
    BY <1>2, <2>1 DEF Parts, TableInv, TableTypeOK
  <2>3. ptr[k] \in Con /\ ndx[ptr[k]] = k
    BY <2>2 DEF Parts, TableInv, TableTypeOK, NdxInverse
  <2>4. QED
    BY <2>1, <2>3
<1> DEFINE x == [TimedOut(con[c]) EXCEPT !.tl = limited]
<1>4. con[c] \in Connections /\ Sound(con[c]) /\ con[c].fd
  BY <1>3 DEF Parts, ConInv, InTable
<1>5. x \in Connections /\ Sound(x) /\ x.fd = con[c].fd /\ x.bfd = con[c].bfd /\ x.state # "CONNECT"
  BY <1>4, TimedOutSound
<1>6. con' = [con EXCEPT ![c] = x]
  BY <1>1, <1>3
<1> HIDE DEF x
<1>7. TableInv' /\ ConInv' /\ FdsCounted'
  BY <1>2, <1>5, <1>6, SameDescriptors
<1>8. LoopTyped'
  BY <1>1, <1>2, <1>3 DEF Parts, LoopTyped, queueVars, sockVars, sigVars
<1>9. ScanForward'
  BY <1>1, <1>3 DEF ScanForward
<1>10. WantFdsCounted'
  BY <1>1, <1>2 DEF Parts, WantFdsCounted, queueVars
<1>11. EventsOfOpen'
  BY <1>2 DEF Parts, EventsOfOpen, InMachine
<1>12. QED
  BY <1>7, <1>8, <1>9, <1>10, <1>11 DEF Parts

(* The handlers of events: the descriptors of other connections are not concerned. *)
LEMMA EventLoop ==
    ASSUME Parts, pc = "dispatch", NEW c \in Con, NEW x, con' = [con EXCEPT ![c] = x], x.fd,
           NEW e, (e = <<"con", c>> /\ x.bfd = con[c].bfd) \/ e = <<"backend", c>>,
           todo' = todo \ {e}, joblist' = Append(joblist, c), cur_fds' \in Int,
           UNCHANGED <<want_fds, fdwaitqueue, sockVars, sigVars, pc, cur, back, k>>
    PROVE  LoopTyped' /\ EventsOfOpen' /\ ScanForward' /\ WantFdsCounted'
<1>1. LoopTyped'
  <2>1. joblist' \in Seq(Con)
    BY DEF Parts, LoopTyped
  <2>2. QED
    BY <2>1 DEF Parts, LoopTyped, sockVars, sigVars
<1>2. ScanForward' /\ WantFdsCounted'
  BY DEF Parts, ScanForward, InMachine, WantFdsCounted
<1>3. EventsOfOpen'
  <2>1. ASSUME NEW d \in Con
        PROVE  /\ <<"con", d>> \in todo' => con'[d].fd
               /\ <<"backend", d>> \in todo' => con'[d].bfd
    <3>1. CASE d # c
      BY <3>1 DEF Parts, EventsOfOpen, ConInv
    <3>2. CASE d = c
      <4>1. con'[d] = x
        BY <3>2 DEF Parts, ConInv
      <4>2. QED
        BY <3>2, <4>1 DEF Parts, EventsOfOpen
    <3>3. QED
      BY <3>1, <3>2
  <2>2. QED
    BY <2>1 DEF EventsOfOpen, InMachine
<1>4. QED
  BY <1>1, <1>2, <1>3

LEMMA ClientEventStep == ASSUME Parts, NEW c \in Con, ClientEvent(c) PROVE Parts'
<1>1. PICK revents \in Revents(con[c]) : \E r \in connection_handle_fdevent(con[c], revents) :
         con' = [con EXCEPT ![c] = r]
  BY DEF ClientEvent
<1>2. PICK x \in connection_handle_fdevent(con[c], revents) : con' = [con EXCEPT ![c] = x]
  BY <1>1
<1>3. /\ pc = "dispatch" /\ <<"con", c>> \in todo /\ todo' = todo \ {<<"con", c>>}
      /\ joblist' = Append(joblist, c) /\ UNCHANGED <<tableVars, cur_fds>>
      /\ UNCHANGED <<want_fds, fdwaitqueue, sockVars, sigVars, pc, cur, back, k>>
  BY DEF ClientEvent, joblist_append
<1>4. con[c] \in Connections /\ Sound(con[c]) /\ con[c].fd /\ cur_fds \in Int
  BY <1>3 DEF Parts, ConInv, EventsOfOpen, LoopTyped
<1>5. x \in Connections /\ Sound(x) /\ x.fd = con[c].fd /\ x.bfd = con[c].bfd
  BY <1>2, <1>4, FdeventSound, ZenonT(40)
<1>6. x.state # "CONNECT" /\ x.fd
  BY <1>4, <1>5 DEF Sound
<1>7. TableInv' /\ ConInv' /\ FdsCounted'
  BY <1>2, <1>3, <1>5, <1>6, SameDescriptors
<1>8. LoopTyped' /\ EventsOfOpen' /\ ScanForward' /\ WantFdsCounted'
  BY <1>2, <1>3, <1>4, <1>5, <1>6, EventLoop
<1>9. QED
  BY <1>7, <1>8 DEF Parts

LEMMA BackendEventStep == ASSUME Parts, NEW c \in Con, BackendEvent(c) PROVE Parts'
<1>1. PICK o \in backend_handle_fdevent(con[c]) : con' = [con EXCEPT ![c] = o.con] /\ cur_fds' = cur_fds + o.dfd
  BY DEF BackendEvent
<1>2. /\ pc = "dispatch" /\ <<"backend", c>> \in todo /\ todo' = todo \ {<<"backend", c>>}
      /\ joblist' = Append(joblist, c) /\ UNCHANGED tableVars
      /\ UNCHANGED <<want_fds, fdwaitqueue, sockVars, sigVars, pc, cur, back, k>>
  BY DEF BackendEvent, joblist_append
<1>3. /\ con[c] \in Connections /\ Sound(con[c]) /\ con[c].bfd /\ cur_fds \in Int
      /\ con[c].fd <=> InTable(c)
  BY <1>2 DEF Parts, ConInv, EventsOfOpen, LoopTyped
<1>4. con[c].state \notin {"CONNECT", "CLOSE"} /\ con[c].fd
  BY <1>3 DEF Sound
<1> DEFINE x == o.con
<1>5. Handled(con[c], x, o.dfd, {})
  BY <1>3, BackendEventHandled
<1>6. x \in Connections /\ Sound(x) /\ x.fd
  <2>1. x.state = con[c].state
    BY <1>5 DEF Handled
  <2>2. \/ x.state \notin {"WRITE", "RESPONSE_END"}
        \/ con[c].state \in {"WRITE", "RESPONSE_END"}
    BY <2>1
  <2>3. {} \cap {"CONNECT", "CLOSE", "REQUEST_START"} = {}
    OBVIOUS
  <2>4. QED
    BY <1>3, <1>4, <1>5, <2>2, <2>3, HandledSound
<1>7. x.state # "CONNECT" /\ x.fd = con[c].fd /\ o.dfd = Fds(x.bfd) - Fds(con[c].bfd)
  BY <1>4, <1>5 DEF Handled
<1>8. cur_fds' = cur_fds + (Fds(x.bfd) - Fds(con[c].bfd)) + (Fds(x.fd) - Fds(con[c].fd))
  <2> DEFINE p == Fds(x.bfd)
             q == Fds(con[c].bfd)
             u == Fds(x.fd)
             v == Fds(con[c].fd)
  <2>1. p \in Int /\ q \in Int /\ u \in Int /\ u = v
    BY <1>7 DEF Fds
  <2>2. cur_fds \in Int /\ cur_fds' = cur_fds + (p - q)
    BY <1>1, <1>3, <1>7
  <2> HIDE DEF p, q, u, v
  <2>3. cur_fds' = cur_fds + (p - q) + (u - v)
    BY <2>1, <2>2
  <2>4. QED
    BY <2>3 DEF p, q, u, v
<1>9. TableInv' /\ ndx' = ndx /\ ndx' \in [Con -> Int]
  BY <1>2 DEF Parts, TableInv, TableTypeOK, NoSharedSlot, NdxInverse, tableVars
<1>10. (\A d \in Con \ {c} : InTable(d)' <=> InTable(d)) /\ (x.fd <=> InTable(c)')
  BY <1>3, <1>4, <1>6, <1>9 DEF InTable
<1>a. con' = [con EXCEPT ![c] = x]
  BY <1>1
<1> HIDE DEF x
<1>11. ConInv' /\ FdsCounted' /\ cur_fds' \in Int
  BY <1>a, <1>2, <1>3, <1>6, <1>7, <1>8, <1>9, <1>10, OneConnection DEF Parts
<1>12. LoopTyped' /\ EventsOfOpen' /\ ScanForward' /\ WantFdsCounted'
  BY <1>a, <1>2, <1>6, <1>11, EventLoop
<1>13. QED
  BY <1>9, <1>11, <1>12 DEF Parts

(* A connection that is accepted was not open. *)
LEMMA NewIndex ==
    ASSUME TableInv, NEW c \in Con, connections_get_new_connection(c)
    PROVE  /\ TableInv' /\ ~InTable(c) /\ InTable(c)'
           /\ \A d \in Con \ {c} : InTable(d)' <=> InTable(d)
<1>1. TableInv'
  BY NewPreservesInv
<1>2. /\ size \in Nat /\ used \in 0 .. size /\ ndx \in [Con -> {-1} \cup 0 .. size - 1]
      /\ ndx[c] # -1 => ndx[c] < used /\ ptr[ndx[c]] = c
      /\ \A i, j \in 0 .. size - 1 : ptr[i] = ptr[j] => i = j
  BY DEF TableInv, TableTypeOK, NdxInverse, NoSharedSlot
<1>3. c = ptr'[used] /\ ndx' = [ndx EXCEPT ![c] = used]
  BY DEF connections_get_new_connection
<1>4. ~InTable(c)
  <2> SUFFICES ASSUME ndx[c] # -1 PROVE FALSE
    BY DEF InTable
  <2>1. ndx[c] \in 0 .. used - 1 /\ ptr[ndx[c]] = c
    BY <1>2
  <2>2. CASE used < size /\ ptr' = ptr
    BY <1>2, <1>3, <2>1, <2>2
  <2>3. CASE used = size /\ \E f \in Fresh : ptr' = Grown(f)
    <3>1. PICK f \in Fresh : ptr' = Grown(f)
      BY <2>3
    <3>2. ptr'[size] = f[size] /\ f[size] \notin {ptr[i] : i \in 0 .. size - 1}
      BY <1>2, <3>1, BlockAssumption DEF Grown, Fresh
    <3>3. QED
      BY <1>2, <1>3, <2>1, <2>3, <3>2
  <2>4. QED
    BY <2>2, <2>3 DEF connections_get_new_connection
<1>5. InTable(c)' /\ \A d \in Con \ {c} : InTable(d)' <=> InTable(d)
  BY <1>2, <1>3 DEF InTable
<1>6. QED
  BY <1>1, <1>4, <1>5

LEMMA AcceptStep ==
    ASSUME Parts, NEW c \in Con, connection_accept(c) \/ AcceptFailed(c)
    PROVE  Parts'
<1> DEFINE y == connection_reset(con[c])
           x == [y EXCEPT !.fd = TRUE, !.state = "REQUEST_START"]
<1>1. /\ pc = "accept" /\ connections_get_new_connection(c)
      /\ cur_fds' = cur_fds + 1 /\ con' = [con EXCEPT ![c] = x]
  BY DEF connection_accept, AcceptFailed, connection_accepted
<1>2. /\ UNCHANGED <<queueVars, sockVars, sigVars>> /\ k' = k /\ todo' = todo
      /\ \/ pc' = "sm" /\ cur' = c /\ back' = "accept"
         \/ pc' = "dispatch" /\ cur' = cur /\ back' = back
  BY DEF connection_accept, AcceptFailed, Call
<1>3. /\ TableInv' /\ ~InTable(c) /\ InTable(c)'
      /\ \A d \in Con \ {c} : InTable(d)' <=> InTable(d)
  BY <1>1, NewIndex DEF Parts
<1>4. /\ con \in [Con -> Connections] /\ con[c] \in Connections /\ con[c].fd = FALSE
      /\ con[c].bfd = FALSE /\ con[c].count = 0 /\ cur_fds \in Int
  <2>1. con \in [Con -> Connections] /\ con[c] \in Connections /\ Sound(con[c]) /\ ~con[c].fd
        /\ cur_fds \in Int /\ (con[c].state = "CONNECT" => con[c].count = 0)
    BY <1>1, <1>3 DEF Parts, ConInv, LoopTyped
  <2>2. con[c].fd \in BOOLEAN /\ con[c].bfd \in BOOLEAN
    BY <2>1, ConnectionFields
  <2>3. QED
    BY <2>1, <2>2 DEF Sound
<1>5. y \in Connections /\ y.bfd = FALSE /\ y.count = 0
  BY <1>4, ResetTyped
<1>b. y \in Connections
  BY <1>5
<1>6. "REQUEST_START" \in ConState
  BY DEF ConState
<1> HIDE DEF y
<1>7. x \in Connections
  BY <1>b, <1>6 DEF Connections
<1>8. x.bfd = FALSE /\ x.fd = TRUE /\ x.state = "REQUEST_START" /\ x.count = 0
  BY <1>5 DEF Connections
<1>9. Sound(x)
  BY <1>8, TimeoutAssumption DEF Sound
<1>10. cur_fds' = cur_fds + (Fds(x.bfd) - Fds(con[c].bfd)) + (Fds(x.fd) - Fds(con[c].fd))
  <2>1. Fds(x.bfd) = 0 /\ Fds(con[c].bfd) = 0 /\ Fds(con[c].fd) = 0
    BY <1>4, <1>8 DEF Fds
  <2>2. Fds(x.fd) = 1
    BY <1>8 DEF Fds
  <2>3. cur_fds' = cur_fds + (0 - 0) + (1 - 0)
    BY <1>1, <1>4
  <2>4. QED
    BY <2>1, <2>2, <2>3
<1>11. ndx' \in [Con -> Int]
  BY <1>3 DEF TableInv, TableTypeOK
<1>a. con' = [con EXCEPT ![c] = x]
  BY <1>1
<1> HIDE DEF x
<1>12. ConInv' /\ FdsCounted' /\ cur_fds' \in Int
  <2>1. x.fd <=> InTable(c)'
    BY <1>3, <1>8
  <2>2. x.state # "CONNECT" /\ pc # "sm"
    BY <1>1, <1>8
  <2>3. QED
    BY <1>a, <1>3, <1>4, <1>7, <1>9, <1>10, <1>11, <2>1, <2>2, OneConnection DEF Parts
<1>13. LoopTyped'
  BY <1>2, <1>12 DEF Parts, LoopTyped, queueVars, sockVars, sigVars
<1>14. ScanForward'
  BY <1>2 DEF ScanForward, InMachine
<1>15. WantFdsCounted'
  BY <1>1, <1>2 DEF Parts, WantFdsCounted, queueVars
<1>16. EventsOfOpen'
  <2>1. todo' # {} => pc' = "dispatch" \/ (InMachine' /\ back' = "accept")
    BY <1>2 DEF InMachine
  <2>2. ASSUME NEW d \in Con
        PROVE  /\ <<"con", d>> \in todo' => con'[d].fd /\ ~(InMachine' /\ cur' = d)
               /\ <<"backend", d>> \in todo' => con'[d].bfd /\ ~(InMachine' /\ cur' = d)
    <3>1. CASE d = c
      BY <1>2, <1>4, <3>1 DEF Parts, EventsOfOpen
    <3>2. CASE d # c
      <4>1. con'[d] = con[d]
        BY <1>a, <1>4, <3>2
      <4>2. ~(InMachine' /\ cur' = d)
        BY <1>1, <1>2, <3>2 DEF InMachine
      <4>3. QED
        BY <1>2, <4>1, <4>2 DEF Parts, EventsOfOpen
    <3>3. QED
      BY <3>1, <3>2
  <2>3. QED
    BY <2>1, <2>2 DEF EventsOfOpen
<1>17. QED
  BY <1>3, <1>12, <1>13, <1>14, <1>15, <1>16 DEF Parts

LEMMA PartsStep == ASSUME Parts, [Next]_vars PROVE Parts'
<1>1. CASE UNCHANGED vars
  <2>1. UNCHANGED <<tableVars, con, cur_fds, queueVars, sockVars, sigVars, pc, cur, back, k, todo>>
    BY <1>1 DEF vars, loopVars
  <2>2. TableInv' /\ ndx' = ndx
    BY <2>1 DEF Parts, TableInv, TableTypeOK, NoSharedSlot, NdxInverse, tableVars
  <2>3. QED
    BY <2>1, <2>2 DEF Parts, LoopTyped, ConInv, InTable, FdsCounted, EventsOfOpen, InMachine,
       ScanForward, WantFdsCounted, queueVars, sockVars, sigVars
<1>2. CASE StateMachine
  BY <1>2, RequestStartStep, ReadStep, RequestEndStep, HandleRequestStep, ResponseStartStep,
     WriteStep, ResponseEndStep, CloseStep, ConnectStep, ExitStep DEF StateMachine
<1>3. ASSUME NEW c \in Con, ClientEvent(c) \/ BackendEvent(c) \/ connection_accept(c) \/ AcceptFailed(c)
      PROVE  Parts'
  BY <1>3, ClientEventStep, BackendEventStep, AcceptStep
<1>4. QED
  BY <1>1, <1>2, <1>3, PhaseStep, TickStep, ScanSlotStep, QueueStep, PollStep DEF Next, Process

LEMMA InitTyped ==
    connection_init \in Connections /\ Sound(connection_init) /\ connection_init.fd = FALSE
    /\ connection_init.bfd = FALSE /\ connection_init.count = 0
<1>1. /\ 0 \in 0 .. max_keep_alive_requests + 1 /\ 0 \in 0 .. reconnects
      /\ 0 \in 0 .. Bigger(max_read_idle, max_keep_alive_idle) + 1
      /\ -1 \in -1 .. max_write_idle + 1 /\ 0 \in 0 .. HTTP_LINGER_TIMEOUT + 1
      /\ "CONNECT" \in ConState /\ "none" \in Queue
  BY TimeoutAssumption DEF Bigger, ConState, Queue
<1>2. connection_init \in Connections
  BY <1>1 DEF connection_init, Connections
<1>3. QED
  BY <1>2 DEF connection_init, Sound

LEMMA PartsInit == Init => Parts
<1> SUFFICES ASSUME Init PROVE Parts
  OBVIOUS
<1>1. TableInv /\ \A c \in Con : ~InTable(c)
  BY DEF Init, TableInit, TableInv, TableTypeOK, NoSharedSlot, NdxInverse, InTable
<1>2. con \in [Con -> Connections] /\ \A c \in Con : con[c] = connection_init
  BY InitTyped DEF Init
<1>3. ConInv
  BY <1>1, <1>2, InitTyped DEF ConInv
<1>4. FdsCounted
  <2>1. {c \in Con : con[c].fd} = {} /\ {c \in Con : con[c].bfd} = {}
    BY <1>2, InitTyped
  <2> DEFINE A == {c \in Con : con[c].fd}
             B == {c \in Con : con[c].bfd}
  <2>2. FdsCounted <=> cur_fds = Cardinality(A) + Cardinality(B)
    BY DEF FdsCounted
  <2>3. A = {} /\ B = {} /\ cur_fds = 0 /\ Cardinality({}) = 0
    BY <2>1, FS_EmptySet DEF Init
  <2> HIDE DEF A, B
  <2>4. QED
    BY <2>2, <2>3
<1>5. LoopTyped
  <2>1. <<>> \in Seq(Con)
    OBVIOUS
  <2>2. fdwaitqueue = <<>> /\ joblist = <<>> /\ cur_fds = 0 /\ want_fds = 0 /\ k = 0
        /\ pc = "top" /\ cur \in Con /\ back = "top" /\ listening = "on"
    BY DEF Init
  <2>3. sockets_disabled \in BOOLEAN /\ graceful_shutdown \in BOOLEAN /\ srv_shutdown \in BOOLEAN
        /\ pid_file \in BOOLEAN
    BY DEF Init
  <2>4. QED
    BY <2>1, <2>2, <2>3 DEF LoopTyped
<1>6. EventsOfOpen /\ ScanForward
  BY DEF Init, EventsOfOpen, InMachine, ScanForward
<1>7. WantFdsCounted
  BY DEF Init, WantFdsCounted
<1>8. QED
  BY <1>1, <1>3, <1>4, <1>5, <1>6, <1>7 DEF Parts

(* Whatever the clients, the backends, the timeouts and the signals do, the bookkeeping of the main
   loop is right: an open connection is in the table and nobody else is, srv->cur_fds counts every
   descriptor once, srv->want_fds counts the queue, no backend outlives its connection, and a
   pending event belongs to a descriptor that is still open. *)
THEOREM ServerInvariant == Spec => []ServerInv
<1>1. Init => ServerInv
  BY PartsInit, PartsOfInv
<1>2. ServerInv /\ [Next]_vars => ServerInv'
  <2>1. ServerInv' <=> Parts'
    BY PartsOfInv, PTL
  <2>2. QED
    BY <2>1, PartsStep, PartsOfInv
<1>3. QED
  BY <1>1, <1>2, PTL DEF Spec
=============================================================================
