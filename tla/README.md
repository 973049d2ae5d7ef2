# A TLA+ model of lighttpd

This directory holds a specification of lighttpd 1.4: the main loop of a server
process and the state machine it runs on every connection, the modules that work
with scripts and backends, the processes around the server, and the parts a
request passes through on its way.  TLC checks the specification on small
instances; TLAPS proves for every size what is said of the connections and their
table, of the supervising processes, the reverse proxy and the buffers.

Source paths below are relative to the repository; the program is in `src/src/`.

## 1. Inventory

### How the program works

A lighttpd process has one thread.  `main()` in `server.c` loops for ever: once a
second it looks through all connections for timeouts, it stops or resumes
accepting when a limit is reached, serves connections that wait for a
descriptor, sleeps in `fdevent_poll()` for at most a second, hands each event to
the handler registered for the descriptor and finally runs
`connection_state_machine()` on every connection the handlers put on the
*joblist*.  Nothing blocks; whatever has to wait is kept as state of the
connection and interest in events of a descriptor.  The hard behaviour is
therefore not two threads but the order of events: those of a client, of the
backend that works for it, of the clock, of signals and of the listening
sockets come in any order, several in one batch, and each handler relies on what the
earlier ones left behind.  Several processes meet in other places: a watcher and its
workers, the angel and the server, workers that share logs, a cache or a connection
to Redis.

### Components

| component | source | state | operations | interacts with |
|---|---|---|---|---|
| connection table | `connections.c` | `conns->ptr`, `used`, `size`, `con->ndx` | get a connection, delete one | state machine, timeout scan |
| connection handlers | `connections.c`, `connections-glue.c`, `response.c`, `http-header-glue.c` | the `connection` object | read, parse, read the body, prepare, write, reset, linger, close | backends, fdevent |
| state machine | `connections.c` | `con->state` | one step per state, then the interest in events | everything |
| main loop | `server.c` | `cur_fds`, `want_fds`, `sockets_disabled`, flags of signals | timeouts, limits, shutdown, dispatch | table, queues |
| queues | `joblist.c` | `joblist`, `fdwaitqueue` | append, take | handlers, main loop |
| accepting | `network.c` | listening sockets | accept up to 100 at a time | table, state machine |
| events | `fdevent*.c` | `fdarray`, the sets of seven backends | register, interest, poll, hand out | all handlers |
| FastCGI, SCGI | `mod_fastcgi.c`, `mod_scgi.c` | `handler_ctx`, hosts, processes with loads | choose, connect, send, receive, reconnect, spawn, restart | connection, `cur_fds` |
| proxy | `mod_proxy.c` | `handler_ctx`, hosts with usage | balance, connect, disable, enable | connection |
| CGI | `mod_cgi.c` | `handler_ctx`, two pipes, list of children | fork, send, receive, close, reap | connection, `fdevent` |
| luna | `mod_luna.c`, `luna.c`, `token_info.cpp`, `redis_util.cpp` | counters of tokens in each worker, quota in Redis | count, charge, learn | other workers |
| daemon | `server.c`, `network.c` | pid file, sockets, launcher | start, stop | other instances |
| watcher, angel | `server.c`, `lighttpd-angel.c` | worker processes, flags of signals | fork, wait, forward signals, restart | main loop |
| logs | `mod_accesslog.c`, `log.c` | buffers, open files | log, flush, reopen | logrotate |
| request parser | `request.c` | `con->request` | parse a header | state machine |
| preparation | `response.c`, `plugin.c`, `configfile-glue.c`, `mod_rewrite.c`, `mod_redirect.c`, `mod_access.c`, `mod_extforward.c` | `cond_cache`, address, URL | run the hooks, start again | conditions |
| authentication | `mod_auth.c`, `http_auth.c` | nonce, `REMOTE_USER` | challenge, check | preparation |
| files | `mod_staticfile.c`, `http-header-glue.c`, `etag.c` | the answer to one request | conditional, partial and whole answers | stat cache, chunk queues |
| server side includes | `mod_ssi.c` | hide flags, variables | statements of a page | stat cache |
| stat cache | `stat_cache.c`, `splaytree.c` | tree of entries | look up, expire, FAM reports | files, WebDAV |
| WebDAV | `mod_webdav.c` | files, locks and properties | the methods that change them | other clients |
| compression | `mod_compress.c` | cache shared by workers | create, use | other workers |
| chunk queues | `chunk.c`, `http_chunk.c`, `network_write*.c` | lists of memory and file chunks | append, steal, write | handlers |
| buffers, arrays | `buffer.c`, `array.c` | memory, sorted index | grow, copy, insert, search | everything |
| configuration | `configparser.y`, `configfile.c`, generated code | settings | parse | start |
| small modules | other `mod_*.c` | settings, counters | handle one request | `response.c` |

`PROJECT.json` lists these parts with what is modelled of each.

### What is hard, and what makes each component correct

* **Connection table.**  Deleting moves the last entry into the gap and must keep
  the index stored in each connection right over any order of accepts and closes;
  objects are used again.  Correct: it behaves like a set, no object is handed
  out twice.
* **State machine and handlers.**  States called transient are entered in event
  handlers and left elsewhere; a response can stop for the socket, the traffic
  limit, the backend or a missing descriptor, and each needs somebody to wake it
  up.  Correct: the process never sleeps while a connection could go on; a connection is
  only kept alive when the request's body has been read; no backend is left over.
* **Counters.**  `cur_fds` and `want_fds` are kept by hand on a dozen paths and steer
  the limits.  Correct: they count what is there.
* **Main loop.**  The scan goes by index through a table that is reordered under
  it; signals arrive between any two of its steps; the graceful shutdown waits
  for connections that only a timeout ends.  Correct: due timeouts fire, a graceful
  shutdown ends, sockets that were closed stay closed.
* **CGI.**  Two descriptors of one script can be in one batch of events, and the handler
  of either may close both; interest in them is dropped and taken up again in many places.
  Correct: every pipe and every child has exactly one owner, nobody sleeps while a script
  is waited for by no one, all children are reaped, a local redirect does not turn the
  rest of a body into a request.
* **FastCGI, SCGI.**  Loads and process counts are kept by hand over retries on other hosts and
  restarts of processes, and the choice of host depends on them; SCGI moves processes in a
  linked list.  Correct: the counters count what is there, the list is sorted, no process is
  replaced under the requests bound to it, no child is forgotten.
* **Proxy.**  The usage of a host is taken and given back in different functions, over failures,
  retries and aborts.  Correct: it counts the requests that hold the host; every host gets its turn,
  and a disabled one comes back.
* **Luna.**  Workers count by themselves and charge Redis once a second over a connection that a fork
  shares: a command can be lost after another's reply was taken for its own.  Correct: what was admitted is
  charged unless known to be lost, the overspend is bounded.
* **Daemon, watcher, angel, logs.**  Signals arrive between any two steps; pid file, socket and
  logs are shared with other processes.  Correct: whoever looks for the server finds the
  right one, no worker is left behind or forgotten, one current server at most, no log entry is lost or
  doubled.
* **Preparation.**  It starts anew after a rewrite, an error handler or a redirect, with cached results
  of conditions and a replaced address.  Correct: decisions rest on what the request is now, an
  error stands, the loop ends.
* **Parser, authentication, files, pages, texts.**  Repeated and contradicting headers, stale nonces and users of
  an earlier request, ranges at both ends of a file, flags that outlive a page, statements cut by
  the end of a buffer.  Correct: one request has one meaning, and the answer is the one it asked for.
* **WebDAV, compression, stat cache.**  Files change between check and use, by other clients and
  workers.  Correct: success is reported for the whole only, locks are honoured, incomplete
  files have an owner, an answer is a second old at most.
* **Chunk queues, buffers, arrays, trees, tables of fdevent.**  Sizes with and without the NUL, pieces moved in part, handlers that
  change the table under the loop.  Correct: bytes keep number and order, the structures keep
  what is put into them.

The list of hazards in `PROJECT.json` gives the line where each of these bites
and the property that watches it.

## 2. Modules

| module | models | kind |
|---|---|---|
| `ConnSet` | what the table promises: a set of open connections | abstract |
| `ConnTable` | `connections_get_new_connection`, `connection_del` | detailed, proved |
| `Connection` | the connection object and all its handlers, as operators | library, proved |
| `Server` | main loop, state machine, accept, queues, signals | composes `ConnTable` and `Connection`, proved |
| `Exchange` | what a client is promised on a connection | abstract |
| `Cgi` | `mod_cgi.c` with as much of the main loop and of the client connection as it meets | detailed, proved |
| `Backend` | what the backend modules share | library |
| `FastCGI`, `Scgi` | hosts, processes and requests of the two modules | extend `Backend` |
| `Proxy` | balancing, hosts and requests of `mod_proxy.c` | extends `Backend`, proved |
| `Luna` | tokens, workers and Redis | detailed, proved |
| `Daemon` | pid file, sockets, launcher, start and stop of several instances | detailed, proved |
| `Watcher`, `Angel` | the two supervisors, step by step, with signals at each | detailed, proved |
| `Log` | access logs and the error log of several workers under rotation | detailed, proved |
| `Request` | the parser on a connection that is kept alive | detailed |
| `Conditions`, `Prepare` | the cache of conditions; the hooks from a request to a handler | `Prepare` extends |
| `Auth`, `SendFile`, `Ssi`, `Webdav` | the modules of these names | detailed |
| `Compress` | `mod_compress.c` with the cache that workers share | detailed, proved |
| `StatCache` | the cache with its engines | detailed, proved |
| `Fdevent` | the tables of fdevent over seven backends | detailed, proved |
| `Chunk` | queues, temporary files, framing and writing | detailed |
| `Buffer` | the memory of a buffer | detailed, proved |
| `Arrays`, `Splay` | the sorted array; the tree of the stat cache | detailed |
| `Text` | the algorithms on texts, against reference definitions | functions |
| `MCServer`, `MCCgi`, `MCFastCGI`, `MCLuna` | one module each, for TLC | model |
| `MCLive`, `MCBackends`, `MCSystem`, `MCRequests` | several modules side by side | model |
| `*Proofs` | see section 4 | proofs |

The parts of one `MC` module that stand side by side read nothing of each other's state: the variable
`unit` is chosen in the initial state and says which part takes steps, and the others keep one
initial state.

### ConnTable

`ptr`, `used` and `size` are those of `srv->conns`, `ndx` that of each connection.
The objects come from a set `Con`; `Block` is the growth of the table (128 when it is
empty, then as much again).  `connections_get_new_connection(c)` takes the object in the first
free slot, or a new one, `connection_del(c)` swaps it with the last used one.

### Connection

A connection is a record with one field for each member of `struct connection` that some
branch depends on.  Handlers are operators from a connection to the set of
connections they can leave behind, which makes every outcome of `read()`, `write()`, of
the client's bytes and of a plugin one element of the set.  Data are abstracted to
what the control tells apart: the read queue is empty, holds part of a header or
at least one whole header; the write queue is empty or not; a status is none, ok,
404 or another error.  Whether body bytes are outstanding is kept separately from
whether the code believes so (`unread`, `len`): the error handler forgets the
length of a body while the bytes are still to come, and that must not turn them into a
request.

Timestamps are ages: seconds since the timestamp, which stop growing once the
timeout is passed.  The age of the last read is kept only while the code looks at
it.  A backend is a descriptor and a context; `backend_*` follow `mod_fastcgi.c`,
of which `mod_scgi.c` and `mod_proxy.c` are variants.

### Server

`pc` is the place in the main loop:

    top -> [scan] -> sockets -> grace -> fdwait -> dispatch (-> accept) -> jobs -> top

and `sm`, `smexit` stand for `connection_state_machine(cur)` called from `back`.  An
action is one slot of the scan, one branch of a limit, one event, one job or one
round of the state machine's loop.  The kernel reports any subset of the
descriptors that were known when the process went to sleep, each at most once,
in any order (`todo`).  Signals set flags; they are taken at the places where the
loop reads these, since a signal elsewhere cannot be told from one at the next
such place.

### Exchange

For each connection a phase, whether body bytes are outstanding and whether a
backend works on it.  The specification says: a request follows only on a
complete response whose request was read to the end; after an error the connection
is never used again; no backend is held while the connection is idle, lingers or is
closed.  `Server` maps the states of the connection to phases (`ImplementsExchange`).

### Cgi

A connection is its place in the state machine and a `handler_ctx` `h`: the two pipes by
descriptor number (`fd` from the script, `fdtocgi` to it), the interest in each, the process and
what the script printed that was not read yet.  `fdarray` is that of `fdevent.c`, `cgi_pid` the list of
processes whose request is over.  Descriptors and process numbers are used again, the
lowest free descriptor first.  The script is the environment: it prints part of a header, the
rest, a local redirect or nothing, closes either pipe and ends at any time.
`MaxBody`, `High` and `Low` stand for the sizes that the flow control of `FDEVENT_STREAM_*_BUFMIN`
compares.  The body is counted in units: read from the client (`in`), written to the script
(`out`) and, apart from what the code believes, still to come (`owed`).
`pc = "abort"` is the `SEGFAULT()` of `fdevent_get_handler`.

### FastCGI, Scgi, Proxy

A request is its `handler_ctx`; a host has a load and `active_procs`; a process has a state, a load
and a child.  Handlers are operators from the state of the module to the set of their outcomes, with
the value the C function returns, since for instance `fcgi_send_request`, `fcgi_recv_response` and
`fcgi_restart_dead_procs` call each other and the results decide how it goes on.  Everything outside
is a choice between outcomes: `socket()`, `connect()`, `read()`, `write()`, what spawning
meets (`Spawned`) and when children end.  Time is in `disabled`, the seconds a process or a host is still left
alone, which the trigger counts down.  `overdrawn` and `lost` are history variables of the
properties.  `Scgi` has the linked list of processes pointer by pointer; `Proxy` has hosts without processes and the four
ways of balancing.

### The processes around the server

`Daemon`, `Watcher` and `Angel` take one action per system call or assignment that a signal or another process can
fall between.  In `Watcher` and `Angel` the handlers of signals are actions that are enabled everywhere;
the watcher's `wait()` ends with a child or, interrupted, with a signal.  `Log` follows an entry from the buffer
of a worker to the generation of the file it is written to.  `Luna` has the commands that Redis has not executed yet and
the replies nobody has read on the connection that the workers share; either is lost when it breaks.

### The parts of a request

`Request`, `Prepare`, `Auth`, `SendFile`, `Ssi` work on one request after the other, on a connection or in a
worker that keeps what the code keeps between them.  A header, a statement, a credential is one of the
kinds that the code tells apart; what it was really sent or is entitled to is kept beside the code's own
variables, and the properties compare the two: the ifs that are open on a page, where a header really ends, what a
response announced and whether its backend failed, the user whose credentials a request carries over all its passes.  `StatCache`, `Webdav` and `Compress` have files that
change between two calls.  `Chunk` counts bytes by elements with their place in the content.  `Text` is a set of functions;
one step chooses an input and applies one of them.

## 3. Runs

| run | instance | checks | result |
|---|---|---|---|
| `one_connection` | 1 connection; bad, plain and body requests, files, errors and a backend, all results of reading and writing | `ServerInv`, `NoTransientAsleep`, `NoLostWakeup`, `ClosedIsFinal`, `ImplementsExchange` | holds |
| `two_connections` | 2 connections at the limits of connections and descriptors, failing accepts, SIGTERM | `ServerInv`, `NoLostWakeup` | holds |
| `live` | 2 connections, fair, traffic limit, SIGINT | `ExpiredIsServed`, `GracefulShutdownEnds` | holds |
| `cgi` | 1 connection, bodies up to 2, streaming and flow control | `CgiInv`, `CgiNoLostWakeup`, `IdleOwesNothing` | holds |
| `backends` | FastCGI and SCGI with 2 connections each, local and remote processes | `FcgiInv`, `ScgiInv`, `ProcessesSpared` | holds |
| `backends_live` | a script on a system where the pipe to it reports HUP; a proxy with 3 hosts; fair | `ProxyInv`, `HostsServe`, `ScriptsEnd` | holds |
| `luna` | 2 workers, 1 token, outages, lost commands and replies, a restart | `LunaInv` | holds |
| `system` | daemon, watcher, angel, logs, table, WebDAV, compression | `DaemonInv`, `WatcherInv`, `OneCurrent`, `LogInv`, `TableInv`, `CompressInv`, `ImplementsConnSet`, `DavComplete`, `LockHonoured` | holds |
| `requests` | preparation, parser, text, authentication, files, SSI, stat cache, chunks, buffers, arrays, trees, fdevent | `PreparationSound`, `PreparationSteps`, `RequestInv`, `TextCorrect`, `AuthInv`, `SendFileInv`, `SsiInv`, `StatInv`, `ChunkInv`, `BufferInv`, `StructuresSound`, `FdeventInv` | holds |
| `graceful_while_disabled` | 1 connection at the limit | `GracefulClosesSockets` | violated |
| `cgi_stale_event` | 1 connection, a body that is streamed | `NoStaleEvent` | violated |
| `fcgi_active_procs` | 2 requests, one local process | `ReallyRunning` | violated |

A property is the conjunction of named parts, each stated at its place in the module:

* `ServerInv`: `TypeOK`, `TableInv`, `OpenMeansInTable` (the table holds the open connections), `BackendOfOpen` (no closed
  or lingering connection has a backend), `RequestsCounted`, `EventsOfOpen` (an event to be handed out is for an open
  descriptor), `ScanForward`, `FdsCounted` and `WantFdsCounted`;
* `CgiInv`: `CgiTypeOK`, `DescriptorsOwned`, `ChildrenOwned`; `ScriptsEnd`: `Reaped`, `HangupNoticed`;
* `FcgiInv`: `FcgiTypeOK`, `HostLoad`, `ProcLoad`, `ActiveProcs`, `OneDescriptor`, `NoChildLost`; `ScgiInv` likewise and
  `ScgiList`; `ProcessesSpared`: `LetThemTerminate`, `ScgiPerfectProc`;
* `ProxyInv`: `ProxyTypeOK`, `ProxyUsage`, `ProxyDescriptor`; `HostsServe`: `ProxyTurn` (round robin takes the next enabled host),
  `ProxyReenabled`; `LunaInv`: `LunaTypeOK`, `NeverUndercharged`, `OverspendBounded`;
* `WatcherInv`: `WatcherTypeOK`, `WorkersCounted`, `NoWorkerLeftBehind`, `HupNotForgotten`, `ForwardedOnce`, `OwedAreUp`; `OneCurrent`:
  `AngelTypeOK`, `OneRunning`, `ReplacedWasTold`; `DaemonInv`: `ServerFound`, `StopRemovesPidFile`, `LauncherKnows`; `LogInv`: `LoggedOnce`,
  `NoWriteToRotated`;
* `CompressInv`: `IncompleteIsOwned`, `OneWriter`, `Labelled`; `DavComplete`: `CopyComplete`, `SourceKept`,
  `DeleteHonest`, `WrittenInFull`;
* `PreparationSound`: `ConditionsConsistent`, `AddressRestored`; `PreparationSteps`: `ErrorStands`, `PreparationEnds`; `RequestInv`: `InStep`,
  `Unambiguous`; `AuthInv`: `UserOfThisRequest`, `GrantedToTheNamed`, `StaleIsTold`; `SendFileInv`: `PartialIsAsked`, `NotModifiedIsCurrent`,
  `AnswerComplete`, `ErrorStandsAlone`, `OnlyFiles`; `SsiInv`: `NothingHiddenOutside`, `FlatIfsRight`, `OwnVariables`, `PageAsNewAsIncludes`, `OutputWhole`;
* `StatInv`: `StatTypeOK`, `AnswerRecent`, `LinksSeen`; `ChunkInv`: `ChunkTypeOK`, `QueueLength`, `UploadInOrder`, `TempFilesOwned`,
  `ResponseFramed`; `BufferInv`: `BufferTypeOK`, `BufferSound`, and room only in a buffer with its NUL; `StructuresSound`: `SearchFinds`,
  `ElementsOwned` of the array, `SplaySound`, `SplayedToRoot` of the tree; `FdeventInv`: `KernelAgrees`, `NeverOverrun`, `EventsFindTheirHandler`;
* `TextCorrect`: `PathResolved`, `UrlRoundTrip`, `ListSplit`, `HostChecked`, `HostCanonical`, `NumbersReadBack`, `Base64RoundTrip`, `PageCutRight`.

Deadlock is checked in `backends`, `luna` and `fcgi_active_procs`; elsewhere the process can be told to exit, aborts
(`cgi`), or a bound ends the behaviour (`system`, `requests`).

The three violations are disagreements between the code and what it says of itself:

* *graceful_while_disabled*: the server has reached `server.max-connections` and
  has taken the interest off the listening sockets; now SIGINT comes.  The branch that
  closes the sockets is only reached while they are not disabled, so that they stay
  open to the end.
* *cgi_stale_event*: a script ends with a part of the body still queued.  Both pipes are
  ready and are reported in one batch; the handler of the first closes both, and the second event
  finds no handler, which `fdevent_get_handler` answers with `SEGFAULT()`.  A later descriptor with
  the same number would get the event instead.
* *fcgi_active_procs*: a child ends under a request.  Reading fails, `fcgi_recv_response` reaps
  the child and starts another one for the same process, and `active_procs` grows although the process never
  left the state `RUNNING`.  The count never comes down to 0 again, and requests are sent to the
  host when all its processes are dead.

### Bounds

One connection is enough for whatever is kept per connection, since connections
share only the table, the queues, the counters and the batch of events; two show the
swap in the table under the scan, two entries in either queue, stale entries and the
limits.  The timeouts are 0 or 1, so that ages 0, at and past the limit
occur.  `max_keep_alive_requests` of 1 lets a connection serve a request within and one
beyond the limit.  `reconnects` (5 in the code) is 1 or 0: none, one, too many.  `AcceptLoops`
(100) of 1 or 2 ends the loop both ways.  `ReservedFds` (16) is 1 or 5 with `max_fds` chosen
around the number of descriptors a run can open: `two_connections` runs out of them, `one_connection` never
does.  `MaxFdWait` bounds the wait queue, whose entries of closed connections can pile up.

`cgi` has three descriptors and two processes for one connection, so that a number is used again
while the last process that had it is still to be reaped; a body of 2 is empty, half or all written,
and `High`, `Low` of 0 and 1 make every unit a full buffer.  `backends_live` has two descriptors, the least
a script needs, and a body of 1; three hosts let round robin go past the end of the list over a disabled host, `Pause`
(5 seconds) of 2 counts down in two steps.

`backends` has two requests, enough for two to
find the same process dead and for one to move away from the other; a local and a remote host show both ways
a process comes back, and two processes of SCGI every place in the list.  `disable_time` and `MaxReconnects` are 1: at, before and past the
limit.  `SizeT` of 3 is the smallest range in which the loads of two requests and a wrapped
counter differ; the constraint `NotOverdrawn` ends a behaviour where one has wrapped.  `MaxActive` stops children from dying once
`active_procs` has run ahead, which it would do without end.  `fcgi_active_procs` uses all four ways a start can go.

`luna` has a quota of 1 and a request per second and worker, so that two workers may admit two requests while the bound of
`OverspendBounded` holds; three are possible, one more than that.  Two commands and replies are in flight on the shared
connection, one of each worker, of which each can be read by the other.  A total limit is tried with one worker, up to its third request (`LunaBound`).  In `system` the watcher has two workers and
one child more to fork, one SIGHUP and one other child of its own; the angel has three servers, so that one is replaced twice, and two signals from
outside; the table grows twice to six objects; each log has room for an entry before, at and after a rotation; WebDAV clients have a tree with a
file, a directory and a name that is free or either.  In `requests` the texts are 4 to 6 characters over the alphabets that the functions tell apart, the
array has three keys and must grow, the tree has six, a page has three or four statements besides the endifs of its ifs and may find one level of ifs left
open or closed too often (`MaxLeak`), two requests follow one another on a connection, a request is prepared for authentication twice (`MaxPasses`),
and two descriptors are registered, closed and registered again in one round.  `StatBound` keeps the second file of the stat cache unchanged with
every engine but "simple"; with that one both files change.  `SsiBound` keeps variables and included files to pages without commands and nested ifs, with which they
have only the flag in common that hides them.

### Fairness

`FairSpec` of `Server` assumes that the process takes steps (weak fairness of the process as a whole)
and that the clock advances: `fdevent_poll()` sleeps at most 1000 ms, so the top of the
loop is reached again and again, and infinitely often in a new second (strong
fairness of `Tick`).  Nothing is assumed of clients, backends or signals.
`LiveSpec` of `MCLive` says the same of `Cgi` and `Proxy`: weak fairness of the process, which includes that a request that
returned `HANDLER_COMEBACK` is run again (`ProxyAgain`), and strong fairness of the trigger, which the main loop calls in each new second whatever
requests do in between.  Scripts and hosts
are under no obligation: `Reaped` and `HangupNoticed` speak only of scripts that have ended or closed their
output.  `GracefulShutdownEnds` is stated for clients that have fallen silent, since a client that
sends a byte in time may hold its connection as long as it likes; it is checked for
connections answered from files: a silent backend in `HANDLE_REQUEST` is under no
timeout at all (see the observations).

## 4. Proofs

| module | theorem | states |
|---|---|---|
| `ConnectionProofs` | `TableInvariant` | `TableInv`: types, no shared slots, index and slots inverse to each other |
| | `TableImplementsSet` | `ConnTable` implements `ConnSet` |
| | (lemmas) | what each handler of a connection leaves alone |
| `ServerProofs` | `ServerInvariant` | `ServerInv` |
| | `ClosedStaysClosed` | `ClosedIsFinal`, an action property |
| `ExchangeProofs` | `ServerImplementsExchange` | `Server` implements `Exchange` for every connection |
| `WakeProofs` | `NobodySleepsTransient` | `NoTransientAsleep`, where setting up an accepted socket does not fail |
| | `NobodyIsForgotten` | `NoLostWakeup` |
| `SystemProofs` | `WatcherKeepsWorkers`, `AngelKeepsOne` | `WatcherInv`, `OneCurrent` |
| | `TheRightServerIsFound` | `DaemonInv` |
| | `LogsStayWhole` | `LogInv` |
| | `CacheStaysSound` | `CompressInv` |
| `RequestsProofs` | `BufferStaysSound` | `BufferInv` |
| | `AnswersAreRecent` | `StatInv` |
| | `EventsReachTheirOwners` | `FdeventInv` |
| `ServicesProofs` | `ProxyStaysSound` | `ProxyInv` |
| | `HostsInTurn` | `ProxyTurn`, an action property |
| | `TheQuotaIsCharged` | `LunaInv` |
| `CgiProofs` | `CgiStaysSound` | `CgiInv` |
| | `KeptAliveOwesNothing` | `IdleOwesNothing` |
| | `NoScriptIsForgotten` | `CgiNoLostWakeup` |

Each holds for every value of the constants that satisfies the named assumptions of the modules: `BlockAssumption` (the table
grows by a positive number), `ConAssumption`, `LimitAssumption`, `TimeoutAssumption` and `ChoiceAssumption` (finitely many connections, natural
numbers as limits and timeouts, and which results `read()`, `write()` and plugins choose from), `BufferAssumption` (sizes are positive),
`WatcherAssumption` and `AngelAssumption` (finitely many processes), `BackendAssumption` and `ProxyAssumption` (the same of connections and
hosts), `DaemonAssumption` and `LogAssumption` (nobody is no instance; logs are numbered and a buffer is flushed at a positive size), `StatCacheAssumption` (the
version of a directory has room for one change), `LunaAssumption` (finitely many workers and tokens; the bound
on the requests of a worker between two triggers is positive), `FdeventAssumption` (`server.max-fds` is a number, the backends are among the seven), and `CgiAssumption` (the value for "none" is no descriptor, process or handler; marks and limits are natural numbers,
the low one positive; `BufMin` implies `Streaming`, as `config_insert()` sets the one with the other, `configfile.c:300`).  `NobodySleepsTransient` alone has a hypothesis, `~AcceptFails`: with that failure it is not true (section 5).

### The table

None of the parts of `TableInv` is inductive alone: that a deleted connection's slot is the one named by
its `ndx` needs the index to be the inverse of `ptr`; that it stays so after the
swap needs slots not to be shared; and both need the slots of closed objects, beyond
`used`, to be known as well, because these are what the next accept takes.  The refinement maps `held` and `listed` of `ConnSet` to
the objects the table holds and to those in its used slots, with one lemma on what each action does to either.

### The server

The handlers are operators with dozens of outcomes, so that the proofs go by what they leave alone.  `ConnectionProofs` says of each:
the socket stays, a connection that is not to be kept alive stays so, the state is one of a named set, and what is added to `cur_fds` is the difference
in the descriptor of the backend (`Handled`).  `ServerProofs` puts these together: `ServerInv` is inductive with the place of the loop tied to the
connection it works on and the events still to be handed out.  `cur_fds` and `want_fds` are compared to cardinalities; an accept adds one element, a close removes
one, and a handler moves the count by what `Handled` says.  For `ClosedIsFinal` one more invariant is needed (`SocketInv`): the listening socket is in the batch
of events only while it is on and the loop has not yet passed the places where it is switched.

### The exchanges

`ExchangeProofs` relates each handler to the body and the backend of the request: whether it may read from the body (`Consumes`), leaves both alone (`Calm`),
or ends the request.  The invariant of the refinement says which phases have a body outstanding or a backend at all: in every state in which a request
can begin, the last one was read to its end and its backend is gone.  The theorem has a step for each action of the state machine, which is mapped to a step of the exchange of
the current connection and stutters for all others.

### Who wakes whom

`NoLostWakeup` speaks of the moment at which the process sleeps and is far from inductive.  The argument has three parts.
Each handler leaves a connection that *fits* (`Fit`): its state, its mode, the backend, the write queue and what is finished belong together.  The state
machine stops only in states in which it *rests* (`Rest`): there is something that will be noticed.  And its last
step, which chooses the interest in events, turns a connection at rest into a *settled* one (`Settled`).  Between two runs of the state machine a connection stays
settled unless an event changes it, and the handler of that event puts it on the joblist; `WakeInv` says that each connection is settled, on the joblist, or the
one the state machine works on, and that the joblist is empty where the process sleeps.  `NobodySleepsTransient` is the same with "not in a transient state" for "settled".

### The supervisors

`WatcherInv` adds to the counts what is owed at each step: a worker that is forked while a SIGHUP or a SIGTERM arrives has been told, or will be before the watcher waits
again.  The steps of the proof are split by the place of the watcher and by signal.  `OneCurrent` follows the one child that
the angel's `pid` names through replacement, death and restart.

### Start and stop

`DaemonSound` says of each instance: at which stage it has which socket and which signals can have reached it (`Staged`); that an instance beside which no other was
started owns the file and the path it opened until it stops (`Lone`); that one without sockets has removed its name (`Unnamed`); and what its launcher knows (`Launched`).  Nearly
every step is one of a single instance, and a lemma says what such a step leaves to the others (`OthersKeep`): the steps that write the shared pid file or
path are those of an instance that is alive, and then no other one is alone.

### The logs

`LoggedOnce` needs to know where an entry is: `BufferedOnce` says that a number is in one buffer at most, and `Accounted` is `LoggedOnce` for a given set of buffered entries, so that a flush takes its
buffer out of that set and counts one write, or one loss, for what was in it (`FlushAccounts`).  Every handler is one of: an entry more, a flush, or both.

### The cache of compressed files

`CompressInv` is inductive with the types of the jobs and one fact more.  `open(O_EXCL)` is the only step that makes a job a writer, and at that moment the file is not there; that no other job writes it then follows
because the file of a writer is there already (`WrittenIsThere`).  The lemmas `OneJobMoves` and `OneFileChanges` reduce each step to the job and the file that it touches.

### The proxy

`ProxyUsage` compares a counter with the number of requests that hold the host.  The handlers call each other (`proxy_connection_close` from the send and receive paths, and a reconnect runs
the first again), so that the lemmas describe worlds in the middle of a handler (`Holding`): usage counts the other holders, and one more for the request itself.
`HostsInTurn` is an action property: round robin steps to the next enabled host behind the one used last, around the end of the list.  That such a
host is found by the loop over the list is because a set of distances has a least element.

### The tag service

`LunaInv` compares what Redis holds with sums over all workers.  `NeverUndercharged` is nearly inductive: each step moves a request from one side to the other for one worker and one token
(`BalanceKept`).  `OverspendBounded` is not.  `Over` bounds the requests admitted and those that the workers *may still admit* before they ask
again (`Room`), a reply that has not been read included.  A worker gets room when Redis answers that something is left; then the quota is not used up, so that what was admitted is below
it but for what the workers still count, and each of them counts and may admit no more than fits in a second (`RoomBound`).  For this the invariant has to follow the trigger (`TrigShape`): what a
worker has yet to charge when it asks; that a worker on the shared connection, or one that does not know the token, has admitted
nothing (`NewComers`); and that no reply in the queue is older than the command for which its worker could take it (`NoOld`).  For this last
part the history of a reply says which command it answers and whether the worker that sent the command has died since.
A command on the shared connection may be lost after its worker read another's reply as its own and cleared the count: that costs nothing, because by
`NewComers` a worker on that connection has counted nothing, and its DECRBY is one of 0.  On its own connection a worker reads no reply but its own.
The steps are those of one worker each (`StepKept`), and lemmas on sums over finite sets reduce a sum to
its one changed term: they are proved of `SumFunction`, the library's fold, by the induction over finite sets that is stated without operators (a smallest counterexample).
A bound of no requests between two triggers had to be excluded: with it and a quota of 0 the bound of `OverspendBounded` is -1, and no request is admitted at all.

### The scripts

`CgiInv` says who owns descriptors and processes while handlers run on what they knew before.  `fdarray` is keyed by the number of the descriptor and a connection
knows its own by number too, so that the proof needs both directions: what is registered belongs to the connection (`DescriptorsOwned`), and each descriptor and
process has one owner (`OneOwner`), from which `ChildrenOwned` follows by counting (`OwnersCounted`).  For a single connection the invariant `Good` relates the state of the connection
to its `handler_ctx`: what is read, queued and owed of the body adds up (`Balanced`), a handler is there in those states only in which it may be (`Bound`), reading from the script
is suspended only while a response that has started is streamed (`Heard`), and there is interest in what is to be passed on (`Sending`, `Fed`).

Every handler leaves a `Good` connection and has one of six effects on what is shared: none, the pipe to the script is closed, the script is given up, one
is started with or without a pipe for a body, or its start failed (`Effect`).  The handlers call each other and are proved from the innermost outwards: reading from the script
(`Demuxed`, `Received`), writing to it (`Wrote`), closing (`CloseGivesUp`), the state machine (`Answered`, `Rounded`).  Between two calls a connection may lack the interest that `Fed` speaks of (`Loose`).
That an effect keeps `CgiSound` is a lemma for each, independent of the handler that has it.

`CgiNoLostWakeup` speaks of the moment at which the process sleeps, like `NoLostWakeup`, and the argument is the same: a round of the state machine leaves the
connection settled or on the joblist (`Rounded`), no other step takes from a settled connection what it waits for (`Passed`, `SettledStays`), and the list is
empty before the process sleeps (`Awake`).

### The cache of file properties

An answer is recent because an entry was: without a monitor nothing reports a change, and an entry of the current second was made in it (`EntriesRecent`).  A name and
whether links are followed choose the entry by a hash about which nothing is assumed; that two names are kept apart is by the comparison of names in `stat_cache_get_entry()`.

### The events

For poll the invariant relates the index of an owner, the slots and the stack of unused ones in both directions (`SlotsAgree`), for the others the index and what is watched
(`WatchAgrees`).  That the loop of `main()` ends within the results is a matter of counting: what `fn` still promises is the number of entries still to be handed out (`Counted`), and a
slot added in the meantime, whose `revents` nobody wrote, comes behind them all.  `HotFindTheirs` says that an entry still to be handed out belongs to a descriptor that has the handler
it had at the poll: a handler that deletes no other descriptor than its own takes nothing from the others (`HandlersKeep`).  How many events a poll reports is
counted by a bijection between slots and descriptors.

### What stays with TLC

* Liveness: `ExpiredIsServed`, `GracefulShutdownEnds`, `ProxyReenabled` and `ScriptsEnd` need fairness and `ENABLED`.
* What recursive definitions compute: the functions of `Text`, the trees of `Splay`, the array of `Arrays`, the conditions of `Conditions` (and with them
  `Prepare`).  They are checked against reference definitions over all inputs up to the bounds.
* `FcgiInv` and `ScgiInv`: `fcgi_restart_dead_procs` and the triggers walk over all processes of a host and are folds here; that a fold keeps an invariant is an induction over
  an operator, which the library's theorems cannot be instantiated for; the argument by a smallest counterexample that `ServicesProofs` uses for sums would have to be made anew for each of these folds.
* Checked only, for want of an invariant worth its proof so far: `ChunkInv`, `RequestInv`, `AuthInv`, `SendFileInv`, `SsiInv`, `WebDAV`'s action properties.

## 5. What is not modelled

* TLS, `FCGI_AUTHORIZER`, the LDAP backend of `mod_auth`.  The flow control by buffer size
  (`FDEVENT_STREAM_*_BUFMIN`) is modelled in `Cgi`; in `Connection` and `FastCGI` it only delays
  reading from a backend.
* The configuration parser with its generator: it runs once at the start.  `mod_magnet` runs a program of the user.  Status and statistics only print counters.
  Virtual hosts and small modules are functions of one request without a state of their own, or ask a database.
* Wording and layout of headers and pages, MIME types, regular expressions (an outcome), hashes and compressors (an outcome).
* With `TempfileFails` a response that a backend already started can be left in `WRITE` with
  nobody to finish it; it waits for the write timeout.  `NoLostWakeup` exempts it (`GivenUp`).

### Observations

Behaviour that the models show, or that was met while writing them, and that no run pins down.

Connections and the main loop:

* The scan goes on with the next slot after it has closed a connection, although `connection_del` moved another one into the slot (`server.c:1596`): that one is looked
  at a second later, as `ExpiredIsServed` says.
* The pid file is left behind if SIGINT is followed by SIGTERM before the loop acts on the first, or if
  the sockets were disabled when the graceful shutdown began (`server.c:1812`).
* If setting up an accepted socket fails (`connections.c:1086`), the connection stays in the table in
  `CON_STATE_REQUEST_START`, without events and without a timeout; a graceful shutdown then never ends.
  `NoTransientAsleep` is therefore checked without this failure, `ServerInv` with it.
* A request that waits in `HANDLE_REQUEST` for a backend that neither answers nor closes is under no timeout (`server.c:1632`).

Backends:

* CGI: output without a header is a body if its end arrives after it and a 500 if both are read at once (`mod_cgi.c:811`).
* FastCGI: `got_proc` stays set over `fcgi_reconnect`.  If the next attempt fails before it is accepted, the
  load of that process is given back without having been taken; the unsigned counter
  wraps around, and a local process with a load that is not 0 is not restarted.  `ProcLoad` and
  `LetThemTerminate` are stated for the time before this happens (`overdrawn`).
* FastCGI: `hctx->reconnects` is set back to 0 whenever `connect()` succeeds at once: five reconnects is the limit in
  a row, not "for the same request".  After a reconnect with nothing sent, the request is queued a second time behind the first copy.
  `fcgi_restart_dead_procs` returns at the first process that cannot be started (`mod_fastcgi.c:2826`), and a failing `fork()` counts as success.
* SCGI: a process that refused a connection is not restarted (`mod_scgi.c:2492`); the load of the host leaks if it has no running process, and is given back twice
  after a reconnect; the number of a closed descriptor is kept; the environment is appended twice; `DIED_WAIT_FOR_PID` is final after a failed fork;
  `active_procs` is not decremented for local deaths.
* Luna: replies can be read by another worker until the first trigger, and a command be lost whose count was cleared, which is 0 then; a new token is refused until then; counts are lost with a
  worker; during an outage a stale remainder admits; the total limit fails open; `con->mode` is set before the URL is looked at; `hctx->creq` dangles.

Requests and files:

* Preparation: `mod_extforward` with "all" trusts the address farthest away, and forwards again when a request starts anew: the context that has the
  peer's address is freed and saved again with the forwarded one (`mod_extforward.c:447`), so that the peer's address is lost for the life of the connection; an error of `mod_access` before an error handler; captures of a request method
  condition are stale; `con->conf` is not patched again after the address changed.
* Parser: a 505 leaves `keep_alive` set; `keep_alive` is not reset for the next request; `Transfer-Encoding` is ignored for GET, HEAD and POST,
  and a body in chunks is read as the next request (`request.c:1238`; `InStep` exempts it); the last of several `Connection`
  headers wins; a header beyond 64k is accepted if its end arrives in the same read.
* Texts: the check of host names lets "a-", "a-.b" and "a.." pass; `buffer_to_upper` never upper-cases (`buffer.c:1016`); in `mod_ssi` a flag for a backslash is never cleared
  and short reads scan bytes again.
* Files: an `If-Range` that does not match is not answered with the whole file (`http-header-glue.c:624`); a malformed range after a good one is
  answered 200 with the parts queued so far; an `If-Modified-Since` that is only the beginning of the file's date ends without a status and with
  `file_finished` not set.  `AnswerComplete` exempts the last two.
* Authentication: an `extern` directive trusts the `REMOTE_USER` that a check of another directive set before the request came back with a new path.
* SSI: nested ifs show wrong branches (`mod_ssi.c:321`); a page that ends inside of an if, or closes one too many, leaves `if_level`, `if_is_false_level` and
  `if_is_false_endif` to the next (`mod_ssi.c:1292` resets `if_is_false` only), whose ifs may then show wrong branches, though never hide what is outside of them; `exec` waits for the command before it reads and blocks the server if the pipe is full; ends of the pipe leak if `fork()` fails;
  what `exec` and `echo` print is not part of the ETag.
* Stat cache: with FAM an answer can be older than the reports (`stat_cache.c:70`).  Chunks: a temporary file that fails in the middle of a frame leaves the
  frame cut (`chunk.c:716`); `chunkqueue_remove_empty_chunks` follows a null pointer when the first write to a new temporary file fails behind a chunk that is not
  finished (`chunk.c:721`): nothing is said of the queues after that (`ccrashed`).
* Responses: a `Content-Length` of the backend is passed on, and the connection kept alive, though the backend sends another number of bytes (`connections.c:447`, `485`); what a
  backend sends after the header of a response to HEAD, or with 204 or 304, goes out behind it; a backend that fails after its header was taken gives,
  without streaming, a response that looks complete, with the length of what there was (`http-header-glue.c:730`).
* WebDAV: a COPY onto itself (a file into its own directory, a directory named without its slash) truncates the files and reports success, a MOVE then deletes them;
  what is passed over because `stat()`, `mkdir()` or `opendir()` fails (`mod_webdav.c:763`, `797`) is reported to nobody, and a MOVE deletes it with its source; an exclusive lock is not
  exclusive; a file put into a directory by its own name is held against the lock of the directory only (`mod_webdav.c:2142`, `2148`); DELETE leaves properties
  behind; PUT looks at the lock before the body only, and writes under one taken in the meantime; MKCOL looks at none; locks never expire.
* Compression: another worker serves a cache file while it is written (`mod_compress.c:509`); a writer that was killed leaves it for good.

Processes:

* Watcher: a signal between the check of the flags and `wait()` is noticed with the next child only; a failing `fork()` ends the watcher and leaves workers and pid file; other children of its own are counted
  as workers.  Angel: a SIGHUP between `fork()` and `start_process = 0` is lost; the race of `lighttpd-angel.c:124` makes it give up.
* Daemon: the pid file of another instance is unlinked (`NEWS:794`).  Logs: entries in a buffer die with a worker; one log that cannot be reopened leaves the later ones on the
  rotated file; the error log falls back to syslog for ever.
* fdevent: a deleted slot of `poll` keeps its `revents`; kqueue reports two events for a descriptor; the interest of /dev/poll only grows.

## 6. Plan

1. Done: all modules of section 2, the runs of section 3, the proofs of section 4.
2. Next proofs, in the order of what they say of the system: `ChunkInv`, `RequestInv`, `AuthInv`.
3. Not planned: proofs about `FastCGI` and `Scgi` as they stand (folds), about the modules with recursive operators, and liveness.
