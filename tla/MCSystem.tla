------------------------------ MODULE MCSystem ------------------------------
(***************************************************************************)
(* The parts that outlive a request, for TLC: the processes (start and     *)
(* stop, watcher, angel, logs), the table of connections, and the files    *)
(* that WebDAV and the compression cache share.  None of them reads the    *)
(* state of another, so one run checks them side by side: unit says which  *)
(* one a behaviour is about, and the others stay in one initial state.     *)
(***************************************************************************)
EXTENDS Daemon, Watcher, Angel, Log, ConnTable, Webdav, Compress, TLC

VARIABLE unit

Unit == {"daemon", "watcher", "angel", "log", "table", "dav", "compress"}

(* Two processes, or two clients, wherever there are several: they are all alike. *)
CONSTANT Peer
Symmetry == Permutations(Peer)

(* The tree of WebDAV: d/f, d/s/f and e, which is a file, a directory or not there. *)
Tree(e, n) ==
    [p \in Path |-> CASE p = <<"d">> -> "dir" [] p = <<"d", "f">> -> "one" [] p = <<"d", "s">> -> "dir"
                      [] p = <<"d", "s", "f">> -> "two" [] p = <<"e">> -> e
                      [] OTHER -> IF e = "dir" /\ p = <<"e", n>> THEN "three" ELSE "none"]
Uris == {Plain(<<"d">>), Plain(<<"d", "f">>), Plain(<<"e", "f">>)}
          \cup {[p |-> p, slash |-> TRUE] : p \in {<<"d">>, <<"e">>}}
DavStart(e, n, ro, db, locked, all) ==
    [fs |-> Tree(e, n), readonly |-> ro, db |-> db, locked |-> locked, left |-> [all |-> all, copies |-> 1]]
Starts ==
    {DavStart("dir", "f", FALSE, TRUE, TRUE, 2), DavStart("none", "f", FALSE, TRUE, FALSE, 1),
     DavStart("three", "f", FALSE, FALSE, FALSE, 1), DavStart("dir", "s", FALSE, TRUE, FALSE, 1),
     DavStart("dir", "s", TRUE, TRUE, FALSE, 1)}

(* Requests for a compressed file, and settings of mod_compress. *)
CompressRequest(m, a, t) == [method |-> m, accept |-> a, match |-> t]
CompressRequests ==
    {CompressRequest("HEAD", {"x-gzip", "compress"}, TagOf(1, "none")),
     CompressRequest("GET", {"gzip", "deflate"}, TagOf(0, "none")),
     CompressRequest("POST", {"x-bzip2"}, TagOf(1, "none")),
     CompressRequest("GET", {"gzip"}, TagOf(1, "date"))}
CompressConfigs ==
    {[allowed |-> {"gzip"}, cachedir |-> TRUE, etags |-> TRUE],
     [allowed |-> {"deflate", "x-bzip2"}, cachedir |-> TRUE, etags |-> FALSE],
     [allowed |-> {}, cachedir |-> FALSE, etags |-> TRUE]}

----------------------------------------------------------------------------
(* One member, for a part that rests. *)
Some(S) == CHOOSE x \in S : TRUE
FirstStart == DavStart("none", "f", FALSE, TRUE, FALSE, 1)

SystemInit ==
    /\ unit \in Unit
    /\ dkind \in IF unit = "daemon" THEN SocketKinds ELSE {Some(SocketKinds)}
    /\ cmconf \in IF unit = "compress" THEN CConfigs ELSE {Some(CConfigs)}
    /\ davfs \in IF unit = "dav" THEN {s.fs : s \in DavStarts} ELSE {FirstStart.fs}
    /\ DaemonInit /\ WatcherInit /\ AngelInit /\ TableInit /\ CompressInit
    /\ LogInit /\ (unit # "log" => lconf[1] = "file")
    /\ DavInit

SystemNext ==
    /\ UNCHANGED unit
    /\ \/ /\ unit = "daemon" /\ DaemonNext
          /\ UNCHANGED <<watcherVars, angelVars, logVars, tableVars, davVars, compressVars>>
       \/ /\ unit = "watcher" /\ WatcherNext
          /\ UNCHANGED <<daemonVars, angelVars, logVars, tableVars, davVars, compressVars>>
       \/ /\ unit = "angel" /\ AngelNext
          /\ UNCHANGED <<daemonVars, watcherVars, logVars, tableVars, davVars, compressVars>>
       \/ /\ unit = "log" /\ LogNext
          /\ UNCHANGED <<daemonVars, watcherVars, angelVars, tableVars, davVars, compressVars>>
       \/ /\ unit = "table" /\ TableNext
          /\ UNCHANGED <<daemonVars, watcherVars, angelVars, logVars, davVars, compressVars>>
       \/ /\ unit = "dav" /\ DavNext
          /\ UNCHANGED <<daemonVars, watcherVars, angelVars, logVars, tableVars, compressVars>>
       \/ /\ unit = "compress" /\ CompressNext
          /\ UNCHANGED <<daemonVars, watcherVars, angelVars, logVars, tableVars, davVars>>

systemVars ==
    <<unit, daemonVars, watcherVars, angelVars, logVars, tableVars, davVars, compressVars>>

SystemSpec == SystemInit /\ [][SystemNext]_systemVars
=============================================================================
