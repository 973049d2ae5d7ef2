----------------------------- MODULE MCRequests -----------------------------
(***************************************************************************)
(* The parts that work on one request, for TLC: the parser, the phases     *)
(* before a handler is found, authentication, files, pages, the queues     *)
(* that carry the bodies, and the structures under all of them (buffers,   *)
(* arrays, the splay tree, the tables of fdevent). None of them reads the  *)
(* state of another, so one run checks them side by side: unit says which  *)
(* one a behaviour is about, and the others stay in one initial state.     *)
(***************************************************************************)
EXTENDS Prepare, Request, Text, Auth, SendFile, Ssi, StatCache, Chunk,
        Buffer, Arrays, Splay, Fdevent

VARIABLE unit

Unit == {"prepare", "request", "text", "auth", "sendfile", "ssi", "stat", "chunk",
         "buffer", "arrays", "splay", "fdevent"}

(* server.conf: a block for the address with a block in it and an else branch, or any
   three blocks of which one is an else branch. *)
ATree == [n \in 1 .. 3 |->
    CASE n = 1 -> [parent |-> 0, prev |-> 0, comp |-> "ip", asks |-> 1]
      [] n = 2 -> [parent |-> 1, prev |-> 0, comp |-> "url", asks |-> 1]
      [] n = 3 -> [parent |-> 0, prev |-> 1, comp |-> "ip", asks |-> 0]]
SomeTrees == {t \in Trees : /\ \A n \in Context : t[n].asks = n % 2
                         /\ t[1].comp = "ip" /\ t[2].comp = "url" /\ \E n \in Context : t[n].prev # 0}
Config(orders, trusts, lunas, handlers, trees) ==
    [order : orders, trust : trusts, luna : lunas, handler : handlers, tree : trees]
ForwardFirst == <<"extforward", "rewrite">>
PrepareConfigs ==
    Config({ForwardFirst}, {"list"}, {FALSE}, {"none", "any", "404"}, {ATree})
      \cup Config({ForwardFirst}, {"all"}, {FALSE}, {"any", "404"}, {ATree})
      \cup Config({<<"rewrite", "extforward">>}, {"list", "all"}, {TRUE}, {"any"}, {ATree})
      \cup Config({ForwardFirst}, {"list"}, {FALSE}, {"any"}, SomeTrees)

(* auth.require *)
AuthRule(k, n) == [key |-> k, name |-> n]
AuthRequire ==
    <<[prefix |-> <<1, 2>>, method |-> "digest", realm |-> "r", rules |-> <<AuthRule("valid-user", "")>>],
      [prefix |-> <<1>>, method |-> "basic", realm |-> "r",
       rules |-> <<AuthRule("group", "u"), AuthRule("user", "u"), AuthRule("bad", "v")>>],
      [prefix |-> <<2>>, method |-> "digest", realm |-> "r",
       rules |-> <<AuthRule("user", "v"), AuthRule("valid-user", "")>>],
      [prefix |-> <<3>>, method |-> "extern", realm |-> "r", rules |-> <<AuthRule("user", "u")>>]>>
UserFile == {[user |-> "u", realm |-> "r"], [user |-> "v", realm |-> "r"], [user |-> "v", realm |-> "s"]}
GuardedPaths == {<<>>, <<1>>, <<1, 2>>, <<2, 1>>, <<3>>}

SsiConfs ==
    {[exec |-> TRUE, conditional |-> FALSE, nest |-> 1, size |-> 3],
     [exec |-> FALSE, conditional |-> TRUE, nest |-> 1, size |-> 3],
     [exec |-> FALSE, conditional |-> FALSE, nest |-> 3, size |-> 4]}

----------------------------------------------------------------------------
(* One member, for a part that rests. *)
Some(S) == CHOOSE x \in S : TRUE

(* The two names share their hashes or not; which hash is which does not matter.  With
   "fam", which takes longest, and "none" they share them, and one of the files never changes. *)
StatConfs ==
    {k \in [engine : Engines, hash : [SFile -> [BOOLEAN -> SKey]]] :
        /\ \A f \in SFile : k.hash[f][TRUE] # k.hash[f][FALSE]
        /\ k.hash["f"][TRUE] = 1
        /\ k.engine # "simple" => k.hash["g"][TRUE] = 1}

StatBound == sconf.engine # "simple" => disk["g"] = "old"

(* Pages set variables and include files where neither commands nor nested ifs are tried. *)
SsiBound == ssconf.conditional \/ given = [vars |-> {}, times |-> {}]

RequestsInit ==
    /\ unit \in Unit
    /\ sconf \in IF unit = "stat" THEN StatConfs ELSE {Some(StatConfs)}
    /\ pconf \in IF unit = "prepare" THEN Configs ELSE {Some(Configs)}
    /\ aconf \in IF unit = "auth" THEN AuthBackends ELSE {Some(AuthBackends)}
    /\ ssconf \in IF unit = "ssi" THEN SsiConfs ELSE {Some(SsiConfs)}
    /\ fbackend \in IF unit = "fdevent" THEN Backends ELSE {Some(Backends)}
    /\ PrepareInit /\ RequestInit /\ AuthInit /\ SsiInit /\ StatInit
    /\ BufferInit /\ ArrayInit /\ SplayInit /\ FdeventInit
    /\ IF unit = "text" THEN TextInit
       ELSE tjob = "path" /\ tin = <<>> /\ tout = <<>> /\ tdone = FALSE
    /\ IF unit = "sendfile" THEN SendFileInit
       ELSE sfreq = PlainRequest /\ sfresp = NoAnswer /\ sfstep = "subrequest"
    /\ ChunkInit
    /\ IF unit = "chunk" THEN cconf.backend = "write" => ~cconf.http11 /\ ~cconf.stream
       ELSE cconf = [dir |-> "upload", large |-> FALSE, stream |-> FALSE, head |-> FALSE,
                     http11 |-> FALSE, backend |-> "writev"]

RequestsNext ==
    /\ UNCHANGED unit
    /\ \/ /\ unit = "prepare" /\ PrepareNext
          /\ UNCHANGED <<requestVars, textVars, authVars, sendFileVars, ssiVars, statVars,
                         chunkVars, bufferVars, arrayVars, splayVars, fdeventVars>>
       \/ /\ unit = "request" /\ RequestNext
          /\ UNCHANGED <<prepareVars, textVars, authVars, sendFileVars, ssiVars, statVars,
                         chunkVars, bufferVars, arrayVars, splayVars, fdeventVars>>
       \/ /\ unit = "text" /\ Apply
          /\ UNCHANGED <<prepareVars, requestVars, authVars, sendFileVars, ssiVars, statVars,
                         chunkVars, bufferVars, arrayVars, splayVars, fdeventVars>>
       \/ /\ unit = "auth" /\ AuthNext
          /\ UNCHANGED <<prepareVars, requestVars, textVars, sendFileVars, ssiVars, statVars,
                         chunkVars, bufferVars, arrayVars, splayVars, fdeventVars>>
       \/ /\ unit = "sendfile" /\ SendFileNext
          /\ UNCHANGED <<prepareVars, requestVars, textVars, authVars, ssiVars, statVars,
                         chunkVars, bufferVars, arrayVars, splayVars, fdeventVars>>
       \/ /\ unit = "ssi" /\ SsiNext
          /\ UNCHANGED <<prepareVars, requestVars, textVars, authVars, sendFileVars, statVars,
                         chunkVars, bufferVars, arrayVars, splayVars, fdeventVars>>
       \/ /\ unit = "stat" /\ StatNext
          /\ UNCHANGED <<prepareVars, requestVars, textVars, authVars, sendFileVars, ssiVars,
                         chunkVars, bufferVars, arrayVars, splayVars, fdeventVars>>
       \/ /\ unit = "chunk" /\ ChunkNext
          /\ UNCHANGED <<prepareVars, requestVars, textVars, authVars, sendFileVars, ssiVars,
                         statVars, bufferVars, arrayVars, splayVars, fdeventVars>>
       \/ /\ unit = "buffer" /\ BufferNext
          /\ UNCHANGED <<prepareVars, requestVars, textVars, authVars, sendFileVars, ssiVars,
                         statVars, chunkVars, arrayVars, splayVars, fdeventVars>>
       \/ /\ unit = "arrays" /\ ArrayNext
          /\ UNCHANGED <<prepareVars, requestVars, textVars, authVars, sendFileVars, ssiVars,
                         statVars, chunkVars, bufferVars, splayVars, fdeventVars>>
       \/ /\ unit = "splay" /\ SplayNext
          /\ UNCHANGED <<prepareVars, requestVars, textVars, authVars, sendFileVars, ssiVars,
                         statVars, chunkVars, bufferVars, arrayVars, fdeventVars>>
       \/ /\ unit = "fdevent" /\ FdeventNext
          /\ UNCHANGED <<prepareVars, requestVars, textVars, authVars, sendFileVars, ssiVars,
                         statVars, chunkVars, bufferVars, arrayVars, splayVars>>

requestsVars ==
    <<unit, prepareVars, requestVars, textVars, authVars, sendFileVars, ssiVars, statVars,
      chunkVars, bufferVars, arrayVars, splayVars, fdeventVars>>

RequestsSpec == RequestsInit /\ [][RequestsNext]_requestsVars

(* The two structures that are searched by key keep what is put into them. *)
StructuresSound == SearchFinds /\ ElementsOwned /\ SplaySound /\ SplayedToRoot
=============================================================================
