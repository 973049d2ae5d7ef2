--------------------------- MODULE SystemProofs ---------------------------
(***************************************************************************)
(* The processes around the server, whatever the moment at which one is    *)
(* signalled, killed or fails: the watcher of server.max-worker and the    *)
(* angel, start and stop of the server, its logs, and the cache that       *)
(* mod_compress shares between workers.                                    *)
(***************************************************************************)
EXTENDS Watcher, Angel, Daemon, Log, Compress, FiniteSetTheorems, SequenceTheorems, TLAPS

-----------------------------------------------------------------------------
(* The watcher *)

(* A handler of signals keeps the flags typed; what was set of term and grace stays. *)
LEMMA FlagsHandled ==
    ASSUME NEW f \in FlagSet, NEW sig \in {"TERM", "INT", "HUP"}
    PROVE  LET g == sigaction_handler(f, sig)
           IN  /\ g \in FlagSet
               /\ f.term => g.term
               /\ f.grace => g.grace
               /\ g.fwd => f.fwd
               /\ f.hup => g.hup
               /\ sig = "TERM" => g.term
               /\ sig = "INT" => g.grace
               /\ sig = "HUP" /\ ~f.fwd => g.hup
<1>1. CASE sig = "TERM"
  BY <1>1 DEF sigaction_handler, FlagSet
<1>2. CASE sig = "INT"
  BY <1>2 DEF sigaction_handler, FlagSet
<1>3. CASE sig = "HUP"
  BY <1>3 DEF sigaction_handler, FlagSet
<1> QED BY <1>1, <1>2, <1>3

(* A signal to the watcher: its flags are those of the handler, and wait() is interrupted. *)
LEMMA SignalToMain ==
    ASSUME WatcherTypeOK, NEW sig \in {"TERM", "INT", "HUP"}
    PROVE  LET m == ToMain(wmain, sig)
           IN  /\ m.f = sigaction_handler(wmain.f, sig)
               /\ m.childs = wmain.childs
               /\ m.at = IF wmain.at = "waiting" THEN "interrupted" ELSE wmain.at
               /\ m \in [at : {"check", "fork", "towait", "waiting", "interrupted", "forward",
                               "stop", "gone", "dead"}, childs : Int, f : FlagSet]
<1>1. wmain.f \in FlagSet
  BY DEF WatcherTypeOK
<1>2. sigaction_handler(wmain.f, sig) \in FlagSet
  BY <1>1, FlagsHandled
<1> QED BY <1>2 DEF ToMain, WatcherTypeOK

(* A signal to the group: the workers' flags are those of the handler. *)
LEMMA SignalToGroup ==
    ASSUME WatcherTypeOK, NEW sig \in {"TERM", "INT", "HUP"}
    PROVE  /\ ToGroup(sig) \in [Slot -> [at : {"none", "boot", "up", "zombie"}, f : FlagSet]]
           /\ \A w \in Slot :
                /\ ToGroup(sig)[w].at = wslot[w].at
                /\ ToGroup(sig)[w].f = IF w \in Group THEN sigaction_handler(wslot[w].f, sig)
                                       ELSE wslot[w].f
<1>1. \A w \in Slot : wslot[w].f \in FlagSet
  BY DEF WatcherTypeOK
<1>2. \A w \in Slot : sigaction_handler(wslot[w].f, sig) \in FlagSet
  BY <1>1, FlagsHandled
<1> QED BY <1>2 DEF ToGroup, WatcherTypeOK

(* As many processes as before, one more or one less. *)
Forked == {w \in Slot : wslot[w].at # "none"}

(* There are finitely many workers. *)
LEMMA ForkedFinite == IsFiniteSet(Forked) /\ Cardinality(Forked) \in Nat
<1>1. IsFiniteSet(Forked)
  BY WatcherAssumption, FS_Subset DEF Forked
<1> QED BY <1>1, FS_CardinalityType

LEMMA SameForked ==
    ASSUME \A w \in Slot : wslot'[w].at = "none" <=> wslot[w].at = "none"
    PROVE  Cardinality(Forked') = Cardinality(Forked)
BY DEF Forked

LEMMA OneForked ==
    ASSUME NEW w \in Slot, wslot[w].at = "none", wslot'[w].at # "none",
           \A v \in Slot \ {w} : wslot'[v] = wslot[v]
    PROVE  Cardinality(Forked') = Cardinality(Forked) + 1
<1>1. Forked' = Forked \cup {w} /\ w \notin Forked
  BY DEF Forked
<1> QED BY <1>1, ForkedFinite, FS_AddElement

LEMMA OneWaitedFor ==
    ASSUME NEW w \in Slot, wslot[w].at # "none", wslot'[w].at = "none",
           \A v \in Slot \ {w} : wslot'[v] = wslot[v]
    PROVE  Cardinality(Forked') = Cardinality(Forked) - 1
<1>1. Forked' = Forked \ {w} /\ w \in Forked
  BY DEF Forked
<1> QED BY <1>1, ForkedFinite, FS_RemoveElement

(* A round of the watcher that only changes where it is, or its own flags. *)
LEMMA WatcherStep == WatcherInv /\ [WatcherNext]_watcherVars => WatcherInv'
<1> SUFFICES ASSUME WatcherInv, [WatcherNext]_watcherVars PROVE WatcherInv'
  OBVIOUS
<1> USE DEF WatcherInv
<1>0. /\ wmain.childs \in Int /\ wmain.f \in FlagSet
      /\ whist.helpers \in Nat
      /\ max_worker \in Nat
      /\ Cardinality(Forked) \in Nat
      /\ wmain.at # "gone" => Cardinality(Forked) + wmain.childs = max_worker + whist.helpers
  BY WatcherAssumption, ForkedFinite DEF WatcherTypeOK, WorkersCounted, Forked
<1>00. (wmain'.at # "gone" =>
            Cardinality(Forked') + wmain'.childs = max_worker + whist'.helpers)
       => WorkersCounted'
  BY DEF WorkersCounted, Forked
<1>1. CASE Check
  <2> USE <1>1 DEF Check
  <2>1. /\ WatcherTypeOK'
        /\ wmain'.childs = wmain.childs /\ wmain'.f = wmain.f
        /\ wmain'.at \notin {"gone", "dead", "forward"}
    BY DEF WatcherTypeOK
  <2>2. WorkersCounted'
    BY <2>1, <1>0, <1>00, SameForked
  <2>3. NoWorkerLeftBehind'
    BY <2>1 DEF NoWorkerLeftBehind
  <2>4. HupNotForgotten'
    BY <2>1 DEF HupNotForgotten, Watching
  <2>5. ForwardedOnce' /\ OwedAreUp'
    BY <2>1 DEF ForwardedOnce, OwedAreUp, Up
  <2> QED BY <2>1, <2>2, <2>3, <2>4, <2>5
<1>2. CASE Fork
  <2>1. PICK w \in Slot : /\ wslot[w].at = "none"
                          /\ wslot' = [wslot EXCEPT ![w] = [at |-> "boot", f |-> wmain.f]]
    BY <1>2 DEF Fork
  <2> USE <1>2, <2>1 DEF Fork
  <2>2. /\ WatcherTypeOK'
        /\ wmain'.childs = wmain.childs - 1 /\ wmain'.f = wmain.f
        /\ wmain'.at = "check" /\ ~wmain.f.fwd
        /\ wslot'[w] = [at |-> "boot", f |-> wmain.f]
        /\ \A v \in Slot \ {w} : wslot'[v] = wslot[v]
    <3>1. /\ wmain'.childs = wmain.childs - 1 /\ wmain'.f = wmain.f
          /\ wmain'.at = "check" /\ ~wmain.f.fwd
          /\ wmain' = [wmain EXCEPT !.at = "check", !.childs = wmain.childs - 1]
      BY DEF WatcherTypeOK, ForwardedOnce
    <3>2. /\ wslot'[w] = [at |-> "boot", f |-> wmain.f]
          /\ \A v \in Slot \ {w} : wslot'[v] = wslot[v]
      BY DEF WatcherTypeOK
    <3>3. wslot' \in [Slot -> [at : {"none", "boot", "up", "zombie"}, f : FlagSet]]
      BY <1>0 DEF WatcherTypeOK
    <3>4. wmain.childs - 1 \in Int
      BY <1>0
    <3>5. wmain' \in [at : {"check"}, childs : Int, f : FlagSet]
      BY <3>1, <3>4 DEF WatcherTypeOK
    <3> QED BY <3>1, <3>2, <3>3, <3>5 DEF WatcherTypeOK
  <2>3. WorkersCounted'
    BY <2>2, <1>0, <1>00, OneForked
  <2>4. NoWorkerLeftBehind'
    BY <2>2 DEF NoWorkerLeftBehind
  <2>5. w \notin whist.owed
    BY DEF OwedAreUp, Up
  <2>6. HupNotForgotten'
    BY <2>2, <2>5 DEF HupNotForgotten, Watching, WatcherTypeOK
  <2>7. ForwardedOnce'
    BY <2>2 DEF ForwardedOnce
  <2>8. OwedAreUp'
    BY <2>2, <2>5 DEF OwedAreUp, Up, WatcherTypeOK
  <2> QED BY <2>2, <2>3, <2>4, <2>6, <2>7, <2>8
<1>3. CASE ForkFails
  <2> USE <1>3 DEF ForkFails
  <2>1. /\ WatcherTypeOK'
        /\ wmain'.childs = wmain.childs /\ wmain'.f = wmain.f
        /\ wmain'.at = "dead" /\ ~wmain.f.fwd
    BY DEF WatcherTypeOK, ForwardedOnce
  <2>2. WorkersCounted'
    BY <2>1, <1>0, <1>00, SameForked
  <2>3. NoWorkerLeftBehind' /\ HupNotForgotten' /\ ForwardedOnce' /\ OwedAreUp'
    BY <2>1 DEF NoWorkerLeftBehind, HupNotForgotten, Watching, ForwardedOnce, OwedAreUp, Up
  <2> QED BY <2>1, <2>2, <2>3
<1>4. CASE EnterWait
  <2> USE <1>4 DEF EnterWait
  <2>1. /\ WatcherTypeOK'
        /\ wmain'.childs = wmain.childs /\ wmain'.f = wmain.f
        /\ wmain'.at = "waiting" /\ ~wmain.f.fwd
    BY DEF WatcherTypeOK, ForwardedOnce
  <2>2. WorkersCounted'
    BY <2>1, <1>0, <1>00, SameForked
  <2>3. NoWorkerLeftBehind' /\ HupNotForgotten' /\ ForwardedOnce' /\ OwedAreUp'
    BY <2>1 DEF NoWorkerLeftBehind, HupNotForgotten, Watching, ForwardedOnce, OwedAreUp, Up
  <2> QED BY <2>1, <2>2, <2>3
<1>5. CASE Reaped
  <2>0. /\ wmain' \in [at : {"check"}, childs : Int, f : FlagSet]
        /\ wmain'.childs = wmain.childs + 1 /\ wmain'.f = wmain.f
        /\ wmain'.at = "check" /\ ~wmain.f.fwd /\ wmain.at = "waiting"
    <3>1. /\ wmain'.childs = wmain.childs + 1 /\ wmain'.f = wmain.f
          /\ wmain'.at = "check" /\ ~wmain.f.fwd /\ wmain.at = "waiting"
          /\ wmain' = [wmain EXCEPT !.at = "check", !.childs = wmain.childs + 1]
      BY <1>5 DEF WatcherTypeOK, ForwardedOnce, Reaped
    <3>2. wmain.childs + 1 \in Int
      BY <1>0
    <3>3. wmain' \in [at : {"check"}, childs : Int, f : FlagSet]
      BY <3>1, <3>2 DEF WatcherTypeOK
    <3> QED BY <3>1, <3>3
  <2>1. CASE (\E w \in Slot : wslot[w].at = "zombie" /\ wslot' = [wslot EXCEPT ![w] = NoWorker])
             /\ UNCHANGED <<wzombies, whist>>
    <3>1. PICK w \in Slot : wslot[w].at = "zombie" /\ wslot' = [wslot EXCEPT ![w] = NoWorker]
      BY <2>1
    <3>2. /\ WatcherTypeOK'
          /\ wslot'[w].at = "none" /\ ~wslot'[w].f.fwd
          /\ \A v \in Slot \ {w} : wslot'[v] = wslot[v]
      <4>1. NoWorker \in [at : {"none", "boot", "up", "zombie"}, f : FlagSet]
            /\ NoWorker.at = "none" /\ ~NoWorker.f.fwd
        BY DEF NoWorker, Flags, FlagSet
      <4> QED BY <2>0, <2>1, <3>1, <4>1 DEF WatcherTypeOK
    <3>3. WorkersCounted'
      <4>1. Cardinality(Forked') = Cardinality(Forked) - 1
        BY <3>1, <3>2, OneWaitedFor
      <4>2. whist'.helpers = whist.helpers
        BY <2>1
      <4> QED BY <2>0, <4>1, <4>2, <1>0, <1>00
    <3>4. w \notin whist.owed
      BY <3>1 DEF OwedAreUp, Up
    <3>5. NoWorkerLeftBehind' /\ HupNotForgotten' /\ ForwardedOnce' /\ OwedAreUp'
      BY <2>0, <2>1, <3>2, <3>4
         DEF NoWorkerLeftBehind, HupNotForgotten, Watching, ForwardedOnce, OwedAreUp, Up, WatcherTypeOK
    <3> QED BY <3>2, <3>3, <3>5
  <2>2. CASE /\ wzombies > 0 /\ wzombies' = wzombies - 1
             /\ whist' = [whist EXCEPT !.helpers = @ + 1]
             /\ UNCHANGED wslot
    <3>1. /\ WatcherTypeOK'
          /\ whist'.helpers = whist.helpers + 1 /\ whist'.owed = whist.owed
      BY <2>0, <2>2 DEF WatcherTypeOK
    <3>2. WorkersCounted'
      BY <2>0, <2>2, <3>1, <1>0, <1>00, SameForked
    <3>3. NoWorkerLeftBehind' /\ HupNotForgotten' /\ ForwardedOnce' /\ OwedAreUp'
      BY <2>0, <2>2, <3>1
         DEF NoWorkerLeftBehind, HupNotForgotten, Watching, ForwardedOnce, OwedAreUp, Up
    <3> QED BY <3>1, <3>2, <3>3
  <2> QED BY <1>5, <2>1, <2>2 DEF Reaped
<1>6. CASE Interrupted
  <2> USE <1>6 DEF Interrupted
  <2>1. /\ WatcherTypeOK'
        /\ wmain'.childs = wmain.childs
        /\ wmain'.f.term = wmain.f.term /\ wmain'.f.grace = wmain.f.grace
        /\ IF wmain.f.hup THEN wmain'.at = "forward"
           ELSE wmain'.at = "check" /\ wmain'.f = wmain.f /\ ~wmain.f.fwd
        /\ wmain.at = "interrupted"
    <3> DEFINE g == [wmain.f EXCEPT !.hup = FALSE, !.fwd = TRUE]
    <3>1. g \in FlagSet /\ g.term = wmain.f.term /\ g.grace = wmain.f.grace
      BY <1>0 DEF FlagSet
    <3>2. ~wmain.f.fwd /\ wmain.at = "interrupted"
      BY DEF ForwardedOnce
    <3> HIDE DEF g
    <3>3. CASE wmain.f.hup
      <4>1. wmain' = [wmain EXCEPT !.at = "forward", !.f = g]
        BY <3>2, <3>3 DEF WatcherTypeOK, g
      <4> QED BY <3>1, <3>2, <3>3, <4>1 DEF WatcherTypeOK
    <3>4. CASE ~wmain.f.hup
      BY <3>2, <3>4 DEF WatcherTypeOK
    <3> QED BY <3>3, <3>4
  <2>2. WorkersCounted'
    BY <2>1, <1>0, <1>00, SameForked
  <2>3. NoWorkerLeftBehind' /\ HupNotForgotten' /\ ForwardedOnce' /\ OwedAreUp'
    BY <2>1 DEF NoWorkerLeftBehind, HupNotForgotten, Watching, ForwardedOnce, OwedAreUp, Up
  <2> QED BY <2>1, <2>2, <2>3
<1>7. CASE Forward
  <2> USE <1>7 DEF Forward
  <2> DEFINE m == ToMain(wmain, "HUP")
  <2>1. /\ m.f = sigaction_handler(wmain.f, "HUP")
        /\ m.childs = wmain.childs
        /\ m \in [at : {"check", "fork", "towait", "waiting", "interrupted", "forward", "stop",
                        "gone", "dead"}, childs : Int, f : FlagSet]
    BY SignalToMain
  <2>2. /\ m.f \in FlagSet
        /\ ~m.f.fwd
        /\ m.f.term = wmain.f.term /\ m.f.grace = wmain.f.grace
    BY <2>1, <1>0 DEF sigaction_handler, FlagSet
  <2> HIDE DEF m
  <2>3. /\ WatcherTypeOK'
        /\ wmain'.childs = wmain.childs /\ wmain'.f = m.f /\ wmain'.at = "check"
    BY <2>1, <2>2, SignalToGroup DEF WatcherTypeOK, m
  <2>4. \A w \in Slot :
            /\ wslot'[w].at = wslot[w].at
            /\ w \in Group => wslot'[w].f = sigaction_handler(wslot[w].f, "HUP")
            /\ w \notin Group => wslot'[w].f = wslot[w].f
    BY SignalToGroup
  <2>5. WorkersCounted'
    BY <2>3, <2>4, <1>0, <1>00, SameForked
  <2>6. \A w \in Slot : wslot[w].f \in FlagSet /\ ~wslot[w].f.fwd
    BY DEF WatcherTypeOK, ForwardedOnce
  <2>7. \A w \in Slot : ~wslot'[w].f.fwd /\ (w \in Group => wslot'[w].f.hup)
    BY <2>4, <2>6, FlagsHandled
  <2>8. ForwardedOnce'
    BY <2>2, <2>3, <2>7 DEF ForwardedOnce
  <2>9. OwedAreUp'
    BY <2>4 DEF OwedAreUp, Up
  <2>10. HupNotForgotten'
    BY <2>7, <2>9, <2>4 DEF HupNotForgotten, OwedAreUp, Up, Group
  <2>11. NoWorkerLeftBehind'
    BY <2>3 DEF NoWorkerLeftBehind
  <2> QED BY <2>3, <2>5, <2>8, <2>9, <2>10, <2>11
<1>8. CASE Stop
  <2> USE <1>8 DEF Stop
  <2> DEFINE sig == IF wmain.f.grace THEN "INT" ELSE "TERM"
  <2>0. sig \in {"TERM", "INT", "HUP"} /\ sig \in {"TERM", "INT"} /\ wslot' = ToGroup(sig)
    OBVIOUS
  <2> HIDE DEF sig
  <2>1. /\ WatcherTypeOK'
        /\ wmain'.at = "gone" /\ wmain'.f = wmain.f /\ ~wmain.f.fwd
    BY <2>0, SignalToGroup DEF WatcherTypeOK, ForwardedOnce
  <2>2. \A w \in Slot :
            /\ wslot'[w].at = wslot[w].at
            /\ w \in Group => wslot'[w].f = sigaction_handler(wslot[w].f, sig)
            /\ w \notin Group => wslot'[w].f = wslot[w].f
    BY <2>0, SignalToGroup
  <2>3. \A w \in Slot : wslot[w].f \in FlagSet /\ ~wslot[w].f.fwd
    BY DEF WatcherTypeOK, ForwardedOnce
  <2>4. \A w \in Slot : /\ ~wslot'[w].f.fwd
                        /\ w \in Group => wslot'[w].f.term \/ wslot'[w].f.grace
    BY <2>0, <2>2, <2>3, FlagsHandled
  <2>5. Group' = Group /\ Up' = Up
    BY <2>2 DEF Group, Up
  <2>6. WorkersCounted' /\ HupNotForgotten'
    BY <2>1 DEF WorkersCounted, HupNotForgotten, Watching
  <2>7. NoWorkerLeftBehind'
    <3>1. Group \subseteq Slot
      BY DEF Group, Up
    <3> QED BY <2>4, <2>5, <3>1 DEF NoWorkerLeftBehind
  <2>8. ForwardedOnce' /\ OwedAreUp'
    BY <2>1, <2>4, <2>5 DEF ForwardedOnce, OwedAreUp
  <2> QED BY <2>1, <2>6, <2>7, <2>8
<1>9. ASSUME NEW w \in Slot, WorkerBoots(w) \/ WorkerCycles(w) \/ WorkerEnds(w)
      PROVE  WatcherInv'
  <2>0. /\ wslot[w] \in [at : {"none", "boot", "up", "zombie"}, f : FlagSet]
        /\ wslot[w].f \in FlagSet /\ ~wslot[w].f.fwd
    BY DEF WatcherTypeOK, ForwardedOnce
  <2>a. PICK n \in [at : {"none", "boot", "up", "zombie"}, f : FlagSet] :
            /\ wslot' = [wslot EXCEPT ![w] = n]
            /\ n.at # "none" /\ ~n.f.fwd
            /\ \/ n.f = wslot[w].f /\ whist' = whist /\ wslot[w].at = "boot" /\ n.at = "up"
               \/ /\ whist' = [whist EXCEPT !.owed = @ \ {w}]
                  /\ n.at = wslot[w].at
                  /\ n.f.term = wslot[w].f.term /\ n.f.grace = wslot[w].f.grace
               \/ whist' = [whist EXCEPT !.owed = @ \ {w}] /\ n.at = "zombie"
    <3>1. CASE WorkerBoots(w)
      <4>1. /\ [wslot[w] EXCEPT !.at = "up"] \in [at : {"none", "boot", "up", "zombie"}, f : FlagSet]
            /\ [wslot[w] EXCEPT !.at = "up"].at = "up"
            /\ [wslot[w] EXCEPT !.at = "up"].f = wslot[w].f
        BY <2>0
      <4>2. /\ wslot' = [wslot EXCEPT ![w] = [wslot[w] EXCEPT !.at = "up"]]
            /\ wslot[w].at = "boot" /\ whist' = whist
        BY <3>1 DEF WorkerBoots
      <4> QED BY <2>0, <4>1, <4>2
    <3>2. CASE WorkerCycles(w)
      <4> DEFINE g == [wslot[w].f EXCEPT !.hup = FALSE]
      <4>1. /\ g \in FlagSet /\ ~g.fwd
            /\ g.term = wslot[w].f.term /\ g.grace = wslot[w].f.grace
        BY <2>0 DEF FlagSet
      <4>2. wslot' = [wslot EXCEPT ![w] = [wslot[w] EXCEPT !.f = g]]
        BY <3>2 DEF WorkerCycles
      <4>3. wslot[w].at = "up" /\ whist' = [whist EXCEPT !.owed = @ \ {w}]
        BY <3>2 DEF WorkerCycles
      <4> HIDE DEF g
      <4>4. /\ [wslot[w] EXCEPT !.f = g] \in [at : {"none", "boot", "up", "zombie"}, f : FlagSet]
            /\ [wslot[w] EXCEPT !.f = g].at = "up"
            /\ [wslot[w] EXCEPT !.f = g].f = g
        BY <2>0, <4>1, <4>3
      <4> QED BY <4>1, <4>2, <4>3, <4>4
    <3>3. CASE WorkerEnds(w)
      <4>1. /\ [NoWorker EXCEPT !.at = "zombie"]
                    \in [at : {"none", "boot", "up", "zombie"}, f : FlagSet]
            /\ [NoWorker EXCEPT !.at = "zombie"].at = "zombie"
            /\ ~[NoWorker EXCEPT !.at = "zombie"].f.fwd
        BY DEF NoWorker, Flags, FlagSet
      <4> QED BY <3>3, <4>1 DEF WorkerEnds
    <3> QED BY <1>9, <3>1, <3>2, <3>3
  <2>b. wmain' = wmain /\ wzombies' = wzombies /\ wslot[w].at # "none"
    BY <1>9 DEF WorkerBoots, WorkerCycles, WorkerEnds
  <2>1. /\ wslot'[w] = n
        /\ \A v \in Slot \ {w} : wslot'[v] = wslot[v]
        /\ wslot' \in [Slot -> [at : {"none", "boot", "up", "zombie"}, f : FlagSet]]
    BY <2>a DEF WatcherTypeOK
  <2>c. \/ whist' = whist
        \/ whist' = [whist EXCEPT !.owed = @ \ {w}]
    BY <2>a
  <2>d. /\ whist'.helpers = whist.helpers
        /\ whist' \in [helpers : Nat, dead : Nat, hups : Nat, owed : SUBSET Slot]
        /\ whist'.owed \subseteq whist.owed
    BY <2>c DEF WatcherTypeOK
  <2>2. \/ /\ n.f = wslot[w].f /\ whist'.owed = whist.owed
           /\ wslot[w].at = "boot" /\ n.at = "up"
        \/ /\ whist'.owed = whist.owed \ {w}
           /\ n.at = wslot[w].at
           /\ n.f.term = wslot[w].f.term /\ n.f.grace = wslot[w].f.grace
        \/ whist'.owed = whist.owed \ {w} /\ n.at = "zombie"
    BY <2>a DEF WatcherTypeOK
  <2>7. WatcherTypeOK'
    BY <2>b, <2>1, <2>d DEF WatcherTypeOK
  <2>3. WorkersCounted'
    BY <2>a, <2>b, <2>1, <2>d, <1>0, <1>00, SameForked
  <2>4. NoWorkerLeftBehind'
    BY <2>b, <2>1, <2>2 DEF NoWorkerLeftBehind, Group, Up
  <2>5. HupNotForgotten'
    BY <2>b, <2>1, <2>2 DEF HupNotForgotten, Watching, WatcherTypeOK
  <2>6. ForwardedOnce' /\ OwedAreUp'
    BY <2>a, <2>b, <2>1, <2>2 DEF ForwardedOnce, OwedAreUp, Up
  <2> QED BY <2>7, <2>3, <2>4, <2>5, <2>6
<1>10. CASE HelperEnds
  <2> USE <1>10 DEF HelperEnds
  <2>1. /\ WatcherTypeOK'
        /\ whist'.helpers = whist.helpers /\ whist'.owed = whist.owed
    BY DEF WatcherTypeOK
  <2>2. WorkersCounted'
    BY <2>1, <1>0, <1>00, SameForked
  <2>3. NoWorkerLeftBehind' /\ HupNotForgotten' /\ ForwardedOnce' /\ OwedAreUp'
    BY <2>1 DEF NoWorkerLeftBehind, Group, HupNotForgotten, Watching, ForwardedOnce, OwedAreUp, Up
  <2> QED BY <2>1, <2>2, <2>3
<1>11. CASE Signalled
  <2>1. PICK sig \in {"TERM", "INT"} : wmain' = ToMain(wmain, sig)
    BY <1>11 DEF Signalled
  <2>2. /\ wmain'.f = sigaction_handler(wmain.f, sig)
        /\ wmain'.childs = wmain.childs
        /\ wmain'.at = IF wmain.at = "waiting" THEN "interrupted" ELSE wmain.at
        /\ WatcherTypeOK'
    BY <1>11, <2>1, SignalToMain DEF Signalled, WatcherTypeOK
  <2>3. /\ wmain'.f.fwd => wmain.f.fwd
        /\ wmain'.f.term \/ wmain'.f.grace
    BY <1>0, <2>2, FlagsHandled
  <2>4. WorkersCounted'
    BY <1>11, <2>2, <1>0, <1>00, SameForked DEF Signalled, Watching
  <2>5. NoWorkerLeftBehind' /\ HupNotForgotten' /\ ForwardedOnce' /\ OwedAreUp'
    BY <1>11, <2>2, <2>3
       DEF Signalled, NoWorkerLeftBehind, HupNotForgotten, Watching, ForwardedOnce, OwedAreUp, Up
  <2> QED BY <2>2, <2>4, <2>5
<1>12. CASE HupSent
  <2> USE <1>12 DEF HupSent
  <2>1. /\ wmain'.f = sigaction_handler(wmain.f, "HUP")
        /\ wmain'.childs = wmain.childs
        /\ wmain'.at = IF wmain.at = "waiting" THEN "interrupted" ELSE wmain.at
        /\ whist'.owed = Up /\ whist'.helpers = whist.helpers
        /\ WatcherTypeOK'
    <3>1. Up \subseteq Slot
      BY DEF Up
    <3>2. /\ whist'.owed = Up /\ whist'.helpers = whist.helpers
          /\ whist' \in [helpers : Nat, dead : Nat, hups : Nat, owed : SUBSET Slot]
      <4>1. whist.hups \in Nat /\ whist.hups + 1 \in Nat
        BY DEF WatcherTypeOK
      <4>2. whist' = [whist EXCEPT !.hups = whist.hups + 1, !.owed = Up]
        OBVIOUS
      <4> DEFINE more == whist.hups + 1
      <4> HIDE DEF more
      <4>3. whist' = [whist EXCEPT !.hups = more, !.owed = Up] /\ more \in Nat
        BY <4>1, <4>2 DEF more
      <4> QED BY <3>1, <4>3 DEF WatcherTypeOK
    <3>3. /\ wmain'.f = sigaction_handler(wmain.f, "HUP")
          /\ wmain'.childs = wmain.childs
          /\ wmain'.at = IF wmain.at = "waiting" THEN "interrupted" ELSE wmain.at
          /\ wmain' \in [at : {"check", "fork", "towait", "waiting", "interrupted", "forward",
                               "stop", "gone", "dead"}, childs : Int, f : FlagSet]
      BY SignalToMain
    <3> QED BY <3>2, <3>3 DEF WatcherTypeOK
  <2>2. /\ wmain'.f.fwd => wmain.f.fwd
        /\ wmain'.f.hup \/ wmain.f.fwd
    BY <1>0, <2>1, FlagsHandled
  <2>3. WorkersCounted'
    BY <2>1, <1>0, <1>00, SameForked DEF Watching
  <2>4. NoWorkerLeftBehind' /\ HupNotForgotten' /\ ForwardedOnce' /\ OwedAreUp'
    BY <2>1, <2>2 DEF NoWorkerLeftBehind, HupNotForgotten, Watching, ForwardedOnce, OwedAreUp, Up
  <2> QED BY <2>1, <2>3, <2>4
<1>13. CASE UNCHANGED watcherVars
  BY <1>13 DEF watcherVars, WatcherTypeOK, WorkersCounted, NoWorkerLeftBehind, HupNotForgotten,
               ForwardedOnce, OwedAreUp, Up, Group, Watching
<1> QED BY <1>1, <1>2, <1>3, <1>4, <1>5, <1>6, <1>7, <1>8, <1>9, <1>10, <1>11, <1>12, <1>13
           DEF WatcherNext

(* The watcher starts with every worker still to be forked. *)
LEMMA WatcherStarts == WatcherInit => WatcherInv
<1> SUFFICES ASSUME WatcherInit PROVE WatcherInv
  OBVIOUS
<1>1. WatcherTypeOK
  BY WatcherAssumption DEF WatcherInit, WatcherTypeOK, NoWorker, Flags, FlagSet
<1>2. {w \in Slot : wslot[w].at # "none"} = {}
  BY DEF WatcherInit, NoWorker
<1>3. WorkersCounted
  BY <1>2, WatcherAssumption, FS_EmptySet DEF WatcherInit, WorkersCounted
<1>4. NoWorkerLeftBehind /\ HupNotForgotten /\ ForwardedOnce /\ OwedAreUp
  BY DEF WatcherInit, NoWorkerLeftBehind, HupNotForgotten, ForwardedOnce, OwedAreUp, Flags, NoWorker
<1> QED BY <1>1, <1>3, <1>4 DEF WatcherInv

(* However signals, forks, deaths and wait() meet, the workers are as many as counted, a signal
   that stops the watcher reaches every worker, and no worker is left without the SIGHUP that
   was sent (the fork loop of main()). *)
THEOREM WatcherKeepsWorkers == WatcherSpec => []WatcherInv
BY WatcherStarts, WatcherStep, PTL DEF WatcherSpec

-----------------------------------------------------------------------------
(* The angel *)

(* What a handler tells the server of pid. *)
LEMMA Told ==
    ASSUME OneCurrent, NEW sig, Tell(sig)
    PROVE  /\ achild' \in [Child -> [at : {"none", "up", "exited", "crashed", "reaped"},
                                    told : BOOLEAN, how : {"none", "exited", "crashed"}]]
           /\ \A c \in Child : /\ achild'[c].at = achild[c].at
                               /\ achild[c].told => achild'[c].told
           /\ amain.pid \in Child => achild'[amain.pid].told \/ ~AngelRunning(amain.pid)
<1>1. achild \in [Child -> [at : {"none", "up", "exited", "crashed", "reaped"},
                           told : BOOLEAN, how : {"none", "exited", "crashed"}]]
  BY DEF OneCurrent, AngelTypeOK
<1>2. CASE amain.pid = NoPid
  BY <1>1, <1>2, AngelAssumption DEF Tell
<1>3. CASE amain.pid # NoPid
  <2> DEFINE p == amain.pid
             t == achild[p].told \/ AngelRunning(p)
  <2>1. p \in Child
    BY <1>3 DEF OneCurrent, AngelTypeOK
  <2>2. t \in BOOLEAN /\ (achild[p].told => t) /\ (AngelRunning(p) => t)
    BY <1>1, <2>1
  <2>3. achild' = [achild EXCEPT ![p].told = t]
    BY <1>3 DEF Tell
  <2> HIDE DEF p, t
  <2>4. /\ achild' \in [Child -> [at : {"none", "up", "exited", "crashed", "reaped"},
                                 told : BOOLEAN, how : {"none", "exited", "crashed"}]]
        /\ \A c \in Child : /\ achild'[c].at = achild[c].at
                            /\ achild[c].told => achild'[c].told
        /\ achild'[p].told = t
    BY <1>1, <2>1, <2>2, <2>3
  <2> QED BY <2>2, <2>4 DEF p
<1> QED BY <1>2, <1>3

(* Every step keeps one server. *)
LEMMA AngelStep == OneCurrent /\ [AngelNext]_angelVars => OneCurrent'
<1> SUFFICES ASSUME OneCurrent, [AngelNext]_angelVars PROVE OneCurrent'
  OBVIOUS
<1> USE DEF OneCurrent
<1>0. /\ amain.pid \in Child \cup {NoPid}
      /\ \A c \in Child : achild[c].told \in BOOLEAN
  BY DEF AngelTypeOK
<1>1. CASE StartProcess
  <2>1. CASE amain.start
    <3>1. PICK c \in Child : /\ achild[c].at = "none"
                            /\ achild' = [achild EXCEPT ![c].at = "up"]
                            /\ amain' = [amain EXCEPT !.at = "forked", !.pid = c]
      BY <1>1, <2>1 DEF StartProcess
    <3>2. AngelTypeOK' /\ amain'.pid = c /\ amain'.at = "forked" /\ ahandler' # "hup"
      <4>1. achild' \in [Child -> [at : {"none", "up", "exited", "crashed", "reaped"},
                                  told : BOOLEAN, how : {"none", "exited", "crashed"}]]
        BY <3>1 DEF AngelTypeOK
      <4>2. amain' \in [at : {"forked"}, pid : Child, start : BOOLEAN]
            /\ amain'.pid = c /\ amain'.at = "forked"
        BY <3>1 DEF AngelTypeOK
      <4> QED BY <1>1, <4>1, <4>2 DEF StartProcess, AngelTypeOK, Idle
    <3>3. amain.at = "top"
      BY <1>1 DEF StartProcess
    <3>4. \A d \in Child : ~(AngelRunning(d) /\ ~achild[d].told)
      BY <2>1, <3>3 DEF OneRunning, ReplacedWasTold
    <3>5. \A d \in Child \ {c} : achild'[d] = achild[d]
      BY <3>1 DEF AngelTypeOK
    <3> QED BY <3>2, <3>4, <3>5 DEF OneRunning, ReplacedWasTold, AngelRunning
  <2>2. CASE ~amain.start
    BY <1>1, <2>2 DEF StartProcess, AngelTypeOK, OneRunning, ReplacedWasTold, AngelRunning, Idle
  <2> QED BY <2>1, <2>2
<1>2. CASE ClearStart
  BY <1>2 DEF ClearStart, AngelTypeOK, OneRunning, ReplacedWasTold, AngelRunning, Idle
<1>3. CASE WaitPid
  <2>0. amain.at = "wait" /\ ahandler' = "none"
    BY <1>3 DEF WaitPid, Idle
  <2>1. CASE /\ amain.pid # NoPid /\ Zombie(amain.pid)
             /\ achild' = [achild EXCEPT ![amain.pid].at = "reaped"]
             /\ amain' = IF achild[amain.pid].at = "exited" THEN [amain EXCEPT !.at = "gone"]
                         ELSE [amain EXCEPT !.at = "top", !.start = TRUE]
    <3>1. /\ amain.pid \in Child /\ amain'.pid = amain.pid
          /\ achild'[amain.pid].at = "reaped"
          /\ \A c \in Child \ {amain.pid} : achild'[c] = achild[c]
      BY <1>0, <2>1 DEF AngelTypeOK
    <3>2. AngelTypeOK'
      <4>1. achild' \in [Child -> [at : {"none", "up", "exited", "crashed", "reaped"},
                                  told : BOOLEAN, how : {"none", "exited", "crashed"}]]
        BY <2>1, <3>1 DEF AngelTypeOK
      <4>2. amain' \in [at : {"gone", "top"}, pid : Child \cup {NoPid}, start : BOOLEAN]
        <5>1. CASE achild[amain.pid].at = "exited"
          BY <2>1, <5>1 DEF AngelTypeOK
        <5>2. CASE achild[amain.pid].at # "exited"
          BY <2>1, <5>2 DEF AngelTypeOK
        <5> QED BY <5>1, <5>2
      <4> QED BY <1>3, <4>1, <4>2 DEF WaitPid, AngelTypeOK
    <3> QED BY <3>1, <3>2 DEF OneRunning, ReplacedWasTold, AngelRunning
  <2>2. CASE /\ amain.pid = NoPid \/ achild[amain.pid].at = "reaped"
             /\ amain' = [amain EXCEPT !.at = IF amain.start THEN "top" ELSE "gone"]
             /\ UNCHANGED achild
    <3>1. AngelTypeOK'
      BY <1>3, <2>2 DEF WaitPid, AngelTypeOK
    <3>2. amain'.pid = amain.pid /\ achild' = achild /\ (amain'.start => amain.start)
      BY <2>2 DEF AngelTypeOK
    <3> QED BY <2>0, <3>1, <3>2 DEF OneRunning, ReplacedWasTold, AngelRunning
  <2> QED BY <1>3, <2>1, <2>2 DEF WaitPid
<1>4. CASE HandleStop
  <2>1. Tell("TERM") /\ ahandler' = ahandler /\ ahandler = "none"
    BY <1>4 DEF HandleStop, Idle
  <2>2. /\ amain'.pid = amain.pid /\ amain'.start = amain.start
        /\ amain'.at = IF amain.at = "wait" THEN "top" ELSE amain.at
    BY <1>4 DEF HandleStop, AngelTypeOK
  <2>t. /\ achild' \in [Child -> [at : {"none", "up", "exited", "crashed", "reaped"},
                                 told : BOOLEAN, how : {"none", "exited", "crashed"}]]
        /\ \A c \in Child : /\ achild'[c].at = achild[c].at
                            /\ achild[c].told => achild'[c].told
        /\ amain.pid \in Child => achild'[amain.pid].told \/ ~AngelRunning(amain.pid)
    BY <2>1, Told
  <2>3. AngelTypeOK'
    <3>1. amain' \in [at : {"top", "forked", "wait", "gone"}, pid : Child \cup {NoPid},
                      start : BOOLEAN]
      BY <1>4 DEF HandleStop, AngelTypeOK
    <3>2. ahandler' = ahandler /\ apending' \subseteq apending
      BY <1>4 DEF HandleStop
    <3> QED BY <3>1, <3>2, <2>t DEF AngelTypeOK
  <2>4. OneRunning'
    BY <2>1, <2>2, <2>t DEF OneRunning, AngelRunning
  <2>5. ReplacedWasTold'
    BY <2>1, <2>2, <2>t DEF ReplacedWasTold, AngelRunning
  <2> QED BY <2>3, <2>4, <2>5
<1>5. CASE HandleHup
  <2>1. Tell("INT") /\ amain' = amain
    BY <1>5 DEF HandleHup
  <2>t. /\ achild' \in [Child -> [at : {"none", "up", "exited", "crashed", "reaped"},
                                 told : BOOLEAN, how : {"none", "exited", "crashed"}]]
        /\ \A c \in Child : /\ achild'[c].at = achild[c].at
                            /\ achild[c].told => achild'[c].told
        /\ amain.pid \in Child => achild'[amain.pid].told \/ ~AngelRunning(amain.pid)
    BY <2>1, Told
  <2>2. AngelTypeOK'
    <3>1. ahandler' = "hup" /\ apending' \subseteq apending
      BY <1>5 DEF HandleHup
    <3> QED BY <2>1, <3>1, <2>t DEF AngelTypeOK
  <2>3. OneRunning'
    BY <2>1, <2>t DEF OneRunning, AngelRunning
  <2>4. ReplacedWasTold'
    BY <2>1, <2>t DEF ReplacedWasTold, AngelRunning
  <2> QED BY <2>2, <2>3, <2>4
<1>6. CASE HupSlept
  BY <1>6 DEF HupSlept, AngelTypeOK, OneRunning, ReplacedWasTold, AngelRunning
<1>7. CASE HandleChld
  <2>1. /\ amain'.pid = amain.pid /\ amain'.start = amain.start
        /\ ahandler' = ahandler
        /\ amain'.at = "forked" <=> amain.at = "forked"
        /\ amain' \in [at : {"top", "forked", "wait", "gone"}, pid : Child \cup {NoPid},
                       start : BOOLEAN]
    BY <1>7 DEF HandleChld, AngelTypeOK
  <2>2. CASE UNCHANGED achild
    BY <1>7, <2>1, <2>2 DEF HandleChld, AngelTypeOK, OneRunning, ReplacedWasTold, AngelRunning
  <2>3. ASSUME NEW c \in Child, Zombie(c), achild' = [achild EXCEPT ![c].at = "reaped"]
        PROVE  OneCurrent'
    <3>1. /\ achild'[c].at = "reaped"
          /\ \A d \in Child \ {c} : achild'[d] = achild[d]
      BY <2>3 DEF AngelTypeOK
    <3>2. AngelTypeOK'
      BY <1>7, <2>1, <2>3 DEF HandleChld, AngelTypeOK
    <3> QED BY <2>1, <3>1, <3>2 DEF OneRunning, ReplacedWasTold, AngelRunning
  <2> QED BY <1>7, <2>2, <2>3 DEF HandleChld
<1>8. CASE Operator
  BY <1>8 DEF Operator, AngelTypeOK, OneRunning, ReplacedWasTold, AngelRunning
<1>9. CASE ChildEnds
  <2>1. PICK c \in Child, how \in {"exited", "crashed"} :
            AngelRunning(c) /\ achild' = [achild EXCEPT ![c].at = how, ![c].how = how]
    BY <1>9 DEF ChildEnds
  <2>2. /\ achild'[c].at = how
        /\ \A d \in Child \ {c} : achild'[d] = achild[d]
    BY <2>1 DEF AngelTypeOK
  <2>3. AngelTypeOK'
    <3>1. achild' \in [Child -> [at : {"none", "up", "exited", "crashed", "reaped"},
                                told : BOOLEAN, how : {"none", "exited", "crashed"}]]
      BY <2>1, ZenonT(40) DEF AngelTypeOK
    <3>2. /\ UNCHANGED <<amain, ahandler>>
          /\ apending' = apending \cup {"CHLD"}
      BY <1>9 DEF ChildEnds
    <3>3. apending' \subseteq {"TERM", "HUP", "CHLD"}
      BY <3>2 DEF AngelTypeOK
    <3> QED BY <3>1, <3>2, <3>3 DEF AngelTypeOK
  <2>4. amain' = amain /\ ahandler' = ahandler
    BY <1>9 DEF ChildEnds
  <2> QED BY <2>2, <2>3, <2>4 DEF OneRunning, ReplacedWasTold, AngelRunning
<1>10. CASE UNCHANGED angelVars
  BY <1>10 DEF angelVars, AngelTypeOK, OneRunning, ReplacedWasTold, AngelRunning
<1> QED BY <1>1, <1>2, <1>3, <1>4, <1>5, <1>6, <1>7, <1>8, <1>9, <1>10 DEF AngelNext

(* The angel has no server yet. *)
LEMMA AngelStarts == AngelInit => OneCurrent
BY AngelAssumption DEF AngelInit, OneCurrent, AngelTypeOK, OneRunning, ReplacedWasTold, AngelRunning

(* Wherever a handler interrupts the angel, and however often it restarts its server, at most
   one server that was not told to stop is running, and it is the one whose pid is kept. *)
THEOREM AngelKeepsOne == AngelSpec => []OneCurrent
BY AngelStarts, AngelStep, PTL DEF AngelSpec

-----------------------------------------------------------------------------
(* Start and stop *)

Ends == {"failed", "killed", "gone"}
Stages == {"idle"} \cup Startup \cup {"loop", "left"} \cup Ends
DaemonProcs ==
    [at : Stages, fd : Inst \cup {Nobody}, sock : {"none", "bound", "listening"}, term : BOOLEAN,
     grace : BOOLEAN, off : BOOLEAN, busy : BOOLEAN, told : BOOLEAN]

DaemonTypes ==
    /\ dproc \in [Inst -> DaemonProcs]
    /\ dpid \in [name : Inst \cup {Nobody}, text : [Inst -> Inst \cup {Nobody}]]
    /\ dpath \in Inst \cup {Nobody}
    /\ dlaunch \in [Inst -> {"none", "waiting", "ok", "failed"}]
    /\ dhist \in [alone : [Inst -> BOOLEAN], odd : SUBSET Inst]

(* The socket and the signals at each stage. *)
Staged(i) ==
    LET p == dproc[i] IN
    /\ p.at \in {"idle", "config", "limits", "bind"} \cup Ends => p.sock = "none"
    /\ p.at = "listen" => p.sock = "bound"
    /\ p.at \in {"plugins", "daemonize", "pidwrite", "log", "defaults", "notify"} => p.sock = "listening"
    /\ p.at \in {"loop", "left"} => p.sock \in {"listening", "none"}
    /\ p.at = "left" => p.term
    /\ p.at \in {"idle", "config", "limits", "bind", "listen", "plugins", "daemonize"} => ~p.grace

(* A server without another one beside it owns pid file and socket until it begins to stop. *)
Stopping(i) == dproc[i].at \in {"loop", "left"} /\ dproc[i].sock = "none"
Lone(i) ==
    Alive(i) /\ dhist.alone[i] =>
        /\ \A j \in Inst \ {i} : ~Alive(j)
        /\ ~At(i, "config") /\ ~Stopping(i) => dproc[i].fd = dpid.name /\ dpid.name \in Inst
        /\ dproc[i].at \in {"log", "defaults", "notify", "loop", "left"} /\ ~Stopping(i) =>
               dpid.text[dpid.name] = i
        /\ dkind = "unix" /\ dproc[i].sock # "none" => dpath = i

(* A server that closed its sockets is not named in the pid file, and a signal that comes before
   that is remembered as odd if two of them, or one and disabled sockets, meet. *)
Unnamed(i) ==
    /\ Stopping(i) => ~NamedInPidFile(i)
    /\ dproc[i].sock = "listening" /\ dproc[i].grace /\ (dproc[i].term \/ dproc[i].off) =>
           i \in dhist.odd
    /\ At(i, "gone") /\ i \notin dhist.odd => ~NamedInPidFile(i)

(* The launcher waits from daemonize() on, and is told before the main loop. *)
Launched(i) ==
    /\ dlaunch[i] # "none" =>
           dproc[i].at \notin {"idle", "config", "limits", "bind", "listen", "plugins", "daemonize"}
    /\ dproc[i].told => dproc[i].at \in {"loop", "left", "gone", "killed"}
    /\ dlaunch[i] = "waiting" /\ dproc[i].at \in {"loop", "left", "gone"} => dproc[i].told
    /\ dlaunch[i] = "ok" => dproc[i].at \in {"loop", "left", "gone", "killed"}
    /\ dlaunch[i] = "failed" => dproc[i].at \in {"failed", "killed"}

DaemonSound ==
    DaemonTypes /\ \A i \in Inst : Staged(i) /\ Lone(i) /\ Unnamed(i) /\ Launched(i)

(* What a step of i from its record to x leaves to the other processes. *)
LEMMA OthersKeep ==
    ASSUME DaemonSound, NEW i \in Inst, NEW x \in DaemonProcs, dproc' = [dproc EXCEPT ![i] = x],
           Alive(i) \/ x.at \in Ends,
           DaemonTypes', dkind' = dkind,
           \A j \in Inst : dhist'.alone[j] => dhist.alone[j],
           \A j \in Inst \ {i} : /\ j \in dhist.odd => j \in dhist'.odd
                                 /\ dlaunch'[j] = dlaunch[j]
                                 /\ NamedInPidFile(j)' => NamedInPidFile(j),
           Alive(i) \/ UNCHANGED <<dpid, dpath>>
    PROVE  \A j \in Inst \ {i} : (Staged(j) /\ Lone(j) /\ Unnamed(j) /\ Launched(j))'
<1> SUFFICES ASSUME NEW j \in Inst \ {i}
             PROVE  (Staged(j) /\ Lone(j) /\ Unnamed(j) /\ Launched(j))'
  OBVIOUS
<1>1. /\ dproc'[j] = dproc[j] /\ dproc'[i] = x /\ Staged(j) /\ Lone(j) /\ Unnamed(j) /\ Launched(j)
      /\ \A k \in Inst \ {i} : dproc'[k] = dproc[k]
  BY DEF DaemonSound, DaemonTypes
<1>2. Staged(j)' /\ Launched(j)'
  BY <1>1 DEF Staged, Launched
<1>3. Unnamed(j)'
  BY <1>1 DEF Unnamed, Stopping, At
<1>4. Lone(j)'
  <2> SUFFICES ASSUME Alive(j)', dhist'.alone[j]
               PROVE  Lone(j)'
    BY DEF Lone
  <2>1. Alive(j) /\ dhist.alone[j] /\ ~Alive(i)
    BY <1>1 DEF Alive, Lone
  <2>2. UNCHANGED <<dpid, dpath>> /\ x.at \in Ends
    BY <2>1
  <2>3. ~Alive(i)'
    BY <1>1, <2>2 DEF Alive, Startup, Ends
  <2>4. \A k \in Inst \ {j} : ~Alive(k)'
    BY <1>1, <2>1, <2>3 DEF Alive, Lone
  <2> QED BY <1>1, <2>1, <2>2, <2>4 DEF Lone, Stopping, At
<1> QED BY <1>2, <1>3, <1>4

(* A process without a pid file of its own opens the one that is there or makes one. *)
LEMMA OpenPidFileSound ==
    ASSUME DaemonSound, NEW i \in Inst, OpenPidFile(i)
    PROVE  DaemonSound'
<1> DEFINE x == [dproc[i] EXCEPT !.at = "limits", !.fd = IF dpid.name = Nobody THEN i ELSE dpid.name]
<1>a. /\ dproc \in [Inst -> DaemonProcs] /\ dproc[i] \in DaemonProcs
      /\ dpid.name \in Inst \cup {Nobody}
  BY DEF DaemonSound, DaemonTypes
<1>b. Alive(i)
  BY DEF OpenPidFile, Alive, At, Startup
<1>c. dproc' = [dproc EXCEPT ![i] = x]
  BY DEF OpenPidFile, At, GoTo
<1>d. x \in DaemonProcs
  BY <1>a DEF OpenPidFile, DaemonProcs, Stages, Startup, Ends, At, GoTo
<1>e. /\ x.at = ("limits") /\ x.fd = (IF dpid.name = Nobody THEN i ELSE dpid.name)
      /\ x.sock = dproc[i].sock /\ x.term = dproc[i].term
      /\ x.grace = dproc[i].grace /\ x.off = dproc[i].off /\ x.busy = dproc[i].busy
      /\ x.told = dproc[i].told
  BY <1>a DEF DaemonProcs, At, GoTo
<1> HIDE DEF x
<1>1. dproc'[i] = x
  BY <1>a, <1>c
<1>2. /\ DaemonTypes' /\ dkind' = dkind /\ dhist'.alone = dhist.alone
      /\ dhist.odd \subseteq dhist'.odd
      /\ \A j \in Inst \ {i} : dlaunch'[j] = dlaunch[j]
      /\ \A j \in Inst \ {i} : NamedInPidFile(j)' => NamedInPidFile(j)
  <2>1. dproc' \in [Inst -> DaemonProcs]
    BY <1>a, <1>c, <1>d
  <2>2. /\ dpid'.name \in Inst /\ dpid'.text = [dpid.text EXCEPT ![dpid'.name] = Nobody]
        /\ dpid' = [name |-> dpid'.name, text |-> dpid'.text]
    BY <1>a DEF OpenPidFile
  <2>3. dpid.text \in [Inst -> Inst \cup {Nobody}]
    BY DEF DaemonSound, DaemonTypes
  <2>4. dpid'.text \in [Inst -> Inst \cup {Nobody}] /\ dpid'.text[dpid'.name] = Nobody
    BY <2>2, <2>3
  <2>5. \A j \in Inst : ~NamedInPidFile(j)'
    BY <2>4, DaemonAssumption DEF NamedInPidFile
  <2>6. dpid' \in [name : Inst \cup {Nobody}, text : [Inst -> Inst \cup {Nobody}]]
    BY <2>2, <2>4
  <2> QED BY <2>1, <2>5, <2>6 DEF OpenPidFile, DaemonSound, DaemonTypes
<1>3. Staged(i)'
  BY <1>1, <1>e DEF OpenPidFile, DaemonSound, Staged, Ends, Startup, At
<1>4. Lone(i)'
  <2> SUFFICES ASSUME Alive(i)', dhist'.alone[i]
               PROVE  Lone(i)'
    BY DEF Lone
  <2>1. dhist.alone[i] /\ Lone(i) /\ Staged(i)
    BY <1>2 DEF DaemonSound
  <2>2. \A j \in Inst \ {i} : ~Alive(j)'
    BY <1>a, <1>b, <1>c, <2>1 DEF Lone, Alive
  <2> QED BY <1>1, <1>a, <1>b, <1>e, <2>1, <2>2
          DEF OpenPidFile, DaemonSound, DaemonTypes, Staged, Lone, Stopping, Ends, At
<1>5. Unnamed(i)'
  BY <1>1, <1>e DEF OpenPidFile, DaemonSound, DaemonTypes, Staged, Unnamed, Stopping, NamedInPidFile, At
<1>6. Launched(i)'
  BY <1>1, <1>e DEF OpenPidFile, DaemonSound, DaemonTypes, Launched, At
<1>7. \A j \in Inst \ {i} : (Staged(j) /\ Lone(j) /\ Unnamed(j) /\ Launched(j))'
  BY <1>b, <1>c, <1>d, <1>2, OthersKeep
<1> QED BY <1>2, <1>3, <1>4, <1>5, <1>6, <1>7 DEF DaemonSound

(* listen() on the socket the process has bound. *)
LEMMA ListenSound ==
    ASSUME DaemonSound, NEW i \in Inst, Listen(i)
    PROVE  DaemonSound'
<1> DEFINE x == [dproc[i] EXCEPT !.at = "plugins", !.sock = "listening"]
<1>a. /\ dproc \in [Inst -> DaemonProcs] /\ dproc[i] \in DaemonProcs
      /\ dpid.name \in Inst \cup {Nobody}
  BY DEF DaemonSound, DaemonTypes
<1>b. Alive(i)
  BY DEF Listen, Alive, At, Startup
<1>c. dproc' = [dproc EXCEPT ![i] = x]
  BY DEF Listen, At, GoTo
<1>d. x \in DaemonProcs
  BY <1>a DEF Listen, DaemonProcs, Stages, Startup, Ends, At, GoTo
<1>e. /\ x.at = ("plugins") /\ x.fd = dproc[i].fd /\ x.sock = ("listening") /\ x.term = dproc[i].term
      /\ x.grace = dproc[i].grace /\ x.off = dproc[i].off /\ x.busy = dproc[i].busy
      /\ x.told = dproc[i].told
  BY <1>a DEF DaemonProcs, At, GoTo
<1> HIDE DEF x
<1>1. dproc'[i] = x
  BY <1>a, <1>c
<1>2. /\ DaemonTypes' /\ dkind' = dkind /\ dhist'.alone = dhist.alone
      /\ dhist.odd \subseteq dhist'.odd
      /\ \A j \in Inst \ {i} : dlaunch'[j] = dlaunch[j]
      /\ \A j \in Inst \ {i} : NamedInPidFile(j)' => NamedInPidFile(j)
  <2>1. dproc' \in [Inst -> DaemonProcs]
    BY <1>a, <1>c, <1>d
  <2> QED BY <1>a, <2>1 DEF Listen, DaemonSound, DaemonTypes, NamedInPidFile, At
<1>3. Staged(i)'
  BY <1>1, <1>e DEF Listen, DaemonSound, Staged, Ends, Startup, At
<1>4. Lone(i)'
  <2> SUFFICES ASSUME Alive(i)', dhist'.alone[i]
               PROVE  Lone(i)'
    BY DEF Lone
  <2>1. dhist.alone[i] /\ Lone(i) /\ Staged(i)
    BY <1>2 DEF DaemonSound
  <2>2. \A j \in Inst \ {i} : ~Alive(j)'
    BY <1>a, <1>b, <1>c, <2>1 DEF Lone, Alive
  <2> QED BY <1>1, <1>a, <1>b, <1>e, <2>1, <2>2
          DEF Listen, DaemonSound, DaemonTypes, Staged, Lone, Stopping, Ends, At
<1>5. Unnamed(i)'
  BY <1>1, <1>e DEF Listen, DaemonSound, DaemonTypes, Staged, Unnamed, Stopping, NamedInPidFile, At
<1>6. Launched(i)'
  BY <1>1, <1>e DEF Listen, DaemonSound, DaemonTypes, Launched, At
<1>7. \A j \in Inst \ {i} : (Staged(j) /\ Lone(j) /\ Unnamed(j) /\ Launched(j))'
  BY <1>b, <1>c, <1>d, <1>2, OthersKeep
<1> QED BY <1>2, <1>3, <1>4, <1>5, <1>6, <1>7 DEF DaemonSound

(* The plugins change none of it. *)
LEMMA InitPluginsSound ==
    ASSUME DaemonSound, NEW i \in Inst, InitPlugins(i)
    PROVE  DaemonSound'
<1> DEFINE x == [dproc[i] EXCEPT !.at = "daemonize"]
<1>a. /\ dproc \in [Inst -> DaemonProcs] /\ dproc[i] \in DaemonProcs
      /\ dpid.name \in Inst \cup {Nobody}
  BY DEF DaemonSound, DaemonTypes
<1>b. Alive(i)
  BY DEF InitPlugins, Alive, At, Startup
<1>c. dproc' = [dproc EXCEPT ![i] = x]
  BY DEF InitPlugins, At, GoTo
<1>d. x \in DaemonProcs
  BY <1>a DEF InitPlugins, DaemonProcs, Stages, Startup, Ends, At, GoTo
<1>e. /\ x.at = ("daemonize") /\ x.fd = dproc[i].fd /\ x.sock = dproc[i].sock /\ x.term = dproc[i].term
      /\ x.grace = dproc[i].grace /\ x.off = dproc[i].off /\ x.busy = dproc[i].busy
      /\ x.told = dproc[i].told
  BY <1>a DEF DaemonProcs, At, GoTo
<1> HIDE DEF x
<1>1. dproc'[i] = x
  BY <1>a, <1>c
<1>2. /\ DaemonTypes' /\ dkind' = dkind /\ dhist'.alone = dhist.alone
      /\ dhist.odd \subseteq dhist'.odd
      /\ \A j \in Inst \ {i} : dlaunch'[j] = dlaunch[j]
      /\ \A j \in Inst \ {i} : NamedInPidFile(j)' => NamedInPidFile(j)
  <2>1. dproc' \in [Inst -> DaemonProcs]
    BY <1>a, <1>c, <1>d
  <2> QED BY <1>a, <2>1 DEF InitPlugins, DaemonSound, DaemonTypes, NamedInPidFile, At
<1>3. Staged(i)'
  BY <1>1, <1>e DEF InitPlugins, DaemonSound, Staged, Ends, Startup, At
<1>4. Lone(i)'
  <2> SUFFICES ASSUME Alive(i)', dhist'.alone[i]
               PROVE  Lone(i)'
    BY DEF Lone
  <2>1. dhist.alone[i] /\ Lone(i) /\ Staged(i)
    BY <1>2 DEF DaemonSound
  <2>2. \A j \in Inst \ {i} : ~Alive(j)'
    BY <1>a, <1>b, <1>c, <2>1 DEF Lone, Alive
  <2> QED BY <1>1, <1>a, <1>b, <1>e, <2>1, <2>2
          DEF InitPlugins, DaemonSound, DaemonTypes, Staged, Lone, Stopping, Ends, At
<1>5. Unnamed(i)'
  BY <1>1, <1>e DEF InitPlugins, DaemonSound, DaemonTypes, Staged, Unnamed, Stopping, NamedInPidFile, At
<1>6. Launched(i)'
  BY <1>1, <1>e DEF InitPlugins, DaemonSound, DaemonTypes, Launched, At
<1>7. \A j \in Inst \ {i} : (Staged(j) /\ Lone(j) /\ Unnamed(j) /\ Launched(j))'
  BY <1>b, <1>c, <1>d, <1>2, OthersKeep
<1> QED BY <1>2, <1>3, <1>4, <1>5, <1>6, <1>7 DEF DaemonSound

(* The launcher starts to wait before anybody can tell it something. *)
LEMMA DaemonizeSound ==
    ASSUME DaemonSound, NEW i \in Inst, Daemonize(i)
    PROVE  DaemonSound'
<1> DEFINE x == [dproc[i] EXCEPT !.at = "pidwrite"]
<1>a. /\ dproc \in [Inst -> DaemonProcs] /\ dproc[i] \in DaemonProcs
      /\ dpid.name \in Inst \cup {Nobody}
  BY DEF DaemonSound, DaemonTypes
<1>b. Alive(i)
  BY DEF Daemonize, Alive, At, Startup
<1>c. dproc' = [dproc EXCEPT ![i] = x]
  BY DEF Daemonize, At, GoTo
<1>d. x \in DaemonProcs
  BY <1>a DEF Daemonize, DaemonProcs, Stages, Startup, Ends, At, GoTo
<1>e. /\ x.at = ("pidwrite") /\ x.fd = dproc[i].fd /\ x.sock = dproc[i].sock /\ x.term = dproc[i].term
      /\ x.grace = dproc[i].grace /\ x.off = dproc[i].off /\ x.busy = dproc[i].busy
      /\ x.told = dproc[i].told
  BY <1>a DEF DaemonProcs, At, GoTo
<1> HIDE DEF x
<1>1. dproc'[i] = x
  BY <1>a, <1>c
<1>2. /\ DaemonTypes' /\ dkind' = dkind /\ dhist'.alone = dhist.alone
      /\ dhist.odd \subseteq dhist'.odd
      /\ \A j \in Inst \ {i} : dlaunch'[j] = dlaunch[j]
      /\ \A j \in Inst \ {i} : NamedInPidFile(j)' => NamedInPidFile(j)
  <2>1. dproc' \in [Inst -> DaemonProcs]
    BY <1>a, <1>c, <1>d
  <2> QED BY <1>a, <2>1 DEF Daemonize, DaemonSound, DaemonTypes, NamedInPidFile, At
<1>3. Staged(i)'
  BY <1>1, <1>e DEF Daemonize, DaemonSound, Staged, Ends, Startup, At
<1>4. Lone(i)'
  <2> SUFFICES ASSUME Alive(i)', dhist'.alone[i]
               PROVE  Lone(i)'
    BY DEF Lone
  <2>1. dhist.alone[i] /\ Lone(i) /\ Staged(i)
    BY <1>2 DEF DaemonSound
  <2>2. \A j \in Inst \ {i} : ~Alive(j)'
    BY <1>a, <1>b, <1>c, <2>1 DEF Lone, Alive
  <2> QED BY <1>1, <1>a, <1>b, <1>e, <2>1, <2>2
          DEF Daemonize, DaemonSound, DaemonTypes, Staged, Lone, Stopping, Ends, At
<1>5. Unnamed(i)'
  BY <1>1, <1>e DEF Daemonize, DaemonSound, DaemonTypes, Staged, Unnamed, Stopping, NamedInPidFile, At
<1>6. Launched(i)'
  BY <1>1, <1>e DEF Daemonize, DaemonSound, DaemonTypes, Launched, At
<1>7. \A j \in Inst \ {i} : (Staged(j) /\ Lone(j) /\ Unnamed(j) /\ Launched(j))'
  BY <1>b, <1>c, <1>d, <1>2, OthersKeep
<1> QED BY <1>2, <1>3, <1>4, <1>5, <1>6, <1>7 DEF DaemonSound

(* The pid goes into the file that a lone server still finds under the name. *)
LEMMA WritePidSound ==
    ASSUME DaemonSound, NEW i \in Inst, WritePid(i)
    PROVE  DaemonSound'
<1> DEFINE x == [dproc[i] EXCEPT !.at = "log"]
<1>a. /\ dproc \in [Inst -> DaemonProcs] /\ dproc[i] \in DaemonProcs
      /\ dpid.name \in Inst \cup {Nobody}
  BY DEF DaemonSound, DaemonTypes
<1>b. Alive(i)
  BY DEF WritePid, Alive, At, Startup
<1>c. dproc' = [dproc EXCEPT ![i] = x]
  BY DEF WritePid, At, GoTo
<1>d. x \in DaemonProcs
  BY <1>a DEF WritePid, DaemonProcs, Stages, Startup, Ends, At, GoTo
<1>e. /\ x.at = ("log") /\ x.fd = dproc[i].fd /\ x.sock = dproc[i].sock /\ x.term = dproc[i].term
      /\ x.grace = dproc[i].grace /\ x.off = dproc[i].off /\ x.busy = dproc[i].busy
      /\ x.told = dproc[i].told
  BY <1>a DEF DaemonProcs, At, GoTo
<1> HIDE DEF x
<1>1. dproc'[i] = x
  BY <1>a, <1>c
<1>2. /\ DaemonTypes' /\ dkind' = dkind /\ dhist'.alone = dhist.alone
      /\ dhist.odd \subseteq dhist'.odd
      /\ \A j \in Inst \ {i} : dlaunch'[j] = dlaunch[j]
      /\ \A j \in Inst \ {i} : NamedInPidFile(j)' => NamedInPidFile(j)
  <2>1. dproc' \in [Inst -> DaemonProcs]
    BY <1>a, <1>c, <1>d
  <2> QED BY <1>a, <2>1 DEF WritePid, DaemonSound, DaemonTypes, NamedInPidFile, At
<1>3. Staged(i)'
  BY <1>1, <1>e DEF WritePid, DaemonSound, Staged, Ends, Startup, At
<1>4. Lone(i)'
  <2> SUFFICES ASSUME Alive(i)', dhist'.alone[i]
               PROVE  Lone(i)'
    BY DEF Lone
  <2>1. dhist.alone[i] /\ Lone(i) /\ Staged(i)
    BY <1>2 DEF DaemonSound
  <2>2. \A j \in Inst \ {i} : ~Alive(j)'
    BY <1>a, <1>b, <1>c, <2>1 DEF Lone, Alive
  <2> QED BY <1>1, <1>a, <1>b, <1>e, <2>1, <2>2
          DEF WritePid, DaemonSound, DaemonTypes, Staged, Lone, Stopping, Ends, At
<1>5. Unnamed(i)'
  BY <1>1, <1>e DEF WritePid, DaemonSound, DaemonTypes, Staged, Unnamed, Stopping, NamedInPidFile, At
<1>6. Launched(i)'
  BY <1>1, <1>e DEF WritePid, DaemonSound, DaemonTypes, Launched, At
<1>7. \A j \in Inst \ {i} : (Staged(j) /\ Lone(j) /\ Unnamed(j) /\ Launched(j))'
  BY <1>b, <1>c, <1>d, <1>2, OthersKeep
<1> QED BY <1>2, <1>3, <1>4, <1>5, <1>6, <1>7 DEF DaemonSound

(* The error log changes none of it. *)
LEMMA LogOpenSound ==
    ASSUME DaemonSound, NEW i \in Inst, log_error_open(i)
    PROVE  DaemonSound'
<1> DEFINE x == [dproc[i] EXCEPT !.at = "defaults"]
<1>a. /\ dproc \in [Inst -> DaemonProcs] /\ dproc[i] \in DaemonProcs
      /\ dpid.name \in Inst \cup {Nobody}
  BY DEF DaemonSound, DaemonTypes
<1>b. Alive(i)
  BY DEF log_error_open, Alive, At, Startup
<1>c. dproc' = [dproc EXCEPT ![i] = x]
  BY DEF log_error_open, At, GoTo
<1>d. x \in DaemonProcs
  BY <1>a DEF log_error_open, DaemonProcs, Stages, Startup, Ends, At, GoTo
<1>e. /\ x.at = ("defaults") /\ x.fd = dproc[i].fd /\ x.sock = dproc[i].sock /\ x.term = dproc[i].term
      /\ x.grace = dproc[i].grace /\ x.off = dproc[i].off /\ x.busy = dproc[i].busy
      /\ x.told = dproc[i].told
  BY <1>a DEF DaemonProcs, At, GoTo
<1> HIDE DEF x
<1>1. dproc'[i] = x
  BY <1>a, <1>c
<1>2. /\ DaemonTypes' /\ dkind' = dkind /\ dhist'.alone = dhist.alone
      /\ dhist.odd \subseteq dhist'.odd
      /\ \A j \in Inst \ {i} : dlaunch'[j] = dlaunch[j]
      /\ \A j \in Inst \ {i} : NamedInPidFile(j)' => NamedInPidFile(j)
  <2>1. dproc' \in [Inst -> DaemonProcs]
    BY <1>a, <1>c, <1>d
  <2> QED BY <1>a, <2>1 DEF log_error_open, DaemonSound, DaemonTypes, NamedInPidFile, At
<1>3. Staged(i)'
  BY <1>1, <1>e DEF log_error_open, DaemonSound, Staged, Ends, Startup, At
<1>4. Lone(i)'
  <2> SUFFICES ASSUME Alive(i)', dhist'.alone[i]
               PROVE  Lone(i)'
    BY DEF Lone
  <2>1. dhist.alone[i] /\ Lone(i) /\ Staged(i)
    BY <1>2 DEF DaemonSound
  <2>2. \A j \in Inst \ {i} : ~Alive(j)'
    BY <1>a, <1>b, <1>c, <2>1 DEF Lone, Alive
  <2> QED BY <1>1, <1>a, <1>b, <1>e, <2>1, <2>2
          DEF log_error_open, DaemonSound, DaemonTypes, Staged, Lone, Stopping, Ends, At
<1>5. Unnamed(i)'
  BY <1>1, <1>e DEF log_error_open, DaemonSound, DaemonTypes, Staged, Unnamed, Stopping,
                    NamedInPidFile, At
<1>6. Launched(i)'
  BY <1>1, <1>e DEF log_error_open, DaemonSound, DaemonTypes, Launched, At
<1>7. \A j \in Inst \ {i} : (Staged(j) /\ Lone(j) /\ Unnamed(j) /\ Launched(j))'
  BY <1>b, <1>c, <1>d, <1>2, OthersKeep
<1> QED BY <1>2, <1>3, <1>4, <1>5, <1>6, <1>7 DEF DaemonSound

(* The defaults change none of it. *)
LEMMA SetDefaultsSound ==
    ASSUME DaemonSound, NEW i \in Inst, SetDefaults(i)
    PROVE  DaemonSound'
<1> DEFINE x == [dproc[i] EXCEPT !.at = "notify"]
<1>a. /\ dproc \in [Inst -> DaemonProcs] /\ dproc[i] \in DaemonProcs
      /\ dpid.name \in Inst \cup {Nobody}
  BY DEF DaemonSound, DaemonTypes
<1>b. Alive(i)
  BY DEF SetDefaults, Alive, At, Startup
<1>c. dproc' = [dproc EXCEPT ![i] = x]
  BY DEF SetDefaults, At, GoTo
<1>d. x \in DaemonProcs
  BY <1>a DEF SetDefaults, DaemonProcs, Stages, Startup, Ends, At, GoTo
<1>e. /\ x.at = ("notify") /\ x.fd = dproc[i].fd /\ x.sock = dproc[i].sock /\ x.term = dproc[i].term
      /\ x.grace = dproc[i].grace /\ x.off = dproc[i].off /\ x.busy = dproc[i].busy
      /\ x.told = dproc[i].told
  BY <1>a DEF DaemonProcs, At, GoTo
<1> HIDE DEF x
<1>1. dproc'[i] = x
  BY <1>a, <1>c
<1>2. /\ DaemonTypes' /\ dkind' = dkind /\ dhist'.alone = dhist.alone
      /\ dhist.odd \subseteq dhist'.odd
      /\ \A j \in Inst \ {i} : dlaunch'[j] = dlaunch[j]
      /\ \A j \in Inst \ {i} : NamedInPidFile(j)' => NamedInPidFile(j)
  <2>1. dproc' \in [Inst -> DaemonProcs]
    BY <1>a, <1>c, <1>d
  <2> QED BY <1>a, <2>1 DEF SetDefaults, DaemonSound, DaemonTypes, NamedInPidFile, At
<1>3. Staged(i)'
  BY <1>1, <1>e DEF SetDefaults, DaemonSound, Staged, Ends, Startup, At
<1>4. Lone(i)'
  <2> SUFFICES ASSUME Alive(i)', dhist'.alone[i]
               PROVE  Lone(i)'
    BY DEF Lone
  <2>1. dhist.alone[i] /\ Lone(i) /\ Staged(i)
    BY <1>2 DEF DaemonSound
  <2>2. \A j \in Inst \ {i} : ~Alive(j)'
    BY <1>a, <1>b, <1>c, <2>1 DEF Lone, Alive
  <2> QED BY <1>1, <1>a, <1>b, <1>e, <2>1, <2>2
          DEF SetDefaults, DaemonSound, DaemonTypes, Staged, Lone, Stopping, Ends, At
<1>5. Unnamed(i)'
  BY <1>1, <1>e DEF SetDefaults, DaemonSound, DaemonTypes, Staged, Unnamed, Stopping, NamedInPidFile, At
<1>6. Launched(i)'
  BY <1>1, <1>e DEF SetDefaults, DaemonSound, DaemonTypes, Launched, At
<1>7. \A j \in Inst \ {i} : (Staged(j) /\ Lone(j) /\ Unnamed(j) /\ Launched(j))'
  BY <1>b, <1>c, <1>d, <1>2, OthersKeep
<1> QED BY <1>2, <1>3, <1>4, <1>5, <1>6, <1>7 DEF DaemonSound

(* The launcher that waits is told on the way into the main loop. *)
LEMMA NotifySound ==
    ASSUME DaemonSound, NEW i \in Inst, Notify(i)
    PROVE  DaemonSound'
<1> DEFINE x == [dproc[i] EXCEPT !.at = "loop", !.told = dlaunch[i] = "waiting"]
<1>a. /\ dproc \in [Inst -> DaemonProcs] /\ dproc[i] \in DaemonProcs
      /\ dpid.name \in Inst \cup {Nobody}
  BY DEF DaemonSound, DaemonTypes
<1>b. Alive(i)
  BY DEF Notify, Alive, At, Startup
<1>c. dproc' = [dproc EXCEPT ![i] = x]
  BY DEF Notify, At, GoTo
<1>d. x \in DaemonProcs
  BY <1>a DEF Notify, DaemonProcs, Stages, Startup, Ends, At, GoTo
<1>e. /\ x.at = ("loop") /\ x.fd = dproc[i].fd /\ x.sock = dproc[i].sock /\ x.term = dproc[i].term
      /\ x.grace = dproc[i].grace /\ x.off = dproc[i].off /\ x.busy = dproc[i].busy
      /\ x.told = (dlaunch[i] = "waiting")
  BY <1>a DEF DaemonProcs, At, GoTo
<1> HIDE DEF x
<1>1. dproc'[i] = x
  BY <1>a, <1>c
<1>2. /\ DaemonTypes' /\ dkind' = dkind /\ dhist'.alone = dhist.alone
      /\ dhist.odd \subseteq dhist'.odd
      /\ \A j \in Inst \ {i} : dlaunch'[j] = dlaunch[j]
      /\ \A j \in Inst \ {i} : NamedInPidFile(j)' => NamedInPidFile(j)
  <2>1. dproc' \in [Inst -> DaemonProcs]
    BY <1>a, <1>c, <1>d
  <2> QED BY <1>a, <2>1 DEF Notify, DaemonSound, DaemonTypes, NamedInPidFile, At
<1>3. Staged(i)'
  BY <1>1, <1>e DEF Notify, DaemonSound, Staged, Ends, Startup, At
<1>4. Lone(i)'
  <2> SUFFICES ASSUME Alive(i)', dhist'.alone[i]
               PROVE  Lone(i)'
    BY DEF Lone
  <2>1. dhist.alone[i] /\ Lone(i) /\ Staged(i)
    BY <1>2 DEF DaemonSound
  <2>2. \A j \in Inst \ {i} : ~Alive(j)'
    BY <1>a, <1>b, <1>c, <2>1 DEF Lone, Alive
  <2> QED BY <1>1, <1>a, <1>b, <1>e, <2>1, <2>2
          DEF Notify, DaemonSound, DaemonTypes, Staged, Lone, Stopping, Ends, At
<1>5. Unnamed(i)'
  BY <1>1, <1>e DEF Notify, DaemonSound, DaemonTypes, Staged, Unnamed, Stopping, NamedInPidFile, At
<1>6. Launched(i)'
  BY <1>1, <1>e DEF Notify, DaemonSound, DaemonTypes, Launched, At
<1>7. \A j \in Inst \ {i} : (Staged(j) /\ Lone(j) /\ Unnamed(j) /\ Launched(j))'
  BY <1>b, <1>c, <1>d, <1>2, OthersKeep
<1> QED BY <1>2, <1>3, <1>4, <1>5, <1>6, <1>7 DEF DaemonSound

(* A process that ends with an error has no socket any more. *)
LEMMA StartupFailsSound ==
    ASSUME DaemonSound, NEW i \in Inst, StartupFails(i)
    PROVE  DaemonSound'
<1> DEFINE x == Ended(dproc[i], "failed")
<1>a. /\ dproc \in [Inst -> DaemonProcs] /\ dproc[i] \in DaemonProcs
      /\ dpid.name \in Inst \cup {Nobody}
  BY DEF DaemonSound, DaemonTypes
<1>b. Alive(i)
  BY DEF StartupFails, Alive, At, Startup
<1>c. dproc' = [dproc EXCEPT ![i] = x]
  BY DEF StartupFails, At, Ended
<1>d. x \in DaemonProcs
  BY <1>a DEF StartupFails, DaemonProcs, Stages, Startup, Ends, At, Ended
<1>e. /\ x.at = ("failed") /\ x.fd = (Nobody) /\ x.sock = ("none") /\ x.term = dproc[i].term
      /\ x.grace = dproc[i].grace /\ x.off = dproc[i].off /\ x.busy = dproc[i].busy
      /\ x.told = dproc[i].told
  BY <1>a DEF DaemonProcs, At, Ended
<1> HIDE DEF x
<1>1. dproc'[i] = x
  BY <1>a, <1>c
<1>2. /\ DaemonTypes' /\ dkind' = dkind /\ dhist'.alone = dhist.alone
      /\ dhist.odd \subseteq dhist'.odd
      /\ \A j \in Inst \ {i} : dlaunch'[j] = dlaunch[j]
      /\ \A j \in Inst \ {i} : NamedInPidFile(j)' => NamedInPidFile(j)
  <2>1. dproc' \in [Inst -> DaemonProcs]
    BY <1>a, <1>c, <1>d
  <2> QED BY <1>a, <2>1 DEF StartupFails, DaemonSound, DaemonTypes, NamedInPidFile, At, Ended
<1>3. Staged(i)'
  BY <1>1, <1>e DEF StartupFails, DaemonSound, Staged, Ends, Startup, At, Ended
<1>4. Lone(i)'
  BY <1>1, <1>e DEF Lone, Alive, Startup
<1>5. Unnamed(i)'
  BY <1>1, <1>e DEF Unnamed, Stopping, NamedInPidFile, At
<1>6. Launched(i)'
  BY <1>1, <1>e DEF StartupFails, Startup, DaemonSound, DaemonTypes, Launched, At, Ended
<1>7. \A j \in Inst \ {i} : (Staged(j) /\ Lone(j) /\ Unnamed(j) /\ Launched(j))'
  BY <1>b, <1>c, <1>d, <1>2, OthersKeep
<1> QED BY <1>2, <1>3, <1>4, <1>5, <1>6, <1>7 DEF DaemonSound

(* Neither has one that is killed. *)
LEMMA KillSound ==
    ASSUME DaemonSound, NEW i \in Inst, Kill(i)
    PROVE  DaemonSound'
<1> DEFINE x == Ended(dproc[i], "killed")
<1>a. /\ dproc \in [Inst -> DaemonProcs] /\ dproc[i] \in DaemonProcs
      /\ dpid.name \in Inst \cup {Nobody}
  BY DEF DaemonSound, DaemonTypes
<1>b. Alive(i)
  BY DEF Kill, Alive, At, Startup
<1>c. dproc' = [dproc EXCEPT ![i] = x]
  BY DEF Kill, At, Ended
<1>d. x \in DaemonProcs
  BY <1>a DEF Kill, DaemonProcs, Stages, Startup, Ends, At, Ended
<1>e. /\ x.at = ("killed") /\ x.fd = (Nobody) /\ x.sock = ("none") /\ x.term = dproc[i].term
      /\ x.grace = dproc[i].grace /\ x.off = dproc[i].off /\ x.busy = dproc[i].busy
      /\ x.told = dproc[i].told
  BY <1>a DEF DaemonProcs, At, Ended
<1> HIDE DEF x
<1>1. dproc'[i] = x
  BY <1>a, <1>c
<1>2. /\ DaemonTypes' /\ dkind' = dkind /\ dhist'.alone = dhist.alone
      /\ dhist.odd \subseteq dhist'.odd
      /\ \A j \in Inst \ {i} : dlaunch'[j] = dlaunch[j]
      /\ \A j \in Inst \ {i} : NamedInPidFile(j)' => NamedInPidFile(j)
  <2>1. dproc' \in [Inst -> DaemonProcs]
    BY <1>a, <1>c, <1>d
  <2> QED BY <1>a, <2>1 DEF Kill, DaemonSound, DaemonTypes, NamedInPidFile, At, Ended
<1>3. Staged(i)'
  BY <1>1, <1>e DEF Kill, DaemonSound, Staged, Ends, Startup, At, Ended
<1>4. Lone(i)'
  BY <1>1, <1>e DEF Lone, Alive, Startup
<1>5. Unnamed(i)'
  BY <1>1, <1>e DEF Kill, DaemonSound, DaemonTypes, Staged, Unnamed, Stopping, NamedInPidFile, At, Ended
<1>6. Launched(i)'
  BY <1>1, <1>e DEF Kill, DaemonSound, DaemonTypes, Launched, At, Ended
<1>7. \A j \in Inst \ {i} : (Staged(j) /\ Lone(j) /\ Unnamed(j) /\ Launched(j))'
  BY <1>b, <1>c, <1>d, <1>2, OthersKeep
<1> QED BY <1>2, <1>3, <1>4, <1>5, <1>6, <1>7 DEF DaemonSound

(* Connections change none of it. *)
LEMMA TrafficSound ==
    ASSUME DaemonSound, NEW i \in Inst, Traffic(i)
    PROVE  DaemonSound'
<1> DEFINE x == [dproc[i] EXCEPT !.busy = ~@]
<1>a. /\ dproc \in [Inst -> DaemonProcs] /\ dproc[i] \in DaemonProcs
      /\ dpid.name \in Inst \cup {Nobody}
  BY DEF DaemonSound, DaemonTypes
<1>b. Alive(i)
  BY DEF Traffic, Alive, At, Startup
<1>c. dproc' = [dproc EXCEPT ![i] = x]
  BY DEF Traffic, At, GoTo
<1>d. x \in DaemonProcs
  BY <1>a DEF Traffic, DaemonProcs, Stages, Startup, Ends, At, GoTo
<1>e. /\ x.at = dproc[i].at /\ x.fd = dproc[i].fd /\ x.sock = dproc[i].sock /\ x.term = dproc[i].term
      /\ x.grace = dproc[i].grace /\ x.off = dproc[i].off /\ x.busy = (~dproc[i].busy)
      /\ x.told = dproc[i].told
  BY <1>a DEF DaemonProcs, At, GoTo
<1> HIDE DEF x
<1>1. dproc'[i] = x
  BY <1>a, <1>c
<1>2. /\ DaemonTypes' /\ dkind' = dkind /\ dhist'.alone = dhist.alone
      /\ dhist.odd \subseteq dhist'.odd
      /\ \A j \in Inst \ {i} : dlaunch'[j] = dlaunch[j]
      /\ \A j \in Inst \ {i} : NamedInPidFile(j)' => NamedInPidFile(j)
  <2>1. dproc' \in [Inst -> DaemonProcs]
    BY <1>a, <1>c, <1>d
  <2> QED BY <1>a, <2>1 DEF Traffic, DaemonSound, DaemonTypes, NamedInPidFile, At
<1>3. Staged(i)'
  BY <1>1, <1>e DEF Traffic, DaemonSound, Staged, Ends, Startup, At
<1>4. Lone(i)'
  <2> SUFFICES ASSUME Alive(i)', dhist'.alone[i]
               PROVE  Lone(i)'
    BY DEF Lone
  <2>1. dhist.alone[i] /\ Lone(i) /\ Staged(i)
    BY <1>2 DEF DaemonSound
  <2>2. \A j \in Inst \ {i} : ~Alive(j)'
    BY <1>a, <1>b, <1>c, <2>1 DEF Lone, Alive
  <2> QED BY <1>1, <1>a, <1>b, <1>e, <2>1, <2>2
          DEF Traffic, DaemonSound, DaemonTypes, Staged, Lone, Stopping, Ends, At
<1>5. Unnamed(i)'
  BY <1>1, <1>e DEF Traffic, DaemonSound, DaemonTypes, Staged, Unnamed, Stopping, NamedInPidFile, At
<1>6. Launched(i)'
  BY <1>1, <1>e DEF Traffic, DaemonSound, DaemonTypes, Launched, At
<1>7. \A j \in Inst \ {i} : (Staged(j) /\ Lone(j) /\ Unnamed(j) /\ Launched(j))'
  BY <1>b, <1>c, <1>d, <1>2, OthersKeep
<1> QED BY <1>2, <1>3, <1>4, <1>5, <1>6, <1>7 DEF DaemonSound

(* Sockets are disabled before a signal only. *)
LEMMA OverloadSound ==
    ASSUME DaemonSound, NEW i \in Inst, Overload(i)
    PROVE  DaemonSound'
<1> DEFINE x == [dproc[i] EXCEPT !.off = ~@]
<1>a. /\ dproc \in [Inst -> DaemonProcs] /\ dproc[i] \in DaemonProcs
      /\ dpid.name \in Inst \cup {Nobody}
  BY DEF DaemonSound, DaemonTypes
<1>b. Alive(i)
  BY DEF Overload, Alive, At, Startup
<1>c. dproc' = [dproc EXCEPT ![i] = x]
  BY DEF Overload, At, GoTo
<1>d. x \in DaemonProcs
  BY <1>a DEF Overload, DaemonProcs, Stages, Startup, Ends, At, GoTo
<1>e. /\ x.at = dproc[i].at /\ x.fd = dproc[i].fd /\ x.sock = dproc[i].sock /\ x.term = dproc[i].term
      /\ x.grace = dproc[i].grace /\ x.off = (~dproc[i].off) /\ x.busy = dproc[i].busy
      /\ x.told = dproc[i].told
  BY <1>a DEF DaemonProcs, At, GoTo
<1> HIDE DEF x
<1>1. dproc'[i] = x
  BY <1>a, <1>c
<1>2. /\ DaemonTypes' /\ dkind' = dkind /\ dhist'.alone = dhist.alone
      /\ dhist.odd \subseteq dhist'.odd
      /\ \A j \in Inst \ {i} : dlaunch'[j] = dlaunch[j]
      /\ \A j \in Inst \ {i} : NamedInPidFile(j)' => NamedInPidFile(j)
  <2>1. dproc' \in [Inst -> DaemonProcs]
    BY <1>a, <1>c, <1>d
  <2> QED BY <1>a, <2>1 DEF Overload, DaemonSound, DaemonTypes, NamedInPidFile, At
<1>3. Staged(i)'
  BY <1>1, <1>e DEF Overload, DaemonSound, Staged, Ends, Startup, At
<1>4. Lone(i)'
  <2> SUFFICES ASSUME Alive(i)', dhist'.alone[i]
               PROVE  Lone(i)'
    BY DEF Lone
  <2>1. dhist.alone[i] /\ Lone(i) /\ Staged(i)
    BY <1>2 DEF DaemonSound
  <2>2. \A j \in Inst \ {i} : ~Alive(j)'
    BY <1>a, <1>b, <1>c, <2>1 DEF Lone, Alive
  <2> QED BY <1>1, <1>a, <1>b, <1>e, <2>1, <2>2
          DEF Overload, DaemonSound, DaemonTypes, Staged, Lone, Stopping, Ends, At
<1>5. Unnamed(i)'
  BY <1>1, <1>e DEF Overload, DaemonSound, DaemonTypes, Staged, Unnamed, Stopping, NamedInPidFile, At
<1>6. Launched(i)'
  BY <1>1, <1>e DEF Overload, DaemonSound, DaemonTypes, Launched, At
<1>7. \A j \in Inst \ {i} : (Staged(j) /\ Lone(j) /\ Unnamed(j) /\ Launched(j))'
  BY <1>b, <1>c, <1>d, <1>2, OthersKeep
<1> QED BY <1>2, <1>3, <1>4, <1>5, <1>6, <1>7 DEF DaemonSound

(* Whoever closes the sockets takes the name off the pid file. *)
LEMMA GracefulStartSound ==
    ASSUME DaemonSound, NEW i \in Inst, GracefulStart(i)
    PROVE  DaemonSound'
<1> DEFINE x == [dproc[i] EXCEPT !.off = TRUE, !.sock = "none", !.fd = Nobody]
<1>a. /\ dproc \in [Inst -> DaemonProcs] /\ dproc[i] \in DaemonProcs
      /\ dpid.name \in Inst \cup {Nobody}
  BY DEF DaemonSound, DaemonTypes
<1>b. Alive(i)
  BY DEF GracefulStart, Alive, At, Startup
<1>c. dproc' = [dproc EXCEPT ![i] = x]
  BY DEF GracefulStart, At, GoTo
<1>d. x \in DaemonProcs
  BY <1>a DEF GracefulStart, DaemonProcs, Stages, Startup, Ends, At, GoTo
<1>e. /\ x.at = dproc[i].at /\ x.fd = (Nobody) /\ x.sock = ("none") /\ x.term = dproc[i].term
      /\ x.grace = dproc[i].grace /\ x.off = (TRUE) /\ x.busy = dproc[i].busy /\ x.told = dproc[i].told
  BY <1>a DEF DaemonProcs, At, GoTo
<1> HIDE DEF x
<1>1. dproc'[i] = x
  BY <1>a, <1>c
<1>2. /\ DaemonTypes' /\ dkind' = dkind /\ dhist'.alone = dhist.alone
      /\ dhist.odd \subseteq dhist'.odd
      /\ \A j \in Inst \ {i} : dlaunch'[j] = dlaunch[j]
      /\ \A j \in Inst \ {i} : NamedInPidFile(j)' => NamedInPidFile(j)
  <2>1. dproc' \in [Inst -> DaemonProcs]
    BY <1>a, <1>c, <1>d
  <2> QED BY <1>a, <2>1 DEF GracefulStart, DaemonSound, DaemonTypes, NamedInPidFile, At, remove_pid_file
<1>3. Staged(i)'
  BY <1>1, <1>e DEF GracefulStart, DaemonSound, Staged, Ends, Startup, At, remove_pid_file
<1>4. Lone(i)'
  <2> SUFFICES ASSUME Alive(i)', dhist'.alone[i]
               PROVE  Lone(i)'
    BY DEF Lone
  <2>1. dhist.alone[i] /\ Lone(i) /\ Staged(i)
    BY <1>2 DEF DaemonSound
  <2>2. \A j \in Inst \ {i} : ~Alive(j)'
    BY <1>a, <1>b, <1>c, <2>1 DEF Lone, Alive
  <2> QED BY <1>1, <1>a, <1>b, <1>e, <2>1, <2>2
          DEF GracefulStart, DaemonSound, DaemonTypes, Staged, Lone, Stopping, Ends, At, remove_pid_file
<1>5. Unnamed(i)'
  BY <1>1, <1>e DEF GracefulStart, DaemonSound, DaemonTypes, Staged, Unnamed, Stopping,
                    NamedInPidFile, At, remove_pid_file
<1>6. Launched(i)'
  BY <1>1, <1>e DEF GracefulStart, DaemonSound, DaemonTypes, Launched, At, remove_pid_file
<1>7. \A j \in Inst \ {i} : (Staged(j) /\ Lone(j) /\ Unnamed(j) /\ Launched(j))'
  BY <1>b, <1>c, <1>d, <1>2, OthersKeep
<1> QED BY <1>2, <1>3, <1>4, <1>5, <1>6, <1>7 DEF DaemonSound

(* The loop ends with the sockets closed or by a signal. *)
LEMMA LoopEndsSound ==
    ASSUME DaemonSound, NEW i \in Inst, LoopEnds(i)
    PROVE  DaemonSound'
<1> DEFINE x == [dproc[i] EXCEPT !.at = "left", !.term = TRUE]
<1>a. /\ dproc \in [Inst -> DaemonProcs] /\ dproc[i] \in DaemonProcs
      /\ dpid.name \in Inst \cup {Nobody}
  BY DEF DaemonSound, DaemonTypes
<1>b. Alive(i)
  BY DEF LoopEnds, Alive, At, Startup
<1>c. dproc' = [dproc EXCEPT ![i] = x]
  BY DEF LoopEnds, At, GoTo
<1>d. x \in DaemonProcs
  BY <1>a DEF LoopEnds, DaemonProcs, Stages, Startup, Ends, At, GoTo
<1>e. /\ x.at = ("left") /\ x.fd = dproc[i].fd /\ x.sock = dproc[i].sock /\ x.term = (TRUE)
      /\ x.grace = dproc[i].grace /\ x.off = dproc[i].off /\ x.busy = dproc[i].busy
      /\ x.told = dproc[i].told
  BY <1>a DEF DaemonProcs, At, GoTo
<1> HIDE DEF x
<1>1. dproc'[i] = x
  BY <1>a, <1>c
<1>2. /\ DaemonTypes' /\ dkind' = dkind /\ dhist'.alone = dhist.alone
      /\ dhist.odd \subseteq dhist'.odd
      /\ \A j \in Inst \ {i} : dlaunch'[j] = dlaunch[j]
      /\ \A j \in Inst \ {i} : NamedInPidFile(j)' => NamedInPidFile(j)
  <2>1. dproc' \in [Inst -> DaemonProcs]
    BY <1>a, <1>c, <1>d
  <2> QED BY <1>a, <2>1 DEF LoopEnds, DaemonSound, DaemonTypes, NamedInPidFile, At
<1>3. Staged(i)'
  BY <1>1, <1>e DEF LoopEnds, DaemonSound, Staged, Ends, Startup, At
<1>4. Lone(i)'
  <2> SUFFICES ASSUME Alive(i)', dhist'.alone[i]
               PROVE  Lone(i)'
    BY DEF Lone
  <2>1. dhist.alone[i] /\ Lone(i) /\ Staged(i)
    BY <1>2 DEF DaemonSound
  <2>2. \A j \in Inst \ {i} : ~Alive(j)'
    BY <1>a, <1>b, <1>c, <2>1 DEF Lone, Alive
  <2> QED BY <1>1, <1>a, <1>b, <1>e, <2>1, <2>2
          DEF LoopEnds, DaemonSound, DaemonTypes, Staged, Lone, Stopping, Ends, At
<1>5. Unnamed(i)'
  BY <1>1, <1>e DEF LoopEnds, DaemonSound, DaemonTypes, Staged, Unnamed, Stopping, NamedInPidFile, At
<1>6. Launched(i)'
  BY <1>1, <1>e DEF LoopEnds, DaemonSound, DaemonTypes, Launched, At
<1>7. \A j \in Inst \ {i} : (Staged(j) /\ Lone(j) /\ Unnamed(j) /\ Launched(j))'
  BY <1>b, <1>c, <1>d, <1>2, OthersKeep
<1> QED BY <1>2, <1>3, <1>4, <1>5, <1>6, <1>7 DEF DaemonSound

(* The pid file is gone at the end, by the one way or by the other. *)
LEMMA FinishSound ==
    ASSUME DaemonSound, NEW i \in Inst, Finish(i)
    PROVE  DaemonSound'
<1> DEFINE x == Ended(dproc[i], "gone")
<1>a. /\ dproc \in [Inst -> DaemonProcs] /\ dproc[i] \in DaemonProcs
      /\ dpid.name \in Inst \cup {Nobody}
  BY DEF DaemonSound, DaemonTypes
<1>b. Alive(i)
  BY DEF Finish, Alive, At, Startup
<1>c. dproc' = [dproc EXCEPT ![i] = x]
  BY DEF Finish, At, Ended
<1>d. x \in DaemonProcs
  BY <1>a DEF Finish, DaemonProcs, Stages, Startup, Ends, At, Ended
<1>e. /\ x.at = ("gone") /\ x.fd = (Nobody) /\ x.sock = ("none") /\ x.term = dproc[i].term
      /\ x.grace = dproc[i].grace /\ x.off = dproc[i].off /\ x.busy = dproc[i].busy
      /\ x.told = dproc[i].told
  BY <1>a DEF DaemonProcs, At, Ended
<1> HIDE DEF x
<1>1. dproc'[i] = x
  BY <1>a, <1>c
<1>2. /\ DaemonTypes' /\ dkind' = dkind /\ dhist'.alone = dhist.alone
      /\ dhist.odd \subseteq dhist'.odd
      /\ \A j \in Inst \ {i} : dlaunch'[j] = dlaunch[j]
      /\ \A j \in Inst \ {i} : NamedInPidFile(j)' => NamedInPidFile(j)
  <2>1. dproc' \in [Inst -> DaemonProcs]
    BY <1>a, <1>c, <1>d
  <2> QED BY <1>a, <2>1 DEF Finish, DaemonSound, DaemonTypes, NamedInPidFile, At, Ended, remove_pid_file
<1>3. Staged(i)'
  BY <1>1, <1>e DEF Finish, DaemonSound, Staged, Ends, Startup, At, Ended, remove_pid_file
<1>4. Lone(i)'
  BY <1>1, <1>e DEF Lone, Alive, Startup
<1>5. Unnamed(i)'
  BY <1>1, <1>e DEF Finish, DaemonSound, DaemonTypes, Staged, Unnamed, Stopping, NamedInPidFile,
                    At, Ended, remove_pid_file
<1>6. Launched(i)'
  BY <1>1, <1>e DEF Finish, DaemonSound, DaemonTypes, Launched, At, Ended, remove_pid_file
<1>7. \A j \in Inst \ {i} : (Staged(j) /\ Lone(j) /\ Unnamed(j) /\ Launched(j))'
  BY <1>b, <1>c, <1>d, <1>2, OthersKeep
<1> QED BY <1>2, <1>3, <1>4, <1>5, <1>6, <1>7 DEF DaemonSound

(* Only a name that leads to nobody who listens is removed. *)
LEMMA ProbeSound ==
    ASSUME DaemonSound, NEW i \in Inst, Probe(i)
    PROVE  DaemonSound'
<1> DEFINE yes == dkind = "tcp" \/ dpath = Nobody \/ dproc[dpath].sock # "listening"
           x == IF yes THEN [dproc[i] EXCEPT !.at = "bind"]
                ELSE Ended(dproc[i], "failed")
<1>a. /\ dproc \in [Inst -> DaemonProcs] /\ dproc[i] \in DaemonProcs
      /\ dpid.name \in Inst \cup {Nobody}
      /\ dhist \in [alone : [Inst -> BOOLEAN], odd : SUBSET Inst]
  BY DEF DaemonSound, DaemonTypes
<1>b. Alive(i)
  BY DEF Probe, Alive, At, Startup
<1>c. dproc' = [dproc EXCEPT ![i] = x]
  BY <1>a DEF Probe, At, GoTo, Ended, DaemonProcs
<1>d. x \in DaemonProcs
  BY <1>a DEF DaemonProcs, Stages, Startup, Ends, Ended
<1>e. /\ yes => /\ x.at = ("bind") /\ x.fd = dproc[i].fd /\ x.sock = dproc[i].sock
                /\ x.term = dproc[i].term
             /\ x.grace = dproc[i].grace /\ x.off = dproc[i].off /\ x.busy = dproc[i].busy
             /\ x.told = dproc[i].told
      /\ ~yes => /\ x.at = ("failed") /\ x.fd = (Nobody) /\ x.sock = ("none") /\ x.term = dproc[i].term
             /\ x.grace = dproc[i].grace /\ x.off = dproc[i].off /\ x.busy = dproc[i].busy
             /\ x.told = dproc[i].told
  BY <1>a DEF DaemonProcs, Ended
<1>f. TRUE
  BY DEF Probe, SignalDefault
<1>g. yes => /\ TRUE
  BY DEF Probe, SignalDefault
<1> HIDE DEF x, yes
<1>1. dproc'[i] = x
  BY <1>a, <1>c
<1>2. /\ DaemonTypes' /\ dkind' = dkind /\ dhist'.alone = dhist.alone
      /\ dhist.odd \subseteq dhist'.odd
      /\ \A j \in Inst \ {i} : dlaunch'[j] = dlaunch[j]
      /\ \A j \in Inst \ {i} : NamedInPidFile(j)' => NamedInPidFile(j)
  <2>1. dproc' \in [Inst -> DaemonProcs]
    BY <1>a, <1>c, <1>d
  <2>2. /\ dhist' \in [alone : [Inst -> BOOLEAN], odd : SUBSET Inst]
        /\ dhist'.alone = dhist.alone /\ dhist.odd \subseteq dhist'.odd
    BY <1>a, <1>f, <1>g DEF Probe, Odd
  <2> QED BY <1>a, <2>1, <2>2 DEF Probe, DaemonSound, DaemonTypes, NamedInPidFile
<1>3. Staged(i)'
  BY <1>1, <1>e, <1>f DEF Probe, DaemonSound, Staged, Ends, Startup, At
<1>4. Lone(i)'
  <2> SUFFICES ASSUME Alive(i)', dhist'.alone[i]
               PROVE  Lone(i)'
    BY DEF Lone
  <2>1. dhist.alone[i] /\ Lone(i) /\ Staged(i)
    BY <1>2 DEF DaemonSound
  <2>2. \A j \in Inst \ {i} : ~Alive(j)'
    BY <1>a, <1>b, <1>c, <2>1 DEF Lone, Alive
  <2>3. yes
    BY <1>1, <1>e DEF Alive, Startup
  <2> QED BY <1>1, <1>a, <1>b, <1>e, <2>1, <2>2, <2>3
          DEF Probe, DaemonSound, DaemonTypes, Staged, Lone, Stopping, Ends, At, AddressTaken
<1>5. Unnamed(i)'
  BY <1>1, <1>e, <1>f, <1>g DEF Probe, DaemonSound, DaemonTypes, Staged, Unnamed, Stopping,
                                NamedInPidFile, At
<1>6. Launched(i)'
  BY <1>1, <1>e, <1>f DEF Probe, DaemonSound, DaemonTypes, Launched, At
<1>7. \A j \in Inst \ {i} : (Staged(j) /\ Lone(j) /\ Unnamed(j) /\ Launched(j))'
  BY <1>b, <1>c, <1>d, <1>2, OthersKeep
<1> QED BY <1>2, <1>3, <1>4, <1>5, <1>6, <1>7 DEF DaemonSound

(* An address is bound by one process at a time. *)
LEMMA BindSound ==
    ASSUME DaemonSound, NEW i \in Inst, Bind(i)
    PROVE  DaemonSound'
<1> DEFINE yes == ~AddressTaken
           x == IF yes THEN [dproc[i] EXCEPT !.at = "listen", !.sock = "bound"]
                ELSE Ended(dproc[i], "failed")
<1>a. /\ dproc \in [Inst -> DaemonProcs] /\ dproc[i] \in DaemonProcs
      /\ dpid.name \in Inst \cup {Nobody}
      /\ dhist \in [alone : [Inst -> BOOLEAN], odd : SUBSET Inst]
  BY DEF DaemonSound, DaemonTypes
<1>b. Alive(i)
  BY DEF Bind, Alive, At, Startup
<1>c. dproc' = [dproc EXCEPT ![i] = x]
  BY <1>a DEF Bind, At, GoTo, Ended, DaemonProcs
<1>d. x \in DaemonProcs
  BY <1>a DEF DaemonProcs, Stages, Startup, Ends, Ended
<1>e. /\ ~yes => /\ x.at = ("failed") /\ x.fd = (Nobody) /\ x.sock = ("none") /\ x.term = dproc[i].term
             /\ x.grace = dproc[i].grace /\ x.off = dproc[i].off /\ x.busy = dproc[i].busy
             /\ x.told = dproc[i].told
      /\ yes => /\ x.at = ("listen") /\ x.fd = dproc[i].fd /\ x.sock = ("bound")
                /\ x.term = dproc[i].term
             /\ x.grace = dproc[i].grace /\ x.off = dproc[i].off /\ x.busy = dproc[i].busy
             /\ x.told = dproc[i].told
  BY <1>a DEF DaemonProcs, Ended
<1>f. TRUE
  BY DEF Bind, SignalDefault
<1>g. yes => /\ TRUE
  BY DEF Bind, SignalDefault
<1> HIDE DEF x, yes
<1>1. dproc'[i] = x
  BY <1>a, <1>c
<1>2. /\ DaemonTypes' /\ dkind' = dkind /\ dhist'.alone = dhist.alone
      /\ dhist.odd \subseteq dhist'.odd
      /\ \A j \in Inst \ {i} : dlaunch'[j] = dlaunch[j]
      /\ \A j \in Inst \ {i} : NamedInPidFile(j)' => NamedInPidFile(j)
  <2>1. dproc' \in [Inst -> DaemonProcs]
    BY <1>a, <1>c, <1>d
  <2>2. /\ dhist' \in [alone : [Inst -> BOOLEAN], odd : SUBSET Inst]
        /\ dhist'.alone = dhist.alone /\ dhist.odd \subseteq dhist'.odd
    BY <1>a, <1>f, <1>g DEF Bind, Odd
  <2> QED BY <1>a, <2>1, <2>2 DEF Bind, DaemonSound, DaemonTypes, NamedInPidFile
<1>3. Staged(i)'
  BY <1>1, <1>e, <1>f DEF Bind, DaemonSound, Staged, Ends, Startup, At
<1>4. Lone(i)'
  <2> SUFFICES ASSUME Alive(i)', dhist'.alone[i]
               PROVE  Lone(i)'
    BY DEF Lone
  <2>1. dhist.alone[i] /\ Lone(i) /\ Staged(i)
    BY <1>2 DEF DaemonSound
  <2>2. \A j \in Inst \ {i} : ~Alive(j)'
    BY <1>a, <1>b, <1>c, <2>1 DEF Lone, Alive
  <2>3. yes
    BY <1>1, <1>e DEF Alive, Startup
  <2>4. /\ dpid' = dpid /\ dkind' = dkind /\ dproc[i].at = "bind" /\ x.at = "listen"
        /\ x.fd = dproc[i].fd
        /\ dkind = "unix" => dpath' = i
    BY <1>e, <2>3 DEF Bind, At, yes
  <2>5. dproc[i].fd = dpid.name /\ dpid.name \in Inst
    BY <1>b, <2>1, <2>4 DEF Lone, Stopping, At
  <2> QED BY <1>1, <2>2, <2>4, <2>5
          DEF Lone, Stopping, At
<1>5. Unnamed(i)'
  BY <1>1, <1>e, <1>f, <1>g DEF Bind, DaemonSound, DaemonTypes, Staged, Unnamed, Stopping,
                                NamedInPidFile, At
<1>6. Launched(i)'
  BY <1>1, <1>e, <1>f DEF Bind, DaemonSound, DaemonTypes, Launched, At
<1>7. \A j \in Inst \ {i} : (Staged(j) /\ Lone(j) /\ Unnamed(j) /\ Launched(j))'
  BY <1>b, <1>c, <1>d, <1>2, OthersKeep
<1> QED BY <1>2, <1>3, <1>4, <1>5, <1>6, <1>7 DEF DaemonSound

(* SIGTERM that meets SIGINT is remembered as odd. *)
LEMMA SigTermSound ==
    ASSUME DaemonSound, NEW i \in Inst, SigTerm(i)
    PROVE  DaemonSound'
<1> DEFINE yes == HandlersSet(i)
           x == IF yes THEN [dproc[i] EXCEPT !.term = TRUE]
                ELSE Ended(dproc[i], "killed")
<1>a. /\ dproc \in [Inst -> DaemonProcs] /\ dproc[i] \in DaemonProcs
      /\ dpid.name \in Inst \cup {Nobody}
      /\ dhist \in [alone : [Inst -> BOOLEAN], odd : SUBSET Inst]
  BY DEF DaemonSound, DaemonTypes
<1>b. Alive(i)
  BY DEF SigTerm, Alive, At, Startup, HandlersSet, SignalDefault
<1>c. dproc' = [dproc EXCEPT ![i] = x]
  BY <1>a DEF SigTerm, At, Ended, SignalDefault, Odd, DaemonProcs
<1>d. x \in DaemonProcs
  BY <1>a DEF DaemonProcs, Stages, Startup, Ends, Ended
<1>e. /\ yes => /\ x.at = dproc[i].at /\ x.fd = dproc[i].fd /\ x.sock = dproc[i].sock /\ x.term = (TRUE)
             /\ x.grace = dproc[i].grace /\ x.off = dproc[i].off /\ x.busy = dproc[i].busy
             /\ x.told = dproc[i].told
      /\ ~yes => /\ x.at = ("killed") /\ x.fd = (Nobody) /\ x.sock = ("none") /\ x.term = dproc[i].term
             /\ x.grace = dproc[i].grace /\ x.off = dproc[i].off /\ x.busy = dproc[i].busy
             /\ x.told = dproc[i].told
  BY <1>a DEF DaemonProcs, Ended
<1>f. (yes <=> HandlersSet(i)) /\ (~yes => dhist' = dhist)
  BY DEF SigTerm, SignalDefault
<1>g. yes => /\ HandlersSet(i) /\ dhist' \in {dhist, Odd(i)}
  BY DEF SigTerm, SignalDefault
<1> HIDE DEF x, yes
<1>1. dproc'[i] = x
  BY <1>a, <1>c
<1>2. /\ DaemonTypes' /\ dkind' = dkind /\ dhist'.alone = dhist.alone
      /\ dhist.odd \subseteq dhist'.odd
      /\ \A j \in Inst \ {i} : dlaunch'[j] = dlaunch[j]
      /\ \A j \in Inst \ {i} : NamedInPidFile(j)' => NamedInPidFile(j)
  <2>1. dproc' \in [Inst -> DaemonProcs]
    BY <1>a, <1>c, <1>d
  <2>2. /\ dhist' \in [alone : [Inst -> BOOLEAN], odd : SUBSET Inst]
        /\ dhist'.alone = dhist.alone /\ dhist.odd \subseteq dhist'.odd
    BY <1>a, <1>f, <1>g DEF SigTerm, Odd
  <2> QED BY <1>a, <2>1, <2>2 DEF SigTerm, DaemonSound, DaemonTypes, NamedInPidFile
<1>3. Staged(i)'
  BY <1>1, <1>e, <1>f DEF SigTerm, DaemonSound, Staged, Ends, Startup, At, HandlersSet
<1>4. Lone(i)'
  <2> SUFFICES ASSUME Alive(i)', dhist'.alone[i]
               PROVE  Lone(i)'
    BY DEF Lone
  <2>1. dhist.alone[i] /\ Lone(i) /\ Staged(i)
    BY <1>2 DEF DaemonSound
  <2>2. \A j \in Inst \ {i} : ~Alive(j)'
    BY <1>a, <1>b, <1>c, <2>1 DEF Lone, Alive
  <2>3. yes
    BY <1>1, <1>e DEF Alive, Startup
  <2> QED BY <1>1, <1>a, <1>b, <1>e, <2>1, <2>2, <2>3
          DEF SigTerm, DaemonSound, DaemonTypes, Staged, Lone, Stopping, Ends, At, AddressTaken
<1>5. Unnamed(i)'
  <2>1. Unnamed(i) /\ dpid' = dpid /\ NamedInPidFile(i)' = NamedInPidFile(i)
    BY DEF SigTerm, DaemonSound, NamedInPidFile
  <2>2. CASE ~yes
    BY <1>1, <1>e, <2>1, <2>2 DEF Unnamed, Stopping, At
  <2>3. CASE yes
    <3>1. Stopping(i)' = Stopping(i) /\ ~At(i, "gone")'
      BY <1>1, <1>e, <1>g, <2>3 DEF Stopping, HandlersSet, At
    <3>2. dhist.odd \subseteq dhist'.odd
      BY <1>2
    <3>3. ASSUME x.sock = "listening", x.grace, x.term \/ x.off
          PROVE  i \in dhist'.odd
      <4>1. dproc[i].sock = "listening" 
        BY <1>e, <2>3, <3>3
      <4>2. i \in dhist.odd \/ dhist' = Odd(i)
        BY <1>e, <1>f, <2>3, <3>3 DEF SigTerm, SignalDefault
      <4> QED BY <1>a, <3>2, <4>1, <4>2 DEF Odd
    <3> QED BY <1>1, <2>1, <3>1, <3>3 DEF Unnamed
  <2> QED BY <2>2, <2>3
<1>6. Launched(i)'
  BY <1>1, <1>e, <1>f DEF SigTerm, DaemonSound, DaemonTypes, Launched, At, HandlersSet, Startup
<1>7. \A j \in Inst \ {i} : (Staged(j) /\ Lone(j) /\ Unnamed(j) /\ Launched(j))'
  BY <1>b, <1>c, <1>d, <1>2, OthersKeep
<1> QED BY <1>2, <1>3, <1>4, <1>5, <1>6, <1>7 DEF DaemonSound

(* So is SIGINT that meets SIGTERM, another one or disabled sockets. *)
LEMMA SigIntSound ==
    ASSUME DaemonSound, NEW i \in Inst, SigInt(i)
    PROVE  DaemonSound'
<1> DEFINE yes == HandlersSet(i)
           x == IF yes THEN [dproc[i] EXCEPT !.grace = TRUE, !.term = @ \/ dproc[i].grace]
                ELSE Ended(dproc[i], "killed")
<1>a. /\ dproc \in [Inst -> DaemonProcs] /\ dproc[i] \in DaemonProcs
      /\ dpid.name \in Inst \cup {Nobody}
      /\ dhist \in [alone : [Inst -> BOOLEAN], odd : SUBSET Inst]
  BY DEF DaemonSound, DaemonTypes
<1>b. Alive(i)
  BY DEF SigInt, Alive, At, Startup, HandlersSet, SignalDefault
<1>c. dproc' = [dproc EXCEPT ![i] = x]
  <2>1. CASE HandlersSet(i)
    BY <1>a, <2>1 DEF SigInt, SignalDefault
  <2>2. CASE ~HandlersSet(i)
    BY <1>a, <2>2 DEF SigInt, SignalDefault
  <2> QED BY <2>1, <2>2
<1>d. x \in DaemonProcs
  <2> DEFINE both == dproc[i].term \/ dproc[i].grace
  <2>1. both \in BOOLEAN
    OBVIOUS
  <2> HIDE DEF both
  <2>2. x = IF yes THEN [dproc[i] EXCEPT !.grace = TRUE, !.term = both] ELSE Ended(dproc[i], "killed")
    BY DEF both
  <2> HIDE DEF x
  <2> QED BY <1>a, <2>1, <2>2 DEF DaemonProcs, Stages, Startup, Ends, Ended
<1>e. /\ yes => /\ x.at = dproc[i].at /\ x.fd = dproc[i].fd /\ x.sock = dproc[i].sock
                /\ x.term = (dproc[i].term \/ dproc[i].grace)
             /\ x.grace = (TRUE) /\ x.off = dproc[i].off /\ x.busy = dproc[i].busy
             /\ x.told = dproc[i].told
      /\ ~yes => /\ x.at = ("killed") /\ x.fd = (Nobody) /\ x.sock = ("none") /\ x.term = dproc[i].term
             /\ x.grace = dproc[i].grace /\ x.off = dproc[i].off /\ x.busy = dproc[i].busy
             /\ x.told = dproc[i].told
  BY <1>a DEF DaemonProcs, Ended
<1>f. (yes <=> HandlersSet(i)) /\ (~yes => dhist' = dhist)
  BY DEF SigInt, SignalDefault
<1>g. yes => /\ HandlersSet(i) /\ dhist' \in {dhist, Odd(i)}
  BY DEF SigInt, SignalDefault
<1> HIDE DEF x, yes
<1>1. dproc'[i] = x
  BY <1>a, <1>c
<1>2. /\ DaemonTypes' /\ dkind' = dkind /\ dhist'.alone = dhist.alone
      /\ dhist.odd \subseteq dhist'.odd
      /\ \A j \in Inst \ {i} : dlaunch'[j] = dlaunch[j]
      /\ \A j \in Inst \ {i} : NamedInPidFile(j)' => NamedInPidFile(j)
  <2>1. dproc' \in [Inst -> DaemonProcs]
    BY <1>a, <1>c, <1>d
  <2>2. /\ dhist' \in [alone : [Inst -> BOOLEAN], odd : SUBSET Inst]
        /\ dhist'.alone = dhist.alone /\ dhist.odd \subseteq dhist'.odd
    BY <1>a, <1>f, <1>g DEF SigInt, Odd
  <2> QED BY <1>a, <2>1, <2>2 DEF SigInt, DaemonSound, DaemonTypes, NamedInPidFile
<1>3. Staged(i)'
  BY <1>1, <1>e, <1>f DEF SigInt, DaemonSound, Staged, Ends, Startup, At, HandlersSet
<1>4. Lone(i)'
  <2> SUFFICES ASSUME Alive(i)', dhist'.alone[i]
               PROVE  Lone(i)'
    BY DEF Lone
  <2>1. dhist.alone[i] /\ Lone(i) /\ Staged(i)
    BY <1>2 DEF DaemonSound
  <2>2. \A j \in Inst \ {i} : ~Alive(j)'
    BY <1>a, <1>b, <1>c, <2>1 DEF Lone, Alive
  <2>3. yes
    BY <1>1, <1>e DEF Alive, Startup
  <2> QED BY <1>1, <1>a, <1>b, <1>e, <2>1, <2>2, <2>3
          DEF SigInt, DaemonSound, DaemonTypes, Staged, Lone, Stopping, Ends, At, AddressTaken
<1>5. Unnamed(i)'
  <2>1. Unnamed(i) /\ dpid' = dpid /\ NamedInPidFile(i)' = NamedInPidFile(i)
    BY DEF SigInt, DaemonSound, NamedInPidFile
  <2>2. CASE ~yes
    BY <1>1, <1>e, <2>1, <2>2 DEF Unnamed, Stopping, At
  <2>3. CASE yes
    <3>1. Stopping(i)' = Stopping(i) /\ ~At(i, "gone")'
      BY <1>1, <1>e, <1>g, <2>3 DEF Stopping, HandlersSet, At
    <3>2. dhist.odd \subseteq dhist'.odd
      BY <1>2
    <3>3. ASSUME x.sock = "listening", x.grace, x.term \/ x.off
          PROVE  i \in dhist'.odd
      <4>1. dproc[i].sock = "listening" 
        BY <1>e, <2>3, <3>3
      <4>2. i \in dhist.odd \/ dhist' = Odd(i)
        BY <1>e, <1>f, <2>3, <3>3 DEF SigInt, SignalDefault
      <4> QED BY <1>a, <3>2, <4>1, <4>2 DEF Odd
    <3> QED BY <1>1, <2>1, <3>1, <3>3 DEF Unnamed
  <2> QED BY <2>2, <2>3
<1>6. Launched(i)'
  BY <1>1, <1>e, <1>f DEF SigInt, DaemonSound, DaemonTypes, Launched, At, HandlersSet, Startup
<1>7. \A j \in Inst \ {i} : (Staged(j) /\ Lone(j) /\ Unnamed(j) /\ Launched(j))'
  BY <1>b, <1>c, <1>d, <1>2, OthersKeep
<1> QED BY <1>2, <1>3, <1>4, <1>5, <1>6, <1>7 DEF DaemonSound

(* A process is started beside those that are alive, and none of them is alone any more. *)
LEMMA StartSound ==
    ASSUME DaemonSound, NEW i \in Inst, Start(i)
    PROVE  DaemonSound'
<1> DEFINE x == [dproc[i] EXCEPT !.at = "config"]
<1>a. /\ dproc \in [Inst -> DaemonProcs] /\ dproc[i] \in DaemonProcs /\ dproc[i].at = "idle"
      /\ Staged(i) /\ Unnamed(i) /\ Launched(i)
  BY DEF Start, At, DaemonSound, DaemonTypes
<1>c. dproc' = [dproc EXCEPT ![i] = x]
  BY DEF Start, GoTo
<1>d. x \in DaemonProcs
  BY <1>a DEF DaemonProcs, Stages, Startup
<1>e. /\ x.at = "config" /\ x.fd = dproc[i].fd /\ x.sock = dproc[i].sock /\ x.term = dproc[i].term
      /\ x.grace = dproc[i].grace /\ x.off = dproc[i].off /\ x.busy = dproc[i].busy
      /\ x.told = dproc[i].told
  BY <1>a DEF DaemonProcs
<1> HIDE DEF x
<1>1. /\ dproc'[i] = x /\ \A j \in Inst \ {i} : dproc'[j] = dproc[j]
      /\ dproc' \in [Inst -> DaemonProcs]
  BY <1>a, <1>c, <1>d
<1>2. UNCHANGED <<dpid, dpath, dkind, dlaunch>>
  BY DEF Start
<1> DEFINE others == {j \in Inst \ {i} : Alive(j)}
<1>3. /\ dhist'.odd = dhist.odd /\ dhist' \in [alone : [Inst -> BOOLEAN], odd : SUBSET Inst]
      /\ \A j \in Inst : dhist'.alone[j] => dhist.alone[j] /\ (others = {} \/ j \notin others \cup {i})
  <2> DEFINE al == [j \in Inst |-> dhist.alone[j] /\ (others = {} \/ j \notin others \cup {i})]
  <2>1. dhist' = [dhist EXCEPT !.alone = al]
    BY DEF Start
  <2>2. al \in [Inst -> BOOLEAN]
    OBVIOUS
  <2>3. \A j \in Inst : al[j] => dhist.alone[j] /\ (others = {} \/ j \notin others \cup {i})
    OBVIOUS
  <2>4. dhist \in [alone : [Inst -> BOOLEAN], odd : SUBSET Inst]
    BY DEF DaemonSound, DaemonTypes
  <2> HIDE DEF al, others
  <2> QED BY <2>1, <2>2, <2>3, <2>4
<1>4. DaemonTypes'
  BY <1>1, <1>2, <1>3 DEF DaemonSound, DaemonTypes
<1>5. \A j \in Inst : Staged(j)' /\ Launched(j)' /\ Unnamed(j)'
  <2> SUFFICES ASSUME NEW j \in Inst
               PROVE  Staged(j)' /\ Launched(j)' /\ Unnamed(j)'
    OBVIOUS
  <2>1. Staged(j) /\ Launched(j) /\ Unnamed(j)
    BY DEF DaemonSound
  <2>2. CASE j # i
    BY <1>1, <1>2, <1>3, <2>1, <2>2 DEF Staged, Launched, Unnamed, Stopping, NamedInPidFile, At
  <2>3. CASE j = i
    <3>1. Staged(i)'
      BY <1>1, <1>a, <1>e DEF Staged, Ends
    <3>2. Launched(i)'
      BY <1>1, <1>2, <1>a, <1>e DEF Launched
    <3>3. Unnamed(i)'
      BY <1>1, <1>2, <1>a, <1>e DEF Unnamed, Stopping, At, Staged
    <3> QED BY <2>3, <3>1, <3>2, <3>3
  <2> QED BY <2>2, <2>3
<1>6. \A j \in Inst : Lone(j)'
  <2> SUFFICES ASSUME NEW j \in Inst, Alive(j)', dhist'.alone[j]
               PROVE  Lone(j)'
    BY DEF Lone
  <2>1. others = {} \/ j \notin others \cup {i}
    BY <1>3
  <2>2. j = i
    <3> SUFFICES ASSUME j # i
                 PROVE  FALSE
      OBVIOUS
    <3>1. Alive(j)
      BY <1>1 DEF Alive
    <3> QED BY <2>1, <3>1
  <2>3. \A l \in Inst \ {i} : ~Alive(l)
    BY <2>1, <2>2
  <2>4. \A l \in Inst \ {i} : ~Alive(l)'
    BY <1>1, <2>3 DEF Alive
  <2>5. x.sock = "none"
    BY <1>a, <1>e DEF Staged
  <2> QED BY <1>1, <1>e, <2>2, <2>4, <2>5 DEF Lone, At
<1> QED BY <1>4, <1>5, <1>6 DEF DaemonSound

(* What the launcher reads is what its process was told, or that it ended. *)
LEMMA LauncherReadsSound ==
    ASSUME DaemonSound, NEW i \in Inst, LauncherReads(i)
    PROVE  DaemonSound'
<1>1. /\ UNCHANGED <<dproc, dpid, dpath, dkind, dhist>> /\ dlaunch[i] = "waiting"
      /\ dlaunch \in [Inst -> {"none", "waiting", "ok", "failed"}]
      /\ \E w \in {"ok", "failed"} :
            /\ dlaunch' = [dlaunch EXCEPT ![i] = w]
            /\ w = "ok" => dproc[i].told
            /\ w = "failed" => ~Alive(i) /\ ~dproc[i].told
      /\ dproc[i].at \in Stages
  BY DEF LauncherReads, DaemonSound, DaemonTypes, DaemonProcs
<1>2. DaemonTypes'
  BY <1>1 DEF DaemonSound, DaemonTypes
<1>3. \A j \in Inst : Staged(j)' /\ Lone(j)' /\ Unnamed(j)'
  BY <1>1 DEF DaemonSound, Staged, Lone, Unnamed, Alive, Stopping, NamedInPidFile, At
<1>4. ASSUME NEW j \in Inst
      PROVE  Launched(j)'
  <2>1. Launched(j)
    BY DEF DaemonSound
  <2>2. CASE j # i
    BY <1>1, <2>1, <2>2 DEF Launched
  <2>3. CASE j = i
    BY <1>1, <2>1, <2>3 DEF Launched, Alive, Stages, Startup, Ends
  <2> QED BY <2>2, <2>3
<1> QED BY <1>2, <1>3, <1>4 DEF DaemonSound

(* No process has been started. *)
LEMMA DaemonStarts == DaemonInit => DaemonSound
<1> SUFFICES ASSUME DaemonInit
             PROVE  DaemonSound
  OBVIOUS
<1>1. /\ \A i \in Inst : dproc[i] = NewProc /\ dlaunch[i] = "none" /\ dpid.text[i] = Nobody
      /\ dpid.name = Nobody
  BY DEF DaemonInit
<1>2. DaemonTypes
  BY DEF DaemonInit, NewProc, DaemonTypes, DaemonProcs, Stages
<1>3. ASSUME NEW i \in Inst
      PROVE  Staged(i) /\ Lone(i) /\ Unnamed(i) /\ Launched(i)
  BY <1>1 DEF NewProc, Staged, Lone, Unnamed, Launched, Stopping, NamedInPidFile, At, Alive,
              Startup, Ends
<1> QED BY <1>2, <1>3 DEF DaemonSound

(* Every step keeps what is sound. *)
LEMMA DaemonSteps == DaemonSound /\ [DaemonNext]_daemonVars => DaemonSound'
<1> SUFFICES ASSUME DaemonSound, [DaemonNext]_daemonVars
             PROVE  DaemonSound'
  OBVIOUS
<1>1. CASE UNCHANGED daemonVars
  BY <1>1 DEF daemonVars, DaemonSound, DaemonTypes, Staged, Lone, Unnamed, Launched, Alive, Stopping,
              NamedInPidFile, At
<1>2. CASE DaemonNext
  BY <1>2, StartSound, OpenPidFileSound, ProbeSound, BindSound, ListenSound, InitPluginsSound,
     DaemonizeSound, WritePidSound, LogOpenSound, SetDefaultsSound, NotifySound, StartupFailsSound,
     LauncherReadsSound, SigTermSound, SigIntSound, KillSound, TrafficSound, OverloadSound,
     GracefulStartSound, LoopEndsSound, FinishSound DEF DaemonNext
<1> QED BY <1>1, <1>2

(* What is sound lets everybody find the right server. *)
LEMMA SoundIsFound == DaemonSound => DaemonInv
<1> SUFFICES ASSUME DaemonSound
             PROVE  DaemonInv
  OBVIOUS
<1>1. ServerFound
  <2> SUFFICES ASSUME NEW i \in Inst, At(i, "loop"), dhist.alone[i], dproc[i].sock = "listening"
               PROVE  NamedInPidFile(i) /\ (dkind = "unix" => dpath = i)
    BY DEF ServerFound
  <2>1. Lone(i) /\ Alive(i) /\ ~Stopping(i)
    BY DEF DaemonSound, Alive, Stopping, At
  <2>2. dpid.name \in Inst /\ dpid.text[dpid.name] = i
    BY <2>1 DEF Lone, At
  <2> QED BY <2>1, <2>2, DaemonAssumption DEF Lone, NamedInPidFile, At
<1>2. StopRemovesPidFile
  BY DEF DaemonSound, StopRemovesPidFile, Unnamed
<1>3. LauncherKnows
  BY DEF DaemonSound, LauncherKnows, Launched
<1> QED BY <1>1, <1>2, <1>3 DEF DaemonInv

(* Whoever looks for a server finds the right one, whatever other processes are started, fail, are
   told to stop or are killed: a lone server is named in the pid file and owns its socket, a server
   that was stopped leaves no file with its number unless signals met, and the launcher reports
   what became of the process it started. *)
THEOREM TheRightServerIsFound == DaemonSpec => []DaemonInv
<1>1. DaemonInit => DaemonSound
  BY DaemonStarts
<1>2. DaemonSound /\ [DaemonNext]_daemonVars => DaemonSound'
  BY DaemonSteps
<1>3. DaemonSound => DaemonInv
  BY SoundIsFound
<1> QED BY <1>1, <1>2, <1>3, PTL DEF DaemonSpec

-----------------------------------------------------------------------------
(* The logs *)

(* The workers and the entries. *)
LogWorkers ==
    [up : BOOLEAN, hup : BOOLEAN, failed : BOOLEAN, fd : [Logs -> Nat], buf : [Logs -> Seq(Nat)],
     emode : {"file", "syslog"}, efd : Nat]
LogEntries == [w : LWorker, times : Nat, lost : BOOLEAN]
LogTypes == lgen \in Nat \ {0} /\ lw \in [LWorker -> LogWorkers] /\ lentry \in Seq(LogEntries)

(* An entry is in one buffer at most. *)
InBuffers == {n \in Nat : Buffered(n)}
BufferedOnce ==
    \A v, w \in LWorker, l, m \in Logs, n \in Nat :
        n \in Ids(lw[v].buf[l]) /\ n \in Ids(lw[w].buf[m]) => v = w /\ l = m

(* What LoggedOnce says of entries es of which those in B are still buffered. *)
Accounted(es, B) ==
    \A n \in DOMAIN es : IF n \in B THEN es[n].times = 0 /\ ~es[n].lost
                         ELSE es[n].times + (IF es[n].lost THEN 1 ELSE 0) = 1

LogSound ==
    /\ LogTypes /\ BufferedOnce
    /\ InBuffers \subseteq DOMAIN lentry
    /\ Accounted(lentry, InBuffers)
    /\ NoWriteToRotated

(* The names in a buffer. *)
LEMMA BufferIds ==
    ASSUME NEW buf \in Seq(Nat)
    PROVE  /\ Ids(buf) \subseteq Nat /\ Ids(<<>>) = {}
           /\ \A n \in Nat : Append(buf, n) \in Seq(Nat) /\ Ids(Append(buf, n)) = Ids(buf) \cup {n}
<1>1. Ids(buf) \subseteq Nat /\ Ids(<<>>) = {}
  BY DEF Ids
<1>2. ASSUME NEW n \in Nat
      PROVE  Append(buf, n) \in Seq(Nat) /\ Ids(Append(buf, n)) = Ids(buf) \cup {n}
  <2> DEFINE b == Append(buf, n)
             k == Len(buf)
  <2>1. /\ b \in Seq(Nat) /\ Len(b) = k + 1 /\ k \in Nat
        /\ \A i \in 1 .. k : b[i] = buf[i]
        /\ b[k + 1] = n
    OBVIOUS
  <2> HIDE DEF b
  <2>2. Ids(b) = {b[i] : i \in 1 .. k + 1} /\ Ids(buf) = {buf[i] : i \in 1 .. k}
    BY <2>1 DEF Ids
  <2> HIDE DEF k
  <2>3. Ids(b) = Ids(buf) \cup {n}
    BY <2>1, <2>2
  <2> QED BY <2>1, <2>3 DEF b
<1> QED BY <1>1, <1>2

(* An entry that leaves its buffer is written or given up, once (accesslog_write_all). *)
LEMMA FlushAccounts ==
    ASSUME NEW es \in Seq(LogEntries), NEW B, NEW D \in SUBSET B, Accounted(es, B), NEW ok \in BOOLEAN
    PROVE  LET y == accesslog_write_all(es, D, ok)
           IN  y \in Seq(LogEntries) /\ Len(y) = Len(es) /\ Accounted(y, B \ D)
<1> DEFINE y == accesslog_write_all(es, D, ok)
           k == Len(es)
<1>1. k \in Nat /\ DOMAIN es = 1 .. k /\ \A n \in 1 .. k : es[n] \in LogEntries
  OBVIOUS
<1> HIDE DEF k
<1>2. /\ DOMAIN y = 1 .. k
      /\ \A n \in 1 .. k :
            y[n] = IF n \in D
                   THEN IF ok THEN [es[n] EXCEPT !.times = @ + 1] ELSE [es[n] EXCEPT !.lost = TRUE]
                   ELSE es[n]
      /\ y = [n \in 1 .. k |-> y[n]]
  BY <1>1 DEF accesslog_write_all, Written, GivenUp
<1> HIDE DEF y
<1>3. ASSUME NEW n \in 1 .. k
      PROVE  /\ y[n] \in LogEntries
             /\ IF n \in B \ D THEN y[n].times = 0 /\ ~y[n].lost
                ELSE y[n].times + (IF y[n].lost THEN 1 ELSE 0) = 1
  <2>1. es[n] \in LogEntries
    BY <1>1
  <2>2. IF n \in B THEN es[n].times = 0 /\ ~es[n].lost
        ELSE es[n].times + (IF es[n].lost THEN 1 ELSE 0) = 1
    BY <1>1 DEF Accounted
  <2>3. CASE n \notin D
    BY <1>2, <2>1, <2>2, <2>3
  <2>4. CASE n \in D /\ ok
    <3>1. y[n] = [es[n] EXCEPT !.times = @ + 1]
      BY <1>2, <2>4
    <3>2. y[n] \in LogEntries /\ y[n].times = es[n].times + 1 /\ y[n].lost = es[n].lost
      BY <3>1, <2>1 DEF LogEntries
    <3> QED BY <2>2, <2>4, <3>2
  <2>5. CASE n \in D /\ ~ok
    <3>1. y[n] = [es[n] EXCEPT !.lost = TRUE]
      BY <1>2, <2>5
    <3>2. y[n] \in LogEntries /\ y[n].times = es[n].times /\ y[n].lost
      BY <3>1, <2>1 DEF LogEntries
    <3> QED BY <2>2, <2>5, <3>2
  <2> QED BY <2>3, <2>4, <2>5
<1>4. y \in [1 .. k -> LogEntries]
  BY <1>2, <1>3
<1>5. y \in Seq(LogEntries) /\ Len(y) = k
  BY <1>1, <1>4, SeqDef
<1>6. Accounted(y, B \ D)
  BY <1>2, <1>3 DEF Accounted
<1> QED BY <1>5, <1>6 DEF y, k

(* A request is logged (log_access_write): its entry is buffered, or given up at once. *)
LEMMA EntryAccounts ==
    ASSUME NEW es \in Seq(LogEntries), NEW B \in SUBSET DOMAIN es, Accounted(es, B),
           NEW w \in LWorker, NEW lost \in BOOLEAN
    PROVE  LET y == Append(es, [w |-> w, times |-> 0, lost |-> lost])
           IN  /\ y \in Seq(LogEntries) /\ Len(y) = Len(es) + 1
               /\ Accounted(y, IF lost THEN B ELSE B \cup {Len(es) + 1})
<1> DEFINE e == [w |-> w, times |-> 0, lost |-> lost]
           y == Append(es, e)
           k == Len(es)
<1>1. e \in LogEntries /\ e.times = 0 /\ e.lost = lost
  BY DEF LogEntries
<1> HIDE DEF e
<1>2. /\ y \in Seq(LogEntries) /\ k \in Nat /\ Len(y) = k + 1 /\ DOMAIN y = 1 .. k + 1
      /\ DOMAIN es = 1 .. k
      /\ \A n \in 1 .. k : y[n] = es[n]
      /\ y[k + 1] = e
  BY <1>1
<1> HIDE DEF y, k
<1>3. Accounted(y, IF lost THEN B ELSE B \cup {k + 1})
  <2> DEFINE C == IF lost THEN B ELSE B \cup {k + 1}
  <2> SUFFICES ASSUME NEW n \in 1 .. k + 1
               PROVE  IF n \in C THEN y[n].times = 0 /\ ~y[n].lost
                      ELSE y[n].times + (IF y[n].lost THEN 1 ELSE 0) = 1
    BY <1>2 DEF Accounted
  <2>1. CASE n \in 1 .. k
    <3>1. n \in C <=> n \in B
      BY <2>1, <1>2
    <3>2. IF n \in B THEN es[n].times = 0 /\ ~es[n].lost
          ELSE es[n].times + (IF es[n].lost THEN 1 ELSE 0) = 1
      BY <2>1, <1>2 DEF Accounted
    <3> QED BY <3>1, <3>2, <2>1, <1>2
  <2>2. CASE n = k + 1
    <3>1. n \notin B /\ (n \in C <=> ~lost)
      BY <2>2, <1>2
    <3> QED BY <3>1, <2>2, <1>1, <1>2
  <2> QED BY <2>1, <2>2, <1>2
<1> QED BY <1>2, <1>3 DEF y, k, e

(* A worker empties the buffers of the logs ls, or puts one more entry into one of them. *)
LEMMA BuffersEmptied ==
    ASSUME LogTypes, BufferedOnce, NEW w \in LWorker, NEW ls \in SUBSET Logs,
           \A v \in LWorker : v # w => lw'[v].buf = lw[v].buf,
           \A l \in Logs : lw'[w].buf[l] = IF l \in ls THEN <<>> ELSE lw[w].buf[l]
    PROVE  /\ BufferedOnce' /\ InBuffers' = InBuffers \ Flushed(w, ls)
           /\ Flushed(w, ls) \subseteq InBuffers
<1>1. \A v \in LWorker, l \in Logs : Ids(lw[v].buf[l]) \subseteq Nat
  BY BufferIds DEF LogTypes, LogWorkers
<1>2. \A v \in LWorker, l \in Logs :
          Ids(lw'[v].buf[l]) = IF v = w /\ l \in ls THEN {} ELSE Ids(lw[v].buf[l])
  BY BufferIds, EmptySeq
<1>3. Flushed(w, ls) \subseteq InBuffers
  BY <1>1 DEF Flushed, InBuffers, Buffered
<1>4. BufferedOnce'
  BY <1>1, <1>2 DEF BufferedOnce
<1>5. \A n \in Nat : Buffered(n)' <=> Buffered(n) /\ n \notin Flushed(w, ls)
  BY <1>1, <1>2 DEF Buffered, BufferedOnce, Flushed
<1> QED BY <1>3, <1>4, <1>5 DEF InBuffers
(* An entry that is new goes to the end of one buffer. *)
LEMMA BufferGrows ==
    ASSUME LogTypes, BufferedOnce, NEW w \in LWorker, NEW l \in Logs, NEW id \in Nat,
           id \notin InBuffers,
           \A v \in LWorker, m \in Logs : v # w \/ m # l => lw'[v].buf[m] = lw[v].buf[m],
           lw'[w].buf[l] = Append(lw[w].buf[l], id)
    PROVE  BufferedOnce' /\ InBuffers' = InBuffers \cup {id}
<1>1. \A v \in LWorker, m \in Logs : lw[v].buf[m] \in Seq(Nat) /\ Ids(lw[v].buf[m]) \subseteq Nat
  BY BufferIds DEF LogTypes, LogWorkers
<1>2. \A v \in LWorker, m \in Logs :
          Ids(lw'[v].buf[m]) = IF v = w /\ m = l THEN Ids(lw[v].buf[m]) \cup {id} ELSE Ids(lw[v].buf[m])
  BY <1>1, BufferIds
<1>3. \A v \in LWorker, m \in Logs : id \notin Ids(lw[v].buf[m])
  BY DEF InBuffers, Buffered
<1>4. BufferedOnce'
  <2> SUFFICES ASSUME NEW u \in LWorker, NEW v \in LWorker, NEW m \in Logs, NEW k \in Logs,
                      NEW n \in Nat,
                      n \in Ids(lw'[u].buf[m]), n \in Ids(lw'[v].buf[k])
               PROVE  u = v /\ m = k
    BY DEF BufferedOnce
  <2>1. CASE n = id
    <3>1. u = w /\ m = l
      BY <1>2, <1>3, <2>1
    <3>2. v = w /\ k = l
      BY <1>2, <1>3, <2>1
    <3> QED BY <3>1, <3>2
  <2>2. CASE n # id
    <3>1. n \in Ids(lw[u].buf[m]) /\ n \in Ids(lw[v].buf[k])
      BY <1>2, <2>2
    <3> QED BY <3>1 DEF BufferedOnce
  <2> QED BY <2>1, <2>2
<1>5. ASSUME NEW n \in Nat
      PROVE  Buffered(n)' <=> Buffered(n) \/ n = id
  <2>1. id \in Ids(lw'[w].buf[l])
    BY <1>2
  <2>2. \A v \in LWorker, m \in Logs : n \in Ids(lw'[v].buf[m]) <=>
            n \in Ids(lw[v].buf[m]) \/ (v = w /\ m = l /\ n = id)
    BY <1>2
  <2> QED BY <2>1, <2>2 DEF Buffered
<1> QED BY <1>4, <1>5 DEF InBuffers

(* What a step does to the entries and the buffers: it flushes the logs ls of worker w. *)
LEMMA FlushSound ==
    ASSUME LogSound, NEW w \in LWorker, NEW ls \in SUBSET Logs, NEW ok \in BOOLEAN,
           lentry' = accesslog_write_all(lentry, Flushed(w, ls), ok),
           LogTypes /\ lw' \in [LWorker -> LogWorkers] /\ lgen' = lgen,
           \A v \in LWorker : v # w => lw'[v].buf = lw[v].buf,
           \A l \in Logs : lw'[w].buf[l] = IF l \in ls THEN <<>> ELSE lw[w].buf[l]
    PROVE  /\ LogTypes' /\ BufferedOnce'
           /\ InBuffers' \subseteq DOMAIN lentry' /\ Accounted(lentry', InBuffers')
<1>1. /\ BufferedOnce' /\ InBuffers' = InBuffers \ Flushed(w, ls)
      /\ Flushed(w, ls) \subseteq InBuffers
  BY BuffersEmptied DEF LogSound
<1>2. lentry' \in Seq(LogEntries) /\ Len(lentry') = Len(lentry) /\ Accounted(lentry', InBuffers')
  BY <1>1, FlushAccounts DEF LogSound, LogTypes
<1>3. DOMAIN lentry' = DOMAIN lentry
  BY <1>2, LenProperties DEF LogTypes
<1> QED BY <1>1, <1>2, <1>3 DEF LogSound, LogTypes

(* log_access_write() *)
LEMMA WriteSound ==
    ASSUME LogSound, NEW w \in LWorker, NEW l \in Logs, NEW newts \in BOOLEAN, NEW ok \in BOOLEAN,
           log_access_write(w, l, newts, ok)
    PROVE  LogSound'
<1> DEFINE id == Len(lentry) + 1
           b == lw[w].buf[l]
           grow(lost) == Append(lentry, [w |-> w, times |-> 0, lost |-> lost])
<1>1. /\ LogTypes /\ lentry \in Seq(LogEntries) /\ lw \in [LWorker -> LogWorkers] /\ b \in Seq(Nat)
      /\ UNCHANGED <<lconf, lgen>> /\ InBuffers \subseteq DOMAIN lentry /\ Accounted(lentry, InBuffers)
      /\ BufferedOnce
  BY DEF LogSound, LogTypes, LogWorkers, log_access_write
<1>2. /\ id \in Nat /\ DOMAIN lentry = 1 .. Len(lentry) /\ Len(lentry) \in Nat
      /\ id \notin InBuffers
  BY <1>1
<1>3. ASSUME NEW lost \in BOOLEAN
      PROVE  /\ grow(lost) \in Seq(LogEntries) /\ Len(grow(lost)) = id
             /\ Accounted(grow(lost), IF lost THEN InBuffers ELSE InBuffers \cup {id})
  BY <1>1, EntryAccounts
<1>4. ASSUME NEW e \in Seq(LogEntries), Len(e) = id
      PROVE  DOMAIN e = 1 .. id /\ DOMAIN lentry \subseteq 1 .. id /\ id \in 1 .. id
  BY <1>2, <1>4, LenProperties
<1>5. CASE lconf[l] # "syslog" /\ lw[w].fd[l] = LogNoFd
  <2>1. lentry' = grow(TRUE) /\ UNCHANGED lw
    BY <1>5 DEF log_access_write
  <2>2. InBuffers' = InBuffers
    BY <2>1 DEF InBuffers, Buffered
  <2> DEFINE g == grow(TRUE)
  <2>3. g \in Seq(LogEntries) /\ Len(g) = id /\ Accounted(g, InBuffers)
    BY <1>3
  <2> HIDE DEF g
  <2>4. LogTypes' /\ lentry' = g
    BY <1>1, <2>1, <2>3 DEF LogTypes, g
  <2>5. BufferedOnce' /\ NoWriteToRotated'
    BY <1>1, <2>1 DEF LogSound, BufferedOnce, NoWriteToRotated
  <2> QED BY <1>1, <1>4, <2>2, <2>3, <2>4, <2>5 DEF LogSound
<1>6. CASE lconf[l] = "syslog"
  <2> DEFINE g == grow(FALSE)
  <2>1. lentry' = Written(g, {id}) /\ UNCHANGED lw
    BY <1>6 DEF log_access_write
  <2>2. g \in Seq(LogEntries) /\ Len(g) = id /\ Accounted(g, InBuffers \cup {id})
    BY <1>3
  <2> HIDE DEF g
  <2>3. lentry' = accesslog_write_all(g, {id}, TRUE)
    BY <2>1 DEF accesslog_write_all
  <2>4. /\ lentry' \in Seq(LogEntries) /\ Len(lentry') = id
        /\ Accounted(lentry', (InBuffers \cup {id}) \ {id})
    BY <2>2, <2>3, FlushAccounts
  <2>5. InBuffers' = InBuffers /\ (InBuffers \cup {id}) \ {id} = InBuffers
    BY <1>2, <2>1 DEF InBuffers, Buffered
  <2>6. LogTypes' /\ BufferedOnce' /\ NoWriteToRotated'
    BY <1>1, <2>1, <2>4 DEF LogSound, LogTypes, BufferedOnce, NoWriteToRotated
  <2> QED BY <1>1, <1>4, <2>4, <2>5, <2>6 DEF LogSound
<1>7. CASE /\ ~(lconf[l] # "syslog" /\ lw[w].fd[l] = LogNoFd) /\ lconf[l] # "syslog"
           /\ lconf[l] = "pipe" \/ newts \/ Len(Append(b, id)) >= FlushAt
  <2> DEFINE g == grow(FALSE)
             D == Ids(Append(b, id))
  <2>1. lentry' = accesslog_write_all(g, D, ok) /\ lw' = [lw EXCEPT ![w].buf[l] = <<>>]
    BY <1>7 DEF log_access_write
  <2>2. g \in Seq(LogEntries) /\ Len(g) = id /\ Accounted(g, InBuffers \cup {id})
    BY <1>3
  <2> HIDE DEF g
  <2>3. D = Ids(b) \cup {id} /\ Ids(b) \subseteq Nat
    BY <1>1, <1>2, BufferIds
  <2>4. /\ lw' \in [LWorker -> LogWorkers]
        /\ \A v \in LWorker : v # w => lw'[v] = lw[v]
        /\ \A m \in Logs : lw'[w].buf[m] = IF m \in {l} THEN <<>> ELSE lw[w].buf[m]
        /\ lw'[w].up = lw[w].up /\ lw'[w].hup = lw[w].hup /\ lw'[w].failed = lw[w].failed
        /\ lw'[w].fd = lw[w].fd /\ lw'[w].emode = lw[w].emode /\ lw'[w].efd = lw[w].efd
    <3>1. lw[w] \in LogWorkers /\ lw'[w] = [lw[w] EXCEPT !.buf[l] = <<>>]
      BY <1>1, <2>1
    <3> DEFINE bs == [lw[w].buf EXCEPT ![l] = <<>>]
    <3>2. /\ lw[w].buf \in [Logs -> Seq(Nat)] /\ <<>> \in Seq(Nat)
          /\ bs \in [Logs -> Seq(Nat)] /\ \A m \in Logs : bs[m] = IF m = l THEN <<>> ELSE lw[w].buf[m]
      BY <3>1 DEF LogWorkers
    <3>3. lw'[w] = [lw[w] EXCEPT !.buf = bs]
      BY <3>1
    <3> HIDE DEF bs
    <3>4. lw'[w] \in LogWorkers /\ lw'[w].buf = bs
      BY <3>1, <3>2, <3>3 DEF LogWorkers
    <3> QED BY <1>1, <2>1, <3>1, <3>2, <3>3, <3>4 DEF LogWorkers
  <2>5. /\ BufferedOnce' /\ InBuffers' = InBuffers \ Flushed(w, {l})
        /\ Flushed(w, {l}) \subseteq InBuffers
    BY <1>1, <2>4, BuffersEmptied
  <2>6. Flushed(w, {l}) = Ids(b)
    BY DEF Flushed
  <2> HIDE DEF D
  <2>7. D \subseteq InBuffers \cup {id} /\ (InBuffers \cup {id}) \ D = InBuffers'
    BY <1>2, <2>3, <2>5, <2>6
  <2>8. lentry' \in Seq(LogEntries) /\ Len(lentry') = id /\ Accounted(lentry', InBuffers')
    <3>1. D \in SUBSET (InBuffers \cup {id})
      BY <2>7
    <3>2. /\ accesslog_write_all(g, D, ok) \in Seq(LogEntries)
          /\ Len(accesslog_write_all(g, D, ok)) = Len(g)
          /\ Accounted(accesslog_write_all(g, D, ok), (InBuffers \cup {id}) \ D)
      BY <2>2, <3>1, FlushAccounts
    <3> QED BY <2>1, <2>2, <2>7, <3>2
  <2>9. LogTypes'
    BY <1>1, <2>4, <2>8 DEF LogTypes
  <2>10. NoWriteToRotated'
    BY <1>1, <2>4 DEF LogSound, NoWriteToRotated
  <2> QED BY <1>1, <1>4, <2>5, <2>8, <2>9, <2>10 DEF LogSound
<1>8. CASE /\ ~(lconf[l] # "syslog" /\ lw[w].fd[l] = LogNoFd) /\ lconf[l] # "syslog"
           /\ ~(lconf[l] = "pipe" \/ newts \/ Len(Append(b, id)) >= FlushAt)
  <2>1. lentry' = grow(FALSE) /\ lw' = [lw EXCEPT ![w].buf[l] = Append(b, id)]
    BY <1>8 DEF log_access_write
  <2>2. lentry' \in Seq(LogEntries) /\ Len(lentry') = id /\ Accounted(lentry', InBuffers \cup {id})
    BY <1>3, <2>1
  <2>3. Append(b, id) \in Seq(Nat)
    BY <1>1, <1>2, BufferIds
  <2>4. /\ lw' \in [LWorker -> LogWorkers]
        /\ \A v \in LWorker : v # w => lw'[v] = lw[v]
        /\ \A m \in Logs : lw'[w].buf[m] = IF m = l THEN Append(b, id) ELSE lw[w].buf[m]
        /\ lw'[w].up = lw[w].up /\ lw'[w].hup = lw[w].hup /\ lw'[w].failed = lw[w].failed
        /\ lw'[w].fd = lw[w].fd /\ lw'[w].emode = lw[w].emode /\ lw'[w].efd = lw[w].efd
    <3>1. lw[w] \in LogWorkers /\ lw'[w] = [lw[w] EXCEPT !.buf[l] = Append(b, id)]
      BY <1>1, <2>1
    <3> DEFINE c == Append(b, id)
               bs == [lw[w].buf EXCEPT ![l] = c]
    <3>2. /\ lw[w].buf \in [Logs -> Seq(Nat)]
          /\ bs \in [Logs -> Seq(Nat)]
          /\ \A m \in Logs : bs[m] = IF m = l THEN c ELSE lw[w].buf[m]
      BY <3>1, <2>3 DEF LogWorkers
    <3>3. lw'[w] = [lw[w] EXCEPT !.buf = bs] /\ \A v \in LWorker : v # w => lw'[v] = lw[v]
      BY <1>1, <2>1, <3>1
    <3>4. \A m \in Logs : bs[m] = IF m = l THEN Append(b, id) ELSE lw[w].buf[m]
      BY <3>2
    <3> HIDE DEF bs, c
    <3>5. lw'[w] \in LogWorkers /\ lw'[w].buf = bs
      BY <3>1, <3>2, <3>3 DEF LogWorkers
    <3>6. lw' \in [LWorker -> LogWorkers]
      BY <1>1, <2>1, <3>3, <3>5
    <3>7. /\ lw'[w].up = lw[w].up /\ lw'[w].hup = lw[w].hup /\ lw'[w].failed = lw[w].failed
          /\ lw'[w].fd = lw[w].fd /\ lw'[w].emode = lw[w].emode /\ lw'[w].efd = lw[w].efd
      BY <3>1, <3>3 DEF LogWorkers
    <3> QED BY <3>3, <3>4, <3>5, <3>6, <3>7
  <2>5. BufferedOnce' /\ InBuffers' = InBuffers \cup {id}
    <3>1. /\ \A v \in LWorker, m \in Logs : v # w \/ m # l => lw'[v].buf[m] = lw[v].buf[m]
          /\ lw'[w].buf[l] = Append(lw[w].buf[l], id)
      BY <2>4
    <3> HIDE DEF id
    <3> QED BY <1>1, <1>2, <3>1, BufferGrows
  <2>6. LogTypes' /\ NoWriteToRotated'
    BY <1>1, <2>2, <2>4 DEF LogSound, LogTypes, NoWriteToRotated
  <2> QED BY <1>1, <1>4, <2>2, <2>5, <2>6 DEF LogSound
<1> QED BY <1>5, <1>6, <1>7, <1>8
(* SIGHUP is handled (log_access_cycle, log_error_cycle): the logs that are reached are those of
   the name again. *)
LEMMA CycleSound ==
    ASSUME LogSound, NEW w \in LWorker, NEW bad \in Logs \cup {0}, NEW ok \in BOOLEAN,
           NEW eok \in BOOLEAN, Cycle(w, bad, ok, eok)
    PROVE  LogSound'
<1> DEFINE rec == lw[w]
           reached == {l \in Logs : bad = 0 \/ l <= bad}
           done == log_access_cycle(w, bad, ok)
           calm == [done EXCEPT !.hup = FALSE]
           x == log_error_cycle(calm, eok)
           emptied == {l \in Logs : done.buf[l] = <<>>}
           fds == [l \in Logs |-> IF l \notin reached \/ lconf[l] # "file" THEN rec.fd[l]
                                  ELSE open_logfile_or_pipe(l # bad)]
           bufs == [l \in Logs |-> IF l \in reached THEN <<>> ELSE rec.buf[l]]
<1>1. /\ LogTypes /\ lw \in [LWorker -> LogWorkers] /\ lw[w] \in LogWorkers /\ UNCHANGED <<lconf, lgen>>
      /\ lw[w].up /\ lgen \in Nat \ {0}
      /\ lentry' = accesslog_write_all(lentry, Flushed(w, emptied), ok)
      /\ lw' = [lw EXCEPT ![w] = x]
  BY DEF LogSound, LogTypes, Cycle
<1>2. /\ fds \in [Logs -> Nat] /\ bufs \in [Logs -> Seq(Nat)]
      /\ bad = 0 => \A l \in Logs : lconf[l] = "file" => fds[l] = lgen
      /\ \A l \in Logs : bufs[l] = IF l \in reached THEN <<>> ELSE rec.buf[l]
  BY <1>1, LogAssumption, EmptySeq DEF LogWorkers, open_logfile_or_pipe, LogNoFd
<1>3. done = [rec EXCEPT !.fd = fds, !.buf = bufs, !.failed = bad # 0]
  BY DEF log_access_cycle
<1> HIDE DEF fds, bufs, done
<1>4. /\ done \in LogWorkers /\ done.fd = fds /\ done.buf = bufs /\ done.failed = (bad # 0)
      /\ done.up = rec.up /\ done.emode = rec.emode /\ done.efd = rec.efd
  BY <1>1, <1>2, <1>3 DEF LogWorkers
<1>5. /\ calm \in LogWorkers /\ calm.fd = fds /\ calm.buf = bufs /\ calm.failed = (bad # 0)
      /\ calm.up = rec.up /\ calm.emode = rec.emode /\ ~calm.hup
  BY <1>4 DEF LogWorkers
<1> HIDE DEF calm
<1>6. /\ x \in LogWorkers /\ x.fd = fds /\ x.buf = bufs /\ x.failed = (bad # 0)
      /\ x.up = rec.up /\ ~x.hup
      /\ x.emode = "file" => x.efd = lgen
  <2>1. CASE calm.emode # "file"
    BY <1>5, <2>1 DEF log_error_cycle
  <2>2. CASE calm.emode = "file"
    <3>1. x = [calm EXCEPT !.efd = open_logfile_or_pipe(eok), !.emode = IF eok THEN @ ELSE "syslog"]
      BY <2>2 DEF log_error_cycle
    <3>2. open_logfile_or_pipe(eok) \in Nat /\ (eok => open_logfile_or_pipe(eok) = lgen)
      BY <1>1 DEF open_logfile_or_pipe, LogNoFd
    <3> QED BY <1>5, <2>2, <3>1, <3>2 DEF LogWorkers
  <2> QED BY <2>1, <2>2
<1> HIDE DEF x
<1>7. /\ lw' \in [LWorker -> LogWorkers] /\ lw'[w] = x
      /\ \A v \in LWorker : v # w => lw'[v] = lw[v]
  BY <1>1, <1>6
<1>8. \A l \in Logs : lw'[w].buf[l] = IF l \in emptied THEN <<>> ELSE lw[w].buf[l]
  BY <1>2, <1>4, <1>6, <1>7
<1> HIDE DEF emptied
<1>9. emptied \in SUBSET Logs
  BY DEF emptied
<1>10. /\ LogTypes' /\ BufferedOnce'
       /\ InBuffers' \subseteq DOMAIN lentry' /\ Accounted(lentry', InBuffers')
  BY <1>1, <1>7, <1>8, <1>9, FlushSound
<1>11. NoWriteToRotated'
  <2> SUFFICES ASSUME NEW v \in LWorker, lw'[v].up /\ ~lw'[v].hup
               PROVE  /\ ~lw'[v].failed => \A l \in Logs : lconf[l] = "file" => lw'[v].fd[l] = lgen
                      /\ lw'[v].emode = "file" => lw'[v].efd = lgen
    BY <1>1 DEF NoWriteToRotated
  <2>1. CASE v = w
    BY <1>2, <1>6, <1>7, <2>1
  <2>2. CASE v # w
    BY <1>7, <2>2 DEF LogSound, NoWriteToRotated
  <2> QED BY <2>1, <2>2
<1> QED BY <1>10, <1>11 DEF LogSound

(* A worker ends, with its buffers written (mod_accesslog_free) or lost. *)
LEMMA GoneSound ==
    ASSUME LogSound, NEW w \in LWorker, NEW ok \in BOOLEAN, Gone(w),
           lentry' = accesslog_write_all(lentry, Flushed(w, Logs), ok), UNCHANGED <<lconf, lgen>>
    PROVE  LogSound'
<1> DEFINE none == [l \in Logs |-> <<>>]
<1>1. /\ LogTypes /\ lw \in [LWorker -> LogWorkers] /\ lw[w] \in LogWorkers
  BY DEF LogSound, LogTypes
<1>2. none \in [Logs -> Seq(Nat)] /\ \A l \in Logs : none[l] = <<>>
  BY EmptySeq
<1>3. lw' = [lw EXCEPT ![w] = [lw[w] EXCEPT !.up = FALSE, !.buf = none]]
  BY <1>1 DEF Gone
<1> HIDE DEF none
<1> DEFINE x == [lw[w] EXCEPT !.up = FALSE, !.buf = none]
<1>4. x \in LogWorkers /\ ~x.up /\ x.buf = none
  BY <1>1, <1>2 DEF LogWorkers
<1>5. lw' = [lw EXCEPT ![w] = x]
  BY <1>3
<1> HIDE DEF x
<1>6. /\ lw' \in [LWorker -> LogWorkers] /\ lw'[w] = x
      /\ \A v \in LWorker : v # w => lw'[v] = lw[v]
  BY <1>1, <1>4, <1>5
<1>7. \A l \in Logs : lw'[w].buf[l] = IF l \in Logs THEN <<>> ELSE lw[w].buf[l]
  BY <1>2, <1>4, <1>6
<1>8. /\ LogTypes' /\ BufferedOnce'
      /\ InBuffers' \subseteq DOMAIN lentry' /\ Accounted(lentry', InBuffers')
  BY <1>1, <1>6, <1>7, FlushSound
<1>9. NoWriteToRotated'
  BY <1>4, <1>6 DEF LogSound, NoWriteToRotated
<1> QED BY <1>8, <1>9 DEF LogSound

(* logrotate: nobody has heard of it yet, everybody is told. *)
LEMMA RotateSound ==
    ASSUME LogSound, Rotate
    PROVE  LogSound'
<1>1. /\ LogTypes /\ lw \in [LWorker -> LogWorkers] /\ lgen' = lgen + 1 /\ UNCHANGED <<lconf, lentry>>
      /\ lw' = [w \in LWorker |-> IF lw[w].up THEN [lw[w] EXCEPT !.hup = TRUE] ELSE lw[w]]
  BY DEF LogSound, LogTypes, Rotate
<1>2. ASSUME NEW w \in LWorker
      PROVE  /\ lw'[w] \in LogWorkers /\ lw'[w].buf = lw[w].buf
             /\ lw'[w].up => lw'[w].hup
  <2>1. lw[w] \in LogWorkers
    BY <1>1
  <2>2. CASE lw[w].up
    <3>1. lw'[w] = [lw[w] EXCEPT !.hup = TRUE]
      BY <1>1, <2>2
    <3> QED BY <2>1, <3>1 DEF LogWorkers
  <2>3. CASE ~lw[w].up
    BY <1>1, <2>1, <2>3
  <2> QED BY <2>2, <2>3
<1>3. LogTypes'
  BY <1>1, <1>2 DEF LogTypes
<1>4. InBuffers' = InBuffers
  BY <1>2 DEF InBuffers, Buffered
<1>5. BufferedOnce'
  BY <1>2 DEF LogSound, BufferedOnce
<1>6. NoWriteToRotated'
  BY <1>2 DEF NoWriteToRotated
<1> QED BY <1>1, <1>3, <1>4, <1>5, <1>6 DEF LogSound

(* Nothing is logged yet. *)
LEMMA LogStarts ==
    ASSUME LogInit
    PROVE  LogSound
<1>1. \A w \in LWorker, l \in Logs : lw[w].buf[l] = <<>>
  BY DEF LogInit
<1>2. LogTypes
  BY EmptySeq DEF LogInit, LogTypes, LogWorkers, LogEntries, open_logfile_or_pipe, LogNoFd
<1>3. InBuffers = {} /\ BufferedOnce
  BY <1>1 DEF InBuffers, Buffered, BufferedOnce, Ids
<1>4. lentry = <<>> /\ DOMAIN lentry = {}
  BY DEF LogInit
<1>5. NoWriteToRotated
  BY DEF LogInit, NoWriteToRotated, open_logfile_or_pipe
<1> QED BY <1>2, <1>3, <1>4, <1>5 DEF LogSound, Accounted

(* Every step keeps what is sound. *)
LEMMA LogSteps ==
    ASSUME LogSound, [LogNext]_logVars
    PROVE  LogSound'
<1>1. CASE Rotate
  BY <1>1, RotateSound
<1>2. ASSUME NEW w \in LWorker, NEW l \in Logs, NEW newts \in BOOLEAN, NEW ok \in BOOLEAN,
             log_access_write(w, l, newts, ok)
      PROVE  LogSound'
  BY <1>2, WriteSound
<1>3. ASSUME NEW w \in LWorker, NEW bad \in Logs \cup {0}, NEW ok \in BOOLEAN, NEW eok \in BOOLEAN,
             Cycle(w, bad, ok, eok)
      PROVE  LogSound'
  BY <1>3, CycleSound
<1>4. ASSUME NEW w \in LWorker, NEW ok \in BOOLEAN, mod_accesslog_free(w, ok)
      PROVE  LogSound'
  BY <1>4, GoneSound DEF mod_accesslog_free
<1>5. ASSUME NEW w \in LWorker, LogKilled(w)
      PROVE  LogSound'
  <2>1. lentry' = accesslog_write_all(lentry, Flushed(w, Logs), FALSE)
    BY <1>5 DEF LogKilled, accesslog_write_all
  <2> QED BY <1>5, <2>1, GoneSound DEF LogKilled
<1>6. CASE UNCHANGED logVars
  <2>1. InBuffers' = InBuffers
    BY <1>6 DEF logVars, InBuffers, Buffered
  <2> QED BY <1>6, <2>1 DEF logVars, LogSound, LogTypes, BufferedOnce, NoWriteToRotated
<1> QED BY <1>1, <1>2, <1>3, <1>4, <1>5, <1>6 DEF LogNext

(* Over buffers, rotations, failing writes and dying workers every request is logged once or known
   to be lost, and no worker that has heard of a rotation writes to a file that was rotated away
   (accesslog_write_all, log_access_cycle). *)
THEOREM LogsStayWhole == LogSpec => []LogInv
<1>1. LogInit => LogSound
  BY LogStarts
<1>2. LogSound /\ [LogNext]_logVars => LogSound'
  BY LogSteps
<1>3. LogSound => LogInv
  <2> SUFFICES ASSUME LogSound PROVE LoggedOnce
    BY DEF LogSound, LogInv
  <2> SUFFICES ASSUME NEW n \in DOMAIN lentry
               PROVE  \/ Buffered(n) /\ lentry[n].times = 0 /\ ~lentry[n].lost
                      \/ ~Buffered(n) /\ lentry[n].times + (IF lentry[n].lost THEN 1 ELSE 0) = 1
    BY DEF LoggedOnce
  <2>1. n \in Nat
    BY DEF LogSound, LogTypes
  <2>2. n \in InBuffers <=> Buffered(n)
    BY <2>1 DEF InBuffers
  <2> QED BY <2>2 DEF LogSound, Accounted
<1> QED BY <1>1, <1>2, <1>3, PTL DEF LogSpec

-----------------------------------------------------------------------------
(* The cache of compressed files *)

(* The jobs of the workers, and the files of the cache. *)
JobStages == {"create", "open", "deflate", "close", "serve"}
CompressJobs ==
    [at : JobStages, enc : Allowed(cmconf.allowed), sce : 1 .. MaxVersion, from : Nat,
     into : {"file", "buffer"}]
CacheFiles == [st : {"absent", "empty", "part", "full"}, v : Nat]

CompressTypes ==
    /\ plain \in Nat
    /\ cached \in [Names -> CacheFiles]
    /\ DOMAIN work = CWorker
    /\ \A w \in CWorker :
        /\ work[w].at \in JobStages \cup {"idle", "plain"}
        /\ work[w].at \in JobStages => work[w] \in CompressJobs
        /\ work[w].at = "create" => work[w].into = "file"

(* A worker that is writing a file has created it. *)
Writes(x) == x.at \in {"open", "deflate", "close"} /\ x.into = "file"
WrittenIsThere == \A w \in CWorker : Writes(work[w]) => cached[NameOf(work[w])] # Absent

CompressSound == CompressTypes /\ WrittenIsThere /\ CompressInv

(* What can be allowed is never compress, and has a name in the cache. *)
LEMMA EncodingKinds ==
    /\ \A names : Allowed(names) \subseteq AllEncodings \ {"compress"}
    /\ \A enc \in AllEncodings \ {"compress"} : CacheKind(enc) \in Kinds
    /\ "none" \notin Kinds /\ "none" \notin AllEncodings
<1>1. ASSUME NEW names PROVE Allowed(names) \subseteq AllEncodings \ {"compress"}
  <2>1. \A n : EncodingsOf(n) \subseteq AllEncodings \ {"compress"}
    BY DEF EncodingsOf, AllEncodings
  <2> QED BY <2>1 DEF Allowed
<1>2. \A enc \in AllEncodings \ {"compress"} : CacheKind(enc) \in Kinds
  BY DEF CacheKind, AllEncodings, Kinds
<1>3. "none" \notin Kinds /\ "none" \notin AllEncodings
  BY DEF Kinds, AllEncodings
<1> QED BY <1>1, <1>2, <1>3

(* The chosen encoding is one of those that match. *)
LEMMA BestMatches ==
    ASSUME NEW matched \in SUBSET (AllEncodings \ {"compress"}), matched # {}
    PROVE  Best(matched) \in matched
BY DEF Best, AllEncodings

(* A job writes the file of the cache that is named after its encoding and its version. *)
LEMMA JobHasName ==
    ASSUME NEW x \in CompressJobs
    PROVE  /\ NameOf(x) \in Names /\ NameOf(x)[1] = CacheKind(x.enc)
           /\ x.enc # "none" /\ CacheKind(x.enc) # "none"
           /\ x.enc \in Allowed(cmconf.allowed)
<1>1. x.enc \in Allowed(cmconf.allowed) /\ x.sce \in 1 .. MaxVersion
  BY DEF CompressJobs
<1>2. x.enc \in AllEncodings \ {"compress"} /\ CacheKind(x.enc) \in Kinds
  BY <1>1, EncodingKinds
<1> QED BY <1>1, <1>2, EncodingKinds DEF NameOf, Names

(* The contents of a file. *)
LEMMA Contents ==
    /\ Absent \in CacheFiles /\ Absent.st = "absent"
    /\ \A st \in {"empty", "part", "full"}, v \in Nat :
        Content(st, v) \in CacheFiles /\ Content(st, v) # Absent /\ Content(st, v).st = st
    /\ \A v \in Nat : Full(v) = Content("full", v)
BY DEF Absent, Content, Full, CacheFiles

(* A step of one worker from a job to x that leaves the cache as it is: a writer stays the writer
   of its file, or the file is complete or his who was killed. *)
LEMMA OneJobMoves ==
    ASSUME CompressSound, NEW w \in CWorker, NEW x,
           work' = [work EXCEPT ![w] = x], UNCHANGED <<plain, cached, cmconf>>,
           x.at \in JobStages \cup {"idle", "plain"},
           x.at \in JobStages => x \in CompressJobs,
           x.at = "create" => x.into = "file",
           Writes(x) => Writes(work[w]) /\ NameOf(x) = NameOf(work[w]),
           died \subseteq died',
           Writes(work[w]) /\ ~Writes(x) =>
               NameOf(work[w]) \in died' \/ cached[NameOf(work[w])].st \notin {"empty", "part"}
    PROVE  CompressTypes' /\ WrittenIsThere' /\ IncompleteIsOwned' /\ OneWriter'
<1>1. /\ CompressTypes /\ work'[w] = x /\ \A v \in CWorker : v # w => work'[v] = work[v]
      /\ DOMAIN work' = CWorker
  BY DEF CompressSound, CompressTypes
<1>2. CompressJobs' = CompressJobs
  BY DEF CompressJobs
<1>3. CompressTypes'
  BY <1>1, <1>2 DEF CompressTypes
<1>4. WrittenIsThere'
  BY <1>1 DEF CompressSound, WrittenIsThere, NameOf
<1>5. IncompleteIsOwned'
  <2> SUFFICES ASSUME NEW n \in Names, cached[n].st \in {"empty", "part"}
               PROVE  (\E v \in CWorker : Writes(work'[v]) /\ NameOf(work'[v]) = n) \/ n \in died'
    BY DEF IncompleteIsOwned, Writing, Writes
  <2>1. CASE n \in died
    BY <2>1
  <2>2. CASE n \notin died
    <3>1. PICK v \in CWorker : Writes(work[v]) /\ NameOf(work[v]) = n
      BY <2>2 DEF CompressSound, CompressInv, IncompleteIsOwned, Writing, Writes
    <3>2. CASE v # w
      BY <1>1, <3>1, <3>2
    <3>3. CASE v = w
      BY <1>1, <3>1, <3>3
    <3> QED BY <3>2, <3>3
  <2> QED BY <2>1, <2>2
<1>6. OneWriter'
  BY <1>1 DEF CompressSound, CompressInv, OneWriter, Writes
<1> QED BY <1>3, <1>4, <1>5, <1>6

(* A step of the only writer of a file, which changes that file to c; he is done with it
   when he removes it. *)
LEMMA OneFileChanges ==
    ASSUME CompressSound, NEW w \in CWorker, NEW x, NEW n \in Names, NEW c \in CacheFiles,
           work' = [work EXCEPT ![w] = x], UNCHANGED <<plain, cmconf, died>>,
           cached' = [cached EXCEPT ![n] = c],
           x.at \in JobStages \cup {"idle", "plain"},
           x.at \in JobStages => x \in CompressJobs,
           x.at = "create" => x.into = "file",
           \/ Writes(work[w]) /\ NameOf(work[w]) = n
           \/ ~Writes(work[w]) /\ cached[n] = Absent,
           \/ Writes(x) /\ NameOf(x) = n /\ c # Absent
           \/ ~Writes(x) /\ c = Absent
    PROVE  CompressTypes' /\ WrittenIsThere' /\ IncompleteIsOwned' /\ OneWriter'
<1>1. /\ CompressTypes /\ work'[w] = x /\ \A v \in CWorker : v # w => work'[v] = work[v]
      /\ DOMAIN work' = CWorker
      /\ cached' \in [Names -> CacheFiles] /\ cached'[n] = c
      /\ \A m \in Names : m # n => cached'[m] = cached[m]
  BY DEF CompressSound, CompressTypes
<1>2. CompressJobs' = CompressJobs
  BY DEF CompressJobs
<1>3. CompressTypes'
  BY <1>1, <1>2 DEF CompressTypes
<1>4. ASSUME NEW v \in CWorker, v # w, Writes(work[v])
      PROVE  NameOf(work[v]) # n /\ NameOf(work[v]) \in Names
  <2>1. NameOf(work[v]) \in Names
    BY <1>1, <1>4, JobHasName DEF CompressTypes, Writes, JobStages
  <2>2. CASE Writes(work[w]) /\ NameOf(work[w]) = n
    BY <1>4, <2>1, <2>2 DEF CompressSound, CompressInv, OneWriter, Writes
  <2>3. CASE cached[n] = Absent
    BY <1>4, <2>1, <2>3 DEF CompressSound, WrittenIsThere
  <2> QED BY <2>1, <2>2, <2>3
<1>5. WrittenIsThere'
  <2> SUFFICES ASSUME NEW v \in CWorker, Writes(work'[v])
               PROVE  cached'[NameOf(work'[v])] # Absent
    BY DEF WrittenIsThere
  <2>1. CASE v = w
    BY <1>1, <2>1
  <2>2. CASE v # w
    BY <1>1, <1>4, <2>2 DEF CompressSound, WrittenIsThere
  <2> QED BY <2>1, <2>2
<1>6. IncompleteIsOwned'
  <2> SUFFICES ASSUME NEW m \in Names, cached'[m].st \in {"empty", "part"}
               PROVE  (\E v \in CWorker : Writes(work'[v]) /\ NameOf(work'[v]) = m) \/ m \in died
    BY DEF IncompleteIsOwned, Writing, Writes
  <2>1. CASE m = n
    BY <1>1, <2>1, Contents
  <2>2. CASE m # n /\ m \notin died
    <3>1. PICK v \in CWorker : Writes(work[v]) /\ NameOf(work[v]) = m
      BY <1>1, <2>2 DEF CompressSound, CompressInv, IncompleteIsOwned, Writing, Writes
    <3>2. v # w \/ Writes(x)
      BY <2>2, <3>1
    <3>3. v # w
      BY <2>2, <3>1
    <3> QED BY <1>1, <3>1, <3>3
  <2> QED BY <2>1, <2>2
<1>7. OneWriter'
  <2> SUFFICES ASSUME NEW u \in CWorker, NEW v \in CWorker, u # v, Writes(work'[u]), Writes(work'[v])
               PROVE  NameOf(work'[u]) # NameOf(work'[v])
    BY DEF OneWriter, Writes
  <2>1. CASE u = w
    BY <1>1, <1>4, <2>1
  <2>2. CASE v = w
    BY <1>1, <1>4, <2>2
  <2>3. CASE u # w /\ v # w
    BY <1>1, <2>3 DEF CompressSound, CompressInv, OneWriter, Writes
  <2> QED BY <2>1, <2>2, <2>3
<1> QED BY <1>3, <1>5, <1>6, <1>7
(* An error after the file was created: it is removed, and the plain file is sent. *)
LEMMA GiveUpSound ==
    ASSUME CompressSound, NEW w \in CWorker, work[w].at \in {"open", "deflate", "close"}, GiveUp(w),
           UNCHANGED <<plain, died, cmconf>>
    PROVE  CompressSound'
<1> DEFINE x == [at |-> "plain"]
<1>1. /\ work' = [work EXCEPT ![w] = x] /\ x.at = "plain" /\ ~Writes(x) /\ told' = NoReply
  BY DEF GiveUp, GoOnPlain, Step, Writes
<1>2. Labelled'
  BY <1>1 DEF Labelled, NoReply, Reply
<1> HIDE DEF x
<1>3. CASE work[w].into = "file"
  <2>1. /\ Writes(work[w]) /\ NameOf(work[w]) \in Names
        /\ cached' = [cached EXCEPT ![NameOf(work[w])] = Absent]
    BY <1>3, JobHasName DEF GiveUp, CompressSound, CompressTypes, Writes, JobStages
  <2> QED BY <1>1, <1>2, <2>1, OneFileChanges, Contents DEF CompressSound, CompressInv, JobStages
<1>4. CASE work[w].into # "file"
  <2>1. UNCHANGED cached /\ ~Writes(work[w])
    BY <1>4 DEF GiveUp, Writes
  <2> QED BY <1>1, <1>2, <2>1, OneJobMoves DEF CompressSound, CompressInv, JobStages
<1> QED BY <1>3, <1>4

(* mod_compress_physical(): a job begins, or the request is left alone. *)
LEMMA RequestSound ==
    ASSUME CompressSound, NEW w \in CWorker, NEW r \in CRequests, NEW sce \in 1 .. MaxVersion,
           NEW file \in {"fits", "unfit", "error"}, mod_compress_physical(w, r, sce, file)
    PROVE  CompressSound'
<1> DEFINE matched == r.accept \cap Allowed(cmconf.allowed)
           enc == Best(matched)
           at == IF cmconf.etags /\ cmconf.cachedir THEN "create" ELSE "open"
           into == IF cmconf.etags /\ cmconf.cachedir THEN "file" ELSE "buffer"
           job == [at |-> at, enc |-> enc, sce |-> sce, from |-> 0, into |-> into]
<1>1. work[w].at = "idle" /\ ~Writes(work[w]) /\ UNCHANGED <<plain, cached, died, cmconf>>
  BY DEF mod_compress_physical, Resting, Writes
<1>2. \/ /\ work' = [work EXCEPT ![w] = [at |-> "plain"]]
         /\ told' = NoReply
      \/ /\ work' = [work EXCEPT ![w] = Resting]
         /\ told'.status # 200
      \/ /\ matched # {}
         /\ work' = [work EXCEPT ![w] = job]
         /\ told' = NoReply
  BY DEF mod_compress_physical, GoOnPlain, Step, Rest, NotModified, Reply
<1>3. Labelled'
  BY <1>2 DEF Labelled, NoReply, Reply
<1>4. CASE work' = [work EXCEPT ![w] = [at |-> "plain"]]
  <2> DEFINE x == [at |-> "plain"]
  <2>1. x.at = "plain" /\ ~Writes(x) /\ work' = [work EXCEPT ![w] = x]
    BY <1>4 DEF Writes
  <2> HIDE DEF x
  <2> QED BY <1>1, <1>3, <2>1, OneJobMoves DEF CompressSound, CompressInv, JobStages
<1>5. CASE work' = [work EXCEPT ![w] = Resting]
  <2>1. Resting.at = "idle" /\ ~Writes(Resting)
    BY DEF Resting, Writes
  <2> QED BY <1>1, <1>3, <1>5, <2>1, OneJobMoves DEF CompressSound, CompressInv, JobStages
<1>6. CASE matched # {} /\ work' = [work EXCEPT ![w] = job]
  <2>1. enc \in Allowed(cmconf.allowed)
    BY <1>6, BestMatches, EncodingKinds
  <2>2. /\ job \in CompressJobs /\ job.at \in {"create", "open"}
        /\ (job.at = "create" <=> job.into = "file")
    BY <2>1 DEF CompressJobs, JobStages
  <2> HIDE DEF job
  <2>3. ~Writes(job)
    BY <2>2 DEF Writes
  <2> QED BY <1>1, <1>3, <1>6, <2>2, <2>3, OneJobMoves DEF CompressSound, CompressInv, JobStages
<1> QED BY <1>2, <1>4, <1>5, <1>6

(* open(O_CREAT | O_EXCL) of the file in the cache: one job makes it, the others serve it. *)
LEMMA CreateSound ==
    ASSUME CompressSound, NEW w \in CWorker, CreateCache(w)
    PROVE  CompressSound'
<1> DEFINE job == work[w]
           n == NameOf(job)
           opened == [job EXCEPT !.at = "open"]
           served == [job EXCEPT !.at = "serve"]
<1>1. /\ job \in CompressJobs /\ job.at = "create" /\ job.into = "file" /\ n \in Names /\ ~Writes(job)
      /\ UNCHANGED <<plain, died, cmconf>>
  BY JobHasName DEF CreateCache, CompressSound, CompressTypes, JobStages, Writes
<1>2. /\ opened \in CompressJobs /\ opened.at = "open" /\ opened.into = "file"
      /\ opened.enc = job.enc /\ opened.sce = job.sce
      /\ served \in CompressJobs /\ served.at = "serve"
  BY <1>1 DEF CompressJobs, JobStages
<1>3. Writes(opened) /\ NameOf(opened) = n /\ ~Writes(served)
  BY <1>2 DEF Writes, NameOf
<1>4. told' = NoReply
  BY DEF CreateCache, Step, GoOnPlain
<1>5. Labelled'
  BY <1>4 DEF Labelled, NoReply, Reply
<1> HIDE DEF opened, served
<1>6. CASE /\ cached[n] = Absent
           /\ cached' = [cached EXCEPT ![n] = Content("empty", 0)]
           /\ work' = [work EXCEPT ![w] = opened]
  <2> DEFINE c == Content("empty", 0)
  <2>1. c \in CacheFiles /\ c # Absent
    BY Contents
  <2> HIDE DEF c
  <2>2. cached' = [cached EXCEPT ![n] = c]
    BY <1>6 DEF c
  <2>3. /\ ~Writes(work[w]) /\ cached[n] = Absent
        /\ Writes(opened) /\ NameOf(opened) = n
        /\ work' = [work EXCEPT ![w] = opened]
    BY <1>1, <1>3, <1>6
  <2>4. opened.at \in JobStages /\ opened.at # "create" /\ opened \in CompressJobs
    BY <1>2 DEF JobStages
  <2>5. n \in Names /\ UNCHANGED <<plain, cmconf, died>>
    BY <1>1
  <2> HIDE DEF n, job
  <2>6. CompressTypes' /\ WrittenIsThere' /\ IncompleteIsOwned' /\ OneWriter'
    BY <2>1, <2>2, <2>3, <2>4, <2>5, OneFileChanges
  <2> QED BY <1>5, <2>6 DEF CompressSound, CompressInv
<1>7. CASE work' = [work EXCEPT ![w] = served] /\ UNCHANGED cached
  BY <1>1, <1>2, <1>3, <1>5, <1>7, OneJobMoves DEF CompressSound, CompressInv, JobStages
<1>8. CASE work' = [work EXCEPT ![w] = [at |-> "plain"]] /\ UNCHANGED cached
  <2> DEFINE x == [at |-> "plain"]
  <2>1. x.at = "plain" /\ ~Writes(x) /\ work' = [work EXCEPT ![w] = x]
    BY <1>8 DEF Writes
  <2> HIDE DEF x
  <2> QED BY <1>1, <1>5, <1>8, <2>1, OneJobMoves DEF CompressSound, CompressInv, JobStages
<1> QED BY <1>6, <1>7, <1>8 DEF CreateCache, Step, GoOnPlain, opened, served

(* The plain file is opened. *)
LEMMA OpenSound ==
    ASSUME CompressSound, NEW w \in CWorker, OpenPlain(w)
    PROVE  CompressSound'
<1>1. CASE GiveUp(w)
  BY <1>1, GiveUpSound DEF OpenPlain
<1>2. CASE Step(w, [work[w] EXCEPT !.at = "deflate", !.from = plain]) /\ UNCHANGED cached
  <2> DEFINE x == [work[w] EXCEPT !.at = "deflate", !.from = plain]
  <2>1. work[w] \in CompressJobs /\ plain \in Nat /\ work[w].at = "open" /\ UNCHANGED <<plain, died, cmconf>>
    BY DEF OpenPlain, CompressSound, CompressTypes, JobStages
  <2>2. /\ x \in CompressJobs /\ x.at = "deflate" /\ x.into = work[w].into /\ x.enc = work[w].enc
        /\ x.sce = work[w].sce
    BY <2>1 DEF CompressJobs, JobStages
  <2>3. work' = [work EXCEPT ![w] = x] /\ told' = NoReply
    BY <1>2 DEF Step
  <2> HIDE DEF x
  <2>4. (Writes(x) <=> Writes(work[w])) /\ NameOf(x) = NameOf(work[w])
    BY <2>1, <2>2 DEF Writes, NameOf
  <2>5. Labelled'
    BY <2>3 DEF Labelled, NoReply, Reply
  <2> QED BY <1>2, <2>1, <2>2, <2>3, <2>4, <2>5, OneJobMoves DEF CompressSound, CompressInv, JobStages
<1> QED BY <1>1, <1>2 DEF OpenPlain

(* The file in the cache is written. *)
LEMMA DeflateSound ==
    ASSUME CompressSound, NEW w \in CWorker, DeflateToFile(w)
    PROVE  CompressSound'
<1>1. CASE GiveUp(w)
  BY <1>1, GiveUpSound DEF DeflateToFile
<1>2. ASSUME NEW st \in {"full", "part"}, NEW copy \in Deflated(work[w]) \ {Absent},
             cached' = [cached EXCEPT ![NameOf(work[w])] = Content(st, copy.v)],
             Step(w, [work[w] EXCEPT !.at = "close"])
      PROVE  CompressSound'
  <2> DEFINE x == [work[w] EXCEPT !.at = "close"]
             c == Content(st, copy.v)
  <2>1. /\ work[w] \in CompressJobs /\ work[w].at = "deflate" /\ work[w].into = "file"
        /\ UNCHANGED <<plain, died, cmconf>>
    BY DEF DeflateToFile, CompressSound, CompressTypes, JobStages
  <2>2. /\ x \in CompressJobs /\ x.at = "close" /\ x.into = work[w].into /\ x.enc = work[w].enc
        /\ x.sce = work[w].sce
    BY <2>1 DEF CompressJobs, JobStages
  <2>3. work' = [work EXCEPT ![w] = x] /\ told' = NoReply
    BY <1>2 DEF Step
  <2>4. copy.v \in Nat
    BY <2>1 DEF CompressJobs, Deflated, Full, Content
  <2>5. c \in CacheFiles /\ c # Absent
    BY <2>4, Contents
  <2> HIDE DEF x
  <2>6. Writes(work[w]) /\ Writes(x) /\ NameOf(x) = NameOf(work[w]) /\ NameOf(x) \in Names
    BY <2>1, <2>2, JobHasName DEF Writes, NameOf
  <2>7. Labelled'
    BY <2>3 DEF Labelled, NoReply, Reply
  <2> HIDE DEF c
  <2>8. cached' = [cached EXCEPT ![NameOf(x)] = c]
    BY <1>2, <2>6 DEF c
  <2> QED BY <2>1, <2>2, <2>3, <2>5, <2>6, <2>7, <2>8, OneFileChanges DEF CompressSound,
                                                                          CompressInv, JobStages
<1> QED BY <1>1, <1>2 DEF DeflateToFile

(* The file in the cache is closed, or removed if it is not whole. *)
LEMMA CloseSound ==
    ASSUME CompressSound, NEW w \in CWorker, CloseCache(w)
    PROVE  CompressSound'
<1>1. CASE GiveUp(w)
  BY <1>1, GiveUpSound DEF CloseCache
<1>2. CASE /\ cached[NameOf(work[w])].st = "full"
           /\ Step(w, [work[w] EXCEPT !.at = "serve"])
           /\ UNCHANGED cached
  <2> DEFINE x == [work[w] EXCEPT !.at = "serve"]
  <2>1. work[w] \in CompressJobs /\ work[w].at = "close" /\ UNCHANGED <<plain, died, cmconf>>
    BY DEF CloseCache, CompressSound, CompressTypes, JobStages
  <2>2. x \in CompressJobs /\ x.at = "serve"
    BY <2>1 DEF CompressJobs, JobStages
  <2>3. work' = [work EXCEPT ![w] = x] /\ told' = NoReply
    BY <1>2 DEF Step
  <2> HIDE DEF x
  <2>4. ~Writes(x)
    BY <2>2 DEF Writes
  <2>5. Labelled'
    BY <2>3 DEF Labelled, NoReply, Reply
  <2> QED BY <1>2, <2>1, <2>2, <2>3, <2>4, <2>5, OneJobMoves DEF CompressSound, CompressInv, JobStages
<1> QED BY <1>1, <1>2 DEF CloseCache

(* A worker rests that wrote no file. *)
LEMMA RestSound ==
    ASSUME CompressSound, NEW w \in CWorker, NEW reply, Rest(w, reply), ~Writes(work[w]),
           UNCHANGED <<plain, cached, died, cmconf>>, Labelled'
    PROVE  CompressSound'
<1>1. Resting.at = "idle" /\ ~Writes(Resting)
  BY DEF Resting, Writes
<1>2. work' = [work EXCEPT ![w] = Resting]
  BY DEF Rest
<1> QED BY <1>1, <1>2, OneJobMoves DEF CompressSound, CompressInv, JobStages

(* The answers. *)
LEMMA ServeSound ==
    ASSUME CompressSound, NEW w \in CWorker
    PROVE  /\ DeflateToBuffer(w) => CompressSound'
           /\ ServeCached(w) => CompressSound'
           /\ ServePlain(w) => CompressSound'
<1>1. ASSUME DeflateToBuffer(w) PROVE CompressSound'
  <2>1. CASE GiveUp(w)
    BY <1>1, <2>1, GiveUpSound DEF DeflateToBuffer
  <2>2. ASSUME NEW copy, UNCHANGED cached,
               Rest(w, Reply(200, work[w].enc, CacheKind(work[w].enc), copy))
        PROVE  CompressSound'
    <3>1. /\ work[w] \in CompressJobs /\ ~Writes(work[w]) /\ UNCHANGED <<plain, died, cmconf>>
      BY <1>1 DEF DeflateToBuffer, CompressSound, CompressTypes, JobStages, Writes
    <3>2. told'.enc = work[w].enc /\ told'.kind = CacheKind(work[w].enc)
      BY <2>2 DEF Rest, Reply
    <3>3. Labelled'
      BY <3>1, <3>2, JobHasName DEF Labelled
    <3> QED BY <2>2, <3>1, <3>3, RestSound
  <2> QED BY <1>1, <2>1, <2>2 DEF DeflateToBuffer
<1>2. ASSUME ServeCached(w) PROVE CompressSound'
  <2>1. /\ work[w] \in CompressJobs /\ ~Writes(work[w]) /\ UNCHANGED <<plain, cached, died, cmconf>>
    BY <1>2 DEF ServeCached, CompressSound, CompressTypes, JobStages, Writes
  <2>2. \/ Rest(w, Reply(403, work[w].enc, "none", Absent))
        \/ Rest(w, Reply(200, work[w].enc, NameOf(work[w])[1], cached[NameOf(work[w])]))
    BY <1>2 DEF ServeCached
  <2>3. CASE Rest(w, Reply(403, work[w].enc, "none", Absent))
    <3>1. told'.status = 403
      BY <2>3 DEF Rest, Reply
    <3>2. Labelled'
      BY <3>1 DEF Labelled
    <3> QED BY <2>1, <2>3, <3>2, RestSound
  <2>4. CASE Rest(w, Reply(200, work[w].enc, NameOf(work[w])[1], cached[NameOf(work[w])]))
    <3>1. told'.enc = work[w].enc /\ told'.kind = NameOf(work[w])[1]
      BY <2>4 DEF Rest, Reply
    <3>2. Labelled'
      BY <2>1, <3>1, JobHasName DEF Labelled
    <3> QED BY <2>1, <2>4, <3>2, RestSound
  <2> QED BY <2>2, <2>3, <2>4
<1>3. ASSUME ServePlain(w) PROVE CompressSound'
  <2>1. /\ ~Writes(work[w]) /\ UNCHANGED <<plain, cached, died, cmconf>>
        /\ Rest(w, Reply(200, "none", "none", Full(plain)))
    BY <1>3 DEF ServePlain, Writes
  <2>2. told'.enc = "none" /\ told'.kind = "none"
    BY <2>1 DEF Rest, Reply
  <2>3. Labelled'
    BY <2>2 DEF Labelled
  <2> QED BY <2>1, <2>3, RestSound
<1> QED BY <1>1, <1>2, <1>3

(* A worker is killed: the file it was writing stays as it is. *)
LEMMA KilledSound ==
    ASSUME CompressSound, NEW w \in CWorker, Killed(w)
    PROVE  CompressSound'
<1>1. /\ Resting.at = "idle" /\ ~Writes(Resting)
      /\ work' = [work EXCEPT ![w] = Resting] /\ told' = NoReply /\ UNCHANGED <<plain, cached, cmconf>>
      /\ died \subseteq died'
      /\ Writes(work[w]) => NameOf(work[w]) \in died'
  BY DEF Resting, Writes, Killed
<1>2. Labelled'
  BY <1>1 DEF Labelled, NoReply, Reply
<1> QED BY <1>1, <1>2, OneJobMoves DEF CompressSound, CompressInv, JobStages

(* Whatever fails and whoever is killed: no file of the cache is half written without a writer or
   a dead one, no two workers write the same, and what is sent is in the encoding that its
   header says (mod_compress_physical, deflate_file_to_file). *)
THEOREM CacheStaysSound == CompressSpec => []CompressInv
<1>1. CompressInit => CompressSound
  <2> SUFFICES ASSUME CompressInit PROVE CompressSound
    OBVIOUS
  <2>1. \A w \in CWorker : work[w].at = "idle" /\ ~Writes(work[w])
    BY DEF CompressInit, Resting, Writes
  <2>2. CompressTypes
    BY <2>1, Contents DEF CompressInit, CompressTypes, JobStages
  <2>3. WrittenIsThere /\ OneWriter
    BY <2>1 DEF WrittenIsThere, OneWriter, Writes
  <2>4. IncompleteIsOwned
    BY Contents DEF CompressInit, IncompleteIsOwned
  <2>5. Labelled
    BY DEF CompressInit, Labelled, NoReply, Reply
  <2> QED BY <2>2, <2>3, <2>4, <2>5 DEF CompressSound, CompressInv
<1>2. CompressSound /\ [CompressNext]_compressVars => CompressSound'
  <2> SUFFICES ASSUME CompressSound, [CompressNext]_compressVars PROVE CompressSound'
    OBVIOUS
  <2>1. CASE Replace
    <3>1. /\ plain \in Nat /\ plain' = plain + 1 /\ UNCHANGED <<cached, work, died, cmconf>>
      BY <2>1 DEF Replace, CompressSound, CompressTypes
    <3>2. CompressTypes'
      BY <3>1 DEF CompressSound, CompressTypes, CompressJobs
    <3>3. Labelled'
      BY <2>1 DEF Replace, Labelled, NoReply, Reply
    <3>4. WrittenIsThere' /\ IncompleteIsOwned' /\ OneWriter'
      BY <3>1 DEF CompressSound, CompressInv, WrittenIsThere, IncompleteIsOwned, OneWriter,
                  Writing, NameOf
    <3> QED BY <3>2, <3>3, <3>4 DEF CompressSound, CompressInv
  <2>2. ASSUME NEW w \in CWorker,
               \/ \E r \in CRequests, sce \in 1 .. MaxVersion, file \in {"fits", "unfit", "error"} :
                    mod_compress_physical(w, r, sce, file)
               \/ CreateCache(w) \/ OpenPlain(w) \/ DeflateToFile(w) \/ CloseCache(w)
               \/ DeflateToBuffer(w) \/ ServeCached(w) \/ ServePlain(w) \/ Killed(w)
        PROVE  CompressSound'
    BY <2>2, RequestSound, CreateSound, OpenSound, DeflateSound, CloseSound, ServeSound, KilledSound
  <2>3. CASE UNCHANGED compressVars
    BY <2>3 DEF compressVars, CompressSound, CompressTypes, CompressJobs, WrittenIsThere, CompressInv,
                IncompleteIsOwned, OneWriter, Writing, NameOf, Labelled
  <2> QED BY <2>1, <2>2, <2>3 DEF CompressNext
<1>3. CompressSound => CompressInv
  BY DEF CompressSound
<1> QED BY <1>1, <1>2, <1>3, PTL DEF CompressSpec

=============================================================================
