------------------------------ MODULE Fdevent ------------------------------
(***************************************************************************)
(* The event layer (fdevent.c) over its seven backends: the table of       *)
(* registered descriptors, the index every owner keeps of its descriptor,  *)
(* what the kernel was told to watch, and the round of server.c that hands *)
(* out the events of one poll while the handlers change all of these.      *)
(***************************************************************************)
EXTENDS Integers, Sequences, FiniteSetsExt, SequencesExt

CONSTANTS
    MaxFd,          \* the descriptor numbers there can be: server.max-fds
    Backends        \* server.event-handler

ASSUME FdeventAssumption ==
    /\ MaxFd \in Nat
    /\ Backends \subseteq {"select", "poll", "epoll", "kqueue", "devpoll", "port", "libev"}

VARIABLES
    fbackend,
    fdarray,        \* ev->fdarray: is a handler registered, and the events it asked for
    fndx,           \* the owner's fde_ndx, -1 before the first event_set
    fslots,         \* poll: pollfds with their revents, and the stack of unused slots
    fwatch,         \* the others: what the kernel watches for each descriptor
    fres,           \* the others: the result array of the last poll
    fn, fcur,       \* server.c: events left to hand out, the last index
    fphase, fcall,  \* where the round is, whose handler runs
    fhist           \* descriptors registered since the poll, whether the event handed out is
                    \* older than its handler, whether a handler took another's
                    \* descriptor from the backend

fdeventVars == <<fbackend, fdarray, fndx, fslots, fwatch, fres, fn, fcur, fphase, fcall, fhist>>

Fd == 1 .. MaxFd
Interests == SUBSET {"in", "out"}
Off == {"off"}
NoHandler == [handler |-> FALSE, events |-> {}]
(* A pollfd that realloc() made: nobody has written its revents. *)
Junk == {"junk"}
NoFd == -1
Batched == {"epoll", "kqueue", "devpoll", "port"}

FdeventInit ==
    /\ fbackend \in Backends
    /\ fdarray = [fd \in Fd |-> NoHandler]
    /\ fndx = [fd \in Fd |-> -1]
    /\ fslots = [used |-> <<>>, unused |-> <<>>]
    /\ fwatch = [fd \in Fd |-> Off]
    /\ fres = <<>> /\ fn = 0 /\ fcur = 0
    /\ fphase = "jobs" /\ fcall = NoFd
    /\ fhist = [fresh |-> {}, stale |-> FALSE, other |-> FALSE]

(* What the kernel watches for fd. *)
KernelWatch(fd) ==
    IF fbackend # "poll" THEN fwatch[fd]
    ELSE LET mine == {i \in DOMAIN fslots.used : fslots.used[i].fd = fd}
         IN IF mine = {} THEN Off ELSE fslots.used[CHOOSE i \in mine : TRUE].events

(* fdevent_poll_event_del(): the slot keeps its revents. *)
fdevent_poll_event_del(s, ndx, fd) ==
    [used |-> [s.used EXCEPT ![ndx].fd = NoFd], unused |-> Append(s.unused, ndx)]

(* fdevent_poll_event_set(): the known slot, the last unused one, or one more. *)
PollSlot(s, ndx) ==
    CASE ndx # -1 -> ndx
      [] ndx = -1 /\ s.unused # <<>> -> Last(s.unused)
      [] OTHER -> Len(s.used) + 1
fdevent_poll_event_set(s, ndx, fd, events) ==
    LET k == PollSlot(s, ndx)
        rev == IF k <= Len(s.used) THEN s.used[k].rev ELSE Junk
        slot == [fd |-> fd, events |-> events, rev |-> rev]
    IN [used |-> IF k <= Len(s.used) THEN [s.used EXCEPT ![k] = slot] ELSE Append(s.used, slot),
        unused |-> IF ndx = -1 /\ s.unused # <<>> THEN Front(s.unused) ELSE s.unused]

(* event_set() of the other backends.  A second write to /dev/poll adds to what is
   watched; a port watches POLLIN & POLLOUT, nothing, for both. *)
SelectSet(old, events) == events
EpollSet(old, events) == events
KqueueSet(old, events) == events
LibevSet(old, events) == events
DevpollSet(old, events) == (old \ Off) \cup events
PortSet(old, events) == IF events = {"in", "out"} THEN {} ELSE events
WatchSet(old, events) ==
    CASE fbackend = "select" -> SelectSet(old, events)
      [] fbackend = "epoll" -> EpollSet(old, events)
      [] fbackend = "kqueue" -> KqueueSet(old, events)
      [] fbackend = "devpoll" -> DevpollSet(old, events)
      [] fbackend = "port" -> PortSet(old, events)
      [] fbackend = "libev" -> LibevSet(old, events)

(* ev->event_set(): *user_data of a port is read through NULL when there is no event. *)
EventSet(fd, events) ==
    /\ fdarray' = [fdarray EXCEPT ![fd].events = events]
    /\ IF fbackend = "poll"
       THEN /\ fslots' = fdevent_poll_event_set(fslots, fndx[fd], fd, events)
            /\ fndx' = [fndx EXCEPT ![fd] = PollSlot(fslots, fndx[fd])]
            /\ UNCHANGED fwatch
       ELSE /\ fwatch' = [fwatch EXCEPT ![fd] = WatchSet(@, events)]
            /\ fndx' = [fndx EXCEPT ![fd] = fd]
            /\ UNCHANGED fslots
    /\ fphase' = IF fbackend = "port" /\ events = {} THEN "null" ELSE fphase
    /\ UNCHANGED <<fbackend, fres, fn, fcur, fcall, fhist>>

Running == fphase \in {"handling", "jobs"}
IsRegistered(fd) == fdarray[fd].handler

(* fdevent_register() on a number that socket() or accept() returned. *)
fdevent_register(fd) ==
    /\ Running /\ ~IsRegistered(fd)
    /\ fdarray' = [fdarray EXCEPT ![fd] = [handler |-> TRUE, events |-> {}]]
    /\ fhist' = [fhist EXCEPT !.fresh = IF fphase = "handling" THEN @ \cup {fd} ELSE @]
    /\ UNCHANGED <<fbackend, fndx, fslots, fwatch, fres, fn, fcur, fphase, fcall>>

(* fdevent_event_set(): nothing is done when the events stay as they are. *)
fdevent_event_set(fd, events) ==
    /\ Running /\ IsRegistered(fd) /\ fdarray[fd].events # events
    /\ EventSet(fd, events)
(* fdevent_event_add() *)
fdevent_event_add(fd, event) ==
    /\ Running /\ IsRegistered(fd) /\ event \notin fdarray[fd].events
    /\ EventSet(fd, fdarray[fd].events \cup {event})
(* fdevent_event_clr() *)
fdevent_event_clr(fd, event) ==
    /\ Running /\ IsRegistered(fd) /\ event \in fdarray[fd].events
    /\ EventSet(fd, fdarray[fd].events \ {event})

(* event_del() of the backend, which does nothing without an index; libev also puts a watcher
   that does nothing in the place of one that is pending. *)
Dropped(res, fd) == [i \in DOMAIN res |-> IF res[i].fd = fd THEN [res[i] EXCEPT !.rev = {}] ELSE res[i]]
EventDel(fd) ==
    IF fndx[fd] = -1 THEN UNCHANGED <<fslots, fwatch, fres, fndx>>
    ELSE /\ fndx' = [fndx EXCEPT ![fd] = -1]
         /\ IF fbackend = "poll"
            THEN fslots' = fdevent_poll_event_del(fslots, fndx[fd], fd) /\ UNCHANGED <<fwatch, fres>>
            ELSE /\ fwatch' = [fwatch EXCEPT ![fd] = Off]
                 /\ fres' = IF fbackend = "libev" THEN Dropped(fres, fd) ELSE fres
                 /\ UNCHANGED fslots

(* fdevent_event_del() on its own: a listening socket while sockets are disabled. *)
fdevent_event_del(fd) ==
    /\ Running /\ IsRegistered(fd)
    /\ EventDel(fd)
    /\ fdarray' = [fdarray EXCEPT ![fd].events = {}]
    /\ fhist' = [fhist EXCEPT !.other = @ \/ (fphase = "handling" /\ fcall # fd)]
    /\ UNCHANGED <<fbackend, fn, fcur, fphase, fcall>>

(* Mutant: the descriptor is closed and stays in the backend. *)
Close_NoDel(fd) ==
    /\ Running /\ IsRegistered(fd)
    /\ fdarray' = [fdarray EXCEPT ![fd] = NoHandler]
    /\ fhist' = [fhist EXCEPT !.other = @ \/ (fphase = "handling" /\ fcall # fd)]
    /\ UNCHANGED <<fbackend, fn, fcur, fphase, fcall, fndx, fslots, fwatch, fres>>

(* fdevent_event_del(), fdevent_unregister() and close(). *)
fdevent_unregister(fd) ==
    /\ Running /\ IsRegistered(fd)
    /\ EventDel(fd)
    /\ fdarray' = [fdarray EXCEPT ![fd] = NoHandler]
    /\ fhist' = [fhist EXCEPT !.other = @ \/ (fphase = "handling" /\ fcall # fd)]
    /\ UNCHANGED <<fbackend, fn, fcur, fphase, fcall>>

(* What happened on each watched descriptor.  Which event it was only matters where
   the backend counts them one by one; the others also report a hangup nobody asked for. *)
Happened ==
    {h \in [{fd \in Fd : KernelWatch(fd) # Off} -> SUBSET {"in", "out"} \cup {{"some"}}] :
        \A fd \in DOMAIN h :
            IF fbackend \in {"kqueue", "select"} THEN h[fd] \subseteq KernelWatch(fd)
            ELSE h[fd] \in {{}, {"some"}}}

(* kevent() returns one event per filter, the others one per descriptor. *)
Results(h) ==
    IF fbackend = "kqueue" THEN UNION {{[fd |-> fd, rev |-> {e}] : e \in h[fd]} : fd \in DOMAIN h}
    ELSE {[fd |-> fd, rev |-> h[fd]] : fd \in {fd \in DOMAIN h : h[fd] # {}}}

(* fdevent_poll() of the backend: poll() writes the revents of every slot, clearing those of
   an unused one, and counts the slots; select() writes a bit per event and counts the bits;
   the others write entries, in any order, and count them. *)
fdevent_poll ==
    /\ fphase = "jobs"
    /\ \E h \in Happened :
        CASE fbackend = "poll" ->
                /\ fslots' = [fslots EXCEPT !.used = [i \in DOMAIN fslots.used |->
                        LET slot == fslots.used[i]
                        IN [slot EXCEPT !.rev = IF slot.fd = NoFd THEN {} ELSE h[slot.fd]]]]
                /\ fn' = Cardinality({fd \in DOMAIN h : h[fd] # {}})
                /\ UNCHANGED fres
          [] fbackend = "select" ->
                /\ fres' = [fd \in Fd |-> [fd |-> fd, rev |-> IF fd \in DOMAIN h THEN h[fd] ELSE {}]]
                /\ fn' = Cardinality(UNION {{fd} \X h[fd] : fd \in DOMAIN h})
                /\ UNCHANGED fslots
          [] OTHER ->
                /\ fres' \in SetToSeqs(Results(h))
                /\ fn' = Len(fres')
                /\ UNCHANGED fslots
    /\ fcur' = 0
    /\ fphase' = IF fn' > 0 THEN "dispatch" ELSE "jobs"
    /\ fcall' = NoFd
    /\ fhist' = [fresh |-> {}, stale |-> FALSE, other |-> FALSE]
    /\ UNCHANGED <<fbackend, fdarray, fndx, fwatch>>

Entries == IF fbackend = "poll" THEN fslots.used ELSE fres

(* fdevent_event_next_fdndx(): poll and select look for the next entry with an event, the
   others trust the count; libev goes through what is pending. *)
NextFdndx ==
    LET more == {i \in DOMAIN Entries : i > fcur /\ Entries[i].rev # {}}
    IN IF fbackend \in Batched THEN fcur + 1 ELSE IF more = {} THEN -1 ELSE Min(more)

(* The round is over: nothing reads the results again before the next poll overwrites
   them, so they are forgotten here. *)
RoundOver ==
    /\ fphase' = "jobs" /\ fcall' = NoFd
    /\ fn' = 0 /\ fcur' = 0 /\ fres' = <<>>
    /\ fslots' = [fslots EXCEPT !.used = [i \in DOMAIN fslots.used |-> [fslots.used[i] EXCEPT !.rev = {}]]]
    /\ fhist' = [fresh |-> {}, stale |-> FALSE, other |-> FALSE]

(* The handler registered under the number of an entry is called, if there is one. *)
Call(fd) ==
    /\ fcall' = fd
    /\ fphase' = IF fd # NoFd /\ IsRegistered(fd) THEN "handling" ELSE "crashed"
    /\ fhist' = [fhist EXCEPT !.stale = fphase' = "handling" /\ fd \in fhist.fresh]

(* One turn of the loop in main(). *)
Dispatch ==
    /\ fphase = "dispatch" /\ fbackend # "libev"
    /\ LET i == NextFdndx IN
       \/ i = -1 /\ RoundOver
       \/ /\ i # -1 /\ (i \notin DOMAIN Entries \/ Entries[i].rev = Junk)
          /\ fphase' = "overrun"
          /\ UNCHANGED <<fn, fcur, fcall, fres, fslots, fhist>>
       \/ /\ i \in DOMAIN Entries /\ Entries[i].rev # Junk
          /\ Call(Entries[i].fd) /\ fcur' = i
          /\ UNCHANGED <<fn, fres, fslots>>
    /\ UNCHANGED <<fbackend, fdarray, fndx, fwatch>>

(* io_watcher_cb(): libev runs the handlers of the pending watchers itself. *)
io_watcher_cb ==
    /\ fphase = "dispatch" /\ fbackend = "libev"
    /\ LET i == NextFdndx IN
       \/ i = -1 /\ RoundOver
       \/ i # -1 /\ Call(fres[i].fd) /\ fcur' = i /\ UNCHANGED <<fn, fres, fslots>>
    /\ UNCHANGED <<fbackend, fdarray, fndx, fwatch>>

(* The handler returns: while (--n > 0). *)
HandlerEnd ==
    /\ fphase = "handling"
    /\ IF fn > 1 \/ fbackend = "libev"
       THEN fn' = fn - 1 /\ fphase' = "dispatch" /\ fcall' = NoFd /\ UNCHANGED <<fres, fcur, fslots, fhist>>
       ELSE RoundOver
    /\ UNCHANGED <<fbackend, fdarray, fndx, fwatch>>

FdeventNext ==
    \/ \E fd \in Fd :
        \/ fdevent_register(fd)
        \/ \E events \in Interests : fdevent_event_set(fd, events)
        \/ \E event \in {"in", "out"} : fdevent_event_add(fd, event)
        \/ \E event \in {"in", "out"} : fdevent_event_clr(fd, event)
        \/ fdevent_event_del(fd)
        \/ fdevent_unregister(fd)
    \/ fdevent_poll
    \/ Dispatch
    \/ io_watcher_cb
    \/ HandlerEnd

FdeventSpec == FdeventInit /\ [][FdeventNext]_fdeventVars

-----------------------------------------------------------------------------

(* What the kernel watches is what the owner of the descriptor asked for last, and nothing
   is watched that has no owner or no index: otherwise an owner waits for an event nobody
   will report, or a closed number is polled.  Over /dev/poll it may be more, and over a
   port it is nothing when both events were asked for. *)
KernelAgrees ==
    \A fd \in Fd :
        IF IsRegistered(fd) /\ fndx[fd] # -1
        THEN CASE fbackend = "devpoll" -> fdarray[fd].events \subseteq KernelWatch(fd)
               [] fbackend = "port" -> KernelWatch(fd) = PortSet(Off, fdarray[fd].events)
               [] OTHER -> KernelWatch(fd) = fdarray[fd].events
        ELSE KernelWatch(fd) = Off /\ fndx[fd] = -1

(* The loop of main() never looks past the entries the poll has written, although handlers
   add, free and reuse pollfds while it walks over them: the count ends it in time. *)
NeverOverrun == fphase # "overrun"

(* As long as no handler deletes or closes a descriptor that is not its own, every event of a round
   finds the handler it happened for: not none at all, and not that of a descriptor which
   got the number since.  kqueue breaks this alone, by its two events for one descriptor;
   libev keeps it in any case. *)
EventsFindTheirHandler ==
    (fhist.other => fbackend = "libev") /\ fbackend # "kqueue" =>
        fphase # "crashed" /\ ~fhist.stale

(* The three views of a descriptor, of its owner, the tables and the kernel, agree. *)
FdeventInv == KernelAgrees /\ NeverOverrun /\ EventsFindTheirHandler
=============================================================================
