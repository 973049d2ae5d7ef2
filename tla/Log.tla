-------------------------------- MODULE Log --------------------------------
(* The logs of the workers: mod_accesslog.c with its buffers, and the error  *)
(* log of log.c.  All workers append to the same files; logrotate renames    *)
(* the files and sends SIGHUP, upon which each worker, in its own time,      *)
(* reopens them.  A file is the generation of its name: what was open before *)
(* a rotation is an older generation than the name.                          *)
EXTENDS Naturals, Sequences, FiniteSets

CONSTANTS
  LWorker,       \* the worker processes
  Logs,          \* the access logs (one per configuration context), 1..n
  LogKinds,      \* what the first of them may be: "file", "pipe", "syslog"
  MaxEntries,    \* requests logged
  MaxRotations,  \* runs of logrotate
  FlushAt        \* BUFFER_MAX_REUSE_SIZE, in entries

ASSUME LogAssumption == Logs \subseteq Nat \ {0} /\ FlushAt \in Nat \ {0}

VARIABLES
  lconf,    \* kind of each access log
  lgen,     \* the generation the names stand for
  lw,       \* the workers
  lentry    \* the entries: who logged them, how often they were written and
            \* whether they are given up

logVars == <<lconf, lgen, lw, lentry>>

LogNoFd == 0

\* open_logfile_or_pipe: the file the name stands for, created if it is not
\* there; for a pipe the process behind it is started.
open_logfile_or_pipe(ok) == IF ok THEN lgen ELSE LogNoFd

LogInit ==
  /\ lconf \in {[l \in Logs |-> IF l = 1 THEN k ELSE "file"] : k \in LogKinds}
  /\ lgen = 1
  /\ lw = [w \in LWorker |->
             [up   |-> TRUE, hup |-> FALSE, failed |-> FALSE,
              fd   |-> [l \in Logs |-> IF lconf[l] = "syslog" THEN LogNoFd ELSE open_logfile_or_pipe(TRUE)],
              buf  |-> [l \in Logs |-> <<>>],
              emode |-> "file", efd |-> open_logfile_or_pipe(TRUE)]]
  /\ lentry = <<>>

-----------------------------------------------------------------------------
\* Entries that were written (once more), or that nobody will write.
Written(es, ids) ==
  [n \in DOMAIN es |-> IF n \in ids THEN [es[n] EXCEPT !.times = @ + 1] ELSE es[n]]

GivenUp(es, ids) ==
  [n \in DOMAIN es |-> IF n \in ids THEN [es[n] EXCEPT !.lost = TRUE] ELSE es[n]]

Ids(buf) == {buf[k] : k \in 1..Len(buf)}

\* accesslog_write_all: write_all repeats a short or interrupted write; any
\* other error loses what was not written, the buffer is emptied in any case.
accesslog_write_all(es, ids, ok) ==
  IF ok THEN Written(es, ids) ELSE GivenUp(es, ids)

\* log_access_write at the end of a request: without an output there is no
\* entry; syslog and pipes get it at once, a file when the second is a new
\* one or the buffer is full.
log_access_write(w, l, newts, ok) ==
  LET id   == Len(lentry) + 1
      buf  == Append(lw[w].buf[l], id)
      grow(lost) == Append(lentry, [w |-> w, times |-> 0, lost |-> lost])
  IN
  /\ lw[w].up /\ id <= MaxEntries
  /\ IF lconf[l] # "syslog" /\ lw[w].fd[l] = LogNoFd
       THEN lentry' = grow(TRUE) /\ UNCHANGED lw
     ELSE IF lconf[l] = "syslog"
       THEN lentry' = Written(grow(FALSE), {id}) /\ UNCHANGED lw
     ELSE IF lconf[l] = "pipe" \/ newts \/ Len(buf) >= FlushAt
       THEN /\ lentry' = accesslog_write_all(grow(FALSE), Ids(buf), ok)
            /\ lw' = [lw EXCEPT ![w].buf[l] = <<>>]
     ELSE /\ lentry' = grow(FALSE)
          /\ lw' = [lw EXCEPT ![w].buf[l] = buf]
  /\ UNCHANGED <<lconf, lgen>>

-----------------------------------------------------------------------------
Flushed(w, ls) == UNION {Ids(lw[w].buf[l]) : l \in ls}

\* log_error_cycle: the new file is opened before the old one is closed; when
\* that fails the worker logs to syslog from then on.
log_error_cycle(rec, ok) ==
  IF rec.emode # "file" THEN rec
  ELSE [rec EXCEPT !.efd = open_logfile_or_pipe(ok), !.emode = IF ok THEN @ ELSE "syslog"]

AccessCycle_WhenBuffered(w, bad, ok) ==
  LET rec == lw[w] IN
  [rec EXCEPT
     !.fd  = [l \in Logs |-> IF lconf[l] = "file" /\ rec.buf[l] # <<>> THEN lgen ELSE rec.fd[l]],
     !.buf = [l \in Logs |-> <<>>]]

\* log_access_cycle: log by log the buffer goes to the old file, which is then
\* reopened by its name.  The first one that cannot be opened (`bad', or 0)
\* ends the loop: the logs after it keep their old file and their buffer.
log_access_cycle(w, bad, ok) ==
  LET rec     == lw[w]
      reached == {l \in Logs : bad = 0 \/ l <= bad}
  IN [rec EXCEPT
        !.fd  = [l \in Logs |-> IF l \notin reached \/ lconf[l] # "file" THEN rec.fd[l]
                                ELSE open_logfile_or_pipe(l # bad)],
        !.buf = [l \in Logs |-> IF l \in reached THEN <<>> ELSE rec.buf[l]],
        !.failed = bad # 0]

\* The main loop sees handle_sig_hup: the plugins' handlers, then the error log.
Cycle(w, bad, ok, eok) ==
  LET done    == log_access_cycle(w, bad, ok)
      emptied == {l \in Logs : done.buf[l] = <<>>}
  IN
  /\ lw[w].up /\ lw[w].hup
  /\ bad = 0 \/ (bad \in Logs /\ lconf[bad] = "file")
  /\ lentry' = accesslog_write_all(lentry, Flushed(w, emptied), ok)
  /\ lw' = [lw EXCEPT ![w] = log_error_cycle([done EXCEPT !.hup = FALSE], eok)]
  /\ UNCHANGED <<lconf, lgen>>

\* logrotate: the files get other names and everybody is told.
Rotate ==
  /\ lgen < MaxRotations + 1
  /\ lgen' = lgen + 1
  /\ lw' = [w \in LWorker |-> IF lw[w].up THEN [lw[w] EXCEPT !.hup = TRUE] ELSE lw[w]]
  /\ UNCHANGED <<lconf, lentry>>

Gone(w) == lw' = [lw EXCEPT ![w] = [@ EXCEPT !.up = FALSE, !.buf = [l \in Logs |-> <<>>]]]

\* mod_accesslog_free and log_error_close, when the worker ends.
mod_accesslog_free(w, ok) ==
  /\ lw[w].up
  /\ lentry' = accesslog_write_all(lentry, Flushed(w, Logs), ok)
  /\ Gone(w)
  /\ UNCHANGED <<lconf, lgen>>

\* A worker is killed: what it had buffered is lost.
LogKilled(w) ==
  /\ lw[w].up
  /\ lentry' = GivenUp(lentry, Flushed(w, Logs))
  /\ Gone(w)
  /\ UNCHANGED <<lconf, lgen>>

LogNext ==
  \/ Rotate
  \/ \E w \in LWorker :
       \/ \E l \in Logs, newts, ok \in BOOLEAN : log_access_write(w, l, newts, ok)
       \/ \E bad \in Logs \cup {0}, ok, eok \in BOOLEAN : Cycle(w, bad, ok, eok)
       \/ \E ok \in BOOLEAN : mod_accesslog_free(w, ok)
       \/ LogKilled(w)

LogSpec == LogInit /\ [][LogNext]_logVars

-----------------------------------------------------------------------------
Buffered(n) == \E w \in LWorker, l \in Logs : n \in Ids(lw[w].buf[l])

\* mod_accesslog.c:1103: across flushes, rotations and exits every request is
\* in the logs exactly once, unless a write failed, the worker was killed or
\* there was no file: no entry is forgotten or written twice.
LoggedOnce ==
  \A n \in DOMAIN lentry :
    \/ Buffered(n) /\ lentry[n].times = 0 /\ ~lentry[n].lost
    \/ ~Buffered(n) /\ lentry[n].times + (IF lentry[n].lost THEN 1 ELSE 0) = 1

\* mod_accesslog.c:656: a worker that has handled the SIGHUP of the last
\* rotation writes to no rotated file any more, busy or idle, unless opening
\* one failed.
NoWriteToRotated ==
  \A w \in LWorker :
    lw[w].up /\ ~lw[w].hup =>
      /\ ~lw[w].failed =>
           \A l \in Logs : lconf[l] = "file" => lw[w].fd[l] = lgen
      /\ lw[w].emode = "file" => lw[w].efd = lgen

(* No entry is lost or doubled, and none goes to a file that was rotated away. *)
LogInv == LoggedOnce /\ NoWriteToRotated
=============================================================================
