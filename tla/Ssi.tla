-------------------------------- MODULE Ssi --------------------------------
(* mod_ssi.c: a page is read and its <!--#...--> statements are executed     *)
(* one after the other.  The plugin's data p outlives the page: what a page  *)
(* leaves there is what the next page of the worker starts with.  A page is  *)
(* a sequence of statements chosen as they come; beside the code's flags the *)
(* model keeps the stack of open ifs, which says what a reader of the page   *)
(* expects to be shown.                                                      *)
EXTENDS Integers, Sequences, FiniteSets

CONSTANTS
  SsiVars,       \* variable names of <!--#set--> and <!--#echo-->
  CgiVars,       \* the names that build_ssi_cgi_vars defines
  SsiTimes,      \* modification times of pages and included files, from 1
  MaxLeak,       \* levels of ifs that earlier pages leave to the next one
  PipeSize,      \* what a pipe holds
  ExecSizes,     \* how much a command writes
  SsiConfigs     \* [exec, conditional, nest, size]: ssi.exec, ssi.conditional-requests,
                 \* how deep the pages nest their ifs and how many statements they have

ASSUME SsiAssumption ==
  SsiTimes \subseteq Nat \ {0} /\ PipeSize \in Nat /\ MaxLeak \in Nat

VARIABLES
  sp,      \* plugin_data: the flags of the conditionals, variables, sizefmt
  page,    \* the request in progress, or the last one
  opened,  \* the ifs that are open on the page
  given,   \* what the page has set and included (shown statements only)
  shown,   \* what the last step appended to the write queue
  cmd,     \* the command of <!--#exec--> and its pipe
  ssconf

ssiVars == <<sp, page, opened, given, shown, cmd, ssconf>>

NoCommand == [at |-> "none", todo |-> 0, piped |-> 0, size |-> 0, tries |-> 0]

SsiInit ==
  /\ sp = [if_is_false |-> FALSE, if_level |-> 0, if_is_false_level |-> 0,
           if_is_false_endif |-> FALSE, sizefmt |-> FALSE,
           vars |-> {}, mtime |-> 0]
  /\ page = [at |-> "none", mtime |-> 0, left |-> 0, stray |-> FALSE, leaked |-> FALSE]
  /\ opened = <<>>
  /\ given = [vars |-> {}, times |-> {}]
  /\ shown = [what |-> "nothing"]
  /\ cmd = NoCommand
  /\ ssconf \in SsiConfigs

Nothing == shown' = [what |-> "nothing"]
Show(rec) == shown' = IF sp.if_is_false THEN [what |-> "nothing"] ELSE rec

\* One statement less to come; process_ssi_stmt runs only while reading.  The
\* endif of an open if always fits on the page.
Reading == page.at = "reading" /\ cmd.at = "none"

\* page.stray remembers that an else, elif or endif of the page had no if that
\* it could belong to, page.leaked that an earlier page of the worker had such
\* a statement or ended with an if open.
TakeStatement(stray) ==
  /\ Reading /\ page.left > 0
  /\ page' = [page EXCEPT !.left = @ - 1, !.stray = @ \/ stray]
  /\ UNCHANGED ssconf

Statement == TakeStatement(FALSE)

-----------------------------------------------------------------------------
\* What the page asks for: every open if is in a branch to be shown.
Active == \A k \in 1..Len(opened) : opened[k].on

Top == opened[Len(opened)]
SetTop(rec) == opened' = [opened EXCEPT ![Len(opened)] = rec]

-----------------------------------------------------------------------------
\* mod_ssi_handle_request up to the reading, which begins when the file can be
\* opened.  if_level, if_is_false_level and if_is_false_endif are not reset:
\* they are what the pages before have left, however those have ended.
mod_ssi_handle_request(t) ==
  LET leaked == page.leaked \/ page.stray \/ opened # <<>> IN
  /\ page.at = "none" /\ sp.if_level \in (-MaxLeak)..MaxLeak
  /\ \/ page' = [at |-> "reading", mtime |-> t, left |-> ssconf.size,
                  stray |-> FALSE, leaked |-> leaked]
     \/ page' = [page EXCEPT !.stray = FALSE, !.leaked = leaked]
  /\ sp' = [sp EXCEPT !.vars = {}, !.sizefmt = FALSE, !.if_is_false = FALSE, !.mtime = 0]
  /\ given' = [vars |-> {}, times |-> {}]
  /\ opened' = <<>>
  /\ Nothing
  /\ UNCHANGED <<cmd, ssconf>>

\* The request for a file with an extension of ssi.extension: it ends with 500
\* when the file cannot be opened.
mod_ssi_physical_path == \E t \in SsiTimes : mod_ssi_handle_request(t)

\* The end of mod_ssi_handle_request, at the end of the file wherever that is,
\* inside of ifs too: the date (and the tag, which is made from it) are those of
\* the newest of the page and the included files.
EndPage ==
  /\ Reading
  /\ page' = [page EXCEPT !.at = "none", !.left = 0]
  /\ sp' = [sp EXCEPT !.mtime = 0]
  /\ shown' = [what |-> "page",
               mtime |-> IF ~ssconf.conditional THEN 0
                         ELSE IF page.mtime < sp.mtime THEN sp.mtime ELSE page.mtime]
  /\ UNCHANGED <<opened, given, cmd, ssconf>>

\* mod_ssi_read_fd hands on the text between two statements.
Text ==
  /\ Statement
  /\ Show([what |-> "text"])
  /\ UNCHANGED <<sp, opened, given, cmd>>

-----------------------------------------------------------------------------
Evaluates == (~sp.if_is_false) /\ (sp.if_is_false_level = 0 \/ sp.if_level < sp.if_is_false_level)

\* <!--#if expr="..."-->; without expr the statement is dropped.  An
\* expression that cannot be evaluated (-1) counts as false.
SsiIf(v) ==
  /\ Statement
  /\ Len(opened) < ssconf.nest
  /\ IF v = "missing" THEN UNCHANGED <<sp, opened>>
     ELSE
     /\ sp' = [sp EXCEPT
          !.if_is_false = IF Evaluates THEN v # "true" ELSE @,
          !.if_is_false_level = IF Evaluates /\ v # "true" THEN sp.if_level ELSE @,
          !.if_level = @ + 1]
     /\ opened' = Append(opened, [on |-> v = "true", taken |-> v = "true", last |-> FALSE])
  /\ Nothing
  /\ UNCHANGED <<given, cmd>>

\* An else or elif that belongs to no if: all are closed, or it comes after else.
Stray == IF opened = <<>> THEN TRUE ELSE Top.last

\* <!--#else-->
SsiElse ==
  LET level == sp.if_level - 1 IN
  /\ TakeStatement(Stray)
  /\ sp' = [sp EXCEPT
       !.if_is_false = IF sp.if_is_false
                         THEN ~(level = sp.if_is_false_level /\ ~sp.if_is_false_endif)
                         ELSE TRUE,
       !.if_is_false_level = IF sp.if_is_false THEN @ ELSE level]
  /\ IF Stray THEN UNCHANGED opened
     ELSE SetTop([on |-> ~Top.taken, taken |-> TRUE, last |-> TRUE])
  /\ Nothing
  /\ UNCHANGED <<given, cmd>>

\* <!--#elif expr="..."-->
SsiElif(v) ==
  LET level == sp.if_level - 1
      tried == sp.if_is_false /\ ~sp.if_is_false_endif
  IN
  /\ TakeStatement(v # "missing" /\ Stray)
  /\ IF v = "missing" THEN UNCHANGED <<sp, opened>>
     ELSE
     /\ sp' = IF level # sp.if_is_false_level THEN sp
              ELSE [sp EXCEPT
                !.if_is_false = ~tried \/ v # "true",
                !.if_is_false_level = IF tried /\ v = "true" THEN @ ELSE level,
                !.if_is_false_endif = IF tried THEN @ ELSE TRUE]
     /\ IF Stray THEN UNCHANGED opened
        ELSE SetTop([on |-> ~Top.taken /\ v = "true", taken |-> Top.taken \/ v = "true", last |-> FALSE])
  /\ Nothing
  /\ UNCHANGED <<given, cmd>>

\* <!--#endif-->; if_level falls below zero when there is nothing to close.
SsiEndif ==
  LET level == sp.if_level - 1
      here  == level = sp.if_is_false_level
  IN
  /\ IF opened = <<>> THEN TakeStatement(TRUE) ELSE Reading /\ UNCHANGED <<page, ssconf>>
  /\ sp' = [sp EXCEPT !.if_level = level,
                      !.if_is_false = IF here THEN FALSE ELSE @,
                      !.if_is_false_endif = IF here THEN FALSE ELSE @]
  /\ opened' = IF opened = <<>> THEN opened ELSE SubSeq(opened, 1, Len(opened) - 1)
  /\ Nothing
  /\ UNCHANGED <<given, cmd>>

-----------------------------------------------------------------------------
\* <!--#set var=... value=...-->
SsiSet(v) ==
  /\ Statement
  /\ sp' = IF sp.if_is_false THEN sp ELSE [sp EXCEPT !.vars = @ \cup {v}]
  /\ given' = IF sp.if_is_false THEN given ELSE [given EXCEPT !.vars = @ \cup {v}]
  /\ Nothing
  /\ UNCHANGED <<opened, cmd>>

\* <!--#echo var=...-->: a CGI variable hides a set one of the same name, a
\* name nobody knows gives "(none)".  The dates, names and URIs among the
\* built-in variables are CGI variables here.
SsiEcho(v) ==
  /\ Statement
  /\ Show([what |-> "var", var |-> v,
           from |-> IF v \in CgiVars THEN "cgi" ELSE IF v \in sp.vars THEN "set" ELSE "none"])
  /\ UNCHANGED <<sp, opened, given, cmd>>

\* <!--#printenv-->
SsiPrintenv ==
  /\ Statement
  /\ Show([what |-> "env", vars |-> sp.vars])
  /\ UNCHANGED <<sp, opened, given, cmd>>

\* <!--#config sizefmt=...-->
SsiConfig(abbrev) ==
  /\ Statement
  /\ sp' = IF sp.if_is_false THEN sp ELSE [sp EXCEPT !.sizefmt = abbrev]
  /\ Nothing
  /\ UNCHANGED <<opened, given, cmd>>

FileStatement_LastTime(c, paths, t) ==
  /\ Statement
  /\ IF paths # 1 \/ sp.if_is_false \/ t = 0 THEN Nothing /\ UNCHANGED <<sp, given>>
     ELSE
     /\ shown' = [what |-> c]
     /\ sp' = [sp EXCEPT !.mtime = IF c = "include" THEN t ELSE @]
     /\ given' = [given EXCEPT !.times = @ \cup (IF c = "include" THEN {t} ELSE {})]
  /\ UNCHANGED <<opened, cmd>>

\* <!--#include-->, <!--#flastmod--> and <!--#fsize-->: exactly one of file
\* and virtual (paths); t is the file's time, or 0 when stat() fails for the path the
\* statement names.
FileStatement(c, paths, t) ==
  /\ Statement
  /\ IF paths # 1 \/ sp.if_is_false \/ t = 0 THEN Nothing /\ UNCHANGED <<sp, given>>
     ELSE
     /\ shown' = [what |-> c]
     /\ sp' = [sp EXCEPT !.mtime = IF c = "include" /\ t > @ THEN t ELSE @]
     /\ given' = [given EXCEPT !.times = @ \cup (IF c = "include" THEN {t} ELSE {})]
  /\ UNCHANGED <<opened, cmd>>

-----------------------------------------------------------------------------
\* <!--#exec cmd=...-->: a pipe and a child; pipe() or fork() may fail.
SsiExec(n) ==
  /\ Statement
  /\ \/ /\ ssconf.exec /\ ~sp.if_is_false
        /\ cmd' = [at |-> "running", todo |-> n, piped |-> 0, size |-> n, tries |-> 0]
     \/ cmd' = cmd
  /\ Nothing
  /\ UNCHANGED <<sp, opened, given>>

Elsewhere == UNCHANGED <<sp, page, opened, given, ssconf>>

\* The child writes while the pipe has room, then exits or is killed.
CommandWrites ==
  /\ cmd.at = "running" /\ cmd.todo > 0 /\ cmd.piped < PipeSize
  /\ cmd' = [cmd EXCEPT !.todo = @ - 1, !.piped = @ + 1]
  /\ Nothing /\ Elsewhere

CommandEnds ==
  /\ cmd.at = "running"
  /\ \/ cmd.todo = 0 /\ cmd' = [cmd EXCEPT !.at = "exited"]
     \/ cmd' = [cmd EXCEPT !.at = "killed"]
  /\ Nothing /\ Elsewhere

\* waitpid() returns EINTR: it is called again, four calls at most.
WaitInterrupted ==
  /\ cmd.at # "none"
  /\ cmd' = IF cmd.tries + 1 < 4 THEN [cmd EXCEPT !.tries = @ + 1] ELSE NoCommand
  /\ Nothing /\ Elsewhere

\* waitpid() returns the child; what is in the pipe is read when it exited.
WaitReturns ==
  /\ cmd.at \in {"exited", "killed"}
  /\ cmd' = NoCommand
  /\ IF cmd.at = "exited"
       THEN shown' = [what |-> "output", whole |-> cmd.piped = cmd.size]
       ELSE Nothing
  /\ Elsewhere

SsiNext ==
  \/ mod_ssi_physical_path
  \/ EndPage \/ Text
  \/ \E v \in {"true", "false", "error", "missing"} : SsiIf(v) \/ SsiElif(v)
  \/ SsiElse \/ SsiEndif
  \/ \E v \in SsiVars : SsiSet(v) \/ SsiEcho(v)
  \/ SsiPrintenv
  \/ \E a \in BOOLEAN : SsiConfig(a)
  \/ \E c \in {"include", "flastmod", "fsize"}, k \in {1, 2}, t \in SsiTimes \cup {0} :
       FileStatement(c, k, t)
  \/ \E n \in ExecSizes : SsiExec(n)
  \/ CommandWrites \/ CommandEnds \/ WaitInterrupted \/ WaitReturns

SsiSpec == SsiInit /\ [][SsiNext]_ssiVars

-----------------------------------------------------------------------------
\* mod_ssi.c:931: outside of its ifs a page shows everything, before the first
\* and after the last endif, however deep they were nested and whatever the
\* pages before left in the plugin's flags, a page that ended in the middle of
\* an if among them.
NothingHiddenOutside == opened = <<>> /\ ~page.stray => ~sp.if_is_false

\* mod_ssi.c:931: on a page whose ifs are not nested in each other the text
\* of a branch is shown if and only if it is the first true one, as long as
\* no page of the worker has left an if open or closed one too many.
FlatIfsRight == ssconf.nest = 1 /\ ~page.stray /\ ~page.leaked => sp.if_is_false = ~Active

\* mod_ssi.c:1287: echo and printenv know the variables this page set, none
\* of an earlier page.
OwnVariables ==
  /\ shown.what = "var" => (shown.from = "set" => shown.var \in given.vars)
  /\ shown.what = "env" => shown.vars \subseteq given.vars

\* mod_ssi.c:1323: with conditional requests a page is as new as the newest
\* file in it, so that no client keeps a page with an older include.
PageAsNewAsIncludes ==
  shown.what = "page" /\ ssconf.conditional =>
    /\ shown.mtime \in given.times \cup {page.mtime}
    /\ \A t \in given.times \cup {page.mtime} : t <= shown.mtime

\* mod_ssi.c:859: what a command that exited wrote is on the page in full.
OutputWhole == shown.what = "output" => shown.whole

(* A page shows what it asks for. *)
SsiInv == NothingHiddenOutside /\ FlatIfsRight /\ OwnVariables /\ PageAsNewAsIncludes /\ OutputWhole
=============================================================================
