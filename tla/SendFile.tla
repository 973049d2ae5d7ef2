------------------------------ MODULE SendFile ------------------------------
(***************************************************************************)
(* The answer to a request for a file (mod_staticfile.c,                   *)
(* http-header-glue.c, etag.c and the end of it in connections.c): who may *)
(* have it, conditional requests, ranges of bytes, error pages.            *)
(*                                                                         *)
(* A request is chosen at the beginning, then the functions answer it.     *)
(* Texts are reduced to what comparing or parsing them says: an entity tag *)
(* is equal, weak, other or malformed; a date equal to that of the file,   *)
(* the beginning of it, older, newer, or no date at all.                   *)
(***************************************************************************)
EXTENDS Integers, Sequences, FiniteSets, SequencesExt

CONSTANTS
    MaxSize,        \* largest file
    MaxPos,         \* largest number in a Range header
    MaxRanges       \* longest Range header

ASSUME SendFileAssumption == {MaxSize, MaxPos, MaxRanges} \subseteq Nat

VARIABLES
    sfreq,          \* the request, the file and the configuration
    sfresp,         \* the response so far
    sfstep          \* the function that is next

sendFileVars == <<sfreq, sfresp, sfstep>>

(* What may stand in a Range header: -n, n-, n-m, or something else. *)
RangeSpecs ==
    {[kind |-> "suffix", a |-> n, b |-> 0] : n \in 0 .. MaxPos}
    \cup {[kind |-> "from", a |-> n, b |-> 0] : n \in 0 .. MaxPos}
    \cup [kind : {"span"}, a : 0 .. MaxPos, b : 0 .. MaxPos]
    \cup {[kind |-> "bad", a |-> 0, b |-> 0]}

Tags == {"equal", "weak", "other", "bad"}

(* ranges: the specs of the Range header, <<>> without one; inm: the list of tags of
   If-None-Match, <<"*">> or <<>>; served: con->http_status before (200 if a backend
   has set it); etag, type: whether the file has a tag and a known type. *)
PlainRequest ==
    [method |-> "GET", kind |-> "file", size |-> 1, follow |-> TRUE, etag |-> TRUE, type |-> TRUE,
     inm |-> <<>>, ims |-> "none", ranges |-> <<>>, range_requests |-> TRUE, if_range |-> "none",
     excluded |-> FALSE]

SeqsUpTo(S, n) == UNION {[1 .. m -> S] : m \in 0 .. n}

(* Requests for ranges; conditional requests; everything else that decides. *)
Requests ==
    {[PlainRequest EXCEPT !.ranges = r, !.size = n] :
        r \in SeqsUpTo(RangeSpecs, MaxRanges), n \in 0 .. MaxSize}
    \cup {[PlainRequest EXCEPT !.inm = t, !.ims = d, !.method = m, !.etag = e, !.type = y,
                               !.ranges = r, !.if_range = i] :
            t \in SeqsUpTo(Tags, 2) \cup {<<"*">>}, d \in {"none", "equal", "prefix", "older", "newer", "bad"},
            m \in {"GET", "HEAD", "POST"}, e \in BOOLEAN, y \in BOOLEAN,
            r \in {<<>>, <<[kind |-> "from", a |-> 0, b |-> 0]>>},
            i \in {"none", "etag", "other etag", "date", "other date"}}
    \cup {[PlainRequest EXCEPT !.kind = k, !.follow = f, !.method = m, !.size = n, !.excluded = x] :
            k \in {"missing", "unreadable", "directory", "symlink", "vanished", "file"}, f \in BOOLEAN,
            m \in {"GET", "HEAD", "POST", "OPTIONS", "PUT"}, n \in 0 .. MaxSize, x \in BOOLEAN}

(* queue: parts of the file in the write queue, <<first, last>>, and the error page *)
NoAnswer == [status |-> 0, queue |-> <<>>, fin |-> FALSE, multipart |-> FALSE, tagged |-> FALSE, dated |-> FALSE]

SendFileInit == sfreq \in Requests /\ sfresp = NoAnswer /\ sfstep = "subrequest"

----------------------------------------------------------------------------
(* etag_is_equal() with weak_ok = 0: the list is read up to a tag that is malformed. *)
etag_is_equal(tags, have) ==
    \/ tags = <<"*">>
    \/ have /\ \E i \in 1 .. Len(tags) : tags[i] = "equal" /\ \A j \in 1 .. i - 1 : tags[j] # "bad"

(* http_response_handle_cachable(): the status, or "go on", or "finished" without one.
   With If-None-Match the date does not matter. *)
http_response_handle_cachable(r, p) ==
    LET head_or_get == r.method \in {"GET", "HEAD"}
    IN  CASE r.inm # <<>> /\ etag_is_equal(r.inm, p.tagged) -> IF head_or_get THEN 304 ELSE 412
          [] r.inm = <<>> /\ head_or_get /\ r.ims \in {"equal", "newer"} -> 304
          [] r.inm = <<>> /\ head_or_get /\ r.ims = "prefix" -> -1
          [] OTHER -> 0

----------------------------------------------------------------------------
Clamp(first, last, size) ==
    <<IF first < 0 THEN 0 ELSE first, IF last > size - 1 THEN size - 1 ELSE last>>

(* The bytes a spec asks for, of a file of that size. *)
Asked(spec, size) ==
    CASE spec.kind = "suffix" -> Clamp(size - spec.a, size - 1, size)
      [] spec.kind = "from" -> Clamp(spec.a, size - 1, size)
      [] OTHER -> Clamp(spec.a, spec.b, size)

(* What a spec adds: error, and a status for one that cannot be satisfied. *)
Malformed(spec) == spec.kind = "bad" \/ (spec.kind = "span" /\ spec.a > spec.b)
Unsatisfiable(spec, size) ==
    (spec.kind = "suffix" /\ spec.a = 0) \/ (~Malformed(spec) /\ Asked(spec, size)[1] > size - 1)

(* http_response_parse_range(): one spec after the other goes to the write queue,
   until one is wrong. *)
http_response_parse_range(r) ==
    FoldLeft(LAMBDA acc, spec :
                CASE acc.error -> acc
                  [] ~acc.error /\ Unsatisfiable(spec, r.size) -> [acc EXCEPT !.error = TRUE, !.status = 416]
                  [] ~acc.error /\ Malformed(spec) -> [acc EXCEPT !.error = TRUE]
                  [] OTHER -> [acc EXCEPT !.parts = Append(@, Asked(spec, r.size))],
             [error |-> FALSE, status |-> 0, parts |-> <<>>, multipart |-> Len(r.ranges) > 1],
             r.ranges)

(* If-Range: without a match the whole file is sent. *)
IfRange(r, p) ==
    \/ r.if_range = "none"
    \/ r.if_range = "etag" /\ p.tagged
    \/ r.if_range = "date" /\ p.dated

(* The part of http_response_send_file() behind the checks of the file. *)
Body(r, p) ==
    LET g == http_response_parse_range(r)
    IN  IF r.ranges # <<>> /\ r.range_requests /\ p.status \in {0, 200} /\ IfRange(r, p)
        THEN [p EXCEPT !.fin = TRUE, !.queue = g.parts, !.multipart = g.multipart,
                       !.status = IF g.error THEN (IF g.status # 0 THEN g.status ELSE @) ELSE 206]
        ELSE CASE r.size = 0 -> [p EXCEPT !.status = 200, !.fin = TRUE]
               [] r.size > 0 /\ r.kind = "vanished" -> [p EXCEPT !.status = 403]
               [] OTHER -> [p EXCEPT !.status = 200, !.fin = TRUE, !.queue = <<<<0, r.size - 1>>>>]

(* A file of unknown type may not be cached.  vanished: it can be looked up and not
   opened any more. *)
http_response_send_file(r, p) ==
    LET caching == p.status \in {0, 200} /\ r.type
        q == IF caching THEN [p EXCEPT !.tagged = r.etag, !.dated = TRUE] ELSE p
        c == http_response_handle_cachable(r, q)
        regular == r.kind \in {"file", "vanished"} \/ (r.kind = "symlink" /\ r.follow)
    IN  CASE r.kind = "missing" -> [p EXCEPT !.status = 404]
          [] r.kind = "unreadable" -> [p EXCEPT !.status = 403]
          [] r.kind = "symlink" /\ ~r.follow -> [p EXCEPT !.status = 403]
          [] r.kind = "directory" -> [p EXCEPT !.status = 403]
          [] regular /\ caching /\ c = -1 -> q
          [] regular /\ caching /\ c > 0 -> [q EXCEPT !.status = c]
          [] OTHER -> Body(r, q)

(* mod_staticfile_subrequest(): what it does not handle goes on, and is refused if no
   other module handles it. *)
mod_staticfile_subrequest ==
    /\ sfstep = "subrequest"
    /\ sfresp' = IF sfreq.method \notin {"GET", "POST", "HEAD"} \/ sfreq.excluded
                 THEN (IF sfreq.method = "OPTIONS" THEN sfresp ELSE [sfresp EXCEPT !.status = 403])
                 ELSE http_response_send_file(sfreq, sfresp)
    /\ sfstep' = "prepare"
    /\ UNCHANGED sfreq

----------------------------------------------------------------------------
(* Mutant: what was queued before the error stays in front of the page. *)
ErrdocInit_Keeps(p) == [p EXCEPT !.tagged = FALSE, !.dated = FALSE]

(* connection_handle_errdoc_init(): headers and queue are those of the error alone. *)
connection_handle_errdoc_init(p) == [p EXCEPT !.queue = <<>>, !.tagged = FALSE, !.dated = FALSE]

(* connection_handle_write_prepare(): answers without a body; the page for an error. *)
WritePrepare(p) ==
    CASE p.status \in {204, 205, 304} -> [p EXCEPT !.queue = <<>>, !.fin = TRUE]
      [] p.status \in 400 .. 599 ->
            LET e == connection_handle_errdoc_init(p)
            IN  [e EXCEPT !.queue = Append(@, <<"error page">>), !.fin = TRUE]
      [] OTHER -> p

(* In CON_STATE_HANDLE_REQUEST an answer without a status is a 200.  OPTIONS is
   answered here. *)
SendFilePrepare ==
    /\ sfstep = "prepare"
    /\ LET p == IF sfresp.status = 0 THEN [sfresp EXCEPT !.status = 200] ELSE sfresp
           q == CASE sfreq.method = "OPTIONS" /\ p.status = 200 -> [p EXCEPT !.queue = <<>>, !.fin = TRUE]
                  [] OTHER -> p
           w == WritePrepare(q)
       IN  sfresp' = IF sfreq.method = "HEAD" THEN [w EXCEPT !.queue = <<>>, !.fin = TRUE] ELSE w
    /\ sfstep' = "done"
    /\ UNCHANGED sfreq

SendFileDone == sfstep = "done" /\ UNCHANGED sendFileVars

SendFileNext == mod_staticfile_subrequest \/ SendFilePrepare \/ SendFileDone

SendFileSpec == SendFileInit /\ [][SendFileNext]_sendFileVars

----------------------------------------------------------------------------
(* Properties *)

Answered == sfstep = "done"
Size(part) == part[2] - part[1] + 1

(* A partial answer consists of what was asked for, in that order, each part inside
   the file and none of it empty; it is only given if all of it can be. *)
PartialIsAsked ==
    Answered /\ sfresp.status = 206 =>
        /\ sfreq.ranges # <<>>
        /\ \A i \in 1 .. Len(sfreq.ranges) : ~Malformed(sfreq.ranges[i]) /\ ~Unsatisfiable(sfreq.ranges[i], sfreq.size)
        /\ sfreq.method # "HEAD" =>
             /\ Len(sfresp.queue) = Len(sfreq.ranges)
             /\ \A i \in 1 .. Len(sfresp.queue) :
                  LET part == sfresp.queue[i]
                      spec == sfreq.ranges[i]
                  IN  /\ Size(part) > 0 /\ part[1] >= 0 /\ part[2] < sfreq.size
                      /\ \A n \in 0 .. sfreq.size - 1 :
                           n \in part[1] .. part[2] <=>
                             CASE spec.kind = "suffix" -> n >= sfreq.size - spec.a
                               [] spec.kind = "from" -> n >= spec.a
                               [] OTHER -> n >= spec.a /\ n <= spec.b

(* A 304 says that the copy the client has is current: by a tag of the file itself if
   tags are given, whatever the date, and otherwise by the date. *)
NotModifiedIsCurrent ==
    Answered /\ sfresp.status = 304 =>
        /\ sfreq.method \in {"GET", "HEAD"} /\ sfresp.queue = <<>>
        /\ IF sfreq.inm # <<>>
           THEN sfreq.inm = <<"*">> \/ (sfreq.etag /\ "equal" \in {sfreq.inm[i] : i \in 1 .. Len(sfreq.inm)})
           ELSE sfreq.ims \in {"equal", "newer"}

(* Every answer is complete: what is announced as the file is the file, whole, and an
   answer that is neither comes to an end.  Left out are a date that is the beginning
   of the one of the file, and ranges that are malformed. *)
AnswerComplete ==
    (/\ Answered /\ ~sfreq.ims = "prefix"
     /\ \A i \in 1 .. Len(sfreq.ranges) : ~Malformed(sfreq.ranges[i])) =>
        /\ sfresp.fin
        /\ sfresp.status = 200 /\ sfreq.method \in {"GET", "POST"} =>
              sfresp.queue = IF sfreq.size = 0 THEN <<>> ELSE <<<<0, sfreq.size - 1>>>>

(* An error is answered by its page alone: no part of the file that was queued before the
   range in which the error is, and no tag or date by which a cache would keep it. *)
ErrorStandsAlone ==
    Answered /\ sfresp.status \in 400 .. 599 =>
        /\ sfresp.queue = IF sfreq.method = "HEAD" THEN <<>> ELSE <<<<"error page">>>>
        /\ sfresp.fin /\ ~sfresp.tagged /\ ~sfresp.dated

(* Nobody gets a byte of what is not a file, of a symbolic link that may not be
   followed, or of a file with an excluded extension. *)
OnlyFiles ==
    Answered /\ (sfreq.kind \in {"missing", "unreadable", "directory"} \/ (sfreq.kind = "symlink" /\ ~sfreq.follow)
                    \/ sfreq.excluded) =>
        sfresp.queue \in {<<>>, <<<<"error page">>>>}

(* The answer for a file is the file. *)
SendFileInv ==
    PartialIsAsked /\ NotModifiedIsCurrent /\ AnswerComplete /\ ErrorStandsAlone /\ OnlyFiles
=============================================================================
