------------------------------ MODULE Request ------------------------------
(***************************************************************************)
(* The request parser (http_request_parse in request.c) on a connection    *)
(* that is kept alive: a request line, header fields one after the other,  *)
(* the checks at the end, the content, the answer, and the next request on *)
(* the same stream.  A field is one of a few kinds; its text is left out.  *)
(***************************************************************************)
EXTENDS Integers, FiniteSets

CONSTANTS
    MaxFields,      \* header fields of a request
    MaxRequests     \* requests on the connection

ASSUME RequestAssumption == MaxFields \in Nat /\ MaxRequests \in Nat

VARIABLES
    rpar,           \* what the parser has found so far
    rcon,           \* the connection: its state, con->keep_alive, requests so far
    rtrue           \* the client's side: the method, the content it sends and whether in chunks, the fields it sent

requestVars == <<rpar, rcon, rtrue>>

(* Lengths: none, one unit, more than SSIZE_MAX. *)
TooLong == 2

NewParse ==
    [method |-> "none", version |-> "none", uri |-> FALSE, reqhost |-> FALSE, host |-> "none", kset |-> "unset",
     lenset |-> FALSE, length |-> 0, ctype |-> FALSE, ims |-> "none", range |-> FALSE, te |-> FALSE, key |-> FALSE]

NewTruth == [method |-> "none", content |-> 0, chunked |-> FALSE, lengths |-> 0, hosts |-> 0, fields |-> 0]

(* connection_init(): keep_alive is 0 until a request asks for it. *)
RequestInit ==
    /\ rpar = NewParse
    /\ rcon = [state |-> "request_start", keep |-> FALSE, count |-> 0, status |-> 0, got |-> 0, left |-> 0]
    /\ rtrue = NewTruth

RequestStart ==
    /\ rcon.state = "request_start" /\ rcon.count < MaxRequests
    /\ rcon' = [rcon EXCEPT !.state = "line", !.count = @ + 1]
    /\ rtrue' = NewTruth
    /\ UNCHANGED rpar

----------------------------------------------------------------------------
(* The parser.  Refused: the rest of the header is not looked at. *)

Refused(r, status) == [r EXCEPT !.state = "handle", !.status = status, !.keep = FALSE]

(* The request line.  An empty line before it is skipped on later requests only.  A
   version that is not HTTP/1.x leaves con->keep_alive as the last request set it. *)
RequestLine ==
    /\ rcon.state = "line"
    /\ \/ rcon' = Refused(rcon, 400) /\ UNCHANGED rpar
       \/ \E empty \in BOOLEAN :
            IF empty /\ rcon.count = 1
            THEN rcon' = Refused(rcon, 400) /\ UNCHANGED rpar
            ELSE \/ rcon' = Refused(rcon, 501) /\ UNCHANGED rpar
                 \/ rcon' = [rcon EXCEPT !.state = "handle", !.status = 505] /\ UNCHANGED rpar
                 \/ \E method \in {"GET", "POST", "PUT"}, version \in {"1.0", "1.1"}, host \in BOOLEAN :
                      /\ rcon' = [rcon EXCEPT !.state = "fields", !.status = 0]
                      /\ rpar' = [rpar EXCEPT !.method = method, !.version = version, !.uri = TRUE,
                                              !.reqhost = host, !.host = IF host THEN "valid" ELSE "none"]
    /\ \E content \in 0 .. 1, chunked \in BOOLEAN :
         /\ chunked => content = 1      \* there is a last chunk even if there is nothing else
         /\ rtrue' = [rtrue EXCEPT !.method = rpar'.method, !.content = content, !.chunked = chunked]

FieldKinds ==
    {"keep-alive", "close", "length", "badlength", "toolong", "ctype", "expect", "host", "badhost",
     "ims", "othims", "none-match", "range", "norange", "te", "other", "empty", "fold", "bad"}

(* What a field of kind k adds to what was found; n: the length it tells. *)
Field(k, p, n) ==
    LET q == [p EXCEPT !.key = TRUE]
    IN  CASE k \in {"keep-alive", "close"} -> [q EXCEPT !.kset = k]
          [] k = "length" -> [q EXCEPT !.lenset = TRUE, !.length = n]
          [] k = "toolong" -> [q EXCEPT !.lenset = TRUE, !.length = TooLong]
          [] k = "ctype" -> [q EXCEPT !.ctype = TRUE]
          [] k \in {"host", "badhost"} ->
                IF p.reqhost THEN q ELSE [q EXCEPT !.host = IF k = "host" THEN "valid" ELSE "invalid"]
          [] k \in {"ims", "othims"} -> [q EXCEPT !.ims = k]
          [] k = "range" -> [q EXCEPT !.range = TRUE]
          [] k = "te" -> [q EXCEPT !.te = TRUE]
          [] OTHER -> q

(* The status with which a field is refused, 0 if it is not: duplicates, a length that is
   no number, a continuation without a field before it. *)
FieldError(k, p) ==
    CASE k \in {"bad", "badlength"} -> 400
      [] k \in {"length", "toolong"} /\ p.lenset -> 400
      [] k = "ctype" /\ p.ctype -> 400
      [] k \in {"host", "badhost"} /\ ~p.reqhost /\ p.host # "none" -> 400
      [] k \in {"ims", "othims"} /\ p.ims \notin {"none", k} -> 400
      [] k \in {"range", "norange"} /\ p.range -> 400
      [] k = "fold" /\ ~p.key -> 400
      [] OTHER -> 0

(* A field of the header.  Expect: 100-continue is refused if the server is told so; a
   continuation may make a host of another. *)
HeaderField ==
    /\ rcon.state = "fields" /\ rtrue.fields < MaxFields
    /\ \E k \in FieldKinds :
         /\ k = "te" => rtrue.chunked
         /\ rtrue' = [rtrue EXCEPT !.fields = @ + 1,
                                   !.lengths = @ + IF k \in {"length", "toolong"} THEN 1 ELSE 0,
                                   !.hosts = @ + IF k \in {"host", "badhost"} THEN 1 ELSE 0]
         /\ \/ /\ FieldError(k, rpar) # 0
               /\ rcon' = Refused(rcon, FieldError(k, rpar))
               /\ UNCHANGED rpar
            \/ /\ k = "expect"
               /\ rcon' = Refused(rcon, 417)
               /\ UNCHANGED rpar
            \/ /\ FieldError(k, rpar) = 0 /\ k # "fold"
               /\ \E n \in IF rtrue.lengths = 0 /\ ~rtrue.chunked THEN {rtrue.content} ELSE 0 .. 1 :
                    rpar' = Field(k, rpar, n)
               /\ UNCHANGED rcon
            \/ /\ FieldError(k, rpar) = 0 /\ k = "fold"
               /\ rpar' \in {rpar} \cup {[rpar EXCEPT !.host = h] : h \in IF rpar.host = "none" THEN {} ELSE {"valid", "invalid"}}
               /\ UNCHANGED rcon

(* What the header as a whole is refused for: no host with HTTP/1.1, a bad host, content
   where there must be none, or of an unknown length, or too much. *)
HeaderError(p) ==
    CASE p.version = "1.1" /\ p.host = "none" -> 400
      [] p.host = "invalid" -> 400
      [] p.method = "GET" /\ p.lenset /\ p.length # 0 -> 400
      [] p.method = "POST" /\ ~p.lenset -> 411
      [] p.method = "PUT" /\ p.te -> 411
      [] p.lenset /\ p.length = TooLong -> 413
      [] OTHER -> 0

(* HTTP/1.1 keeps the connection unless told not to, HTTP/1.0 if it is told to. *)
KeepAlive(p) == IF p.version = "1.1" THEN p.kset # "close" ELSE p.kset = "keep-alive"

(* The empty line.  A client that says nothing of content, by its length or by
   Transfer-Encoding, sends none. *)
HeaderEnd ==
    /\ rcon.state = "fields"
    /\ IF rtrue.chunked THEN rpar.te ELSE rtrue.content > 0 => rtrue.lengths > 0
    /\ rcon' = IF HeaderError(rpar) # 0 THEN Refused(rcon, HeaderError(rpar))
               ELSE [rcon EXCEPT !.state = IF rpar.length # 0 THEN "read_post" ELSE "handle",
                                 !.keep = KeepAlive(rpar)]
    /\ UNCHANGED <<rpar, rtrue>>

----------------------------------------------------------------------------
(* Content and answer *)

(* connection_handle_read_post_state(): the content arrives; it may be more than the
   server wants. *)
ReadPost ==
    /\ rcon.state = "read_post"
    /\ \/ rcon.got < rpar.length /\ rcon' = [rcon EXCEPT !.got = @ + 1]
       \/ rcon.got = rpar.length /\ rcon' = [rcon EXCEPT !.state = "handle"]
       \/ rcon' = Refused(rcon, 413)
    /\ UNCHANGED <<rpar, rtrue>>

(* The request is answered; a module may answer before the content is there. *)
Answer ==
    /\ rcon.state \in {"handle", "read_post"}
    /\ \E keep \in {rcon.keep, FALSE} :
         rcon' = [rcon EXCEPT !.state = "response_end", !.status = IF @ = 0 THEN 200 ELSE @, !.keep = keep]
    /\ UNCHANGED <<rpar, rtrue>>

(* Mutant: content that was not read does not matter. *)
KeptAlive_Unread(r, p) == r.keep

(* Whether the connection goes on after the answer: never with content that was
   announced and not read. *)
KeptAlive(r, p) == r.keep /\ p.length = r.got

(* connection_handle_response_end_state(); connection_reset() leaves con->keep_alive. *)
ResponseEndState ==
    /\ rcon.state = "response_end"
    /\ rcon' = IF KeptAlive(rcon, rpar)
               THEN [rcon EXCEPT !.state = "request_start", !.got = 0, !.left = rtrue.content - rcon.got]
               ELSE [rcon EXCEPT !.state = "closed", !.keep = FALSE]
    /\ rpar' = NewParse
    /\ UNCHANGED rtrue

RequestNext ==
    RequestStart \/ RequestLine \/ HeaderField \/ HeaderEnd \/ ReadPost \/ Answer \/ ResponseEndState

RequestSpec == RequestInit /\ [][RequestNext]_requestVars

----------------------------------------------------------------------------
(* Properties *)

(* A connection that is kept alive stays in step with its client: the next request is
   looked for where the client began it, and no content of the last one is left before
   it (http_request_parse, connection_handle_response_end_state).  Two requests keep the
   connection whatever content they have: one of an unknown HTTP version, whose header is
   not read, and a GET or POST with Transfer-Encoding, which only other methods are
   refused for. *)
InStep ==
    rcon.state = "request_start" /\ rcon.status # 505 /\ ~(rtrue.chunked /\ rtrue.method \in {"GET", "POST"})
      => rcon.left = 0

(* A request that is accepted says one thing: one length, the client's unless that is in
   chunks, and one host unless the request line has it (the duplicate checks of
   http_request_parse, in whatever order the fields come). *)
Unambiguous ==
    rcon.state = "read_post" \/ (rcon.state = "handle" /\ rcon.status = 0)
      => /\ rtrue.lengths <= 1
         /\ rpar.reqhost \/ rtrue.hosts <= 1
         /\ rtrue.chunked \/ rtrue.lengths = 0 \/ rpar.length = rtrue.content

(* A request ends where the next one begins, and means one thing. *)
RequestInv == InStep /\ Unambiguous
=============================================================================
