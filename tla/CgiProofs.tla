------------------------------ MODULE CgiProofs ------------------------------
(***************************************************************************)
(* What holds of the scripts of any number of connections, whatever they,  *)
(* their clients and their pipes do: every handler takes a sound           *)
(* connection to a sound one and does one of six things to descriptors     *)
(* and processes; each of these keeps the owners of all of them; and what  *)
(* the state machine leaves is watched by somebody.                        *)
(***************************************************************************)
EXTENDS Cgi, FiniteSetTheorems, SequenceTheorems, TLAPS

CgiStates == {"closed", "idle", "request", "write", "end", "error"}
CgiHandlers ==
    [pid : Pid \cup {CgiNil}, fd : Fd \cup {CgiNil}, fdtocgi : Fd \cup {CgiNil}, ev : BOOLEAN,
     evto : {"no", "off", "OUT"}, hdr : BOOLEAN, reader : BOOLEAN, writer : BOOLEAN,
     data : {"none", "part", "rest", "local"}]
CgiConnections ==
    [st : CgiStates, mode : {"direct", "cgi"}, status : {"none", "403", "500", "502"}, rd : BOOLEAN,
     wr : BOOLEAN, ka : BOOLEAN, count : Nat, len : 0 .. MaxBody, in : Nat, out : Nat,
     owed : 0 .. MaxBody, pollin : BOOLEAN, started : BOOLEAN, fin : BOOLEAN, wq : 0 .. 2,
     hctx : BOOLEAN, h : CgiHandlers]

(* The body is read before it is sent, and what is still to come of it is known, or the
   connection will not be kept alive. *)
Balanced(r) ==
    /\ r.in <= r.len /\ r.out <= r.in
    /\ r.owed = r.len - r.in \/ (~r.ka /\ r.len = 0)

(* A script has a process and a pipe to read from, and there is none without a context. *)
Bound(r) ==
    /\ r.h.fd = CgiNil <=> r.h.pid = CgiNil
    /\ r.h.fd = CgiNil => r.h.fdtocgi = CgiNil
    /\ r.h.fdtocgi = CgiNil => r.h.evto = "no"
    /\ ~r.hctx => r.h = cgi_handler_ctx_init

(* Reading from a script is only suspended while a response that was started is streamed. *)
Heard(r) ==
    /\ r.hctx /\ r.mode = "cgi" => ~r.fin
    /\ r.h.fd # CgiNil => r.mode = "cgi" /\ (r.h.ev \/ (BufMin /\ r.started))
    /\ r.h.fd # CgiNil /\ ~Streaming => r.in = r.len
    /\ r.st = "request" /\ r.wq > 0 => r.started
    /\ r.st = "request" /\ r.mode = "direct" /\ r.status = "none" => ~r.hctx /\ ~r.fin
    /\ r.st \in {"closed", "idle"} =>
            ~r.hctx /\ r.len = 0 /\ r.owed = 0 /\ ~r.fin /\ r.wq = 0

(* The pipe to a script is only open while a part of the body is to be sent. *)
Sending(r) == r.h.fdtocgi # CgiNil => r.out < r.len /\ (r.in = r.out => r.pollin)
Fed(r) == r.h.fdtocgi # CgiNil /\ r.in > r.out => r.h.evto = "OUT"

Loose(r) == r \in CgiConnections /\ Balanced(r) /\ Bound(r) /\ Heard(r) /\ Sending(r)
Good(r) == Loose(r) /\ Fed(r)

(* An outcome of a handler, and what is left alone. *)
IsOut(o) ==
    o = [con |-> o.con, ret |-> o.ret, add |-> o.add, del |-> o.del, new |-> o.new, left |-> o.left]
SameScript(r, x) ==
    x.hctx = r.hctx /\ x.h.pid = r.h.pid /\ x.h.fd = r.h.fd /\ x.h.fdtocgi = r.h.fdtocgi
Quiet(o) == o.add = {} /\ o.del = {} /\ o.new = CgiNil /\ o.left = CgiNil

(* What a handler can do to descriptors and processes: nothing, close the pipe to the
   script, give the script up, start one with or without a pipe to it, or fail to. *)
Stays(r, o) == SameScript(r, o.con) /\ Quiet(o)
StdinClosed(r, o) ==
    /\ r.h.fdtocgi # CgiNil
    /\ o.con.hctx /\ o.con.h.pid = r.h.pid /\ o.con.h.fd = r.h.fd /\ o.con.h.fdtocgi = CgiNil
    /\ o.add = {} /\ o.del = {r.h.fdtocgi} /\ o.new = CgiNil /\ o.left = CgiNil
GivenUp(r, o) ==
    /\ o.con.h = cgi_handler_ctx_init /\ ~o.con.hctx
    /\ o.add = {} /\ o.del = {r.h.fd, r.h.fdtocgi} \ {CgiNil}
    /\ o.new = CgiNil /\ o.left = r.h.pid
Started(r, o) ==
    /\ r.h.fd = CgiNil
    /\ \E f \in Fd, p \in Pid :
        /\ fdarray[f] = CgiNil /\ child[p] = "free"
        /\ o.con.hctx /\ o.con.h.pid = p /\ o.con.h.fd = f /\ o.con.h.fdtocgi = CgiNil
        /\ o.add = {<<f, "out">>} /\ o.del = {} /\ o.new = p /\ o.left = CgiNil
StartedBoth(r, o) ==
    /\ r.h.fd = CgiNil
    /\ \E f, g \in Fd, p \in Pid :
        /\ f # g /\ fdarray[f] = CgiNil /\ fdarray[g] = CgiNil /\ child[p] = "free"
        /\ o.con.hctx /\ o.con.h.pid = p /\ o.con.h.fd = f /\ o.con.h.fdtocgi = g
        /\ o.add = {<<f, "out">>, <<g, "in">>} /\ o.del = {} /\ o.new = p /\ o.left = CgiNil
StartFailed(r, o) ==
    /\ r.h.fd = CgiNil
    /\ o.con.h = cgi_handler_ctx_init /\ ~o.con.hctx
    /\ \E f \in Fd, p \in Pid :
        /\ fdarray[f] = CgiNil /\ child[p] = "free"
        /\ o.add = {<<f, "out">>} /\ o.del = {f} /\ o.new = p /\ o.left = p

Effect(r, o) ==
    \/ Stays(r, o) \/ StdinClosed(r, o) \/ GivenUp(r, o)
    \/ Started(r, o) \/ StartedBoth(r, o) \/ StartFailed(r, o)

(* The fields of an outcome that is written out. *)
LEMMA MadeOut ==
    ASSUME NEW con_, NEW ret, NEW add, NEW del, NEW new, NEW left, NEW o,
           o = [con |-> con_, ret |-> ret, add |-> add, del |-> del, new |-> new, left |-> left]
    PROVE  /\ IsOut(o) /\ o.con = con_ /\ o.ret = ret /\ o.add = add /\ o.del = del
           /\ o.new = new /\ o.left = left
BY DEF IsOut

(* A context before its script is started (cgi_handler_ctx_init). *)
LEMMA NoScriptTyped ==
    /\ cgi_handler_ctx_init \in CgiHandlers
    /\ cgi_handler_ctx_init.pid = CgiNil /\ cgi_handler_ctx_init.fd = CgiNil
    /\ cgi_handler_ctx_init.fdtocgi = CgiNil /\ cgi_handler_ctx_init.evto = "no"
BY DEF cgi_handler_ctx_init, CgiHandlers

-----------------------------------------------------------------------------
(* Closing *)

(* What is needed of a connection whose script is given up. *)
Closing(r) ==
    /\ r \in CgiConnections /\ Balanced(r)
    /\ r.st \notin {"closed", "idle"}
    /\ r.st = "request" /\ r.wq > 0 => r.started
    /\ r.st = "request" /\ r.mode = "direct" /\ r.status = "none" => ~r.fin

(* Every script can be given up. *)
LEMMA GoodCloses == ASSUME NEW r, Loose(r), r.hctx PROVE Closing(r)
BY DEF Loose, Closing, Heard

(* cgi_connection_close() *)
LEMMA CloseGivesUp ==
    ASSUME NEW r, NEW ret, Closing(r)
    PROVE  LET o == cgi_connection_close(r, ret)
           IN  IsOut(o) /\ Good(o.con) /\ o.con.st = r.st /\ GivenUp(r, o) /\ o.ret = ret
<1> DEFINE i == cgi_handler_ctx_init
           x == [r EXCEPT !.hctx = FALSE, !.h = i]
           y == http_response_backend_done(x)
           z == IF r.mode = "cgi" THEN y ELSE x
           S == {r.h.fd, r.h.fdtocgi} \ {CgiNil}
<1>1. i \in CgiHandlers /\ i.pid = CgiNil /\ i.fd = CgiNil /\ i.fdtocgi = CgiNil /\ i.evto = "no"
  BY NoScriptTyped
<1> HIDE DEF i
<1>2. /\ x \in CgiConnections /\ ~x.hctx /\ x.h = i /\ x.st = r.st /\ x.mode = r.mode
      /\ x.status = r.status /\ x.fin = r.fin /\ x.wq = r.wq /\ x.started = r.started
      /\ x.len = r.len /\ x.in = r.in /\ x.out = r.out /\ x.owed = r.owed /\ x.ka = r.ka
  BY <1>1 DEF Closing, CgiConnections
<1> HIDE DEF x
<1>3. y \in {x, [x EXCEPT !.status = "500", !.mode = "direct"], [x EXCEPT !.fin = TRUE]}
      /\ (x.st = "request" /\ ~x.started => y = [x EXCEPT !.status = "500", !.mode = "direct"])
  BY DEF http_response_backend_done
<1> HIDE DEF y
<1>4. /\ z \in CgiConnections /\ ~z.hctx /\ z.h = i /\ z.st = r.st
      /\ z.wq = r.wq /\ z.started = r.started
      /\ z.len = r.len /\ z.in = r.in /\ z.out = r.out /\ z.owed = r.owed /\ z.ka = r.ka
      /\ z.st = "request" /\ z.mode = "direct" /\ z.status = "none" => ~z.fin
  <2>1. CASE z = x
    BY <1>2, <2>1 DEF Closing
  <2>2. CASE z = [x EXCEPT !.status = "500", !.mode = "direct"]
    <3>1. z \in CgiConnections
      BY <1>2, <2>2, ZenonT(60) DEF CgiConnections
    <3>2. z.status = "500"
      BY <1>2, <2>2 DEF CgiConnections
    <3>3. /\ z.hctx = x.hctx /\ z.h = x.h /\ z.st = x.st /\ z.wq = x.wq /\ z.started = x.started
          /\ z.len = x.len /\ z.in = x.in /\ z.out = x.out /\ z.owed = x.owed /\ z.ka = x.ka
      BY <1>2, <2>2 DEF CgiConnections
    <3> QED BY <1>2, <3>1, <3>2, <3>3
  <2>3. CASE z = [x EXCEPT !.fin = TRUE] /\ r.mode = "cgi"
    BY <1>2, <2>3 DEF CgiConnections
  <2> QED BY <1>2, <1>3, <2>1, <2>2, <2>3
<1> HIDE DEF z
<1>5. Good(z)
  BY <1>1, <1>4 DEF Good, Loose, Balanced, Bound, Heard, Sending, Fed, Closing, i
<1>6. cgi_connection_close(r, ret) =
        [con |-> z, ret |-> ret, add |-> {}, del |-> S, new |-> CgiNil, left |-> r.h.pid]
  <2>1. cgi_connection_close(r, ret) = [CgiOut(z, ret) EXCEPT !.del = S, !.left = r.h.pid]
    BY DEF cgi_connection_close, z, y, x, i
  <2> HIDE DEF S
  <2> QED BY <2>1 DEF CgiOut
<1> HIDE DEF S
<1> QED BY <1>4, <1>5, <1>6 DEF IsOut, GivenUp, i, S

-----------------------------------------------------------------------------
(* The request body *)

(* What the transfer of a body leaves alone. *)
Alike(r, x) ==
    /\ x.st = r.st /\ x.mode = r.mode /\ x.status = r.status /\ x.hctx = r.hctx
    /\ x.fin = r.fin /\ x.started = r.started /\ x.wq = r.wq

(* Part of the body was read; a client that fell silent is waited for. *)
LEMMA PostRead ==
    ASSUME NEW r, Good(r), r.hctx, r.mode = "cgi", r.in # r.len,
           NEW o \in connection_handle_read_post_state(r)
    PROVE  /\ IsOut(o) /\ Quiet(o) /\ Loose(o.con) /\ Alike(r, o.con) /\ o.con.h = r.h
           /\ o.ret \in {"GO_ON", "WAIT_FOR_EVENT", "ERROR"}
           /\ o.con.in # r.len => o.ret = "ERROR" \/ o.con.pollin
           /\ o.ret = "WAIT_FOR_EVENT" => r.h.fd = CgiNil /\ o.con.pollin
           /\ o.ret = "GO_ON" => Streaming \/ o.con.in = r.len
           /\ o.con.len = r.len
           /\ o.ret = "ERROR" => o.con = r
<1>0. /\ r \in CgiConnections /\ Balanced(r) /\ Bound(r) /\ Heard(r) /\ Sending(r) /\ Loose(r)
      /\ r.in \in Nat /\ r.out \in Nat /\ r.len \in Nat /\ r.owed \in Nat /\ r.owed = r.len - r.in
      /\ r.owed <= MaxBody /\ MaxBody \in Nat /\ r.out <= r.in /\ r.in <= r.len
  BY CgiAssumption DEF Good, Loose, Balanced, CgiConnections
<1>1. CASE o = CgiOut(r, "ERROR")
  BY <1>0, <1>1 DEF CgiOut, IsOut, Quiet, Alike
<1>2. ASSUME NEW n \in 0 .. r.len - r.in,
             o \in {CgiOut([r EXCEPT !.rd = FALSE, !.in = r.len, !.owed = @ - n, !.pollin = FALSE], "GO_ON"),
                    CgiOut([r EXCEPT !.rd = FALSE, !.in = @ + n, !.owed = @ - n, !.pollin = TRUE], "GO_ON"),
                    CgiOut([r EXCEPT !.rd = FALSE, !.in = @ + n, !.owed = @ - n, !.pollin = TRUE],
                           "WAIT_FOR_EVENT")},
             o.ret = "WAIT_FOR_EVENT" => ~Streaming /\ o.con.pollin,
             o.ret = "GO_ON" => Streaming \/ o.con.in = r.len,
             o.con.in = r.in + n,
             ~o.con.pollin => r.in + n = r.len,
             r.in + n # r.len => o.con.pollin
      PROVE  /\ IsOut(o) /\ Quiet(o) /\ Loose(o.con) /\ Alike(r, o.con) /\ o.con.h = r.h
             /\ o.ret \in {"GO_ON", "WAIT_FOR_EVENT"}
             /\ o.con.in # r.len => o.con.pollin
             /\ o.ret = "WAIT_FOR_EVENT" => r.h.fd = CgiNil
             /\ o.ret = "WAIT_FOR_EVENT" => o.con.pollin
             /\ o.ret = "GO_ON" => Streaming \/ o.con.in = r.len
             /\ o.con.len = r.len
  <2> DEFINE m == r.in + n
             w == r.owed - n
             x == o.con
  <2>1. m \in Nat /\ m <= r.len /\ r.out <= m /\ w \in 0 .. MaxBody /\ w = r.len - m
    BY <1>0
  <2>2. r.len \in Nat
    BY <1>0
  <2>3. IsOut(o) /\ Quiet(o) /\ o.ret \in {"GO_ON", "WAIT_FOR_EVENT"}
    BY <1>2 DEF IsOut, Quiet, CgiOut
  <2>4. \/ x = [r EXCEPT !.rd = FALSE, !.in = r.len, !.owed = w, !.pollin = FALSE]
        \/ x = [r EXCEPT !.rd = FALSE, !.in = m, !.owed = w, !.pollin = TRUE]
    BY <1>2, <1>0 DEF CgiOut, CgiConnections
  <2>5. o.ret = "WAIT_FOR_EVENT" => x.pollin
    BY <1>2
  <2>6. x.in = m
    BY <1>2
  <2>7. ~x.pollin => m = r.len
    BY <1>2
  <2> HIDE DEF m, w, x
  <2>8. /\ x \in CgiConnections /\ x.owed = w
    <3>1. CASE x = [r EXCEPT !.rd = FALSE, !.in = r.len, !.owed = w, !.pollin = FALSE]
      BY <1>0, <2>1, <3>1 DEF CgiConnections
    <3>2. CASE x = [r EXCEPT !.rd = FALSE, !.in = m, !.owed = w, !.pollin = TRUE]
      BY <1>0, <2>1, <3>2 DEF CgiConnections
    <3> QED BY <2>4, <3>1, <3>2
  <2>9. Alike(r, x) /\ x.h = r.h
    BY <1>0, <2>4 DEF CgiConnections, Alike
  <2>10. x.len = r.len /\ x.out = r.out /\ x.ka = r.ka
    BY <1>0, <2>4 DEF CgiConnections
  <2>11. Balanced(x) /\ Bound(x) /\ Sending(x)
    BY <1>0, <2>1, <2>6, <2>7, <2>8, <2>9, <2>10 DEF Balanced, Bound, Sending, Alike
  <2>12. r.h.fd # CgiNil => Streaming
    BY <1>0 DEF Heard
  <2>13. Heard(x)
    BY <1>0, <2>9, <2>12 DEF Heard, Alike
  <2>14. o.con = x
    BY DEF x
  <2> QED BY <1>2, <2>3, <2>5, <2>6, <2>7, <2>8, <2>9, <2>10, <2>11, <2>12, <2>13, <2>14 DEF Loose, m
<1>3. o = CgiOut(r, "ERROR") \/ \E n \in 0 .. r.len - r.in :
          o = IF r.in + n = r.len
              THEN CgiOut([r EXCEPT !.rd = FALSE, !.in = r.len, !.owed = @ - n, !.pollin = FALSE], "GO_ON")
              ELSE CgiOut([r EXCEPT !.rd = FALSE, !.in = @ + n, !.owed = @ - n, !.pollin = TRUE],
                          IF Streaming THEN "GO_ON" ELSE "WAIT_FOR_EVENT")
  <2>1. 0 \in 0 .. r.len - r.in
    BY <1>0
  <2>2. CASE o \in {CgiOut(x, "ERROR") : x \in {y \in {r} : y.rd}}
    BY <2>2
  <2>3. CASE r.rd
    BY <2>2, <2>3 DEF connection_handle_read_post_state
  <2>4. CASE ~r.rd
    BY <2>1, <2>2, <2>4 DEF connection_handle_read_post_state
  <2> QED BY <2>3, <2>4
<1>4. CASE o # CgiOut(r, "ERROR")
  <2>1. PICK n \in 0 .. r.len - r.in :
          o = IF r.in + n = r.len
              THEN CgiOut([r EXCEPT !.rd = FALSE, !.in = r.len, !.owed = @ - n, !.pollin = FALSE], "GO_ON")
              ELSE CgiOut([r EXCEPT !.rd = FALSE, !.in = @ + n, !.owed = @ - n, !.pollin = TRUE],
                          IF Streaming THEN "GO_ON" ELSE "WAIT_FOR_EVENT")
    BY <1>3, <1>4
  <2>2. r.in + n # r.len => o.con.pollin
    BY <1>0, <2>1 DEF CgiOut, CgiConnections
  <2>3. ~o.con.pollin => r.in + n = r.len
    BY <2>2
  <2>4. o.con.in = r.in + n
    BY <1>0, <2>1 DEF CgiOut, CgiConnections
  <2>5. o.ret = "WAIT_FOR_EVENT" => ~Streaming /\ r.in + n # r.len
    BY <2>1 DEF CgiOut
  <2>7. o.ret = "GO_ON" => Streaming \/ o.con.in = r.len
    BY <2>1, <2>4 DEF CgiOut
  <2>6. o \in {CgiOut([r EXCEPT !.rd = FALSE, !.in = r.len, !.owed = @ - n, !.pollin = FALSE], "GO_ON"),
               CgiOut([r EXCEPT !.rd = FALSE, !.in = @ + n, !.owed = @ - n, !.pollin = TRUE], "GO_ON"),
               CgiOut([r EXCEPT !.rd = FALSE, !.in = @ + n, !.owed = @ - n, !.pollin = TRUE],
                      "WAIT_FOR_EVENT")}
    BY <2>1
  <2> QED BY <1>2, <2>2, <2>3, <2>4, <2>5, <2>6, <2>7
<1> QED BY <1>1, <1>4

(* write() takes a part of what is queued. *)
Wrote(r, x) ==
    /\ x \in CgiConnections /\ Alike(r, x) /\ x.h = r.h
    /\ x.len = r.len /\ x.in = r.in /\ x.owed = r.owed /\ x.ka = r.ka /\ x.pollin = r.pollin
    /\ r.out <= x.out /\ x.out <= r.in

(* What write() takes of the queue; a pipe that is closed takes nothing (cgi_write_request). *)
LEMMA WriteTakes ==
    ASSUME NEW r \in CgiConnections, Balanced(r), NEW fd, NEW o \in WriteToCgi(r, fd)
    PROVE  /\ IsOut(o) /\ Quiet(o) /\ o.ret \in {"0", "-1"}
           /\ o.ret = "-1" => o.con = r
           /\ o.ret = "0" => Wrote(r, o.con)
           /\ fd = CgiNil /\ r.in # r.out => o.ret = "-1"
<1>0. r.in \in Nat /\ r.out \in Nat /\ r.len \in Nat /\ r.out <= r.in /\ r.in <= r.len
  BY DEF CgiConnections, Balanced
<1>1. CASE o = CgiOut(r, "0") /\ r.in = r.out
  BY <1>0, <1>1 DEF CgiOut, IsOut, Quiet, Wrote, Alike
<1>2. CASE o = CgiOut(r, "-1")
  BY <1>2 DEF CgiOut, IsOut, Quiet
<1>3. ASSUME NEW m \in Nat, r.out <= m, m <= r.in, o = CgiOut([r EXCEPT !.out = m], "0"), fd # CgiNil
      PROVE  /\ IsOut(o) /\ Quiet(o) /\ o.ret \in {"0", "-1"}
             /\ o.ret = "-1" => o.con = r
             /\ o.ret = "0" => Wrote(r, o.con)
             /\ fd = CgiNil /\ r.in # r.out => o.ret = "-1"
  <2> DEFINE x == [r EXCEPT !.out = m]
  <2>1. x \in CgiConnections /\ x.out = m
    BY DEF CgiConnections
  <2>2. Alike(r, x) /\ x.h = r.h
    BY DEF CgiConnections, Alike
  <2>3. x.len = r.len /\ x.in = r.in /\ x.owed = r.owed /\ x.ka = r.ka /\ x.pollin = r.pollin
    BY DEF CgiConnections
  <2>4. o = CgiOut(x, "0")
    BY <1>3
  <2> HIDE DEF x
  <2> QED BY <1>3, <2>1, <2>2, <2>3, <2>4 DEF CgiOut, IsOut, Quiet, Wrote
<1>4. \/ o = CgiOut(r, "0") /\ r.in = r.out
      \/ o = CgiOut(r, "-1")
      \/ fd # CgiNil /\ \E m \in Nat : r.out <= m /\ m <= r.in /\ o = CgiOut([r EXCEPT !.out = m], "0")
  <2>1. CASE r.in = r.out
    BY <2>1 DEF WriteToCgi
  <2>2. CASE r.in # r.out /\ r.h.reader /\ fd # CgiNil
    <3>1. o = CgiOut(r, "-1") \/ o \in {CgiOut([r EXCEPT !.out = @ + n], "0") : n \in 0 .. r.in - r.out}
      BY <2>2 DEF WriteToCgi
    <3>2. ASSUME NEW n \in 0 .. r.in - r.out, o = CgiOut([r EXCEPT !.out = @ + n], "0")
          PROVE  \E m \in Nat : r.out <= m /\ m <= r.in /\ o = CgiOut([r EXCEPT !.out = m], "0")
      <4> DEFINE m == r.out + n
      <4>1. m \in Nat /\ r.out <= m /\ m <= r.in
        BY <1>0
      <4>2. o = CgiOut([r EXCEPT !.out = m], "0")
        BY <3>2
      <4> HIDE DEF m
      <4> QED BY <4>1, <4>2
    <3> QED BY <2>2, <3>1, <3>2
  <2>3. CASE r.in # r.out /\ ~r.h.reader /\ fd # CgiNil
    <3>1. o = CgiOut(r, "-1") \/ o = CgiOut([r EXCEPT !.out = r.in], "0")
      BY <2>3 DEF WriteToCgi
    <3> QED BY <1>0, <2>3, <3>1
  <2>4. CASE r.in # r.out /\ fd = CgiNil
    BY <2>4 DEF WriteToCgi
  <2> QED BY <2>1, <2>2, <2>3, <2>4
<1> QED BY <1>1, <1>2, <1>3, <1>4

(* The pipe to a script that has none is opened. *)
Opened(r, o, fd) ==
    /\ r.h.fdtocgi = CgiNil
    /\ o.con.hctx /\ o.con.h.pid = r.h.pid /\ o.con.h.fd = r.h.fd /\ o.con.h.fdtocgi = fd
    /\ o.add = {<<fd, "in">>} /\ o.del = {} /\ o.new = CgiNil /\ o.left = CgiNil

(* cgi_connection_close_fdtocgi() *)
LEMMA StdinCloses ==
    ASSUME NEW x, x \in CgiConnections, Balanced(x), Bound(x), Heard(x), x.hctx, x.mode = "cgi",
           x.h.fdtocgi # CgiNil, NEW ret
    PROVE  LET o == cgi_connection_close_fdtocgi(x, ret)
           IN  /\ IsOut(o) /\ o.ret = ret /\ Good(o.con) /\ Alike(x, o.con) /\ o.con.h.ev = x.h.ev
               /\ StdinClosed(x, o)
<1> DEFINE n == CgiNil
           h == [x.h EXCEPT !.fdtocgi = n, !.evto = "no"]
           y == [x EXCEPT !.h = h]
           S == {x.h.fdtocgi}
<1>1. x.h \in CgiHandlers /\ n \in Fd \cup {CgiNil} /\ n = CgiNil
  BY DEF CgiConnections
<1> HIDE DEF n
<1>2. /\ h \in CgiHandlers /\ h.fdtocgi = n /\ h.pid = x.h.pid /\ h.fd = x.h.fd
      /\ h.ev = x.h.ev /\ h.evto = "no"
  BY <1>1 DEF CgiHandlers
<1>3. cgi_connection_close_fdtocgi(x, ret) = [CgiOut(y, ret) EXCEPT !.del = S]
  BY <1>1 DEF cgi_connection_close_fdtocgi, CgiConnections
<1> HIDE DEF h, S
<1>4. /\ y \in CgiConnections /\ Alike(x, y) /\ y.h = h
      /\ y.len = x.len /\ y.in = x.in /\ y.owed = x.owed /\ y.ka = x.ka /\ y.out = x.out
  BY <1>2 DEF CgiConnections, Alike
<1> HIDE DEF y
<1>5. Balanced(y) /\ Bound(y) /\ Sending(y) /\ Fed(y) /\ Heard(y)
  BY <1>1, <1>2, <1>4 DEF Balanced, Bound, Sending, Fed, Heard, Alike
<1>6. cgi_connection_close_fdtocgi(x, ret) =
        [con |-> y, ret |-> ret, add |-> {}, del |-> S, new |-> CgiNil, left |-> CgiNil]
  BY <1>3 DEF CgiOut
<1> DEFINE o == cgi_connection_close_fdtocgi(x, ret)
<1>7. /\ IsOut(o) /\ o.con = y /\ o.ret = ret /\ o.add = {} /\ o.del = S
      /\ o.new = CgiNil /\ o.left = CgiNil
  <2> HIDE DEF o
  <2>1. o = [con |-> y, ret |-> ret, add |-> {}, del |-> S, new |-> CgiNil, left |-> CgiNil]
    BY <1>6 DEF o
  <2> QED BY <2>1, MadeOut
<1> HIDE DEF o
<1>8. Good(o.con)
  BY <1>4, <1>5, <1>7 DEF Good, Loose
<1>9. StdinClosed(x, o)
  BY <1>1, <1>2, <1>4, <1>7 DEF StdinClosed, S, Alike
<1>10. Alike(x, o.con) /\ o.con.h.ev = x.h.ev
  BY <1>2, <1>4, <1>7
<1> QED BY <1>7, <1>8, <1>9, <1>10 DEF o

(* The second half of cgi_write_request(): the pipe is closed if all was sent, and
   watched if something is queued. *)
LEMMA SentIsFed ==
    ASSUME NEW x, x \in CgiConnections, Balanced(x), Bound(x), Heard(x), x.hctx, x.mode = "cgi",
           x.h.fd # CgiNil, NEW fd \in Fd, x.h.fdtocgi \in {fd, CgiNil}
    PROVE  LET o == Sent(x, fd)
           IN  /\ IsOut(o) /\ o.ret = "0" /\ Good(o.con) /\ Alike(x, o.con) /\ o.con.h.ev = x.h.ev
               /\ Stays(x, o) \/ StdinClosed(x, o) \/ Opened(x, o, fd)
<1>0. x.out \in Nat /\ x.in \in Nat /\ x.len \in Nat /\ x.out <= x.in /\ x.in <= x.len
      /\ Low \in Nat /\ Low > 0 /\ x.h \in CgiHandlers /\ fd # CgiNil
  BY CgiAssumption DEF CgiConnections, Balanced
<1>1. CASE x.out = x.len /\ x.h.fdtocgi = CgiNil
  <2>1. Sent(x, fd) = CgiOut(x, "0")
    BY <1>1 DEF Sent
  <2>2. Good(x) /\ Alike(x, x) /\ SameScript(x, x)
    BY <1>1 DEF Good, Loose, Sending, Fed, Alike, SameScript
  <2> QED BY <2>1, <2>2 DEF CgiOut, IsOut, Stays, Quiet
<1>2. CASE x.out = x.len /\ x.h.fdtocgi # CgiNil
  <2>1. Sent(x, fd) = cgi_connection_close_fdtocgi(x, "0")
    BY <1>2 DEF Sent
  <2> QED BY <1>2, <2>1, StdinCloses
<1>3. CASE x.out # x.len
  <2> DEFINE more == x.in < x.len /\ x.in - x.out < Low /\ ~x.pollin
             b == x.pollin \/ more
             d == x.rd \/ more
             e == CASE x.in > x.out -> "OUT"
                    [] x.in = x.out /\ x.h.evto = "OUT" -> "off"
                    [] OTHER -> x.h.evto
             h == [x.h EXCEPT !.fdtocgi = fd, !.evto = e]
             y == [x EXCEPT !.pollin = b, !.rd = d, !.h = h]
             A == IF x.h.fdtocgi = CgiNil THEN {<<fd, "in">>} ELSE {}
  <2>1. b \in BOOLEAN /\ d \in BOOLEAN
    BY DEF CgiConnections
  <2>2. e \in {"no", "off", "OUT"}
    <3>1. x.h.evto \in {"no", "off", "OUT"}
      BY <1>0 DEF CgiHandlers
    <3>2. CASE x.in > x.out
      BY <1>0, <3>2
    <3>3. CASE x.in = x.out /\ x.h.evto = "OUT"
      BY <1>0, <3>3
    <3>4. CASE x.in = x.out /\ x.h.evto # "OUT"
      BY <1>0, <3>1, <3>4
    <3> QED BY <1>0, <3>2, <3>3, <3>4
  <2>3. x.in > x.out => e = "OUT"
    BY <1>0
  <2>4. x.in = x.out => b
    BY <1>0, <1>3 DEF CgiConnections
  <2>5. Sent(x, fd) = [CgiOut(y, "0") EXCEPT !.add = A]
    <3> DEFINE z == [x EXCEPT !.pollin = b, !.rd = d, !.h.fdtocgi = fd, !.h.evto = e]
    <3>1. Sent(x, fd) = [CgiOut(z, "0") EXCEPT !.add = A]
      BY <1>3 DEF Sent
    <3>2. z = y
      <4> HIDE DEF b, d, e
      <4> QED BY <1>0 DEF CgiConnections, CgiHandlers
    <3> QED BY <3>1, <3>2
  <2>6. Sent(x, fd) = [con |-> y, ret |-> "0", add |-> A, del |-> {}, new |-> CgiNil, left |-> CgiNil]
    <3> HIDE DEF A, y
    <3> QED BY <2>5 DEF CgiOut
  <2> HIDE DEF b, d, e
  <2>7. /\ h \in CgiHandlers /\ h.fdtocgi = fd /\ h.pid = x.h.pid /\ h.fd = x.h.fd
        /\ h.ev = x.h.ev /\ h.evto = e
    BY <1>0, <2>2 DEF CgiHandlers
  <2> HIDE DEF h
  <2>8. /\ y \in CgiConnections /\ y.h = h /\ y.pollin = b
    BY <2>1, <2>7 DEF CgiConnections
  <2>9. Alike(x, y)
    BY DEF CgiConnections, Alike
  <2>10. y.len = x.len /\ y.in = x.in /\ y.owed = x.owed /\ y.ka = x.ka /\ y.out = x.out
    BY DEF CgiConnections
  <2> HIDE DEF y
  <2>11. Balanced(y) /\ Bound(y) /\ Heard(y)
    BY <1>0, <2>7, <2>8, <2>9, <2>10 DEF Balanced, Bound, Heard, Alike
  <2>12. Sending(y) /\ Fed(y)
    BY <1>0, <1>3, <2>3, <2>4, <2>7, <2>8, <2>10 DEF Sending, Fed
  <2>13. Good(y)
    BY <2>8, <2>11, <2>12 DEF Good, Loose
  <2> DEFINE o == Sent(x, fd)
  <2>14. /\ IsOut(o) /\ o.con = y /\ o.ret = "0" /\ o.add = A /\ o.del = {}
         /\ o.new = CgiNil /\ o.left = CgiNil
    <3> HIDE DEF o, A
    <3>1. o = [con |-> y, ret |-> "0", add |-> A, del |-> {}, new |-> CgiNil, left |-> CgiNil]
      BY <2>6 DEF o
    <3> QED BY <3>1, MadeOut
  <2> HIDE DEF o
  <2>15. ASSUME x.h.fdtocgi = CgiNil PROVE Opened(x, o, fd)
    <3>1. A = {<<fd, "in">>}
      BY <2>15
    <3>2. y.hctx /\ y.h.pid = x.h.pid /\ y.h.fd = x.h.fd /\ y.h.fdtocgi = fd
      BY <2>7, <2>8, <2>9 DEF Alike
    <3> HIDE DEF A
    <3> QED BY <2>14, <2>15, <3>1, <3>2 DEF Opened
  <2>16. ASSUME x.h.fdtocgi = fd PROVE Stays(x, o)
    <3>1. A = {}
      BY <1>0, <2>16
    <3>2. SameScript(x, y)
      BY <2>7, <2>8, <2>9, <2>16 DEF SameScript, Alike
    <3> HIDE DEF A
    <3> QED BY <2>14, <3>1, <3>2 DEF Stays, Quiet
  <2>17. Stays(x, o) \/ Opened(x, o, fd)
    BY <2>15, <2>16
  <2> QED BY <2>7, <2>8, <2>9, <2>13, <2>14, <2>17 DEF o
<1> QED BY <1>1, <1>2, <1>3

(* A connection in order, whatever is queued for its script. *)
Steady(r) == r \in CgiConnections /\ Balanced(r) /\ Bound(r) /\ Heard(r) /\ r.hctx /\ r.mode = "cgi"

(* A part of the body that was sent leaves the connection as sound as it was. *)
LEMMA WroteKeeps ==
    ASSUME NEW r, NEW x, Steady(r), Wrote(r, x)
    PROVE  Steady(x)
<1>1. r.out \in Nat /\ r.in \in Nat /\ r.len \in Nat /\ x.out \in Nat
  BY DEF Steady, Wrote, CgiConnections
<1>2. Balanced(x)
  BY <1>1 DEF Steady, Wrote, Balanced
<1>3. Bound(x) /\ Heard(x)
  BY DEF Steady, Wrote, Alike, Bound, Heard
<1>4. x.hctx /\ x.mode = "cgi" /\ x \in CgiConnections
  BY DEF Steady, Wrote, Alike
<1> QED BY <1>2, <1>3, <1>4 DEF Steady

(* cgi_write_request() *)
LEMMA WriteRequest ==
    ASSUME NEW r, Steady(r), r.h.fd # CgiNil, NEW fd \in Fd, r.h.fdtocgi \in {fd, CgiNil},
           NEW o \in cgi_write_request(r, fd)
    PROVE  /\ IsOut(o) /\ o.ret \in {"0", "-1"}
           /\ o.ret = "-1" => o.con = r /\ Quiet(o)
           /\ o.ret = "0" => /\ Good(o.con) /\ Alike(r, o.con) /\ o.con.h.ev = r.h.ev
                             /\ Stays(r, o) \/ StdinClosed(r, o) \/ Opened(r, o, fd)
<1>1. PICK w \in WriteToCgi(r, fd) : o = IF w.ret = "-1" THEN w ELSE Sent(w.con, fd)
  BY DEF cgi_write_request
<1>2. /\ IsOut(w) /\ Quiet(w) /\ w.ret \in {"0", "-1"}
      /\ w.ret = "-1" => w.con = r
      /\ w.ret = "0" => Wrote(r, w.con)
  BY WriteTakes DEF Steady
<1>3. CASE w.ret = "-1"
  BY <1>1, <1>2, <1>3
<1>4. CASE w.ret = "0"
  <2> DEFINE x == w.con
  <2>1. Wrote(r, x) /\ Steady(x) /\ o = Sent(x, fd)
    BY <1>1, <1>2, <1>4, WroteKeeps
  <2>2. x.h = r.h /\ Alike(r, x)
    BY <2>1 DEF Wrote
  <2> HIDE DEF x
  <2>3. /\ IsOut(o) /\ o.ret = "0" /\ Good(o.con) /\ Alike(x, o.con) /\ o.con.h.ev = x.h.ev
        /\ Stays(x, o) \/ StdinClosed(x, o) \/ Opened(x, o, fd)
    BY <2>1, <2>2, SentIsFed DEF Steady
  <2>4. Alike(r, o.con)
    BY <2>2, <2>3 DEF Alike
  <2>5. Stays(r, o) \/ StdinClosed(r, o) \/ Opened(r, o, fd)
    BY <2>2, <2>3 DEF Stays, SameScript, StdinClosed, Opened, Alike
  <2> QED BY <2>2, <2>3, <2>4, <2>5
<1> QED BY <1>2, <1>3, <1>4

(* The fields of an outcome after another. *)
LEMMA AfterIs ==
    ASSUME NEW u, NEW con_, NEW ret, NEW add, NEW del, NEW new, NEW left, NEW o,
           o = [con |-> con_, ret |-> ret, add |-> add, del |-> del, new |-> new, left |-> left]
    PROVE  After(u, o) = [con |-> con_, ret |-> ret, add |-> add \cup u.add, del |-> del \cup u.del,
                          new |-> IF new = CgiNil THEN u.new ELSE new,
                          left |-> IF left = CgiNil THEN u.left ELSE left]
<1> DEFINE n == IF new = CgiNil THEN u.new ELSE new
           l == IF left = CgiNil THEN u.left ELSE left
           e == [con |-> con_, ret |-> ret, add |-> add, del |-> del, new |-> new, left |-> left]
<1>1. After(u, e) = [e EXCEPT !.add = add \cup u.add, !.del = del \cup u.del, !.new = n, !.left = l]
  BY DEF After
<1> HIDE DEF n, l
<1>2. After(u, e) = [con |-> con_, ret |-> ret, add |-> add \cup u.add, del |-> del \cup u.del,
                     new |-> n, left |-> l]
  BY <1>1
<1> QED BY <1>2 DEF n, l

(* After a first call that only waited, or closed the pipe to the script. *)
LEMMA GivenUpAfter ==
    ASSUME NEW r, NEW u, NEW o, IsOut(u), IsOut(o), Bound(r), r.h.fd # CgiNil,
           Stays(r, u) \/ StdinClosed(r, u), GivenUp(u.con, o)
    PROVE  /\ IsOut(After(u, o)) /\ GivenUp(r, After(u, o))
           /\ After(u, o).con = o.con /\ After(u, o).ret = o.ret
<1> DEFINE a == After(u, o)
<1>1. a = [con |-> o.con, ret |-> o.ret, add |-> o.add \cup u.add, del |-> o.del \cup u.del,
           new |-> IF o.new = CgiNil THEN u.new ELSE o.new,
           left |-> IF o.left = CgiNil THEN u.left ELSE o.left]
  BY AfterIs DEF IsOut
<1> HIDE DEF a
<1>2. /\ IsOut(a) /\ a.con = o.con /\ a.ret = o.ret /\ a.add = o.add \cup u.add
      /\ a.del = o.del \cup u.del
      /\ a.new = IF o.new = CgiNil THEN u.new ELSE o.new
      /\ a.left = IF o.left = CgiNil THEN u.left ELSE o.left
  BY <1>1, MadeOut
<1>3. r.h.pid # CgiNil
  BY DEF Bound
<1>4. u.con.h.pid = r.h.pid /\ u.con.h.fd = r.h.fd /\ u.add = {} /\ u.new = CgiNil
  BY DEF Stays, StdinClosed, SameScript, Quiet
<1>5. a.del = {r.h.fd, r.h.fdtocgi} \ {CgiNil}
  <2>1. CASE Stays(r, u)
    BY <1>2, <2>1 DEF Stays, SameScript, Quiet, GivenUp
  <2>2. CASE StdinClosed(r, u)
    BY <1>2, <2>2 DEF StdinClosed, GivenUp
  <2> QED BY <2>1, <2>2
<1>6. GivenUp(r, a)
  BY <1>2, <1>3, <1>4, <1>5 DEF GivenUp
<1> QED BY <1>2, <1>6 DEF a

(* What a pipe that was written to does, and then a handler, is one effect. *)
LEMMA StaysAfter ==
    ASSUME NEW r, NEW u, NEW o, IsOut(u), IsOut(o),
           \/ Stays(r, u) /\ (Stays(u.con, o) \/ StdinClosed(u.con, o))
           \/ StdinClosed(r, u) /\ Stays(u.con, o)
    PROVE  /\ IsOut(After(u, o)) /\ After(u, o).con = o.con /\ After(u, o).ret = o.ret
           /\ Stays(r, After(u, o)) \/ StdinClosed(r, After(u, o))
<1> DEFINE a == After(u, o)
<1>1. a = [con |-> o.con, ret |-> o.ret, add |-> o.add \cup u.add, del |-> o.del \cup u.del,
           new |-> IF o.new = CgiNil THEN u.new ELSE o.new,
           left |-> IF o.left = CgiNil THEN u.left ELSE o.left]
  BY AfterIs DEF IsOut
<1> HIDE DEF a
<1>2. /\ IsOut(a) /\ a.con = o.con /\ a.ret = o.ret /\ a.add = o.add \cup u.add
      /\ a.del = o.del \cup u.del
      /\ a.new = IF o.new = CgiNil THEN u.new ELSE o.new
      /\ a.left = IF o.left = CgiNil THEN u.left ELSE o.left
  BY <1>1, MadeOut
<1>3. CASE Stays(r, u) /\ Stays(u.con, o)
  <2>1. Stays(r, a)
    BY <1>2, <1>3 DEF Stays, SameScript, Quiet
  <2> QED BY <1>2, <2>1 DEF a
<1>4. CASE Stays(r, u) /\ StdinClosed(u.con, o)
  <2>1. StdinClosed(r, a)
    BY <1>2, <1>4 DEF Stays, SameScript, Quiet, StdinClosed
  <2> QED BY <1>2, <2>1 DEF a
<1>5. CASE StdinClosed(r, u) /\ Stays(u.con, o)
  <2>1. StdinClosed(r, a)
    BY <1>2, <1>5 DEF Stays, SameScript, Quiet, StdinClosed
  <2> QED BY <1>2, <2>1 DEF a
<1> QED BY <1>3, <1>4, <1>5

(* Another answer does not change what was done. *)
LEMMA OtherAnswer ==
    ASSUME NEW o, IsOut(o), NEW ret
    PROVE  LET a == [o EXCEPT !.ret = ret]
           IN  /\ IsOut(a) /\ a.con = o.con /\ a.ret = ret /\ a.add = o.add /\ a.del = o.del
               /\ a.new = o.new /\ a.left = o.left
<1> DEFINE a == [o EXCEPT !.ret = ret]
<1>1. a = [con |-> o.con, ret |-> ret, add |-> o.add, del |-> o.del, new |-> o.new, left |-> o.left]
  BY DEF IsOut
<1> HIDE DEF a
<1>2. /\ IsOut(a) /\ a.con = o.con /\ a.ret = ret /\ a.add = o.add /\ a.del = o.del
      /\ a.new = o.new /\ a.left = o.left
  BY <1>1, MadeOut
<1> QED BY <1>2 DEF a

(* cgi_handle_fdevent_send() *)
LEMMA SendHandler ==
    ASSUME NEW r, Good(r), r.h.fdtocgi # CgiNil, NEW revents,
           NEW o \in cgi_handle_fdevent_send(r, revents)
    PROVE  /\ IsOut(o) /\ Good(o.con) /\ o.con.st = r.st
           /\ Stays(r, o) \/ StdinClosed(r, o) \/ GivenUp(r, o)
<1> DEFINE f == r.h.fdtocgi
<1>1. f \in Fd /\ r.h.fd # CgiNil /\ r.hctx /\ Steady(r) /\ Bound(r)
  <2>1. f \in Fd /\ r.h.fd # CgiNil /\ Bound(r) /\ r \in CgiConnections
    BY DEF Good, Loose, Bound, CgiConnections, CgiHandlers
  <2>2. r.hctx
    BY <2>1, NoScriptTyped DEF Bound
  <2>3. r.mode = "cgi"
    BY <2>1 DEF Good, Loose, Heard
  <2> QED BY <2>1, <2>2, <2>3 DEF Good, Loose, Steady
<1>2. PICK u \in IF "OUT" \in revents THEN cgi_write_request(r, f) ELSE {CgiOut(r, "0")} :
        o \in IF u.ret # "0" THEN {IF u.ret = "-1" THEN cgi_connection_close(u.con, "ERROR") ELSE u}
              ELSE CASE "HUP" \in revents ->
                          {After(u, cgi_connection_close_fdtocgi(
                             [u.con EXCEPT !.out = u.con.in, !.ka = @ /\ u.con.in = u.con.len],
                             "FINISHED"))}
                     [] "HUP" \notin revents /\ "ERR" \in revents ->
                          {After(u, cgi_connection_close(u.con, "ERROR"))}
                     [] OTHER -> {[u EXCEPT !.ret = "FINISHED"]}
  BY DEF cgi_handle_fdevent_send
<1>3. /\ IsOut(u) /\ u.ret \in {"0", "-1"}
      /\ u.ret = "-1" => u.con = r /\ Quiet(u)
      /\ u.ret = "0" => /\ Good(u.con) /\ Alike(r, u.con) /\ u.con.h.ev = r.h.ev
                        /\ Stays(r, u) \/ StdinClosed(r, u)
  <2>1. CASE u \in cgi_write_request(r, f)
    <3>1. ~Opened(r, u, f)
      BY DEF Opened
    <3> QED BY <1>1, <2>1, <3>1, WriteRequest
  <2>2. CASE u = CgiOut(r, "0")
    <3>1. IsOut(u) /\ u.con = r /\ u.ret = "0" /\ Quiet(u)
      BY <2>2 DEF CgiOut, IsOut, Quiet
    <3> QED BY <3>1 DEF Alike, Stays, SameScript
  <2> QED BY <1>2, <2>1, <2>2
<1>4. CASE u.ret = "-1"
  <2>1. o = cgi_connection_close(r, "ERROR")
    BY <1>2, <1>3, <1>4
  <2>2. Closing(r)
    BY <1>1, GoodCloses DEF Good
  <2> QED BY <2>1, <2>2, CloseGivesUp
<1>5. CASE u.ret = "0" /\ "HUP" \in revents
  <2> DEFINE keep == u.con.ka /\ u.con.in = u.con.len
             n == u.con.in
             x == [u.con EXCEPT !.out = n, !.ka = keep]
             q == cgi_connection_close_fdtocgi(x, "FINISHED")
  <2>1. o = After(u, q)
    BY <1>2, <1>5
  <2>2. Good(u.con) /\ Alike(r, u.con) /\ (Stays(r, u) \/ StdinClosed(r, u)) /\ u.con.hctx /\ u.con.mode = "cgi"
    BY <1>1, <1>3, <1>5 DEF Alike, Steady
  <2>3. /\ n \in Nat /\ keep \in BOOLEAN /\ (keep => u.con.ka) /\ u.con.out \in Nat /\ u.con.len \in Nat
        /\ u.con \in CgiConnections
    BY <2>2 DEF Good, Loose, CgiConnections
  <2> HIDE DEF n, keep
  <2>4. x \in CgiConnections /\ x.out = n /\ x.ka = keep
    BY <2>3 DEF CgiConnections
  <2>5. Alike(u.con, x) /\ x.h = u.con.h /\ x.len = u.con.len /\ x.in = n /\ x.owed = u.con.owed
        /\ x.pollin = u.con.pollin
    BY <2>3 DEF CgiConnections, Alike, n
  <2> HIDE DEF x
  <2>6. Balanced(x) /\ Bound(x) /\ Heard(x)
    <3>1. Balanced(x)
      <4>1. Balanced(u.con)
        BY <2>2 DEF Good, Loose
      <4>2. x.in <= x.len /\ x.out <= x.in
        BY <2>3, <2>4, <2>5, <4>1 DEF Balanced, n
      <4>3. CASE u.con.owed = u.con.len - u.con.in
        <5>1. x.owed = x.len - x.in
          BY <2>5, <4>3 DEF n
        <5> QED BY <4>2, <5>1 DEF Balanced
      <4>4. CASE ~u.con.ka /\ u.con.len = 0
        <5>1. ~x.ka /\ x.len = 0
          BY <2>3, <2>4, <2>5, <4>4
        <5> QED BY <4>2, <5>1 DEF Balanced
      <4> QED BY <4>1, <4>3, <4>4 DEF Balanced
    <3>2. Bound(x) /\ Heard(x)
      BY <2>2, <2>5 DEF Good, Loose, Bound, Heard, Alike, n
    <3> QED BY <3>1, <3>2
  <2>7. x.hctx /\ x.mode = "cgi" /\ x.st = r.st
    BY <2>2, <2>5 DEF Alike
  <2>8. CASE x.h.fdtocgi = CgiNil
    <3>1. q = CgiOut(x, "ABORT")
      BY <2>8 DEF cgi_connection_close_fdtocgi
    <3>2. IsOut(q) /\ q.con = x /\ Quiet(q) /\ Stays(u.con, q)
      BY <2>5, <3>1 DEF CgiOut, IsOut, Quiet, Stays, SameScript, Alike
    <3>3. Good(x)
      BY <2>4, <2>6, <2>8 DEF Good, Loose, Sending, Fed
    <3>4. Stays(r, u) => FALSE
      BY <2>5, <2>8 DEF Stays, SameScript
    <3> HIDE DEF q
    <3>5. StdinClosed(r, u)
      BY <2>2, <3>4
    <3> QED BY <1>3, <2>1, <2>7, <3>2, <3>3, <3>5, StaysAfter
  <2>9. CASE x.h.fdtocgi # CgiNil
    <3>1. IsOut(q) /\ Good(q.con) /\ Alike(x, q.con) /\ StdinClosed(x, q)
      BY <2>4, <2>6, <2>7, <2>9, StdinCloses
    <3> HIDE DEF q
    <3>2. StdinClosed(u.con, q)
      BY <2>5, <3>1 DEF StdinClosed
    <3>3. Stays(r, u)
      BY <2>2, <2>5, <2>9 DEF StdinClosed
    <3>4. q.con.st = r.st
      BY <2>7, <3>1 DEF Alike
    <3> QED BY <1>3, <2>1, <3>1, <3>2, <3>3, <3>4, StaysAfter
  <2> QED BY <2>8, <2>9
<1>6. CASE u.ret = "0" /\ "HUP" \notin revents /\ "ERR" \in revents
  <2> DEFINE q == cgi_connection_close(u.con, "ERROR")
  <2>1. o = After(u, q)
    BY <1>2, <1>6
  <2>2. Good(u.con) /\ Alike(r, u.con) /\ (Stays(r, u) \/ StdinClosed(r, u)) /\ u.con.hctx
    BY <1>1, <1>3, <1>6 DEF Alike
  <2>3. Closing(u.con)
    BY <2>2, GoodCloses DEF Good
  <2>4. IsOut(q) /\ Good(q.con) /\ q.con.st = u.con.st /\ GivenUp(u.con, q)
    BY <2>3, CloseGivesUp
  <2> HIDE DEF q
  <2>5. q.con.st = r.st
    BY <2>2, <2>4 DEF Alike
  <2> QED BY <1>1, <1>3, <2>1, <2>2, <2>4, <2>5, GivenUpAfter
<1>7. CASE u.ret = "0" /\ "HUP" \notin revents /\ "ERR" \notin revents
  <2>1. o = [u EXCEPT !.ret = "FINISHED"]
    BY <1>2, <1>7
  <2>2. /\ IsOut(o) /\ o.con = u.con /\ o.add = u.add /\ o.del = u.del
        /\ o.new = u.new /\ o.left = u.left
    BY <1>3, <2>1, OtherAnswer
  <2> QED BY <1>3, <1>7, <2>2 DEF Alike, Stays, StdinClosed, SameScript, Quiet
<1> QED BY <1>3, <1>4, <1>5, <1>6, <1>7

-----------------------------------------------------------------------------
(* The response *)

(* A connection whose script printed something: its body and its descriptors are as before. *)
Heeded(r, x) ==
    /\ x \in CgiConnections /\ x.st = r.st /\ SameScript(r, x)
    /\ x.len = r.len /\ x.in = r.in /\ x.out = r.out /\ x.owed = r.owed /\ x.ka = r.ka
    /\ x.pollin = r.pollin /\ x.h.evto = r.h.evto
    /\ x.started \/ x.wq = r.wq

(* What was read of a response leaves a connection whose script can be given up. *)
LEMMA HeededCloses ==
    ASSUME NEW r, Closing(r), NEW x, Heeded(r, x), x.started \/ ~r.started,
           x.mode = "cgi" \/ x.status # "none" \/ ~x.fin
    PROVE  Closing(x)
BY DEF Closing, Heeded, Balanced

(* ... and one that is sound, if its script is watched. *)
LEMMA HeededIsGood ==
    ASSUME NEW r, Good(r), r.hctx, r.mode = "cgi", NEW x, Heeded(r, x), x.started \/ ~r.started,
           x.mode = "cgi", ~x.fin, x.h.ev \/ (BufMin /\ x.started)
    PROVE  Good(x)
<1>1. Balanced(x) /\ Sending(x) /\ Fed(x)
  BY DEF Good, Loose, Heeded, Balanced, Sending, Fed, SameScript
<1>2. Bound(x) /\ x.hctx
  BY DEF Good, Loose, Heeded, Bound, SameScript
<1>3. Heard(x)
  BY <1>2 DEF Good, Loose, Heeded, Heard, SameScript
<1> QED BY <1>1, <1>2, <1>3 DEF Good, Loose, Heeded

(* ... also one whose script is not started yet. *)
LEMMA HeededUnbound ==
    ASSUME NEW r, Good(r), r.hctx, NEW x, Heeded(r, x), x.started \/ ~r.started,
           x.mode = "cgi", ~x.fin, r.h.fd = CgiNil
    PROVE  Good(x)
<1>1. Balanced(x) /\ Sending(x) /\ Fed(x)
  BY DEF Good, Loose, Heeded, Balanced, Sending, Fed, SameScript
<1>2. Bound(x) /\ x.hctx
  BY DEF Good, Loose, Heeded, Bound, SameScript
<1>3. Heard(x)
  BY <1>2 DEF Good, Loose, Heeded, Heard, SameScript
<1> QED BY <1>1, <1>2, <1>3 DEF Good, Loose, Heeded

(* read() on an empty pipe *)
LEMMA EmptyRead ==
    ASSUME NEW x, Good(x), x.hctx, x.mode = "cgi"
    PROVE  LET o == ReadEmpty(x)
           IN  /\ IsOut(o) /\ Quiet(o) /\ o.ret \in {"NOT_FINISHED", "FINISHED"}
               /\ Good(o.con) /\ Heeded(x, o.con)
               /\ o.con.mode = "cgi" /\ o.con.fin = x.fin /\ o.con.started = x.started
               /\ o.ret = "NOT_FINISHED" => o.con.h.ev
<1> DEFINE on == TRUE
           none == "none"
           g == [x.h EXCEPT !.data = none, !.ev = on]
           h == [x.h EXCEPT !.data = none]
<1>1. x \in CgiConnections /\ x.h \in CgiHandlers /\ ~x.fin /\ Heard(x)
  BY DEF Good, Loose, Heard, CgiConnections
<1>2. /\ g \in CgiHandlers /\ g.pid = x.h.pid /\ g.fd = x.h.fd /\ g.fdtocgi = x.h.fdtocgi
      /\ g.evto = x.h.evto /\ g.ev
  BY <1>1 DEF CgiHandlers
<1>3. /\ h \in CgiHandlers /\ h.pid = x.h.pid /\ h.fd = x.h.fd /\ h.fdtocgi = x.h.fdtocgi
      /\ h.evto = x.h.evto /\ h.ev = x.h.ev
  BY <1>1 DEF CgiHandlers
<1>4. ReadEmpty(x) = IF x.h.writer THEN CgiOut([x EXCEPT !.h = g], "NOT_FINISHED")
                                   ELSE CgiOut([x EXCEPT !.h = h], "FINISHED")
  BY <1>1 DEF ReadEmpty, CgiConnections, CgiHandlers
<1> HIDE DEF g, h
<1>5. ASSUME NEW ctx, ctx \in {g, h}
      PROVE  LET y == [x EXCEPT !.h = ctx]
             IN  /\ Heeded(x, y) /\ y.h = ctx
                 /\ y.mode = "cgi" /\ y.fin = x.fin /\ y.started = x.started
  <2> DEFINE y == [x EXCEPT !.h = ctx]
  <2>1. y \in CgiConnections /\ y.h = ctx
    BY <1>1, <1>2, <1>3, <1>5 DEF CgiConnections
  <2>2. /\ y.mode = "cgi" /\ y.fin = x.fin /\ y.started = x.started /\ y.st = x.st /\ y.hctx = x.hctx
        /\ y.len = x.len /\ y.in = x.in /\ y.out = x.out /\ y.owed = x.owed /\ y.ka = x.ka
        /\ y.pollin = x.pollin /\ y.wq = x.wq
    BY <1>1 DEF CgiConnections
  <2> HIDE DEF y
  <2>3. Heeded(x, y)
    BY <1>2, <1>3, <1>5, <2>1, <2>2 DEF Heeded, SameScript
  <2> QED BY <2>1, <2>2, <2>3 DEF y
<1>6. CASE x.h.writer
  <2> DEFINE y == [x EXCEPT !.h = g]
  <2>1. ReadEmpty(x) = CgiOut(y, "NOT_FINISHED")
    BY <1>4, <1>6
  <2>2. Heeded(x, y) /\ y.h = g /\ y.mode = "cgi" /\ y.fin = x.fin /\ y.started = x.started
    BY <1>5
  <2> HIDE DEF y
  <2>3. Good(y)
    BY <1>1, <1>2, <2>2, HeededIsGood
  <2> QED BY <1>2, <2>1, <2>2, <2>3 DEF CgiOut, IsOut, Quiet
<1>7. CASE ~x.h.writer
  <2> DEFINE y == [x EXCEPT !.h = h]
  <2>1. ReadEmpty(x) = CgiOut(y, "FINISHED")
    BY <1>4, <1>7
  <2>2. Heeded(x, y) /\ y.h = h /\ y.mode = "cgi" /\ y.fin = x.fin /\ y.started = x.started
    BY <1>5
  <2> HIDE DEF y
  <2>3. Balanced(y) /\ Bound(y) /\ Heard(y) /\ Sending(y) /\ Fed(y)
    <3>1. Balanced(y) /\ Sending(y) /\ Fed(y)
      BY <2>2 DEF Good, Loose, Heeded, Balanced, Sending, Fed, SameScript
    <3>2. Bound(y)
      BY <2>2 DEF Good, Loose, Heeded, Bound, SameScript
    <3>3. Heard(y)
      BY <1>1, <1>3, <2>2 DEF Heeded, Heard, SameScript
    <3> QED BY <3>1, <3>2, <3>3
  <2>4. Good(y)
    BY <2>2, <2>3 DEF Good, Loose, Heeded
  <2> QED BY <2>1, <2>2, <2>4 DEF CgiOut, IsOut, Quiet
<1> QED BY <1>6, <1>7

(* What cgi_demux_response() leaves behind. *)
Demuxed(r, o) ==
    /\ IsOut(o) /\ Quiet(o) /\ SameScript(r, o.con) /\ o.con.st = r.st /\ Closing(o.con)
    /\ o.ret \in {"NOT_FINISHED", "FINISHED", "COMEBACK", "ERROR"}
    /\ o.ret = "NOT_FINISHED" =>
            Good(o.con) /\ o.con.mode = "cgi" /\ (o.con.h.ev \/ o.con.wq = 2)

(* read() on a pipe that holds nothing more (ReadEmpty). *)
LEMMA DemuxedEmpty ==
    ASSUME NEW r, NEW x, Good(x), x.hctx, x.mode = "cgi", SameScript(r, x), x.st = r.st
    PROVE  Demuxed(r, ReadEmpty(x))
<1> DEFINE o == ReadEmpty(x)
<1>1. /\ IsOut(o) /\ Quiet(o) /\ o.ret \in {"NOT_FINISHED", "FINISHED"}
      /\ Good(o.con) /\ Heeded(x, o.con)
      /\ o.con.mode = "cgi"
      /\ o.ret = "NOT_FINISHED" => o.con.h.ev
  BY EmptyRead
<1> HIDE DEF o
<1>2. SameScript(r, o.con) /\ o.con.st = r.st /\ o.con.hctx
  BY <1>1 DEF Heeded, SameScript
<1>3. Closing(o.con)
  BY <1>1, <1>2, GoodCloses DEF Good
<1> QED BY <1>1, <1>2, <1>3 DEF Demuxed, o

(* Reading that ends the response, one way or another. *)
LEMMA DemuxedDone ==
    ASSUME NEW r, NEW x, Closing(x), SameScript(r, x), x.st = r.st,
           NEW ret \in {"FINISHED", "COMEBACK", "ERROR"}
    PROVE  Demuxed(r, CgiOut(x, ret))
BY DEF Demuxed, CgiOut, IsOut, Quiet

(* A local redirect keeps the connection alive only if nothing is left of the body. *)
LEMMA RedirectCloses ==
    ASSUME NEW r, Good(r), r.hctx
    PROVE  LET x == LocalRedirect(r) IN Closing(x) /\ SameScript(r, x) /\ x.st = r.st
<1> DEFINE keep == r.ka /\ (r.len # 0 => r.len = r.in - r.out)
           zero == 0
           x == [r EXCEPT !.ka = keep, !.len = zero, !.in = zero, !.out = zero, !.status = "none",
                          !.wr = TRUE, !.fin = FALSE, !.started = FALSE, !.wq = zero,
                          !.mode = "direct"]
<1>1. /\ r \in CgiConnections /\ Balanced(r) /\ r.in \in Nat /\ r.out \in Nat /\ r.len \in Nat
      /\ r.owed \in Nat /\ r.ka \in BOOLEAN
  BY DEF Good, Loose, CgiConnections
<1>2. keep \in BOOLEAN /\ zero \in 0 .. MaxBody /\ zero \in Nat /\ zero \in 0 .. 2 /\ zero = 0
  BY <1>1, CgiAssumption
<1>3. keep => r.owed = 0
  <2>1. SUFFICES ASSUME keep PROVE r.owed = 0
    OBVIOUS
  <2>2. r.ka /\ (r.len # 0 => r.len = r.in - r.out)
    BY <2>1
  <2>3. r.owed = r.len - r.in /\ r.in <= r.len /\ r.out <= r.in
    BY <1>1, <2>2 DEF Balanced
  <2> QED BY <1>1, <2>2, <2>3
<1>4. LocalRedirect(r) = x
  BY DEF LocalRedirect
<1> HIDE DEF keep, zero
<1>5. x \in CgiConnections
  <2> DEFINE y == [r EXCEPT !.ka = keep, !.len = zero, !.in = zero, !.out = zero, !.wq = zero]
             z == [y EXCEPT !.status = "none", !.wr = TRUE, !.fin = FALSE, !.started = FALSE,
                            !.mode = "direct"]
  <2>1. y \in CgiConnections
    BY <1>1, <1>2, ZenonT(60) DEF CgiConnections
  <2>2. x = z
    BY <1>1 DEF CgiConnections
  <2> HIDE DEF y, x
  <2>3. z \in CgiConnections
    BY <2>1 DEF CgiConnections
  <2> QED BY <2>2, <2>3
<1>6. x.ka = keep /\ x.len = 0 /\ x.in = 0 /\ x.out = 0 /\ x.wq = 0 /\ x.fin = FALSE /\ x.owed = r.owed
  BY <1>1, <1>2 DEF CgiConnections
<1>7. x.st = r.st /\ x.h = r.h /\ x.hctx = r.hctx
  BY <1>1 DEF CgiConnections
<1> HIDE DEF x
<1>8. Balanced(x)
  <2>1. CASE keep
    <3>1. x.owed = x.len - x.in
      BY <1>3, <1>6, <2>1
    <3> QED BY <1>6, <3>1 DEF Balanced
  <2>2. CASE ~keep
    <3>1. ~x.ka /\ x.len = 0
      BY <1>6, <2>2
    <3> QED BY <1>6, <3>1 DEF Balanced
  <2> QED BY <2>1, <2>2
<1>9. r.st \notin {"closed", "idle"}
  BY DEF Good, Loose, Heard
<1> QED BY <1>4, <1>5, <1>6, <1>7, <1>8, <1>9 DEF Closing, SameScript

(* The header is complete. *)
LEMMA HeaderDemuxed ==
    ASSUME NEW r, Good(r), r.hctx, r.mode = "cgi", ~r.started, NEW o \in HeaderRead(r)
    PROVE  Demuxed(r, o)
<1>1. /\ r \in CgiConnections /\ Closing(r) /\ ~r.fin /\ r.status \in {"none", "403", "500", "502"}
      /\ r.wq \in 0 .. 2 /\ r.started \in BOOLEAN /\ r.started = FALSE /\ r.fin = FALSE
      /\ SameScript(r, r)
  BY GoodCloses DEF Good, Loose, Heard, CgiConnections, SameScript
<1>2. r.h.fd # CgiNil => r.h.ev
  BY <1>1 DEF Good, Loose, Heard
<1>3. CASE o = CgiOut(LocalRedirect(r), "COMEBACK")
  BY <1>3, RedirectCloses, DemuxedDone
<1>4. CASE o = CgiOut([r EXCEPT !.status = "500", !.mode = "direct"], "FINISHED")
  <2> DEFINE x == [r EXCEPT !.status = "500", !.mode = "direct"]
  <2>1. x \in CgiConnections
    BY <1>1 DEF CgiConnections
  <2>a. x.started = r.started /\ x.fin = r.fin /\ x.wq = r.wq /\ x.status = "500" /\ x.mode = "direct"
    BY <1>1 DEF CgiConnections
  <2>b. /\ x.h = r.h /\ x.hctx = r.hctx /\ x.st = r.st /\ x.pollin = r.pollin
        /\ x.len = r.len /\ x.in = r.in /\ x.out = r.out /\ x.owed = r.owed /\ x.ka = r.ka
    BY <1>1 DEF CgiConnections
  <2> HIDE DEF x
  <2>2. Heeded(r, x)
    BY <1>1, <2>1, <2>a, <2>b DEF Heeded, SameScript
  <2>3. Closing(x) /\ SameScript(r, x) /\ x.st = r.st
    BY <1>1, <2>2, <2>a, <2>b, HeededCloses DEF Heeded
  <2> QED BY <1>4, <2>3, DemuxedDone DEF x
<1>5. CASE o = CgiOut([r EXCEPT !.started = TRUE, !.fin = TRUE, !.wq = 1], "FINISHED")
  <2> DEFINE x == [r EXCEPT !.started = TRUE, !.fin = TRUE, !.wq = 1]
  <2>1. x \in CgiConnections
    <3> DEFINE one == 1
    <3>1. one \in 0 .. 2
      OBVIOUS
    <3> HIDE DEF one
    <3>2. [r EXCEPT !.started = TRUE, !.fin = TRUE, !.wq = one] \in CgiConnections
      BY <1>1, <3>1 DEF CgiConnections
    <3> QED BY <3>2 DEF one
  <2>a. x.started = TRUE /\ x.fin = TRUE /\ x.wq = 1 /\ x.status = r.status /\ x.mode = r.mode
    BY <1>1 DEF CgiConnections
  <2>b. /\ x.h = r.h /\ x.hctx = r.hctx /\ x.st = r.st /\ x.pollin = r.pollin
        /\ x.len = r.len /\ x.in = r.in /\ x.out = r.out /\ x.owed = r.owed /\ x.ka = r.ka
    BY <1>1 DEF CgiConnections
  <2> HIDE DEF x
  <2>2. Heeded(r, x)
    BY <1>1, <2>1, <2>a, <2>b DEF Heeded, SameScript
  <2>3. Closing(x) /\ SameScript(r, x) /\ x.st = r.st
    BY <1>1, <2>2, <2>a, <2>b, HeededCloses DEF Heeded
  <2> QED BY <1>5, <2>3, DemuxedDone DEF x
<1>6. CASE o = CgiOut([r EXCEPT !.started = TRUE, !.status = "403", !.mode = "direct"], "FINISHED")
  <2> DEFINE x == [r EXCEPT !.started = TRUE, !.status = "403", !.mode = "direct"]
  <2>1. x \in CgiConnections
    BY <1>1 DEF CgiConnections
  <2>a. x.started = TRUE /\ x.fin = r.fin /\ x.wq = r.wq /\ x.status = "403" /\ x.mode = "direct"
    BY <1>1 DEF CgiConnections
  <2>b. /\ x.h = r.h /\ x.hctx = r.hctx /\ x.st = r.st /\ x.pollin = r.pollin
        /\ x.len = r.len /\ x.in = r.in /\ x.out = r.out /\ x.owed = r.owed /\ x.ka = r.ka
    BY <1>1 DEF CgiConnections
  <2> HIDE DEF x
  <2>2. Heeded(r, x)
    BY <1>1, <2>1, <2>a, <2>b DEF Heeded, SameScript
  <2>3. Closing(x) /\ SameScript(r, x) /\ x.st = r.st
    BY <1>1, <2>2, <2>a, <2>b, HeededCloses DEF Heeded
  <2> QED BY <1>6, <2>3, DemuxedDone DEF x
<1>7. CASE o = CgiOut(r, "ERROR")
  BY <1>1, <1>7, DemuxedDone
<1>8. CASE o = ReadEmpty([r EXCEPT !.started = TRUE])
  <2> DEFINE x == [r EXCEPT !.started = TRUE]
  <2>1. x \in CgiConnections
    BY <1>1 DEF CgiConnections
  <2>a. x.started = TRUE /\ x.fin = r.fin /\ x.wq = r.wq /\ x.status = r.status /\ x.mode = r.mode
    BY <1>1 DEF CgiConnections
  <2>b. /\ x.h = r.h /\ x.hctx = r.hctx /\ x.st = r.st /\ x.pollin = r.pollin
        /\ x.len = r.len /\ x.in = r.in /\ x.out = r.out /\ x.owed = r.owed /\ x.ka = r.ka
    BY <1>1 DEF CgiConnections
  <2> HIDE DEF x
  <2>2. Heeded(r, x)
    BY <1>1, <2>1, <2>a, <2>b DEF Heeded, SameScript
  <2>3. Good(x)
    <3>1. CASE r.h.fd # CgiNil
      BY <1>1, <1>2, <2>2, <2>a, <2>b, <3>1, HeededIsGood
    <3>2. CASE r.h.fd = CgiNil
      BY <1>1, <2>2, <2>a, <2>b, <3>2, HeededUnbound
    <3> QED BY <3>1, <3>2
  <2> QED BY <1>1, <1>8, <2>2, <2>3, <2>a, <2>b, DemuxedEmpty DEF Heeded, x
<1>9. CASE o = ReadEmpty([r EXCEPT !.started = TRUE, !.wq = 1])
  <2> DEFINE x == [r EXCEPT !.started = TRUE, !.wq = 1]
  <2>1. x \in CgiConnections
    <3> DEFINE one == 1
    <3>1. one \in 0 .. 2
      OBVIOUS
    <3> HIDE DEF one
    <3>2. [r EXCEPT !.started = TRUE, !.wq = one] \in CgiConnections
      BY <1>1, <3>1 DEF CgiConnections
    <3> QED BY <3>2 DEF one
  <2>a. x.started = TRUE /\ x.fin = r.fin /\ x.wq = 1 /\ x.status = r.status /\ x.mode = r.mode
    BY <1>1 DEF CgiConnections
  <2>b. /\ x.h = r.h /\ x.hctx = r.hctx /\ x.st = r.st /\ x.pollin = r.pollin
        /\ x.len = r.len /\ x.in = r.in /\ x.out = r.out /\ x.owed = r.owed /\ x.ka = r.ka
    BY <1>1 DEF CgiConnections
  <2> HIDE DEF x
  <2>2. Heeded(r, x)
    BY <1>1, <2>1, <2>a, <2>b DEF Heeded, SameScript
  <2>3. Good(x)
    <3>1. CASE r.h.fd # CgiNil
      BY <1>1, <1>2, <2>2, <2>a, <2>b, <3>1, HeededIsGood
    <3>2. CASE r.h.fd = CgiNil
      BY <1>1, <2>2, <2>a, <2>b, <3>2, HeededUnbound
    <3> QED BY <3>1, <3>2
  <2> QED BY <1>1, <1>9, <2>2, <2>3, <2>a, <2>b, DemuxedEmpty DEF Heeded, x
<1> QED BY <1>3, <1>4, <1>5, <1>6, <1>7, <1>8, <1>9 DEF HeaderRead

(* More of the body. *)
LEMMA BodyDemuxed ==
    ASSUME NEW r, Good(r), r.hctx, r.mode = "cgi", r.started, NEW o \in BodyRead(r)
    PROVE  Demuxed(r, o)
<1>1. /\ r \in CgiConnections /\ Closing(r) /\ ~r.fin /\ r.wr \in BOOLEAN /\ r.h.ev \in BOOLEAN
      /\ r.h \in CgiHandlers /\ SameScript(r, r) /\ r.h.data \in {"none", "part", "rest", "local"}
  BY GoodCloses DEF Good, Loose, Heard, CgiConnections, CgiHandlers, SameScript
<1>2. CASE o = CgiOut(r, "ERROR")
  BY <1>1, <1>2, DemuxedDone
<1>3. ASSUME NEW w \in {1, 2}, ~(BufMin /\ w = 2), o = ReadEmpty([r EXCEPT !.wq = w])
      PROVE  Demuxed(r, o)
  <2> DEFINE x == [r EXCEPT !.wq = w]
  <2>0. w \in 0 .. 2
    BY <1>3
  <2>1. x \in CgiConnections
    BY <1>1, <2>0 DEF CgiConnections
  <2>2. /\ x.h = r.h /\ x.hctx = r.hctx /\ x.st = r.st /\ x.pollin = r.pollin
        /\ x.len = r.len /\ x.in = r.in /\ x.out = r.out /\ x.owed = r.owed /\ x.ka = r.ka
        /\ x.started = r.started /\ x.fin = r.fin /\ x.mode = r.mode
    BY <1>1 DEF CgiConnections
  <2>3. o = ReadEmpty(x)
    BY <1>3
  <2> HIDE DEF x
  <2>4. Heeded(r, x)
    BY <2>1, <2>2 DEF Heeded, SameScript
  <2>5. Good(x)
    <3>1. CASE r.h.fd # CgiNil
      <4>1. r.h.ev \/ BufMin
        BY <3>1 DEF Good, Loose, Heard
      <4> QED BY <1>1, <2>2, <2>4, <4>1, HeededIsGood
    <3>2. CASE r.h.fd = CgiNil
      BY <1>1, <2>2, <2>4, <3>2, HeededUnbound
    <3> QED BY <3>1, <3>2
  <2> QED BY <2>2, <2>3, <2>4, <2>5, DemuxedEmpty DEF Heeded
<1>4. ASSUME BufMin, NEW d \in {"none", r.h.data},
             o = CgiOut([r EXCEPT !.wq = 2, !.h.data = d, !.h.ev = @ /\ r.wr], "NOT_FINISHED")
      PROVE  Demuxed(r, o)
  <2> DEFINE e == r.h.ev /\ r.wr
             two == 2
             h == [r.h EXCEPT !.data = d, !.ev = e]
             x == [r EXCEPT !.wq = two, !.h = h]
  <2>1. e \in BOOLEAN /\ d \in {"none", "part", "rest", "local"} /\ two \in 0 .. 2 /\ two = 2
    BY <1>1, <1>4
  <2>2. o = CgiOut(x, "NOT_FINISHED")
    <3> HIDE DEF two
    <3>1. [r EXCEPT !.wq = two, !.h.data = d, !.h.ev = @ /\ r.wr] = x
      BY <1>1 DEF CgiConnections, CgiHandlers
    <3> QED BY <1>4, <2>1, <3>1
  <2> HIDE DEF e, two
  <2>3. /\ h \in CgiHandlers /\ h.pid = r.h.pid /\ h.fd = r.h.fd /\ h.fdtocgi = r.h.fdtocgi
        /\ h.evto = r.h.evto
    BY <1>1, <2>1 DEF CgiHandlers
  <2> HIDE DEF h
  <2>4. x \in CgiConnections /\ x.h = h /\ x.wq = 2
    BY <1>1, <2>1, <2>3 DEF CgiConnections
  <2>5. /\ x.hctx = r.hctx /\ x.st = r.st /\ x.pollin = r.pollin
        /\ x.len = r.len /\ x.in = r.in /\ x.out = r.out /\ x.owed = r.owed /\ x.ka = r.ka
        /\ x.started = r.started /\ x.fin = r.fin /\ x.mode = r.mode
    BY <1>1 DEF CgiConnections
  <2> HIDE DEF x
  <2>6. Heeded(r, x)
    BY <2>3, <2>4, <2>5 DEF Heeded, SameScript
  <2>7. Good(x)
    BY <1>1, <1>4, <2>5, <2>6, HeededIsGood
  <2>8. Closing(x)
    BY <1>1, <2>5, <2>7, GoodCloses DEF Good
  <2> QED BY <2>2, <2>4, <2>5, <2>6, <2>7, <2>8 DEF Demuxed, Heeded, CgiOut, IsOut, Quiet
<1>5. CASE o # CgiOut(r, "ERROR")
  <2>1. PICK w \in {v \in {1, 2} : v >= r.wq} :
          o \in IF BufMin /\ w = 2
                THEN {CgiOut([r EXCEPT !.wq = w, !.h.data = d, !.h.ev = @ /\ r.wr], "NOT_FINISHED") :
                         d \in {"none", r.h.data}}
                ELSE {ReadEmpty([r EXCEPT !.wq = w])}
    BY <1>5 DEF BodyRead
  <2>2. CASE BufMin /\ w = 2
    <3>1. PICK d \in {"none", r.h.data} :
            o = CgiOut([r EXCEPT !.wq = 2, !.h.data = d, !.h.ev = @ /\ r.wr], "NOT_FINISHED")
      BY <2>1, <2>2
    <3> QED BY <1>4, <2>2, <3>1
  <2>3. CASE ~(BufMin /\ w = 2)
    BY <1>3, <2>1, <2>3
  <2> QED BY <2>2, <2>3
<1> QED BY <1>2, <1>5

(* cgi_demux_response() *)
LEMMA DemuxHandled ==
    ASSUME NEW r, Good(r), r.hctx, r.mode = "cgi", NEW o \in cgi_demux_response(r)
    PROVE  Demuxed(r, o)
<1>1. /\ r \in CgiConnections /\ Closing(r) /\ ~r.fin /\ r.h \in CgiHandlers /\ SameScript(r, r)
      /\ r.wq \in 0 .. 2
  BY GoodCloses DEF Good, Loose, Heard, CgiConnections, SameScript
<1>2. CASE r.h.data = "none"
  <2>1. o = ReadEmpty(r)
    BY <1>2 DEF cgi_demux_response
  <2> QED BY <1>1, <2>1, DemuxedEmpty
<1>3. CASE r.h.data # "none" /\ r.started
  <2>1. o \in BodyRead(r)
    BY <1>3 DEF cgi_demux_response
  <2> QED BY <1>3, <2>1, BodyDemuxed
<1>4. CASE r.h.data = "part" /\ ~r.started
  <2>1. \/ o = ReadEmpty([r EXCEPT !.h.hdr = TRUE])
        \/ o = CgiOut([r EXCEPT !.status = "502", !.mode = "direct"], "FINISHED")
    BY <1>4 DEF cgi_demux_response
  <2>2. CASE o = ReadEmpty([r EXCEPT !.h.hdr = TRUE])
    <3> DEFINE h == [r.h EXCEPT !.hdr = TRUE]
               x == [r EXCEPT !.h = h]
    <3>1. o = ReadEmpty(x)
      BY <1>1, <2>2 DEF CgiConnections, CgiHandlers
    <3>2. /\ h \in CgiHandlers /\ h.pid = r.h.pid /\ h.fd = r.h.fd /\ h.fdtocgi = r.h.fdtocgi
          /\ h.evto = r.h.evto /\ h.ev = r.h.ev
      BY <1>1 DEF CgiHandlers
    <3> HIDE DEF h
    <3>3. x \in CgiConnections /\ x.h = h
      BY <1>1, <3>2 DEF CgiConnections
    <3>4. /\ x.hctx = r.hctx /\ x.st = r.st /\ x.pollin = r.pollin
          /\ x.len = r.len /\ x.in = r.in /\ x.out = r.out /\ x.owed = r.owed /\ x.ka = r.ka
          /\ x.started = r.started /\ x.fin = r.fin /\ x.mode = r.mode /\ x.wq = r.wq
      BY <1>1 DEF CgiConnections
    <3> HIDE DEF x
    <3>5. Heeded(r, x)
      BY <3>2, <3>3, <3>4 DEF Heeded, SameScript
    <3>6. Good(x)
      <4>1. CASE r.h.fd # CgiNil
        <5>1. r.h.ev
          BY <1>4, <4>1 DEF Good, Loose, Heard
        <5> QED BY <1>1, <3>2, <3>3, <3>4, <3>5, <5>1, HeededIsGood
      <4>2. CASE r.h.fd = CgiNil
        BY <1>1, <3>4, <3>5, <4>2, HeededUnbound
      <4> QED BY <4>1, <4>2
    <3> QED BY <3>1, <3>4, <3>5, <3>6, DemuxedEmpty DEF Heeded
  <2>3. CASE o = CgiOut([r EXCEPT !.status = "502", !.mode = "direct"], "FINISHED")
    <3> DEFINE x == [r EXCEPT !.status = "502", !.mode = "direct"]
    <3>1. x \in CgiConnections /\ x.status = "502"
      BY <1>1 DEF CgiConnections
    <3>2. /\ x.h = r.h /\ x.hctx = r.hctx /\ x.st = r.st /\ x.pollin = r.pollin
          /\ x.len = r.len /\ x.in = r.in /\ x.out = r.out /\ x.owed = r.owed /\ x.ka = r.ka
          /\ x.started = r.started /\ x.wq = r.wq
      BY <1>1 DEF CgiConnections
    <3>3. o = CgiOut(x, "FINISHED")
      BY <2>3
    <3> HIDE DEF x
    <3>4. Heeded(r, x)
      BY <3>1, <3>2 DEF Heeded, SameScript
    <3>5. Closing(x)
      BY <1>1, <3>1, <3>2, <3>4, HeededCloses
    <3> QED BY <3>3, <3>4, <3>5, DemuxedDone DEF Heeded
  <2> QED BY <2>1, <2>2, <2>3
<1>5. CASE r.h.data # "none" /\ ~r.started /\ r.h.data # "part"
  <2>1. o \in HeaderRead(r)
    BY <1>5 DEF cgi_demux_response
  <2> QED BY <1>5, <2>1, HeaderDemuxed
<1> QED BY <1>2, <1>3, <1>4, <1>5

(* cgi_recv_response(): the script goes on, or it was given up. *)
Received(r, o) ==
    /\ IsOut(o) /\ Good(o.con) /\ o.con.st = r.st
    /\ \/ /\ o.ret = "GO_ON" /\ Stays(r, o) /\ o.con.mode = "cgi"
          /\ o.con.h.ev \/ o.con.wq = 2
       \/ o.ret \in {"FINISHED", "COMEBACK", "ERROR"} /\ GivenUp(r, o)

(* cgi_recv_response() *)
LEMMA RecvHandler ==
    ASSUME NEW r, Good(r), r.hctx, r.mode = "cgi", NEW o \in cgi_recv_response(r)
    PROVE  Received(r, o) /\ o.ret # "ERROR"
<1>1. PICK u \in cgi_demux_response(r) :
        o = CASE u.ret = "NOT_FINISHED" -> [u EXCEPT !.ret = "GO_ON"]
              [] u.ret = "COMEBACK"     -> cgi_connection_close(u.con, "COMEBACK")
              [] OTHER                  -> cgi_connection_close(u.con, "FINISHED")
  BY DEF cgi_recv_response
<1>2. Demuxed(r, u)
  BY DemuxHandled
<1>3. CASE u.ret = "NOT_FINISHED"
  <2>1. o = [u EXCEPT !.ret = "GO_ON"]
    BY <1>1, <1>3
  <2>2. /\ IsOut(o) /\ o.con = u.con /\ o.ret = "GO_ON" /\ o.add = u.add /\ o.del = u.del
        /\ o.new = u.new /\ o.left = u.left
    BY <1>2, <2>1, OtherAnswer DEF Demuxed
  <2> QED BY <1>2, <1>3, <2>2 DEF Demuxed, Received, Stays, Quiet
<1>4. CASE u.ret # "NOT_FINISHED"
  <2>1. PICK ret \in {"COMEBACK", "FINISHED"} : o = cgi_connection_close(u.con, ret)
    BY <1>1, <1>4
  <2>2. IsOut(o) /\ Good(o.con) /\ o.con.st = u.con.st /\ GivenUp(u.con, o) /\ o.ret = ret
    BY <1>2, <2>1, CloseGivesUp DEF Demuxed
  <2>3. GivenUp(r, o)
    BY <1>2, <2>2 DEF Demuxed, SameScript, GivenUp
  <2> QED BY <1>2, <2>2, <2>3 DEF Demuxed, Received
<1> QED BY <1>3, <1>4

(* One more read, with nothing left in the pipe. *)
LEMMA DrainHandler ==
    ASSUME NEW r, Good(r), r.hctx, r.mode = "cgi", NEW o \in DrainCgi(r)
    PROVE  Received(r, o)
<1>1. PICK u \in cgi_recv_response(r) :
        o \in IF u.ret # "GO_ON" THEN {u} ELSE cgi_recv_response([u.con EXCEPT !.h.data = "none"])
  BY DEF DrainCgi
<1>2. Received(r, u)
  BY RecvHandler
<1>3. CASE u.ret # "GO_ON"
  BY <1>1, <1>2, <1>3
<1>4. CASE u.ret = "GO_ON"
  <2> DEFINE c == u.con
             h == [c.h EXCEPT !.data = "none"]
             x == [c EXCEPT !.h = h]
  <2>1. Good(c) /\ c.st = r.st /\ SameScript(r, c) /\ c.hctx /\ c.mode = "cgi"
    BY <1>2, <1>4 DEF Received, Stays, SameScript
  <2>2. c \in CgiConnections /\ c.h \in CgiHandlers /\ Bound(c) /\ Heard(c) /\ Loose(c) /\ ~c.fin
    BY <2>1 DEF Good, Loose, CgiConnections, Heard
  <2> HIDE DEF c
  <2>3. o \in cgi_recv_response(x)
    <3>1. [c EXCEPT !.h.data = "none"] = x
      BY <2>2 DEF CgiConnections, CgiHandlers
    <3> QED BY <1>1, <1>4, <3>1 DEF c
  <2>4. /\ h \in CgiHandlers /\ h.pid = c.h.pid /\ h.fd = c.h.fd /\ h.fdtocgi = c.h.fdtocgi
        /\ h.evto = c.h.evto /\ h.ev = c.h.ev
    BY <2>2 DEF CgiHandlers
  <2> HIDE DEF h
  <2>5. x \in CgiConnections /\ x.h = h
    BY <2>2, <2>4 DEF CgiConnections
  <2>6. /\ x.hctx = c.hctx /\ x.st = c.st /\ x.pollin = c.pollin
        /\ x.len = c.len /\ x.in = c.in /\ x.out = c.out /\ x.owed = c.owed /\ x.ka = c.ka
        /\ x.started = c.started /\ x.fin = c.fin /\ x.mode = c.mode /\ x.wq = c.wq
    BY <2>2 DEF CgiConnections
  <2> HIDE DEF x
  <2>7. Heeded(c, x)
    BY <2>4, <2>5, <2>6 DEF Heeded, SameScript
  <2>8. Good(x)
    <3>1. CASE c.h.fd # CgiNil
      <4>1. c.h.ev \/ (BufMin /\ c.started)
        BY <2>2, <3>1 DEF Heard
      <4> QED BY <2>1, <2>2, <2>4, <2>5, <2>6, <2>7, <4>1, HeededIsGood
    <3>2. CASE c.h.fd = CgiNil
      BY <2>1, <2>2, <2>6, <2>7, <3>2, HeededUnbound
    <3> QED BY <3>1, <3>2
  <2>9. Received(x, o)
    BY <2>1, <2>3, <2>6, <2>8, RecvHandler
  <2>10. SameScript(r, x) /\ x.st = r.st
    BY <2>1, <2>6, <2>7 DEF Heeded, SameScript
  <2>11. Stays(x, o) => Stays(r, o)
    BY <2>10 DEF Stays, SameScript
  <2>12. GivenUp(x, o) => GivenUp(r, o)
    BY <2>10 DEF GivenUp, SameScript
  <2> QED BY <2>9, <2>10, <2>11, <2>12 DEF Received
<1> QED BY <1>3, <1>4

(* What cgi_handle_fdevent() does about a script that hung up. *)
LEMMA HungUpHandler ==
    ASSUME NEW r, Good(r), r.hctx, r.mode = "cgi", NEW o \in HungUp(r)
    PROVE  Received(r, o)
<1>1. /\ r \in CgiConnections /\ Closing(r) /\ ~r.fin
  BY GoodCloses DEF Good, Loose, Heard
<1>2. CASE r.started
  BY <1>2, DrainHandler DEF HungUp
<1>3. ASSUME NEW x, Closing(x), x.h = r.h, x.st = r.st, NEW ret \in {"FINISHED", "ERROR"},
             o = cgi_connection_close(x, ret)
      PROVE  Received(r, o)
  BY <1>3, CloseGivesUp DEF GivenUp, Received
<1>4. CASE ~r.started /\ r.h.hdr
  <2> DEFINE one == 1
             x == [r EXCEPT !.started = TRUE, !.wq = one]
             y == [r EXCEPT !.started = TRUE]
  <2>1. o = cgi_connection_close(x, "FINISHED") \/ o = cgi_connection_close(y, "ERROR")
    BY <1>4 DEF HungUp
  <2>2. one \in 0 .. 2
    OBVIOUS
  <2> HIDE DEF one
  <2>3. Closing(x) /\ x.h = r.h /\ x.st = r.st
    BY <1>1, <2>2 DEF Closing, CgiConnections, Balanced
  <2>4. Closing(y) /\ y.h = r.h /\ y.st = r.st
    BY <1>1 DEF Closing, CgiConnections, Balanced
  <2> QED BY <1>3, <2>1, <2>3, <2>4
<1>5. CASE ~r.started /\ ~r.h.hdr
  <2>1. o = cgi_connection_close(r, "FINISHED")
    BY <1>5 DEF HungUp
  <2> QED BY <1>1, <1>3, <2>1
<1> QED BY <1>2, <1>4, <1>5

(* cgi_handle_fdevent() *)
LEMMA RecvEvent ==
    ASSUME NEW r, Good(r), r.h.fd # CgiNil, NEW revents, NEW o \in cgi_handle_fdevent(r, revents)
    PROVE  /\ IsOut(o) /\ Good(o.con) /\ o.con.st = r.st
           /\ Stays(r, o) \/ GivenUp(r, o)
<1>1. r.hctx /\ r.mode = "cgi"
  BY NoScriptTyped DEF Good, Loose, Bound, Heard
<1>2. PICK u \in IF "IN" \in revents THEN cgi_recv_response(r) ELSE {CgiOut(r, "GO_ON")} :
        o \in CASE u.ret # "GO_ON" -> {u}
                [] u.ret = "GO_ON" /\ "HUP" \in revents -> HungUp(u.con)
                [] OTHER -> {[u EXCEPT !.ret = "FINISHED"]}
  BY DEF cgi_handle_fdevent
<1>3. /\ IsOut(u) /\ Good(u.con) /\ u.con.st = r.st
      /\ \/ u.ret = "GO_ON" /\ Stays(r, u) /\ u.con.mode = "cgi"
         \/ u.ret # "GO_ON" /\ GivenUp(r, u)
  <2>1. CASE u \in cgi_recv_response(r)
    BY <1>1, <2>1, RecvHandler DEF Received
  <2>2. CASE u = CgiOut(r, "GO_ON")
    BY <1>1, <2>2 DEF CgiOut, IsOut, Quiet, Stays, SameScript
  <2> QED BY <1>2, <2>1, <2>2
<1>4. CASE u.ret # "GO_ON"
  BY <1>2, <1>3, <1>4
<1>5. CASE u.ret = "GO_ON" /\ "HUP" \in revents
  <2>1. o \in HungUp(u.con)
    BY <1>2, <1>5
  <2>2. SameScript(r, u.con) /\ u.con.hctx
    BY <1>1, <1>3, <1>5 DEF Stays, SameScript
  <2>3. Received(u.con, o)
    BY <1>3, <1>5, <2>1, <2>2, HungUpHandler
  <2>4. Stays(u.con, o) => Stays(r, o)
    BY <2>2 DEF Stays, SameScript
  <2>5. GivenUp(u.con, o) => GivenUp(r, o)
    BY <2>2 DEF GivenUp, SameScript
  <2> QED BY <1>3, <2>3, <2>4, <2>5 DEF Received
<1>6. CASE u.ret = "GO_ON" /\ "HUP" \notin revents
  <2>1. o = [u EXCEPT !.ret = "FINISHED"]
    BY <1>2, <1>6
  <2>2. /\ IsOut(o) /\ o.con = u.con /\ o.add = u.add /\ o.del = u.del
        /\ o.new = u.new /\ o.left = u.left
    BY <1>3, <2>1, OtherAnswer
  <2> QED BY <1>3, <1>6, <2>2 DEF Stays, Quiet
<1> QED BY <1>4, <1>5, <1>6

-----------------------------------------------------------------------------
(* Starting a script *)

(* cgi_create_env() *)
LEMMA CreateHandled ==
    ASSUME NEW r, Loose(r), r.hctx, r.mode = "cgi", r.h.fd = CgiNil, ~Streaming => r.in = r.len,
           NEW o \in cgi_create_env(r)
    PROVE  /\ IsOut(o) /\ o.con.st = r.st
           /\ Good(o.con) /\ o.ret \in {"0", "-1"}
           /\ o.ret = "0" => /\ Started(r, o) \/ StartedBoth(r, o)
                             /\ o.con.h.ev
           /\ o.ret = "-1" => (Stays(r, o) \/ StartFailed(r, o)) /\ o.con.h.fd = CgiNil
<1>1. /\ r \in CgiConnections /\ Balanced(r) /\ Bound(r) /\ Heard(r) /\ ~r.fin
      /\ r.h \in CgiHandlers /\ r.h.fdtocgi = CgiNil /\ r.h.pid = CgiNil
  BY DEF Loose, Heard, Bound, CgiConnections
<1>2. CASE o = CgiOut(r, "-1")
  <2>1. Good(r)
    BY <1>1 DEF Good, Fed
  <2> QED BY <1>2, <2>1 DEF CgiOut, IsOut, Quiet, Stays, SameScript
<1>3. CASE o # CgiOut(r, "-1")
  <2>1. PICK t \in {n \in [pid : Pid, from : Fd, to : Fd] :
                      /\ n.from # n.to /\ fdarray[n.from] = CgiNil /\ fdarray[n.to] = CgiNil
                      /\ child[n.pid] = "free"} :
          LET x == [r EXCEPT !.h.pid = t.pid, !.h.fd = t.from, !.h.reader = TRUE, !.h.writer = TRUE,
                             !.h.ev = TRUE]
              started == [CgiOut(x, "0") EXCEPT !.add = {<<t.from, "out">>}, !.new = t.pid]
              failed == After(started, cgi_connection_close(x, "-1"))
          IN  o \in {failed}
                 \cup IF r.len = 0 THEN {started}
                      ELSE {IF q.ret = "-1" THEN failed ELSE After(started, q) :
                               q \in cgi_write_request(x, t.to)}
    BY <1>3, ZenonT(60) DEF cgi_create_env
  <2> DEFINE p == t.pid
             f == t.from
             g == t.to
             h == [r.h EXCEPT !.pid = p, !.fd = f, !.reader = TRUE, !.writer = TRUE, !.ev = TRUE]
             x == [r EXCEPT !.h = h]
             A == {<<f, "out">>}
             started == [con |-> x, ret |-> "0", add |-> A, del |-> {}, new |-> p, left |-> CgiNil]
             failed == After(started, cgi_connection_close(x, "-1"))
  <2>2. /\ p \in Pid /\ f \in Fd /\ g \in Fd /\ f # g /\ fdarray[f] = CgiNil /\ fdarray[g] = CgiNil
        /\ child[p] = "free" /\ p # CgiNil /\ f # CgiNil /\ g # CgiNil
    BY CgiAssumption
  <2>3. /\ \/ o = failed
           \/ r.len = 0 /\ o = started
           \/ \E q \in cgi_write_request(x, g) : q.ret # "-1" /\ o = After(started, q)
    <3>1. [r EXCEPT !.h.pid = p, !.h.fd = f, !.h.reader = TRUE, !.h.writer = TRUE, !.h.ev = TRUE] = x
      <4> HIDE DEF p, f
      <4> QED BY <1>1 DEF CgiConnections, CgiHandlers
    <3> DEFINE begun == [CgiOut(x, "0") EXCEPT !.add = A, !.new = p]
    <3>2. begun = started
      <4>1. begun = [CgiOut(x, "0") EXCEPT !.add = A, !.new = p]
        OBVIOUS
      <4> HIDE DEF x, A, p, begun
      <4> QED BY <4>1 DEF CgiOut
    <3>3. ~(r.len = 0) => \A q : q \in {IF w.ret = "-1" THEN failed ELSE After(started, w) : w \in cgi_write_request(x, g)}
             => \/ q = failed
                \/ \E w \in cgi_write_request(x, g) : w.ret # "-1" /\ q = After(started, w)
      <4> HIDE DEF started, x, failed
      <4> QED OBVIOUS
    <3>4. o \in {After(begun, cgi_connection_close(x, "-1"))}
                 \cup IF r.len = 0 THEN {begun}
                      ELSE {IF w.ret = "-1" THEN After(begun, cgi_connection_close(x, "-1"))
                                            ELSE After(begun, w) : w \in cgi_write_request(x, g)}
      BY <2>1, <3>1, ZenonT(60)
    <3>5. o \in {failed} \cup IF r.len = 0 THEN {started}
                             ELSE {IF w.ret = "-1" THEN failed ELSE After(started, w) :
                                      w \in cgi_write_request(x, g)}
      <4> HIDE DEF begun, started, x
      <4> QED BY <3>2, <3>4
    <3> HIDE DEF started, x, failed
    <3> QED BY <3>3, <3>5
  <2> HIDE DEF p, f, g
  <2>4. /\ h \in CgiHandlers /\ h.pid = p /\ h.fd = f /\ h.fdtocgi = CgiNil /\ h.ev
        /\ h.evto = r.h.evto
    BY <1>1, <2>2 DEF CgiHandlers
  <2> HIDE DEF h
  <2>5. x \in CgiConnections /\ x.h = h
    BY <1>1, <2>4 DEF CgiConnections
  <2>6. /\ x.hctx = r.hctx /\ x.st = r.st /\ x.pollin = r.pollin
        /\ x.len = r.len /\ x.in = r.in /\ x.out = r.out /\ x.owed = r.owed /\ x.ka = r.ka
        /\ x.started = r.started /\ x.fin = r.fin /\ x.mode = r.mode /\ x.wq = r.wq
        /\ x.status = r.status
    BY <1>1 DEF CgiConnections
  <2> HIDE DEF x
  <2> DEFINE q0 == started
  <2>7. IsOut(q0) /\ q0.con = x /\ q0.ret = "0" /\ q0.add = A /\ q0.del = {} /\ q0.new = p /\ q0.left = CgiNil
    <3> HIDE DEF A
    <3> QED BY DEF IsOut
  <2>8. /\ Steady(x) /\ x.h.fd = f /\ x.h.fdtocgi = CgiNil /\ x.h.pid = p /\ x.h.ev /\ ~x.fin
        /\ Good(x) /\ x.hctx
    <3>1. Balanced(x) /\ Bound(x)
      BY <1>1, <2>2, <2>4, <2>5, <2>6 DEF Balanced, Bound
    <3>2. Heard(x)
      BY <1>1, <2>4, <2>5, <2>6 DEF Heard
    <3>3. Sending(x) /\ Fed(x)
      BY <2>4, <2>5 DEF Sending, Fed
    <3> QED BY <1>1, <2>4, <2>5, <2>6, <3>1, <3>2, <3>3 DEF Steady, Good, Loose
  <2>9. CASE o = failed
    <3> DEFINE q == cgi_connection_close(x, "-1")
    <3>1. Closing(x)
      BY <2>8, GoodCloses DEF Good
    <3>2. IsOut(q) /\ Good(q.con) /\ q.con.st = x.st /\ GivenUp(x, q) /\ q.ret = "-1"
      BY <3>1, CloseGivesUp
    <3> HIDE DEF q
    <3>3. /\ q.add = {} /\ q.del = {f} /\ q.new = CgiNil /\ q.left = p
          /\ q.con.h = cgi_handler_ctx_init /\ ~q.con.hctx
      BY <2>2, <2>8, <3>2 DEF GivenUp
    <3>4. o = After(q0, q)
      BY <2>9 DEF q
    <3> HIDE DEF q0, A
    <3>5. o = [con |-> q.con, ret |-> "-1", add |-> {} \cup q0.add, del |-> {f} \cup q0.del,
               new |-> q0.new, left |-> p]
      <4>1. q = [con |-> q.con, ret |-> q.ret, add |-> q.add, del |-> q.del, new |-> q.new, left |-> q.left]
        BY <3>2 DEF IsOut
      <4>2. o = [con |-> q.con, ret |-> q.ret, add |-> q.add \cup q0.add, del |-> q.del \cup q0.del,
                 new |-> IF q.new = CgiNil THEN q0.new ELSE q.new,
                 left |-> IF q.left = CgiNil THEN q0.left ELSE q.left]
        BY <3>4, <4>1, AfterIs
      <4> QED BY <2>2, <3>2, <3>3, <4>2
    <3>6. {} \cup q0.add = A /\ {f} \cup q0.del = {f}
      BY <2>7
    <3>7. IsOut(o) /\ o.con = q.con /\ o.ret = "-1" /\ o.add = A /\ o.del = {f} /\ o.new = p /\ o.left = p
      BY <2>7, <3>5, <3>6, MadeOut
    <3>8. StartFailed(r, o)
      BY <2>2, <3>3, <3>7 DEF StartFailed, A
    <3> QED BY <2>6, <3>2, <3>3, <3>7, <3>8, NoScriptTyped
  <2>10. CASE o = q0
    <3> HIDE DEF q0
    <3>1. Started(r, o)
      BY <1>1, <2>2, <2>7, <2>8, <2>10 DEF Started, A
    <3> QED BY <2>6, <2>7, <2>8, <2>10, <3>1
  <2>11. ASSUME NEW q \in cgi_write_request(x, g), q.ret # "-1", o = After(q0, q)
         PROVE  IsOut(o) /\ o.con.st = r.st /\ Good(o.con) /\ o.ret = "0" /\ o.con.h.ev
                /\ (Started(r, o) \/ StartedBoth(r, o))
    <3> HIDE DEF q0
    <3>1. /\ IsOut(q) /\ q.ret = "0" /\ Good(q.con) /\ Alike(x, q.con) /\ q.con.h.ev
          /\ Stays(x, q) \/ Opened(x, q, g)
      <4>1. ~StdinClosed(x, q)
        BY <2>8 DEF StdinClosed
      <4> QED BY <2>2, <2>8, <2>11, <4>1, WriteRequest
    <3>2. o = [con |-> q.con, ret |-> q.ret, add |-> q.add \cup q0.add, del |-> q.del \cup q0.del,
               new |-> IF q.new = CgiNil THEN q0.new ELSE q.new,
               left |-> IF q.left = CgiNil THEN q0.left ELSE q.left]
      <4>1. q = [con |-> q.con, ret |-> q.ret, add |-> q.add, del |-> q.del, new |-> q.new, left |-> q.left]
        BY <3>1 DEF IsOut
      <4> QED BY <2>11, <4>1, AfterIs
    <3>3. q.new = CgiNil /\ q.left = CgiNil /\ q.del = {}
      BY <3>1 DEF Stays, Quiet, Opened
    <3>4. o = [con |-> q.con, ret |-> "0", add |-> q.add \cup A, del |-> {}, new |-> p, left |-> CgiNil]
      <4> HIDE DEF A
      <4>1. q.del \cup q0.del = {}
        BY <2>7, <3>3
      <4> QED BY <2>7, <3>1, <3>2, <3>3, <4>1
    <3>5. /\ IsOut(o) /\ o.con = q.con /\ o.ret = "0" /\ o.add = q.add \cup A /\ o.del = {}
          /\ o.new = p /\ o.left = CgiNil
      BY <3>4, MadeOut
    <3>6. o.con.st = r.st /\ o.con.hctx
      BY <2>6, <2>8, <3>1, <3>5 DEF Alike
    <3>7. CASE Stays(x, q)
      <4>1. o.add = A /\ o.con.h.pid = p /\ o.con.h.fd = f /\ o.con.h.fdtocgi = CgiNil
        BY <2>8, <3>5, <3>7 DEF Stays, SameScript, Quiet
      <4>2. Started(r, o)
        BY <1>1, <2>2, <3>5, <3>6, <4>1 DEF Started, A
      <4> QED BY <3>1, <3>5, <3>6, <4>2
    <3>8. CASE Opened(x, q, g)
      <4>1. o.add = {<<f, "out">>, <<g, "in">>} /\ o.con.h.pid = p /\ o.con.h.fd = f /\ o.con.h.fdtocgi = g
        BY <2>8, <3>5, <3>8 DEF Opened, A
      <4>2. StartedBoth(r, o)
        BY <1>1, <2>2, <3>5, <3>6, <4>1 DEF StartedBoth
      <4> QED BY <3>1, <3>5, <3>6, <4>2
    <3> QED BY <3>1, <3>7, <3>8
  <2> QED BY <2>3, <2>9, <2>10, <2>11
<1> QED BY <1>2, <1>3

-----------------------------------------------------------------------------
(* mod_cgi_handle_subrequest() *)

(* Somebody will go on with the script: its output is watched, or the client is to take more. *)
Watching(r) == r.h.fd # CgiNil => r.h.ev \/ r.wq = 2

(* What mod_cgi_handle_subrequest() leaves behind. *)
Answered(r, o) ==
    /\ IsOut(o) /\ Good(o.con) /\ o.con.st = r.st /\ Effect(r, o) /\ Watching(o.con)
    /\ o.ret \in {"GO_ON", "FINISHED", "WAIT_FOR_EVENT", "ERROR", "COMEBACK"}
    /\ o.ret = "WAIT_FOR_EVENT" => o.con.h.fd # CgiNil \/ o.con.pollin

(* An effect on a connection is the same on one with the same script. *)
LEMMA EffectKept ==
    ASSUME NEW r, NEW x, SameScript(r, x), NEW o, Effect(x, o)
    PROVE  Effect(r, o)
<1>1. Stays(x, o) => Stays(r, o)
  BY DEF Stays, SameScript
<1>2. StdinClosed(x, o) => StdinClosed(r, o)
  BY DEF StdinClosed, SameScript
<1>3. GivenUp(x, o) => GivenUp(r, o)
  BY DEF GivenUp, SameScript
<1>4. Started(x, o) => Started(r, o)
  BY DEF Started, SameScript
<1>5. StartedBoth(x, o) => StartedBoth(r, o)
  BY DEF StartedBoth, SameScript
<1>6. StartFailed(x, o) => StartFailed(r, o)
  BY DEF StartFailed, SameScript
<1> QED BY <1>1, <1>2, <1>3, <1>4, <1>5, <1>6 DEF Effect

(* A script that could not be started is answered with 500. *)
LEMMA RefusedIsGood ==
    ASSUME NEW r, Good(r), r.h.fd = CgiNil, r.st \notin {"closed", "idle"}
    PROVE  LET x == [r EXCEPT !.status = "500", !.mode = "direct"]
           IN  Good(x) /\ x.st = r.st /\ SameScript(r, x) /\ SameScript(x, r) /\ x.h = r.h
<1> DEFINE x == [r EXCEPT !.status = "500", !.mode = "direct"]
<1>1. r \in CgiConnections
  BY DEF Good, Loose
<1>2. x \in CgiConnections /\ x.status = "500" /\ x.mode = "direct"
  BY <1>1 DEF CgiConnections
<1>3. /\ x.h = r.h /\ x.hctx = r.hctx /\ x.st = r.st /\ x.pollin = r.pollin
      /\ x.len = r.len /\ x.in = r.in /\ x.out = r.out /\ x.owed = r.owed /\ x.ka = r.ka
      /\ x.started = r.started /\ x.wq = r.wq
  BY <1>1 DEF CgiConnections
<1> HIDE DEF x
<1>4. Balanced(x) /\ Sending(x) /\ Fed(x) /\ Bound(x)
  BY <1>3 DEF Good, Loose, Balanced, Sending, Fed, Bound
<1>5. Heard(x)
  BY <1>2, <1>3 DEF Good, Loose, Heard
<1> QED BY <1>2, <1>3, <1>4, <1>5 DEF Good, Loose, SameScript, x

(* The script is started, or sent more. *)
LEMMA StartOrSendAnswers ==
    ASSUME NEW r, Loose(r), r.hctx, r.mode = "cgi", Watching(r), ~Streaming => r.in = r.len,
           NEW o \in StartOrSend(r)
    PROVE  Answered(r, o)
<1>1. /\ r \in CgiConnections /\ Balanced(r) /\ Bound(r) /\ Heard(r) /\ Sending(r)
      /\ r.st \notin {"closed", "idle"} /\ r.in \in Nat /\ r.out \in Nat
  BY DEF Loose, CgiConnections, Heard
<1>2. CASE r.h.fd = CgiNil
  <2>1. PICK u \in cgi_create_env(r) :
          o = IF u.ret = "-1"
              THEN [u EXCEPT !.con.status = "500", !.con.mode = "direct", !.ret = "FINISHED"]
              ELSE [u EXCEPT !.ret = "WAIT_FOR_EVENT"]
    BY <1>2 DEF StartOrSend
  <2>2. /\ IsOut(u) /\ u.con.st = r.st
        /\ Good(u.con) /\ u.ret \in {"0", "-1"}
        /\ u.ret = "0" => (Started(r, u) \/ StartedBoth(r, u)) /\ u.con.h.ev
        /\ u.ret = "-1" => (Stays(r, u) \/ StartFailed(r, u)) /\ u.con.h.fd = CgiNil
    BY <1>2, CreateHandled
  <2>3. CASE u.ret = "0"
    <3>1. o = [u EXCEPT !.ret = "WAIT_FOR_EVENT"]
      BY <2>1, <2>3
    <3>2. /\ IsOut(o) /\ o.con = u.con /\ o.ret = "WAIT_FOR_EVENT" /\ o.add = u.add /\ o.del = u.del
          /\ o.new = u.new /\ o.left = u.left
      BY <2>2, <3>1, OtherAnswer
    <3>3. Started(r, o) \/ StartedBoth(r, o)
      BY <2>2, <2>3, <3>2 DEF Started, StartedBoth
    <3>4. o.con.h.fd # CgiNil
      BY <3>3, CgiAssumption DEF Started, StartedBoth
    <3> QED BY <2>2, <2>3, <3>2, <3>3, <3>4 DEF Answered, Effect, Watching
  <2>4. CASE u.ret = "-1"
    <3> DEFINE c == u.con
               x == [c EXCEPT !.status = "500", !.mode = "direct"]
    <3>1. Good(c) /\ c.st = r.st /\ c.h.fd = CgiNil /\ c \in CgiConnections
      BY <2>2, <2>4 DEF Good, Loose
    <3>2. Good(x) /\ x.st = c.st /\ SameScript(c, x) /\ x.h = c.h
      BY <1>1, <3>1, RefusedIsGood
    <3>3. /\ o.con = x /\ o.ret = "FINISHED" /\ o.add = u.add /\ o.del = u.del /\ o.new = u.new
          /\ o.left = u.left /\ IsOut(o)
      <4>1. o = [u EXCEPT !.con.status = "500", !.con.mode = "direct", !.ret = "FINISHED"]
        BY <2>1, <2>4
      <4>2. u = [con |-> c, ret |-> u.ret, add |-> u.add, del |-> u.del, new |-> u.new, left |-> u.left]
        BY <2>2 DEF IsOut
      <4>3. o = [con |-> x, ret |-> "FINISHED", add |-> u.add, del |-> u.del, new |-> u.new, left |-> u.left]
        <5>1. o = [u EXCEPT !.con = [[c EXCEPT !.status = "500"] EXCEPT !.mode = "direct"], !.ret = "FINISHED"]
          BY <4>1, <4>2
        <5>2. [[c EXCEPT !.status = "500"] EXCEPT !.mode = "direct"] = x
          BY <3>1 DEF CgiConnections
        <5> HIDE DEF c, x
        <5> QED BY <4>2, <5>1, <5>2
      <4> HIDE DEF c, x
      <4> QED BY <4>3, MadeOut
    <3> HIDE DEF c, x
    <3>4. Stays(r, u) => Stays(r, o)
      BY <3>2, <3>3 DEF Stays, SameScript, Quiet, c
    <3>5. StartFailed(r, u) => StartFailed(r, o)
      BY <3>2, <3>3 DEF StartFailed, SameScript, c
    <3> QED BY <2>2, <2>4, <3>1, <3>2, <3>3, <3>4, <3>5 DEF Answered, Effect, Watching
  <2> QED BY <2>2, <2>3, <2>4
<1>3. CASE r.h.fd # CgiNil /\ r.in > r.out
  <2> DEFINE f == r.h.fdtocgi
  <2>1. PICK u \in cgi_write_request(r, f) :
          o = CASE u.ret = "-1" -> cgi_connection_close(u.con, "ERROR")
                [] u.ret = "0"  -> [u EXCEPT !.ret = "WAIT_FOR_EVENT"]
                [] OTHER        -> u
    BY <1>3 DEF StartOrSend
  <2>2. /\ IsOut(u) /\ u.ret \in {"0", "-1"}
        /\ u.ret = "-1" => u.con = r
        /\ u.ret = "0" => /\ Good(u.con) /\ Alike(r, u.con) /\ u.con.h.ev = r.h.ev
                          /\ Stays(r, u) \/ StdinClosed(r, u)
    <3>1. CASE f = CgiNil
      <4>1. PICK w \in WriteToCgi(r, f) : u = IF w.ret = "-1" THEN w ELSE Sent(w.con, f)
        BY DEF cgi_write_request
      <4>2. IsOut(w) /\ w.ret = "-1" /\ w.con = r
        BY <1>1, <1>3, <3>1, <4>1, WriteTakes
      <4> QED BY <4>1, <4>2
    <3>2. CASE f # CgiNil
      <4>1. f \in Fd
        BY <1>1, <3>2 DEF CgiConnections, CgiHandlers
      <4>2. ~Opened(r, u, f)
        BY <3>2 DEF Opened
      <4>3. Steady(r)
        BY <1>1 DEF Steady
      <4> QED BY <1>3, <2>1, <4>1, <4>2, <4>3, WriteRequest
    <3> QED BY <3>1, <3>2
  <2> HIDE DEF f
  <2>3. CASE u.ret = "-1"
    <3>1. o = cgi_connection_close(r, "ERROR")
      BY <2>1, <2>2, <2>3
    <3>2. IsOut(o) /\ Good(o.con) /\ o.con.st = r.st /\ GivenUp(r, o) /\ o.ret = "ERROR"
      BY <3>1, CloseGivesUp, GoodCloses
    <3> QED BY <3>2, NoScriptTyped DEF Answered, Effect, Watching, GivenUp
  <2>4. CASE u.ret = "0"
    <3>1. o = [u EXCEPT !.ret = "WAIT_FOR_EVENT"]
      BY <2>1, <2>4
    <3>2. /\ IsOut(o) /\ o.con = u.con /\ o.ret = "WAIT_FOR_EVENT" /\ o.add = u.add /\ o.del = u.del
          /\ o.new = u.new /\ o.left = u.left
      BY <2>2, <3>1, OtherAnswer
    <3>3. Stays(r, o) \/ StdinClosed(r, o)
      BY <2>2, <2>4, <3>2 DEF Stays, StdinClosed, Quiet
    <3>4. o.con.h.fd = r.h.fd
      BY <3>3 DEF Stays, SameScript, StdinClosed
    <3> QED BY <1>3, <2>2, <2>4, <3>2, <3>3, <3>4 DEF Answered, Effect, Watching, Alike
  <2> QED BY <2>2, <2>3, <2>4
<1>4. CASE r.h.fd # CgiNil /\ ~(r.in > r.out)
  <2>1. o = CgiOut(r, "WAIT_FOR_EVENT")
    BY <1>4 DEF StartOrSend
  <2>2. Fed(r)
    BY <1>4 DEF Fed
  <2>3. Stays(r, o) /\ IsOut(o) /\ o.con = r /\ o.ret = "WAIT_FOR_EVENT"
    BY <2>1 DEF CgiOut, IsOut, Quiet, Stays, SameScript
  <2> QED BY <1>4, <2>2, <2>3 DEF Answered, Good, Effect
<1> QED BY <1>2, <1>3, <1>4

(* So is an answer. *)
LEMMA AnsweredKept ==
    ASSUME NEW r, NEW x, SameScript(r, x), x.st = r.st, NEW o, Answered(x, o)
    PROVE  Answered(r, o)
<1>1. Effect(r, o)
  BY EffectKept DEF Answered
<1> QED BY <1>1 DEF Answered

(* An answer without a change of the pipes. *)
LEMMA AnsweredAtOnce ==
    ASSUME NEW r, NEW x, Good(x), SameScript(r, x), x.st = r.st, Watching(x),
           NEW ret \in {"GO_ON", "WAIT_FOR_EVENT", "ERROR"},
           ret = "WAIT_FOR_EVENT" => x.h.fd # CgiNil \/ x.pollin,
           NEW o, o.con = x, o.ret = ret, IsOut(o), Quiet(o)
    PROVE  Answered(r, o)
BY DEF Answered, Effect, Stays

(* The body is read before the script is started or sent more. *)
LEMMA ReadBodyAnswers ==
    ASSUME NEW r, Good(r), r.hctx, r.mode = "cgi", Watching(r), NEW o \in ReadBody(r)
    PROVE  Answered(r, o)
<1>1. /\ r \in CgiConnections /\ Balanced(r) /\ Bound(r) /\ Heard(r) /\ Sending(r) /\ Fed(r) /\ Loose(r)
      /\ r.in \in Nat /\ r.out \in Nat /\ High \in Nat
  BY CgiAssumption DEF Good, Loose, CgiConnections
<1>2. CASE r.in = r.len
  BY <1>1, <1>2, StartOrSendAnswers DEF ReadBody
<1>3. CASE r.in # r.len /\ BufMin /\ r.in - r.out > High
  <2> DEFINE x == [r EXCEPT !.pollin = FALSE]
  <2>1. o \in IF r.h.fd # CgiNil THEN {CgiOut(x, "WAIT_FOR_EVENT")} ELSE StartOrSend(x)
    BY <1>3 DEF ReadBody
  <2>2. x \in CgiConnections
    BY <1>1 DEF CgiConnections
  <2>3. /\ x.h = r.h /\ x.hctx = r.hctx /\ x.st = r.st /\ x.mode = r.mode
        /\ x.len = r.len /\ x.in = r.in /\ x.out = r.out /\ x.owed = r.owed /\ x.ka = r.ka
        /\ x.started = r.started /\ x.wq = r.wq /\ x.fin = r.fin
    BY <1>1 DEF CgiConnections
  <2> HIDE DEF x
  <2>4. Balanced(x) /\ Bound(x) /\ Heard(x) /\ Fed(x)
    BY <1>1, <2>3 DEF Balanced, Bound, Heard, Fed
  <2>5. Sending(x)
    BY <1>1, <1>3, <2>3 DEF Sending
  <2>6. Good(x) /\ Loose(x) /\ SameScript(r, x) /\ Watching(x) /\ Streaming
    BY <1>3, <2>2, <2>3, <2>4, <2>5, CgiAssumption DEF Good, Loose, SameScript, Watching
  <2>7. CASE r.h.fd # CgiNil
    <3>1. o = CgiOut(x, "WAIT_FOR_EVENT")
      BY <2>1, <2>7
    <3>2. o.con = x /\ o.ret = "WAIT_FOR_EVENT" /\ IsOut(o) /\ Quiet(o)
      BY <3>1 DEF CgiOut, IsOut, Quiet
    <3> QED BY <2>3, <2>6, <2>7, <3>2, AnsweredAtOnce
  <2>8. CASE r.h.fd = CgiNil
    <3>1. o \in StartOrSend(x)
      BY <2>1, <2>8
    <3>2. Answered(x, o)
      BY <2>3, <2>6, <3>1, StartOrSendAnswers
    <3> QED BY <2>3, <2>6, <3>2, AnsweredKept
  <2> QED BY <2>7, <2>8
<1>4. CASE r.in # r.len /\ ~(BufMin /\ r.in - r.out > High)
  <2>1. PICK u \in connection_handle_read_post_state(r) :
          o \in CASE u.con.in > u.con.out /\ u.con.h.evto = "OUT" ->
                       {IF u.ret = "GO_ON" THEN [u EXCEPT !.ret = "WAIT_FOR_EVENT"] ELSE u}
                  [] ~(u.con.in > u.con.out /\ u.con.h.evto = "OUT") /\ u.ret # "GO_ON" -> {u}
                  [] OTHER -> StartOrSend(u.con)
    BY <1>4 DEF ReadBody
  <2>2. /\ IsOut(u) /\ Quiet(u) /\ Loose(u.con) /\ Alike(r, u.con) /\ u.con.h = r.h
        /\ u.ret \in {"GO_ON", "WAIT_FOR_EVENT", "ERROR"}
        /\ u.ret = "WAIT_FOR_EVENT" => r.h.fd = CgiNil /\ u.con.pollin
        /\ u.ret = "GO_ON" => Streaming \/ u.con.in = r.len
        /\ u.con.len = r.len
        /\ u.ret = "ERROR" => u.con = r
    BY <1>4, PostRead
  <2>3. SameScript(r, u.con) /\ u.con.st = r.st /\ Watching(u.con) /\ u.con.hctx /\ u.con.mode = "cgi"
    BY <2>2 DEF SameScript, Alike, Watching
  <2>4. CASE u.con.in > u.con.out /\ u.con.h.evto = "OUT"
    <3>1. Good(u.con)
      BY <2>2, <2>4 DEF Good, Fed
    <3>2. u.con.h.fd # CgiNil
      BY <1>1, <2>2, <2>4 DEF Bound
    <3>3. CASE u.ret = "GO_ON"
      <4>1. o = [u EXCEPT !.ret = "WAIT_FOR_EVENT"]
        BY <2>1, <2>4, <3>3
      <4>2. /\ IsOut(o) /\ o.con = u.con /\ o.ret = "WAIT_FOR_EVENT" /\ o.add = u.add /\ o.del = u.del
            /\ o.new = u.new /\ o.left = u.left
        BY <2>2, <4>1, OtherAnswer
      <4>3. Quiet(o)
        BY <2>2, <4>2 DEF Quiet
      <4> QED BY <2>3, <3>1, <3>2, <4>2, <4>3, AnsweredAtOnce
    <3>4. CASE u.ret # "GO_ON"
      <4>1. o = u
        BY <2>1, <2>4, <3>4
      <4> QED BY <2>2, <2>3, <3>1, <3>2, <4>1, AnsweredAtOnce
    <3> QED BY <3>3, <3>4
  <2>5. CASE ~(u.con.in > u.con.out /\ u.con.h.evto = "OUT") /\ u.ret # "GO_ON"
    <3>1. o = u
      BY <2>1, <2>5
    <3>2. Good(u.con)
      BY <1>1, <2>2, <2>5 DEF Good, Fed, Bound
    <3> QED BY <2>2, <2>3, <3>1, <3>2, AnsweredAtOnce
  <2>6. CASE ~(u.con.in > u.con.out /\ u.con.h.evto = "OUT") /\ u.ret = "GO_ON"
    <3>1. o \in StartOrSend(u.con)
      BY <2>1, <2>6
    <3>2. ~Streaming => u.con.in = u.con.len
      BY <2>2, <2>6 DEF Loose
    <3>3. Answered(u.con, o)
      BY <2>2, <2>3, <3>1, <3>2, StartOrSendAnswers
    <3> QED BY <2>3, <3>3, AnsweredKept
  <2> QED BY <2>4, <2>5, <2>6
<1> QED BY <1>2, <1>3, <1>4

(* mod_cgi_handle_subrequest() *)
LEMMA SubrequestAnswers ==
    ASSUME NEW r, Good(r), NEW o \in mod_cgi_handle_subrequest(r)
    PROVE  Answered(r, o)
<1>1. /\ r \in CgiConnections /\ Balanced(r) /\ Bound(r) /\ Heard(r) /\ Sending(r) /\ Fed(r)
  BY DEF Good, Loose
<1>2. CASE r.mode # "cgi" \/ ~r.hctx
  <2>1. o = CgiOut(r, "GO_ON")
    BY <1>2 DEF mod_cgi_handle_subrequest
  <2>2. o.con = r /\ o.ret = "GO_ON" /\ IsOut(o) /\ Quiet(o)
    BY <2>1 DEF CgiOut, IsOut, Quiet
  <2>3. r.h.fd = CgiNil
    BY <1>1, <1>2, NoScriptTyped DEF Bound, Heard
  <2> QED BY <2>2, <2>3, AnsweredAtOnce DEF Watching, SameScript
<1>3. CASE r.mode = "cgi" /\ r.hctx /\ BufMin /\ r.started /\ r.wq = 2
  <2> DEFINE h == [r.h EXCEPT !.ev = FALSE]
             x == [r EXCEPT !.h = h]
  <2>1. r.h \in CgiHandlers
    BY <1>1 DEF CgiConnections
  <2>2. o \in ReadBody(x)
    <3>1. x = [r EXCEPT !.h.ev = FALSE]
      BY <1>1, <2>1 DEF CgiConnections, CgiHandlers
    <3> QED BY <1>3, <3>1 DEF mod_cgi_handle_subrequest
  <2>3. /\ h \in CgiHandlers /\ h.pid = r.h.pid /\ h.fd = r.h.fd /\ h.fdtocgi = r.h.fdtocgi
        /\ h.evto = r.h.evto
    BY <2>1 DEF CgiHandlers
  <2> HIDE DEF h
  <2>4. x \in CgiConnections /\ x.h = h
    BY <1>1, <2>3 DEF CgiConnections
  <2>5. /\ x.hctx = r.hctx /\ x.st = r.st /\ x.mode = r.mode /\ x.pollin = r.pollin
        /\ x.len = r.len /\ x.in = r.in /\ x.out = r.out /\ x.owed = r.owed /\ x.ka = r.ka
        /\ x.started = r.started /\ x.wq = r.wq /\ x.fin = r.fin
    BY <1>1 DEF CgiConnections
  <2> HIDE DEF x
  <2>6. Heeded(r, x)
    BY <2>3, <2>4, <2>5 DEF Heeded, SameScript
  <2>7. ~r.fin
    BY <1>1, <1>3 DEF Heard
  <2>8. Good(x)
    BY <1>3, <2>5, <2>6, <2>7, HeededIsGood
  <2>9. Answered(x, o)
    BY <1>3, <2>2, <2>5, <2>8, ReadBodyAnswers DEF Watching
  <2> QED BY <2>5, <2>6, <2>9, AnsweredKept DEF Heeded
<1>4. CASE r.mode = "cgi" /\ r.hctx /\ BufMin /\ r.started /\ r.wq # 2 /\ ~r.h.ev
  <2>1. PICK u \in cgi_recv_response(r) : o \in IF u.ret = "GO_ON" THEN ReadBody(u.con) ELSE {u}
    BY <1>4 DEF mod_cgi_handle_subrequest
  <2>2. Received(r, u) /\ u.ret # "ERROR"
    BY <1>4, RecvHandler
  <2>3. CASE u.ret = "GO_ON"
    <3>1. /\ Good(u.con) /\ u.con.st = r.st /\ SameScript(r, u.con) /\ u.con.mode = "cgi" /\ u.con.hctx
          /\ Watching(u.con)
      BY <1>4, <2>2, <2>3 DEF Received, Stays, SameScript, Watching
    <3>2. Answered(u.con, o)
      BY <2>1, <2>3, <3>1, ReadBodyAnswers
    <3> QED BY <3>1, <3>2, AnsweredKept
  <2>4. CASE u.ret # "GO_ON"
    <3>1. o = u
      BY <2>1, <2>4
    <3>2. GivenUp(r, o) /\ o.con.h.fd = CgiNil
      BY <2>2, <2>4, <3>1, NoScriptTyped DEF Received, GivenUp
    <3> QED BY <2>2, <2>4, <3>1, <3>2 DEF Received, Answered, Effect, Watching
  <2> QED BY <2>3, <2>4
<1>5. CASE /\ r.mode = "cgi" /\ r.hctx
           /\ ~(BufMin /\ r.started /\ r.wq = 2)
           /\ ~(BufMin /\ r.started /\ r.wq # 2 /\ ~r.h.ev)
  <2>1. o \in ReadBody(r)
    BY <1>5 DEF mod_cgi_handle_subrequest
  <2>2. Watching(r)
    BY <1>1, <1>5 DEF Watching, Heard
  <2> QED BY <1>5, <2>1, <2>2, ReadBodyAnswers
<1> QED BY <1>2, <1>3, <1>4, <1>5

-----------------------------------------------------------------------------
(* Descriptors and processes *)

(* A process that was started and not reaped belongs to one connection or is in the list of
   those left to themselves, once, and to both never. *)
OneOwner ==
    \A p \in Pid :
        /\ child[p] = "free" <=> /\ \A c \in CgiCon : con[c].h.pid # p
                                 /\ \A i \in DOMAIN cgi_pid : cgi_pid[i] # p
        /\ \A c, d \in CgiCon : con[c].h.pid = p /\ con[d].h.pid = p => c = d
        /\ \A i, j \in DOMAIN cgi_pid : cgi_pid[i] = p /\ cgi_pid[j] = p => i = j
        /\ \A c \in CgiCon, i \in DOMAIN cgi_pid : con[c].h.pid = p => cgi_pid[i] # p

CgiTypes ==
    /\ con \in [CgiCon -> CgiConnections]
    /\ \A c \in CgiCon : Good(con[c])
    /\ fdarray \in [Fd -> {CgiNil} \cup ({"in", "out"} \X CgiCon)]
    /\ child \in [Pid -> {"free", "run", "zombie"}]
    /\ cgi_pid \in Seq(Pid)

(* The inductive invariant: every connection is sound and every resource has its owner. *)
Owned == CgiTypes /\ DescriptorsOwned /\ OneOwner
CgiLoop == cur \in CgiCon /\ k \in Nat \ {0} /\ \A e \in batch : e.fd \in Fd
CgiSound == Owned /\ CgiLoop

(* What a step does to the descriptors and the processes of its connection. *)
Untouched(r, o) ==
    Quiet(o) /\ o.con.h.pid = r.h.pid /\ o.con.h.fd = r.h.fd /\ o.con.h.fdtocgi = r.h.fdtocgi
Outcome(r, o) == Effect(r, o) \/ Untouched(r, o)

(* What the invariant says of the connection of a handler. *)
LEMMA AtWork ==
    ASSUME Owned, NEW c \in CgiCon
    PROVE  /\ con[c] \in CgiConnections /\ con[c].h \in CgiHandlers /\ Good(con[c]) /\ Bound(con[c])
           /\ con[c].h.pid \in Pid \cup {CgiNil}
           /\ con[c].h.fd \in Fd \cup {CgiNil} /\ con[c].h.fdtocgi \in Fd \cup {CgiNil}
           /\ con[c].h.fd # CgiNil => fdarray[con[c].h.fd] = <<"out", c>>
           /\ con[c].h.fdtocgi # CgiNil => fdarray[con[c].h.fdtocgi] = <<"in", c>>
<1>1. con[c] \in CgiConnections /\ Good(con[c]) /\ Bound(con[c])
  BY DEF Owned, CgiTypes, Good, Loose
<1>2. con[c].h \in CgiHandlers
  BY <1>1 DEF CgiConnections
<1> QED BY <1>1, <1>2 DEF CgiHandlers, Owned, DescriptorsOwned

(* Apply() registers exactly the pipes the connection has afterwards, and those it opens
   were nobody's. *)
LEMMA PipesRegistered ==
    ASSUME Owned, NEW c \in CgiCon, NEW o, Outcome(con[c], o), Apply(c, o)
    PROVE  LET r == con[c]
               x == o.con
           IN  \A f \in Fd :
                /\ f = x.h.fd => fdarray'[f] = <<"out", c>>
                /\ f = x.h.fdtocgi => fdarray'[f] = <<"in", c>>
                /\ f \notin {x.h.fd, x.h.fdtocgi} /\ f \in {r.h.fd, r.h.fdtocgi}
                    => fdarray'[f] = CgiNil
                /\ f \notin {x.h.fd, x.h.fdtocgi} /\ f \notin {r.h.fd, r.h.fdtocgi}
                    => fdarray'[f] = fdarray[f]
                /\ f \in {x.h.fd, x.h.fdtocgi} => f \in {r.h.fd, r.h.fdtocgi} \/ fdarray[f] = CgiNil
<1> DEFINE r == con[c]
           x == o.con
<1> SUFFICES ASSUME NEW f \in Fd
             PROVE  /\ f = x.h.fd => fdarray'[f] = <<"out", c>>
                    /\ f = x.h.fdtocgi => fdarray'[f] = <<"in", c>>
                    /\ f \notin {x.h.fd, x.h.fdtocgi} /\ f \in {r.h.fd, r.h.fdtocgi}
                        => fdarray'[f] = CgiNil
                    /\ f \notin {x.h.fd, x.h.fdtocgi} /\ f \notin {r.h.fd, r.h.fdtocgi}
                        => fdarray'[f] = fdarray[f]
                    /\ f \in {x.h.fd, x.h.fdtocgi} =>
                        f \in {r.h.fd, r.h.fdtocgi} \/ fdarray[f] = CgiNil
  OBVIOUS
<1>1. /\ f # CgiNil /\ Bound(r)
      /\ f = r.h.fd => fdarray[f] = <<"out", c>>
      /\ f = r.h.fdtocgi => fdarray[f] = <<"in", c>>
      /\ <<"out", c>> # <<"in", c>>
  BY AtWork, CgiAssumption
<1>2. fdarray'[f] = CASE f \in o.del -> CgiNil
                      [] f \notin o.del /\ \E a \in o.add : a[1] = f ->
                            <<(CHOOSE a \in o.add : a[1] = f)[2], c>>
                      [] OTHER -> fdarray[f]
  BY DEF Apply
<1>3. /\ f \in o.del => fdarray'[f] = CgiNil
      /\ f \notin o.del /\ (\A a \in o.add : a[1] # f) => fdarray'[f] = fdarray[f]
  BY <1>2
<1>4. ASSUME NEW kind, <<f, kind>> \in o.add, \A a \in o.add : a[1] = f => a = <<f, kind>>, f \notin o.del
      PROVE  fdarray'[f] = <<kind, c>>
  <2>1. (CHOOSE a \in o.add : a[1] = f) = <<f, kind>>
    BY <1>4
  <2> QED BY <1>2, <1>4, <2>1
<1> HIDE DEF r, x
<1>5. CASE Untouched(r, o)
  BY <1>1, <1>3, <1>5 DEF Untouched, Quiet, x
<1>6. CASE StdinClosed(r, o)
  BY <1>1, <1>3, <1>6 DEF StdinClosed, x
<1>7. CASE GivenUp(r, o)
  BY <1>1, <1>3, <1>7, NoScriptTyped DEF GivenUp, x
<1>8. CASE Started(r, o)
  <2>1. PICK g \in Fd : /\ fdarray[g] = CgiNil /\ x.h.fd = g /\ x.h.fdtocgi = CgiNil
                        /\ o.add = {<<g, "out">>} /\ o.del = {}
    BY <1>8 DEF Started, x
  <2>2. r.h.fd = CgiNil /\ r.h.fdtocgi = CgiNil
    BY <1>1, <1>8 DEF Started, Bound
  <2>3. CASE f = g
    <3>1. fdarray'[f] = <<"out", c>>
      BY <1>4, <2>1, <2>3
    <3> QED BY <1>1, <2>1, <2>2, <2>3, <3>1
  <2>4. CASE f # g
    BY <1>1, <1>3, <2>1, <2>2, <2>4
  <2> QED BY <2>3, <2>4
<1>9. CASE StartedBoth(r, o)
  <2>1. PICK g \in Fd, w \in Fd :
            /\ g # w /\ fdarray[g] = CgiNil /\ fdarray[w] = CgiNil
            /\ x.h.fd = g /\ x.h.fdtocgi = w
            /\ o.add = {<<g, "out">>, <<w, "in">>} /\ o.del = {}
    BY <1>9 DEF StartedBoth, x
  <2>2. r.h.fd = CgiNil /\ r.h.fdtocgi = CgiNil
    BY <1>1, <1>9 DEF StartedBoth, Bound
  <2>3. CASE f = g
    <3>1. fdarray'[f] = <<"out", c>>
      BY <1>4, <2>1, <2>3
    <3> QED BY <1>1, <2>1, <2>2, <2>3, <3>1
  <2>4. CASE f = w
    <3>1. fdarray'[f] = <<"in", c>>
      BY <1>4, <2>1, <2>4
    <3> QED BY <1>1, <2>1, <2>2, <2>4, <3>1
  <2>5. CASE f # g /\ f # w
    BY <1>1, <1>3, <2>1, <2>2, <2>5
  <2> QED BY <2>3, <2>4, <2>5
<1>10. CASE StartFailed(r, o)
  <2>1. PICK g \in Fd : fdarray[g] = CgiNil /\ o.add = {<<g, "out">>} /\ o.del = {g}
    BY <1>10 DEF StartFailed
  <2>2. /\ r.h.fd = CgiNil /\ r.h.fdtocgi = CgiNil /\ x.h.fd = CgiNil /\ x.h.fdtocgi = CgiNil
    BY <1>1, <1>10, NoScriptTyped DEF StartFailed, Bound, x
  <2> QED BY <1>1, <1>3, <2>1, <2>2
<1>11. Stays(r, o) => Untouched(r, o)
  BY DEF Stays, SameScript, Untouched
<1> QED BY <1>5, <1>6, <1>7, <1>8, <1>9, <1>10, <1>11 DEF Outcome, Effect, r

(* Every pipe stays registered for its own connection. *)
LEMMA PipesOwned ==
    ASSUME Owned, NEW c \in CgiCon, NEW o, Good(o.con), Outcome(con[c], o), Apply(c, o)
    PROVE  /\ DescriptorsOwned'
           /\ fdarray' \in [Fd -> {CgiNil} \cup ({"in", "out"} \X CgiCon)]
<1> DEFINE r == con[c]
           x == o.con
<1>1. /\ con' = [con EXCEPT ![c] = x] /\ DOMAIN con = CgiCon
      /\ con'[c] = x /\ \A d \in CgiCon : d # c => con'[d] = con[d]
  BY DEF Apply, Owned, CgiTypes
<1>2. x.h.fd \in Fd \cup {CgiNil} /\ x.h.fdtocgi \in Fd \cup {CgiNil}
  BY DEF Good, Loose, CgiConnections, CgiHandlers
<1>3. \A f \in Fd :
        /\ f = x.h.fd => fdarray'[f] = <<"out", c>>
        /\ f = x.h.fdtocgi => fdarray'[f] = <<"in", c>>
        /\ f \notin {x.h.fd, x.h.fdtocgi} /\ f \in {r.h.fd, r.h.fdtocgi} => fdarray'[f] = CgiNil
        /\ f \notin {x.h.fd, x.h.fdtocgi} /\ f \notin {r.h.fd, r.h.fdtocgi} => fdarray'[f] = fdarray[f]
        /\ f \in {x.h.fd, x.h.fdtocgi} => f \in {r.h.fd, r.h.fdtocgi} \/ fdarray[f] = CgiNil
  BY PipesRegistered
<1>4. fdarray \in [Fd -> {CgiNil} \cup ({"in", "out"} \X CgiCon)]
  BY DEF Owned, CgiTypes
<1>5. \A f \in Fd : f \in {r.h.fd, r.h.fdtocgi} => fdarray[f] \in {<<"out", c>>, <<"in", c>>}
  BY AtWork, CgiAssumption
<1> HIDE DEF r, x
<1>6. ASSUME NEW d \in CgiCon, d # c, NEW f \in Fd, NEW kind \in {"in", "out"}, fdarray[f] = <<kind, d>>
      PROVE  fdarray'[f] = <<kind, d>> /\ f \notin {x.h.fd, x.h.fdtocgi}
  <2>1. f \notin {r.h.fd, r.h.fdtocgi}
    BY <1>5, <1>6
  <2>2. fdarray[f] # CgiNil
    BY <1>6, CgiAssumption
  <2> QED BY <1>3, <1>6, <2>1, <2>2
<1>7. \A d \in CgiCon :
        /\ con'[d].h.fd # CgiNil => fdarray'[con'[d].h.fd] = <<"out", d>>
        /\ con'[d].h.fdtocgi # CgiNil => fdarray'[con'[d].h.fdtocgi] = <<"in", d>>
  <2> SUFFICES ASSUME NEW d \in CgiCon
               PROVE  /\ con'[d].h.fd # CgiNil => fdarray'[con'[d].h.fd] = <<"out", d>>
                      /\ con'[d].h.fdtocgi # CgiNil => fdarray'[con'[d].h.fdtocgi] = <<"in", d>>
    OBVIOUS
  <2>1. CASE d = c
    BY <1>1, <1>2, <1>3, <2>1
  <2>2. CASE d # c
    BY <1>1, <1>6, <2>2, AtWork
  <2> QED BY <2>1, <2>2
<1>8. \A f \in Fd : fdarray'[f] # CgiNil =>
            f \in {con'[fdarray'[f][2]].h.fd, con'[fdarray'[f][2]].h.fdtocgi}
  <2> SUFFICES ASSUME NEW f \in Fd, fdarray'[f] # CgiNil
               PROVE  f \in {con'[fdarray'[f][2]].h.fd, con'[fdarray'[f][2]].h.fdtocgi}
    OBVIOUS
  <2>1. CASE f \in {x.h.fd, x.h.fdtocgi}
    <3>1. fdarray'[f][2] = c
      BY <1>3, <2>1
    <3> QED BY <1>1, <2>1, <3>1
  <2>2. CASE f \notin {x.h.fd, x.h.fdtocgi}
    <3>1. f \notin {r.h.fd, r.h.fdtocgi} /\ fdarray'[f] = fdarray[f]
      BY <1>3, <2>2
    <3>2. f \in {con[fdarray[f][2]].h.fd, con[fdarray[f][2]].h.fdtocgi} /\ fdarray[f][2] \in CgiCon
      BY <1>4, <3>1 DEF Owned, DescriptorsOwned
    <3>3. fdarray[f][2] # c
      BY <3>1, <3>2 DEF r
    <3> QED BY <1>1, <3>1, <3>2, <3>3
  <2> QED BY <2>1, <2>2
<1>9. fdarray' \in [Fd -> {CgiNil} \cup ({"in", "out"} \X CgiCon)]
  <2>1. DOMAIN fdarray' = Fd /\ fdarray' = [f \in Fd |-> fdarray'[f]]
    BY DEF Apply
  <2>2. \A f \in Fd : fdarray'[f] \in {CgiNil} \cup ({"in", "out"} \X CgiCon)
    BY <1>3, <1>4, SMTT(30)
  <2> QED BY <2>1, <2>2
<1> QED BY <1>7, <1>8, <1>9 DEF DescriptorsOwned

(* cgi_pid_add(): the list grows by one entry. *)
LEMMA Appended ==
    ASSUME NEW s \in Seq(Pid), NEW p \in Pid
    PROVE  /\ Append(s, p) \in Seq(Pid)
           /\ \A i \in DOMAIN s : i \in DOMAIN Append(s, p) /\ Append(s, p)[i] = s[i]
           /\ \E n \in DOMAIN Append(s, p) : Append(s, p)[n] = p
           /\ \A i \in DOMAIN Append(s, p) : i \notin DOMAIN s => Append(s, p)[i] = p
           /\ \A i, j \in DOMAIN Append(s, p) : i \notin DOMAIN s /\ j \notin DOMAIN s => i = j
<1>1. /\ Append(s, p) \in Seq(Pid) /\ Len(s) \in Nat /\ DOMAIN s = 1 .. Len(s)
      /\ DOMAIN Append(s, p) = 1 .. Len(s) + 1
      /\ \A i \in 1 .. Len(s) : Append(s, p)[i] = s[i]
      /\ Append(s, p)[Len(s) + 1] = p
  OBVIOUS
<1> QED BY <1>1

(* A process that is started, left to itself or reaped keeps its one owner. *)
LEMMA ChildrenKept ==
    ASSUME Owned, NEW c \in CgiCon, NEW o, Good(o.con), Outcome(con[c], o), Apply(c, o)
    PROVE  /\ OneOwner'
           /\ child' \in [Pid -> {"free", "run", "zombie"}]
           /\ cgi_pid' \in Seq(Pid)
<1> DEFINE r == con[c]
           x == o.con
           gone == o.left # CgiNil /\ child[o.left] = "zombie"
<1>1. /\ DOMAIN con = CgiCon /\ con'[c] = x /\ \A d \in CgiCon : d # c => con'[d] = con[d]
  BY DEF Apply, Owned, CgiTypes
<1>2. /\ child' = [p \in Pid |-> CASE p = o.new -> "run"
                                   [] p # o.new /\ p = o.left /\ gone -> "free"
                                   [] OTHER -> child[p]]
      /\ cgi_pid' = IF o.left = CgiNil \/ gone THEN cgi_pid ELSE Append(cgi_pid, o.left)
  BY DEF Apply
<1>3. child \in [Pid -> {"free", "run", "zombie"}] /\ cgi_pid \in Seq(Pid) /\ CgiNil \notin Pid
  BY CgiAssumption DEF Owned, CgiTypes
<1>4. /\ Bound(r) /\ r.h.pid \in Pid \cup {CgiNil}
  BY AtWork
<1>5. \A p \in Pid :
        /\ child[p] = "free" <=> /\ \A d \in CgiCon : con[d].h.pid # p
                                 /\ \A i \in DOMAIN cgi_pid : cgi_pid[i] # p
        /\ \A d, e \in CgiCon : con[d].h.pid = p /\ con[e].h.pid = p => d = e
        /\ \A i, j \in DOMAIN cgi_pid : cgi_pid[i] = p /\ cgi_pid[j] = p => i = j
        /\ \A d \in CgiCon, i \in DOMAIN cgi_pid : con[d].h.pid = p => cgi_pid[i] # p
  BY DEF Owned, OneOwner
<1>6. r.h.pid # CgiNil => child[r.h.pid] # "free"
  BY <1>4, <1>5
<1> HIDE DEF x
<1>7. ASSUME x.h.pid = r.h.pid, o.new = CgiNil, o.left = CgiNil
      PROVE  OneOwner' /\ child' \in [Pid -> {"free", "run", "zombie"}] /\ cgi_pid' \in Seq(Pid)
  <2>1. cgi_pid' = cgi_pid /\ child' = child
    BY <1>2, <1>3, <1>7
  <2>2. \A d \in CgiCon : con'[d].h.pid = con[d].h.pid
    BY <1>1, <1>7
  <2> QED BY <1>3, <1>5, <2>1, <2>2 DEF OneOwner
<1>8. CASE GivenUp(r, o)
  <2>1. x.h.pid = CgiNil /\ o.new = CgiNil /\ o.left = r.h.pid
    BY <1>8, NoScriptTyped DEF GivenUp, x
  <2>2. CASE r.h.pid = CgiNil
    BY <1>7, <2>1, <2>2
  <2>3. CASE r.h.pid # CgiNil /\ gone
    <3>1. /\ r.h.pid \in Pid /\ cgi_pid' = cgi_pid
          /\ child' = [p \in Pid |-> IF p = r.h.pid THEN "free" ELSE child[p]]
      BY <1>2, <1>3, <1>4, <2>1, <2>3
    <3>2. \A i \in DOMAIN cgi_pid : cgi_pid[i] # r.h.pid
      BY <1>5, <3>1
    <3>3. \A d \in CgiCon : con'[d].h.pid = IF d = c THEN CgiNil ELSE con[d].h.pid
      BY <1>1, <2>1
    <3>4. \A d \in CgiCon : con[d].h.pid = r.h.pid => d = c
      BY <1>5, <3>1
    <3> HIDE DEF gone
    <3> QED BY <1>3, <1>5, <3>1, <3>2, <3>3, <3>4, SMTT(30) DEF OneOwner
  <2>4. CASE r.h.pid # CgiNil /\ ~gone
    <3>1. r.h.pid \in Pid /\ cgi_pid' = Append(cgi_pid, r.h.pid) /\ child' = child
      BY <1>2, <1>3, <1>4, <2>1, <2>4
    <3>2. \A i \in DOMAIN cgi_pid : cgi_pid[i] # r.h.pid
      BY <1>5, <3>1
    <3>3. \A d \in CgiCon : con'[d].h.pid = IF d = c THEN CgiNil ELSE con[d].h.pid
      BY <1>1, <2>1
    <3>4. \A d \in CgiCon : con[d].h.pid = r.h.pid => d = c
      BY <1>5, <3>1
    <3>5. /\ cgi_pid' \in Seq(Pid)
          /\ \A i \in DOMAIN cgi_pid : i \in DOMAIN cgi_pid' /\ cgi_pid'[i] = cgi_pid[i]
          /\ \E n \in DOMAIN cgi_pid' : cgi_pid'[n] = r.h.pid
          /\ \A i \in DOMAIN cgi_pid' : i \notin DOMAIN cgi_pid => cgi_pid'[i] = r.h.pid
          /\ \A i, j \in DOMAIN cgi_pid' : i \notin DOMAIN cgi_pid /\ j \notin DOMAIN cgi_pid => i = j
      BY <1>3, <3>1, Appended
    <3> HIDE DEF gone, r
    <3>6. ASSUME NEW p \in Pid
          PROVE  /\ child'[p] = "free" <=> /\ \A d \in CgiCon : con'[d].h.pid # p
                                           /\ \A i \in DOMAIN cgi_pid' : cgi_pid'[i] # p
                 /\ \A d, e \in CgiCon : con'[d].h.pid = p /\ con'[e].h.pid = p => d = e
                 /\ \A i, j \in DOMAIN cgi_pid' : cgi_pid'[i] = p /\ cgi_pid'[j] = p => i = j
                 /\ \A d \in CgiCon, i \in DOMAIN cgi_pid' : con'[d].h.pid = p => cgi_pid'[i] # p
      <4>1. CASE p = r.h.pid
        <5>1. \A d \in CgiCon : con'[d].h.pid # p
          BY <1>3, <3>1, <3>3, <3>4, <4>1
        <5>2. \A i \in DOMAIN cgi_pid' : cgi_pid'[i] = p => i \notin DOMAIN cgi_pid
          BY <3>2, <3>5, <4>1
        <5>3. child'[p] # "free"
          BY <1>6, <2>4, <3>1, <4>1
        <5> QED BY <3>5, <4>1, <5>1, <5>2, <5>3
      <4>2. CASE p # r.h.pid
        <5>1. \A d \in CgiCon : con'[d].h.pid = p <=> con[d].h.pid = p
          BY <1>3, <3>3, <4>2, r = con[c] DEF r
        <5>2. \A i \in DOMAIN cgi_pid' : cgi_pid'[i] = p => i \in DOMAIN cgi_pid /\ cgi_pid[i] = p
          BY <3>5, <4>2
        <5>3. \A i \in DOMAIN cgi_pid : i \in DOMAIN cgi_pid' /\ cgi_pid'[i] = cgi_pid[i]
          BY <3>5
        <5>4. child'[p] = child[p]
          BY <3>1
        <5> QED BY <1>5, <5>1, <5>2, <5>3, <5>4
      <4> QED BY <4>1, <4>2
    <3> QED BY <1>3, <3>1, <3>5, <3>6 DEF OneOwner
  <2> QED BY <2>2, <2>3, <2>4
<1>9. ASSUME r.h.fd = CgiNil, NEW n \in Pid, child[n] = "free", x.h.pid = n, o.new = n, o.left = CgiNil
      PROVE  OneOwner' /\ child' \in [Pid -> {"free", "run", "zombie"}] /\ cgi_pid' \in Seq(Pid)
  <2>1. cgi_pid' = cgi_pid /\ child' = [p \in Pid |-> IF p = n THEN "run" ELSE child[p]]
    BY <1>2, <1>3, <1>9
  <2>2. r.h.pid = CgiNil
    BY <1>4, <1>9 DEF Bound
  <2>3. \A d \in CgiCon : con'[d].h.pid = IF d = c THEN n ELSE con[d].h.pid
    BY <1>1, <1>9
  <2>4. \A d \in CgiCon : con[d].h.pid # n
    BY <1>5, <1>9
  <2>5. \A i \in DOMAIN cgi_pid : cgi_pid[i] # n
    BY <1>5, <1>9
  <2>6. \A p \in Pid : p # n => \A d \in CgiCon : con'[d].h.pid = p <=> con[d].h.pid = p
    BY <1>3, <2>2, <2>3
  <2> HIDE DEF r, gone
  <2> QED BY <1>3, <1>5, <2>1, <2>3, <2>4, <2>5, <2>6 DEF OneOwner
<1>10. CASE StartFailed(r, o)
  <2>1. PICK n \in Pid : child[n] = "free" /\ o.new = n /\ o.left = n /\ x.h.pid = CgiNil
    BY <1>10, NoScriptTyped DEF StartFailed, x
  <2>2. r.h.pid = CgiNil
    BY <1>4, <1>10 DEF Bound, StartFailed
  <2>3. cgi_pid' = Append(cgi_pid, n) /\ child' = [p \in Pid |-> IF p = n THEN "run" ELSE child[p]]
    BY <1>2, <1>3, <2>1
  <2>4. \A d \in CgiCon : con'[d].h.pid = con[d].h.pid
    BY <1>1, <2>1, <2>2
  <2>5. /\ cgi_pid' \in Seq(Pid)
        /\ \A i \in DOMAIN cgi_pid : i \in DOMAIN cgi_pid' /\ cgi_pid'[i] = cgi_pid[i]
        /\ \E m \in DOMAIN cgi_pid' : cgi_pid'[m] = n
        /\ \A i \in DOMAIN cgi_pid' : i \notin DOMAIN cgi_pid => cgi_pid'[i] = n
        /\ \A i, j \in DOMAIN cgi_pid' : i \notin DOMAIN cgi_pid /\ j \notin DOMAIN cgi_pid => i = j
    BY <1>3, <2>3, Appended
  <2>6. (\A d \in CgiCon : con[d].h.pid # n) /\ (\A i \in DOMAIN cgi_pid : cgi_pid[i] # n)
    BY <1>5, <2>1
  <2> HIDE DEF gone, r
  <2>7. ASSUME NEW p \in Pid
        PROVE  /\ child'[p] = "free" <=> /\ \A d \in CgiCon : con'[d].h.pid # p
                                         /\ \A i \in DOMAIN cgi_pid' : cgi_pid'[i] # p
               /\ \A d, e \in CgiCon : con'[d].h.pid = p /\ con'[e].h.pid = p => d = e
               /\ \A i, j \in DOMAIN cgi_pid' : cgi_pid'[i] = p /\ cgi_pid'[j] = p => i = j
               /\ \A d \in CgiCon, i \in DOMAIN cgi_pid' : con'[d].h.pid = p => cgi_pid'[i] # p
    <3>1. CASE p = n
      <4>1. \A d \in CgiCon : con'[d].h.pid # p
        BY <2>4, <2>6, <3>1
      <4>2. \A i \in DOMAIN cgi_pid' : cgi_pid'[i] = p => i \notin DOMAIN cgi_pid
        BY <2>5, <2>6, <3>1
      <4>3. child'[p] = "run"
        BY <2>3, <3>1
      <4> QED BY <2>5, <3>1, <4>1, <4>2, <4>3
    <3>2. CASE p # n
      <4>1. \A i \in DOMAIN cgi_pid' : cgi_pid'[i] = p => i \in DOMAIN cgi_pid /\ cgi_pid[i] = p
        BY <2>5, <3>2
      <4>2. child'[p] = child[p]
        BY <2>3, <3>2
      <4> QED BY <1>5, <2>4, <2>5, <4>1, <4>2
    <3> QED BY <3>1, <3>2
  <2>8. child' \in [Pid -> {"free", "run", "zombie"}]
    BY <1>3, <2>3
  <2> QED BY <2>5, <2>7, <2>8 DEF OneOwner
<1>11. CASE Stays(r, o) \/ StdinClosed(r, o) \/ Untouched(r, o)
  BY <1>7, <1>11 DEF Stays, SameScript, Quiet, StdinClosed, Untouched, x
<1>12. CASE Started(r, o) \/ StartedBoth(r, o)
  BY <1>9, <1>12 DEF Started, StartedBoth, x
<1> QED BY <1>8, <1>10, <1>11, <1>12 DEF Outcome, Effect

(* An outcome that takes effect keeps what everybody owns. *)
LEMMA ApplyKeeps ==
    ASSUME Owned, NEW c \in CgiCon, NEW o, Good(o.con), Outcome(con[c], o), Apply(c, o)
    PROVE  Owned'
<1>1. con' \in [CgiCon -> CgiConnections] /\ \A d \in CgiCon : Good(con[d])'
  <2>1. con' = [con EXCEPT ![c] = o.con] /\ o.con \in CgiConnections
    BY DEF Apply, Good, Loose
  <2>2. con' \in [CgiCon -> CgiConnections] /\ con'[c] = o.con /\ \A d \in CgiCon : d # c => con'[d] = con[d]
    BY <2>1 DEF Owned, CgiTypes
  <2>3. \A d \in CgiCon : Good(con'[d])
    BY <2>2 DEF Owned, CgiTypes
  <2> QED BY <2>2, <2>3 DEF Good, Loose, Balanced, Bound, Heard, Sending, Fed
<1> QED BY <1>1, PipesOwned, ChildrenKept DEF Owned, CgiTypes

-----------------------------------------------------------------------------
(* connection_state_machine() *)

(* Every script of a connection is watched (CgiNoLostWakeup). *)
Settled(r) ==
    /\ r.st = "request" => r.h.fd # CgiNil \/ r.pollin
    /\ r.h.fd # CgiNil => r.h.ev \/ (r.st = "write" /\ r.wq > 0 /\ ~r.wr)
    /\ r.h.fdtocgi # CgiNil => IF r.in > r.out THEN r.h.evto = "OUT" ELSE r.pollin

(* A sound outcome for the connection at work, and the connection rests if it is done with. *)
Rounded ==
    \E o, again :
        /\ Good(o.con) /\ Outcome(con[cur], o) /\ Round(o, again)
        /\ again \in BOOLEAN
        /\ ~again => Settled(o.con)

(* The pipe to a script is taken care of by what is Good. *)
LEMMA StdinSettled ==
    ASSUME NEW r, Good(r), r.st = "request" => r.h.fd # CgiNil \/ r.pollin,
           r.h.fd # CgiNil => r.h.ev \/ (r.st = "write" /\ r.wq > 0 /\ ~r.wr)
    PROVE  Settled(r)
<1>1. r.in \in Nat /\ r.out \in Nat /\ r.out <= r.in
  BY DEF Good, Loose, CgiConnections, Balanced
<1> QED BY <1>1 DEF Good, Loose, Sending, Fed, Settled

(* A connection without a script is at rest unless it has a request to answer. *)
LEMMA IdleSettled ==
    ASSUME NEW r, Good(r), r.h.fd = CgiNil, r.st # "request"
    PROVE  Settled(r)
BY StdinSettled

(* The outcome of what is done without a handler. *)
LEMMA PlainOut ==
    ASSUME NEW r, NEW x, x.h = r.h, NEW ret
    PROVE  LET o == CgiOut(x, ret) IN Outcome(r, o) /\ o.con = x /\ o.ret = ret
BY DEF CgiOut, Outcome, Untouched, Quiet

(* What follows a handler changes nothing of the script. *)
LEMMA EffectOther ==
    ASSUME NEW r, NEW o, IsOut(o), Effect(r, o), NEW y, y.h = o.con.h, y.hctx = o.con.hctx
    PROVE  LET q == [o EXCEPT !.con = y] IN Effect(r, q) /\ q.con = y
<1> DEFINE q == [o EXCEPT !.con = y]
<1>1. /\ q.con = y /\ q.add = o.add /\ q.del = o.del /\ q.new = o.new /\ q.left = o.left
  BY DEF IsOut
<1> HIDE DEF q
<1>2. Stays(r, o) => Stays(r, q)
  BY <1>1 DEF Stays, SameScript, Quiet
<1>3. StdinClosed(r, o) => StdinClosed(r, q)
  BY <1>1 DEF StdinClosed
<1>4. GivenUp(r, o) => GivenUp(r, q)
  BY <1>1 DEF GivenUp
<1>5. Started(r, o) => Started(r, q)
  BY <1>1, ZenonT(60) DEF Started
<1>6. ASSUME StartedBoth(r, o) PROVE StartedBoth(r, q)
  <2>1. PICK f \in Fd, g \in Fd, p \in Pid :
            /\ f # g /\ fdarray[f] = CgiNil /\ fdarray[g] = CgiNil /\ child[p] = "free"
            /\ y.hctx /\ y.h.pid = p /\ y.h.fd = f /\ y.h.fdtocgi = g
            /\ o.add = {<<f, "out">>, <<g, "in">>} /\ o.del = {} /\ o.new = p /\ o.left = CgiNil
    BY <1>6 DEF StartedBoth
  <2> QED BY <1>1, <1>6, <2>1 DEF StartedBoth
<1>7. StartFailed(r, o) => StartFailed(r, q)
  BY <1>1 DEF StartFailed
<1> QED BY <1>1, <1>2, <1>3, <1>4, <1>5, <1>6, <1>7 DEF Effect, q

(* What is Good of a connection whose socket is read, or that fails. *)
LEMMA SocketIsGood ==
    ASSUME NEW r, Good(r), NEW rd \in BOOLEAN
    PROVE  LET x == [r EXCEPT !.rd = rd] IN Good(x) /\ SameScript(r, x) /\ x.st = r.st /\ x.h = r.h
<1> DEFINE x == [r EXCEPT !.rd = rd]
<1>1. r \in CgiConnections
  BY DEF Good, Loose
<1>2. x \in CgiConnections
  BY <1>1 DEF CgiConnections
<1>3. /\ x.h = r.h /\ x.hctx = r.hctx /\ x.st = r.st /\ x.mode = r.mode /\ x.pollin = r.pollin
      /\ x.len = r.len /\ x.in = r.in /\ x.out = r.out /\ x.owed = r.owed /\ x.ka = r.ka
      /\ x.started = r.started /\ x.wq = r.wq /\ x.fin = r.fin /\ x.status = r.status
  BY <1>1 DEF CgiConnections
<1> HIDE DEF x
<1>4. Good(x)
  BY <1>2, <1>3 DEF Good, Loose, Balanced, Bound, Heard, Sending, Fed
<1> QED BY <1>3, <1>4 DEF SameScript, x

(* A connection that fails has yet to give its script up. *)
LEMMA ErrorIsGood ==
    ASSUME NEW r, Good(r)
    PROVE  LET x == [r EXCEPT !.st = "error"]
           IN  Good(x) /\ SameScript(r, x) /\ x.st = "error" /\ x.h = r.h /\ x.hctx = r.hctx
<1> DEFINE x == [r EXCEPT !.st = "error"]
<1>1. r \in CgiConnections
  BY DEF Good, Loose
<1>2. x \in CgiConnections /\ x.st = "error"
  BY <1>1 DEF CgiConnections, CgiStates
<1>3. /\ x.h = r.h /\ x.hctx = r.hctx /\ x.mode = r.mode /\ x.pollin = r.pollin
      /\ x.len = r.len /\ x.in = r.in /\ x.out = r.out /\ x.owed = r.owed /\ x.ka = r.ka
      /\ x.started = r.started /\ x.wq = r.wq /\ x.fin = r.fin /\ x.status = r.status
  BY <1>1 DEF CgiConnections
<1> HIDE DEF x
<1>4. Good(x)
  BY <1>2, <1>3 DEF Good, Loose, Balanced, Bound, Heard, Sending, Fed
<1> QED BY <1>2, <1>3, <1>4 DEF SameScript, x

(* The connection waits for a request, or for nothing any more. *)
LEMMA FreshIsGood ==
    ASSUME NEW st \in {"idle", "closed"}, NEW rd \in BOOLEAN, NEW count \in Nat, NEW x,
           x = [st |-> st, mode |-> "direct", status |-> "none", rd |-> rd, wr |-> TRUE, ka |-> FALSE,
                count |-> count, len |-> 0, in |-> 0, out |-> 0, owed |-> 0, pollin |-> FALSE,
                started |-> FALSE, fin |-> FALSE, wq |-> 0, hctx |-> FALSE,
                h |-> cgi_handler_ctx_init]
    PROVE  Good(x) /\ x.st = st /\ x.h = cgi_handler_ctx_init /\ ~x.hctx /\ x.h.fd = CgiNil
<1> DEFINE zero == 0
           i == cgi_handler_ctx_init
           y == [st |-> st, mode |-> "direct", status |-> "none", rd |-> rd, wr |-> TRUE, ka |-> FALSE,
                 count |-> count, len |-> zero, in |-> zero, out |-> zero, owed |-> zero,
                 pollin |-> FALSE, started |-> FALSE, fin |-> FALSE, wq |-> zero, hctx |-> FALSE, h |-> i]
<1>1. zero \in 0 .. MaxBody /\ zero \in Nat /\ zero \in 0 .. 2 /\ zero = 0
  BY CgiAssumption
<1>2. i \in CgiHandlers
  BY NoScriptTyped
<1>3. x = y
  OBVIOUS
<1> HIDE DEF i, zero
<1>4. y \in CgiConnections
  BY <1>1, <1>2 DEF CgiConnections, CgiStates
<1>5. Balanced(y) /\ Bound(y) /\ Heard(y) /\ Sending(y) /\ Fed(y)
  <2>1. /\ y.st = st /\ y.mode = "direct" /\ ~y.hctx /\ y.h = i /\ y.len = 0 /\ y.in = 0 /\ y.out = 0
        /\ y.owed = 0 /\ ~y.fin /\ y.wq = 0
    BY <1>1
  <2>2. y.h.fd = CgiNil /\ y.h.pid = CgiNil /\ y.h.fdtocgi = CgiNil /\ y.h.evto = "no"
    BY <2>1, NoScriptTyped DEF i
  <2> HIDE DEF y
  <2> QED BY <2>1, <2>2 DEF Balanced, Bound, Heard, Sending, Fed, i
<1>6. y.h = i /\ y.st = st /\ ~y.hctx
  OBVIOUS
<1> HIDE DEF y
<1> QED BY <1>3, <1>4, <1>5, <1>6, NoScriptTyped DEF Good, Loose, i

(* A request for a script. *)
LEMMA HandledIsGood ==
    ASSUME NEW r, Good(r), r.st = "request", r.mode = "direct", r.status = "none"
    PROVE  LET x == cgi_is_handled(r) IN Good(x) /\ x.h = r.h
<1> DEFINE x == cgi_is_handled(r)
<1>1. r \in CgiConnections /\ Bound(r) /\ ~r.hctx /\ ~r.fin /\ r.h = cgi_handler_ctx_init
  BY DEF Good, Loose, Heard, Bound
<1>2. x = [r EXCEPT !.mode = "cgi", !.hctx = TRUE]
  BY DEF cgi_is_handled
<1> HIDE DEF x
<1>3. x \in CgiConnections /\ x.mode = "cgi" /\ x.hctx
  BY <1>1, <1>2 DEF CgiConnections
<1>4. /\ x.h = r.h /\ x.st = r.st /\ x.pollin = r.pollin
      /\ x.len = r.len /\ x.in = r.in /\ x.out = r.out /\ x.owed = r.owed /\ x.ka = r.ka
      /\ x.started = r.started /\ x.wq = r.wq /\ x.fin = r.fin /\ x.status = r.status
  BY <1>1, <1>2 DEF CgiConnections
<1>5. r.h.fd = CgiNil /\ r.h.pid = CgiNil /\ r.h.fdtocgi = CgiNil /\ r.h.evto = "no"
  BY <1>1, NoScriptTyped
<1>6. Good(x)
  BY <1>1, <1>3, <1>4, <1>5 DEF Good, Loose, Balanced, Bound, Heard, Sending, Fed
<1> QED BY <1>4, <1>6 DEF x

(* A request is read from a connection that waited for one. *)
RequestRead(r, n, keep, more) ==
    [r EXCEPT !.st = "request", !.count = @ + 1, !.ka = keep, !.len = n, !.owed = @ + n, !.rd = more]

(* The request is handed to the module (cgi_is_handled). *)
LEMMA RequestIsGood ==
    ASSUME NEW r, Good(r), r.st = "idle", NEW n \in 0 .. MaxBody, NEW keep \in BOOLEAN, NEW more \in BOOLEAN
    PROVE  LET x == cgi_is_handled(RequestRead(r, n, keep, more)) IN Good(x) /\ x.h = r.h
<1>1. /\ r \in CgiConnections /\ Bound(r) /\ ~r.hctx /\ ~r.fin /\ r.h = cgi_handler_ctx_init
      /\ r.wq = 0 /\ r.owed = 0 /\ r.len = 0 /\ r.in = 0 /\ r.out = 0 /\ r.count \in Nat
      /\ n \in Nat /\ MaxBody \in Nat
  <2>1. /\ r \in CgiConnections /\ Bound(r) /\ ~r.hctx /\ ~r.fin /\ r.h = cgi_handler_ctx_init
        /\ r.wq = 0 /\ r.owed = 0 /\ r.len = 0
    BY DEF Good, Loose, Heard, Bound
  <2>2. r.in \in Nat /\ r.out \in Nat /\ r.in <= r.len /\ r.out <= r.in /\ r.count \in Nat
    BY DEF Good, Loose, Balanced, CgiConnections
  <2> QED BY <2>1, <2>2, CgiAssumption
<1> DEFINE one == r.count + 1
           w == r.owed + n
           y == [r EXCEPT !.st = "request", !.count = one, !.ka = keep, !.len = n, !.owed = w, !.rd = more]
           x == cgi_is_handled(y)
<1>2. one \in Nat /\ w = n /\ w \in 0 .. MaxBody
  BY <1>1
<1>3. RequestRead(r, n, keep, more) = y
  BY <1>1 DEF CgiConnections, RequestRead
<1> HIDE DEF one, w
<1>4. y \in CgiConnections
  BY <1>1, <1>2, ZenonT(60) DEF CgiConnections, CgiStates
<1>5. /\ y.h = r.h /\ y.mode = r.mode /\ y.hctx = r.hctx /\ y.pollin = r.pollin
      /\ y.in = r.in /\ y.out = r.out /\ y.started = r.started /\ y.wq = r.wq /\ y.fin = r.fin
      /\ y.st = "request" /\ y.len = n /\ y.owed = w
  BY <1>1 DEF CgiConnections
<1> HIDE DEF y
<1>6. x = [y EXCEPT !.mode = "cgi", !.hctx = TRUE]
  BY DEF cgi_is_handled
<1>7. x \in CgiConnections /\ x.mode = "cgi" /\ x.hctx
  BY <1>4, <1>6 DEF CgiConnections
<1>8. /\ x.h = y.h /\ x.st = y.st /\ x.pollin = y.pollin
      /\ x.len = y.len /\ x.in = y.in /\ x.out = y.out /\ x.owed = y.owed
      /\ x.started = y.started /\ x.wq = y.wq /\ x.fin = y.fin
  BY <1>4, <1>6 DEF CgiConnections
<1> HIDE DEF x
<1>9. x.h.fd = CgiNil /\ x.h.pid = CgiNil /\ x.h.fdtocgi = CgiNil /\ x.h.evto = "no"
  BY <1>1, <1>5, <1>8, NoScriptTyped
<1>10. Balanced(x) /\ Bound(x) /\ Sending(x) /\ Fed(x)
  BY <1>1, <1>2, <1>5, <1>7, <1>8, <1>9 DEF Balanced, Bound, Sending, Fed
<1>11. Heard(x)
  BY <1>1, <1>5, <1>7, <1>8, <1>9 DEF Heard
<1>12. Good(x) /\ x.h = r.h
  BY <1>5, <1>7, <1>8, <1>10, <1>11 DEF Good, Loose
<1> QED BY <1>3, <1>12 DEF x

(* connection_state_machine() on a connection that waits: a request comes, or none. *)
LEMMA ReadRounds ==
    ASSUME CgiSound, SmRead
    PROVE  Rounded
<1> DEFINE r == con[cur]
<1>1. cur \in CgiCon /\ Good(r) /\ Bound(r) /\ r.st \in {"idle", "closed"}
  BY AtWork DEF CgiSound, CgiLoop, SmRead
<1>2. ~r.hctx /\ r.h.fd = CgiNil
  BY <1>1, NoScriptTyped DEF Good, Loose, Heard, Bound
<1> HIDE DEF r
<1>3. CASE Round(CgiOut([r EXCEPT !.rd = FALSE], ""), FALSE)
  <2> DEFINE x == [r EXCEPT !.rd = FALSE]
  <2>1. Good(x) /\ x.st = r.st /\ x.h = r.h
    BY <1>1, SocketIsGood
  <2>2. Settled(x)
    BY <1>1, <1>2, <2>1, IdleSettled
  <2> HIDE DEF x
  <2>3. LET o == CgiOut(x, "") IN Outcome(r, o) /\ o.con = x
    BY <2>1, PlainOut, ZenonT(60)
  <2> QED BY <1>3, <2>1, <2>2, <2>3 DEF Rounded, r, x
<1>4. ASSUME r.st = "idle", NEW n \in 0 .. MaxBody, NEW keep \in BOOLEAN, NEW more \in BOOLEAN,
             Round(CgiOut(cgi_is_handled([r EXCEPT !.st = "request", !.count = @ + 1, !.ka = keep,
                                                   !.len = n, !.owed = @ + n, !.rd = more]), ""), TRUE)
      PROVE  Rounded
  <2> DEFINE x == cgi_is_handled(RequestRead(r, n, keep, more))
  <2>0. Round(CgiOut(x, ""), TRUE)
    BY <1>4 DEF RequestRead
  <2>1. Good(x) /\ x.h = r.h
    BY <1>1, <1>4, RequestIsGood
  <2> HIDE DEF x
  <2>2. LET o == CgiOut(x, "") IN Outcome(r, o) /\ o.con = x
    BY <2>1, PlainOut
  <2> QED BY <2>0, <2>1, <2>2 DEF Rounded, r
<1> QED BY <1>1, <1>3, <1>4 DEF SmRead, r

(* The response begins. *)
LEMMA ResponseIsGood ==
    ASSUME NEW r, Good(r)
    PROVE  LET x == StartResponse(r) IN Good(x) /\ x.h = r.h /\ x.hctx = r.hctx
<1> DEFINE keep == r.ka /\ r.count <= max_keep_alive_requests
           one == 1
           y == [r EXCEPT !.st = "write", !.ka = keep]
           z == [y EXCEPT !.fin = TRUE, !.wq = one]
           x == StartResponse(r)
<1>1. r \in CgiConnections
  BY DEF Good, Loose
<1>2. one \in 0 .. 2 /\ one = 1
  OBVIOUS
<1>3. x = IF r.mode = "direct" THEN z ELSE y
  BY <1>1 DEF StartResponse, CgiConnections
<1>4. keep \in BOOLEAN /\ (keep => r.ka)
  BY <1>1 DEF CgiConnections
<1> HIDE DEF keep, one, x
<1>5. y \in CgiConnections /\ y.st = "write" /\ y.ka = keep
  BY <1>1, <1>4 DEF CgiConnections, CgiStates
<1>6. /\ y.h = r.h /\ y.hctx = r.hctx /\ y.mode = r.mode /\ y.pollin = r.pollin
      /\ y.len = r.len /\ y.in = r.in /\ y.out = r.out /\ y.owed = r.owed
      /\ y.started = r.started /\ y.fin = r.fin
  BY <1>1 DEF CgiConnections
<1> HIDE DEF y
<1>7. Good(y)
  BY <1>4, <1>5, <1>6 DEF Good, Loose, Balanced, Bound, Heard, Sending, Fed
<1>8. z \in CgiConnections /\ z.st = "write"
  BY <1>2, <1>5 DEF CgiConnections
<1>9. /\ z.h = y.h /\ z.hctx = y.hctx /\ z.mode = y.mode /\ z.pollin = y.pollin
      /\ z.len = y.len /\ z.in = y.in /\ z.out = y.out /\ z.owed = y.owed /\ z.ka = y.ka
      /\ z.started = y.started
  BY <1>5 DEF CgiConnections
<1> HIDE DEF z
<1>10. ASSUME r.mode = "direct" PROVE Good(z)
  BY <1>6, <1>7, <1>8, <1>9, <1>10 DEF Good, Loose, Balanced, Bound, Heard, Sending, Fed
<1> QED BY <1>3, <1>6, <1>7, <1>9, <1>10 DEF x

(* A change that is made after the handler. *)
LEMMA RoundedOther ==
    ASSUME NEW o, NEW again \in BOOLEAN, NEW y, IsOut(o), Effect(con[cur], o),
           Good(y), y.h = o.con.h, y.hctx = o.con.hctx, ~again => Settled(y),
           Round([o EXCEPT !.con = y], again)
    PROVE  Rounded
<1>1. Outcome(con[cur], [o EXCEPT !.con = y]) /\ [o EXCEPT !.con = y].con = y
  BY EffectOther DEF Outcome
<1> QED BY <1>1 DEF Rounded

(* connection_state_machine() on a request. *)
LEMMA RequestRounds ==
    ASSUME CgiSound, SmHandleRequest
    PROVE  Rounded
<1> DEFINE r == con[cur]
<1>1. cur \in CgiCon /\ Good(r) /\ Bound(r) /\ r.st = "request"
  BY AtWork DEF CgiSound, CgiLoop, SmHandleRequest
<1>2. CASE r.mode = "direct" /\ r.status = "none"
  <2>1. ASSUME Round(CgiOut(cgi_is_handled(r), ""), TRUE)
        PROVE  Rounded
    <3> DEFINE x == cgi_is_handled(r)
    <3> HIDE DEF r
    <3>1. Good(x) /\ x.h = r.h
      BY <1>1, <1>2, HandledIsGood
    <3> HIDE DEF x
    <3>2. LET o == CgiOut(x, "") IN Outcome(r, o) /\ o.con = x
      BY <3>1, PlainOut
    <3> QED BY <2>1, <3>1, <3>2 DEF Rounded, x, r
  <2>2. ASSUME Round(CgiOut(StartResponse(r), ""), TRUE)
        PROVE  Rounded
    <3> DEFINE x == StartResponse(r)
    <3> HIDE DEF r
    <3>1. Good(x) /\ x.h = r.h
      BY <1>1, ResponseIsGood
    <3> HIDE DEF x
    <3>2. LET o == CgiOut(x, "") IN Outcome(r, o) /\ o.con = x
      BY <3>1, PlainOut
    <3> QED BY <2>2, <3>1, <3>2 DEF Rounded, x, r
  <2> QED BY <1>2, <2>1, <2>2 DEF SmHandleRequest
<1>3. CASE ~(r.mode = "direct" /\ r.status = "none")
  <2>1. PICK o \in mod_cgi_handle_subrequest(r) :
            CASE o.ret = "ERROR" -> Round([o EXCEPT !.con.st = "error"], TRUE)
              [] o.ret = "COMEBACK" -> Round(o, TRUE)
              [] \/ o.ret \in {"FINISHED", "GO_ON"}
                 \/ o.ret = "WAIT_FOR_EVENT" /\ (o.con.fin \/ (o.con.started /\ Streaming)) ->
                    Round([o EXCEPT !.con = StartResponse(@)], TRUE)
              [] OTHER -> Round(o, FALSE)
    BY <1>3 DEF SmHandleRequest
  <2>2. Answered(r, o)
    BY <1>1, SubrequestAnswers
  <2>3. /\ IsOut(o) /\ Good(o.con) /\ o.con.st = "request" /\ Effect(r, o) /\ Watching(o.con)
        /\ o.ret \in {"GO_ON", "FINISHED", "WAIT_FOR_EVENT", "ERROR", "COMEBACK"}
        /\ o.ret = "WAIT_FOR_EVENT" => o.con.h.fd # CgiNil \/ o.con.pollin
    BY <1>1, <2>2 DEF Answered
  <2>4. o = [con |-> o.con, ret |-> o.ret, add |-> o.add, del |-> o.del, new |-> o.new, left |-> o.left]
    BY <2>3 DEF IsOut
  <2>5. CASE o.ret = "ERROR"
    <3> DEFINE y == [o.con EXCEPT !.st = "error"]
    <3>1. Good(y) /\ y.h = o.con.h /\ y.hctx = o.con.hctx
      BY <2>3, ErrorIsGood
    <3>2. [o EXCEPT !.con.st = "error"] = [o EXCEPT !.con = y]
      BY <2>4
    <3>3. Round([o EXCEPT !.con.st = "error"], TRUE)
      BY <2>1, <2>5
    <3> HIDE DEF y
    <3> QED BY <2>3, <3>1, <3>2, <3>3, RoundedOther
  <2>6. CASE o.ret = "COMEBACK"
    <3>1. Round(o, TRUE)
      BY <2>1, <2>6
    <3> QED BY <2>3, <3>1 DEF Rounded, Outcome
  <2>7. CASE \/ o.ret \in {"FINISHED", "GO_ON"}
             \/ o.ret = "WAIT_FOR_EVENT" /\ (o.con.fin \/ (o.con.started /\ Streaming))
    <3> DEFINE y == StartResponse(o.con)
    <3>1. Good(y) /\ y.h = o.con.h /\ y.hctx = o.con.hctx
      BY <2>3, ResponseIsGood
    <3>2. [o EXCEPT !.con = StartResponse(@)] = [o EXCEPT !.con = y]
      BY <2>4
    <3>3. Round([o EXCEPT !.con = StartResponse(@)], TRUE)
      BY <2>1, <2>7
    <3> HIDE DEF y
    <3> QED BY <2>3, <3>1, <3>2, <3>3, RoundedOther
  <2>8. CASE o.ret = "WAIT_FOR_EVENT" /\ ~o.con.fin /\ ~(o.con.started /\ Streaming)
    <3>1. Round(o, FALSE)
      BY <2>1, <2>8
    <3>2. o.con.h.fd # CgiNil => o.con.h.ev
      <4>1. o.con.h.fd # CgiNil => o.con.h.ev \/ (BufMin /\ o.con.started)
        BY <2>3 DEF Good, Loose, Heard
      <4> QED BY <2>8, <4>1, CgiAssumption
    <3>3. Settled(o.con)
      BY <2>3, <2>8, <3>2, StdinSettled
    <3> QED BY <2>3, <3>1, <3>3 DEF Rounded, Outcome
  <2> QED BY <2>3, <2>5, <2>6, <2>7, <2>8
<1> QED BY <1>2, <1>3

(* What write() does to the queue says nothing of the script. *)
LEMMA WrittenIsGood ==
    ASSUME NEW r, Good(r), r.st = "write", NEW x \in Written(r)
    PROVE  Good(x) /\ x.h = r.h /\ x.hctx = r.hctx /\ x.mode = r.mode /\ x.fin = r.fin
<1>1. r \in CgiConnections /\ r.wq \in 0 .. 2
  BY DEF Good, Loose, CgiConnections
<1> DEFINE kept == /\ x.h = r.h /\ x.hctx = r.hctx /\ x.mode = r.mode /\ x.pollin = r.pollin
                   /\ x.len = r.len /\ x.in = r.in /\ x.out = r.out /\ x.owed = r.owed
                   /\ x.started = r.started /\ x.fin = r.fin /\ x.ka = r.ka
                   /\ x.st \in {"write", "end", "error"} /\ x \in CgiConnections
<1>2. ASSUME NEW w \in 0 .. 2, NEW st \in {"write", "end", "error"}, NEW wr \in BOOLEAN,
             x = [r EXCEPT !.wq = w, !.st = st, !.wr = wr]
      PROVE  kept
  BY <1>1, <1>2 DEF CgiConnections, CgiStates
<1>3. \E w \in 0 .. 2, st \in {"write", "end", "error"}, wr \in BOOLEAN :
          x = [r EXCEPT !.wq = w, !.st = st, !.wr = wr]
  <2>1. CASE r.wq > 0 /\ r.wr
    <3> DEFINE zero == 0
    <3>1. zero \in 0 .. 2
      OBVIOUS
    <3>2. x \in {[r EXCEPT !.wq = zero, !.st = IF r.fin THEN "end" ELSE @], [r EXCEPT !.st = "error"]}
                  \cup {[r EXCEPT !.wq = w, !.wr = FALSE] : w \in 1 .. r.wq}
      BY <2>1 DEF Written
    <3> HIDE DEF zero
    <3>3. CASE x = [r EXCEPT !.wq = zero, !.st = IF r.fin THEN "end" ELSE @]
      <4>1. x = [r EXCEPT !.wq = zero, !.st = IF r.fin THEN "end" ELSE "write", !.wr = r.wr]
        BY <1>1, <3>3 DEF CgiConnections
      <4>2. (IF r.fin THEN "end" ELSE "write") \in {"write", "end", "error"} /\ r.wr \in BOOLEAN
        BY <1>1 DEF CgiConnections
      <4> QED BY <3>1, <4>1, <4>2
    <3>4. CASE x = [r EXCEPT !.st = "error"]
      <4>1. x = [r EXCEPT !.wq = r.wq, !.st = "error", !.wr = r.wr]
        BY <1>1, <3>4 DEF CgiConnections
      <4>2. r.wr \in BOOLEAN
        BY <1>1 DEF CgiConnections
      <4> QED BY <1>1, <4>1, <4>2
    <3>5. ASSUME NEW w \in 1 .. r.wq, x = [r EXCEPT !.wq = w, !.wr = FALSE]
          PROVE  \E v \in 0 .. 2, st \in {"write", "end", "error"}, wr \in BOOLEAN :
                     x = [r EXCEPT !.wq = v, !.st = st, !.wr = wr]
      <4>1. x = [r EXCEPT !.wq = w, !.st = "write", !.wr = FALSE]
        BY <1>1, <3>5 DEF CgiConnections
      <4>2. w \in 0 .. 2
        BY <1>1
      <4> QED BY <4>1, <4>2
    <3> QED BY <3>2, <3>3, <3>4, <3>5
  <2>2. CASE ~(r.wq > 0 /\ r.wr)
    <3> DEFINE st == IF r.wq = 0 /\ r.fin THEN "end" ELSE "write"
    <3>1. x = [r EXCEPT !.st = IF r.wq = 0 /\ r.fin THEN "end" ELSE @]
      BY <2>2 DEF Written
    <3>2. x = [r EXCEPT !.wq = r.wq, !.st = st, !.wr = r.wr]
      BY <1>1, <3>1 DEF CgiConnections
    <3>3. st \in {"write", "end", "error"} /\ r.wr \in BOOLEAN
      BY <1>1 DEF CgiConnections
    <3> QED BY <1>1, <3>2, <3>3
  <2> QED BY <2>1, <2>2
<1>4. kept
  BY <1>2, <1>3
<1>5. Good(x)
  BY <1>4 DEF Good, Loose, Balanced, Bound, Heard, Sending, Fed
<1> QED BY <1>4, <1>5

(* connection_state_machine() while the response is written. *)
LEMMA WriteRounds ==
    ASSUME CgiSound, SmWrite
    PROVE  Rounded
<1> DEFINE r0 == con[cur]
<1>1. cur \in CgiCon /\ Good(r0) /\ r0.st = "write"
  BY AtWork DEF CgiSound, CgiLoop, SmWrite
<1>2. PICK r \in Written(r0) :
        \E o \in IF r.st = "write" /\ r.mode = "cgi" /\ ~r.fin
                 THEN mod_cgi_handle_subrequest(r) ELSE {CgiOut(r, "")} :
            LET x == IF o.ret \in {"COMEBACK", "ERROR"} THEN [o.con EXCEPT !.st = "error"] ELSE o.con
            IN  Round([o EXCEPT !.con = x], x.st # "write" \/ IF x.wq > 0 THEN x.wr ELSE x.fin)
  BY DEF SmWrite
<1>3. Good(r) /\ r.h = r0.h /\ r.hctx = r0.hctx
  BY <1>1, WrittenIsGood
<1>4. PICK o :
        /\ o \in IF r.st = "write" /\ r.mode = "cgi" /\ ~r.fin
                THEN mod_cgi_handle_subrequest(r) ELSE {CgiOut(r, "")}
        /\ LET x == IF o.ret \in {"COMEBACK", "ERROR"} THEN [o.con EXCEPT !.st = "error"] ELSE o.con
            IN  Round([o EXCEPT !.con = x], x.st # "write" \/ IF x.wq > 0 THEN x.wr ELSE x.fin)
  BY <1>2
<1> DEFINE x == IF o.ret \in {"COMEBACK", "ERROR"} THEN [o.con EXCEPT !.st = "error"] ELSE o.con
           again == x.st # "write" \/ IF x.wq > 0 THEN x.wr ELSE x.fin
<1>5. /\ IsOut(o) /\ Good(o.con) /\ Effect(r, o)
      /\ o.con.st = "write" => Watching(o.con) \/ o.con.h.fd = CgiNil
      /\ o.con.st = r.st
  <2>1. CASE r.st = "write" /\ r.mode = "cgi" /\ ~r.fin
    BY <1>3, <1>4, <2>1, SubrequestAnswers DEF Answered
  <2>2. CASE ~(r.st = "write" /\ r.mode = "cgi" /\ ~r.fin)
    <3>1. o = CgiOut(r, "")
      BY <1>4, <2>2
    <3>2. o.con = r /\ IsOut(o) /\ Effect(r, o)
      BY <3>1 DEF CgiOut, IsOut, Effect, Stays, SameScript, Quiet
    <3>3. r.st = "write" => r.h.fd = CgiNil
      BY <1>3, <2>2, NoScriptTyped DEF Good, Loose, Heard, Bound
    <3> QED BY <1>3, <3>2, <3>3
  <2> QED BY <2>1, <2>2
<1>6. Effect(r0, o)
  <2>1. SameScript(r0, r)
    BY <1>3 DEF SameScript
  <2> QED BY <1>5, <2>1, EffectKept
<1>7. Good(x) /\ x.h = o.con.h /\ x.hctx = o.con.hctx /\ (x.st = "write" => x = o.con)
  <2>1. CASE o.ret \in {"COMEBACK", "ERROR"}
    BY <1>5, <2>1, ErrorIsGood
  <2>2. CASE o.ret \notin {"COMEBACK", "ERROR"}
    BY <1>5, <2>2
  <2> QED BY <2>1, <2>2
<1>8. Round([o EXCEPT !.con = x], again)
  BY <1>4
<1> HIDE DEF x
<1>9. x.wq \in Nat /\ x.wr \in BOOLEAN /\ x.fin \in BOOLEAN
  <2>1. x \in CgiConnections
    BY <1>7 DEF Good, Loose
  <2>2. x.wq \in 0 .. 2
    BY <2>1 DEF CgiConnections
  <2>3. x.wq \in Nat
    BY <2>2
  <2>4. x.wr \in BOOLEAN /\ x.fin \in BOOLEAN
    BY <2>1 DEF CgiConnections
  <2> QED BY <2>3, <2>4
<1>10. again \in BOOLEAN
  BY <1>9
<1>11. ASSUME ~again PROVE Settled(x)
  <2>1. x.st = "write" /\ (x.wq > 0 => ~x.wr)
    BY <1>11
  <2>2. x = o.con /\ o.con.st = "write"
    BY <1>7, <2>1
  <2>3. x.h.fd # CgiNil => x.h.ev \/ x.wq = 2
    BY <1>5, <2>2 DEF Watching
  <2>4. x.wq \in Nat /\ x.wq = 2 => x.wq > 0
    OBVIOUS
  <2>5. x.h.fd # CgiNil => x.h.ev \/ (x.st = "write" /\ x.wq > 0 /\ ~x.wr)
    BY <1>9, <2>1, <2>3, <2>4
  <2> QED BY <1>7, <2>1, <2>5, StdinSettled
<1> HIDE DEF again, r0
<1> QED BY <1>5, <1>6, <1>7, <1>8, <1>10, <1>11, RoundedOther DEF r0

(* The response is over: the module closes its pipes and the connection waits again, or is closed. *)
LEMMA EndRounds ==
    ASSUME CgiSound, SmResponseEnd
    PROVE  Rounded
<1> DEFINE r == con[cur]
           o == IF r.hctx THEN cgi_connection_close(r, "") ELSE CgiOut(r, "")
           keep == r.st = "end" /\ r.ka /\ r.len <= r.in
           y == IF keep THEN [Idle EXCEPT !.rd = TRUE, !.owed = r.owed, !.count = r.count]
                        ELSE [Idle EXCEPT !.st = "closed"]
<1>1. cur \in CgiCon /\ Good(r) /\ r.st \in {"end", "error"} /\ r \in CgiConnections
  BY AtWork DEF CgiSound, CgiLoop, SmResponseEnd
<1>2. Round([o EXCEPT !.con = y], keep)
  BY DEF SmResponseEnd
<1>3. keep \in BOOLEAN /\ r.count \in Nat
  BY <1>1 DEF CgiConnections
<1>4. keep => r.owed = 0
  <2>1. r.in <= r.len /\ (r.owed = r.len - r.in \/ ~r.ka) /\ r.len \in Nat /\ r.in \in Nat
    BY <1>1, CgiAssumption DEF Good, Loose, Balanced, CgiConnections
  <2> QED BY <2>1
<1>5. /\ Good(y) /\ y.st = (IF keep THEN "idle" ELSE "closed")
      /\ y.h = cgi_handler_ctx_init /\ ~y.hctx /\ y.h.fd = CgiNil
  <2>1. CASE keep
    <3> DEFINE count == r.count
               owed == r.owed
    <3>1. y = [Idle EXCEPT !.rd = TRUE, !.owed = owed, !.count = count] /\ owed = 0 /\ count \in Nat
      BY <1>3, <1>4, <2>1
    <3> HIDE DEF y, count, owed
    <3>2. y = [st |-> "idle", mode |-> "direct", status |-> "none", rd |-> TRUE, wr |-> TRUE, ka |-> FALSE,
               count |-> count, len |-> 0, in |-> 0, out |-> 0, owed |-> 0, pollin |-> FALSE,
               started |-> FALSE, fin |-> FALSE, wq |-> 0, hctx |-> FALSE, h |-> cgi_handler_ctx_init]
      BY <3>1 DEF Idle
    <3>3. /\ Good(y) /\ y.st = "idle" /\ y.h = cgi_handler_ctx_init /\ ~y.hctx /\ y.h.fd = CgiNil
      BY <3>1, <3>2, FreshIsGood
    <3> QED BY <2>1, <3>3
  <2>2. CASE ~keep
    <3> DEFINE zero == 0
    <3>1. y = [Idle EXCEPT !.st = "closed"]
      BY <2>2
    <3> HIDE DEF y
    <3>2. y = [st |-> "closed", mode |-> "direct", status |-> "none", rd |-> FALSE, wr |-> TRUE, ka |-> FALSE,
               count |-> zero, len |-> 0, in |-> 0, out |-> 0, owed |-> 0, pollin |-> FALSE,
               started |-> FALSE, fin |-> FALSE, wq |-> 0, hctx |-> FALSE, h |-> cgi_handler_ctx_init]
      BY <3>1 DEF Idle
    <3>3. zero \in Nat
      OBVIOUS
    <3> HIDE DEF zero
    <3>4. /\ Good(y) /\ y.st = "closed" /\ y.h = cgi_handler_ctx_init /\ ~y.hctx /\ y.h.fd = CgiNil
      BY <3>2, <3>3, FreshIsGood
    <3> QED BY <2>2, <3>4
  <2> QED BY <2>1, <2>2
<1> HIDE DEF y, keep
<1>6. /\ IsOut(o) /\ Effect(r, o) /\ o.con.h = cgi_handler_ctx_init /\ ~o.con.hctx
      /\ Good(o.con)
  <2>1. CASE r.hctx
    <3>1. o = cgi_connection_close(r, "")
      BY <2>1
    <3> HIDE DEF o, r
    <3>2. Closing(r)
      BY <1>1, <2>1, GoodCloses DEF Good
    <3>3. IsOut(o) /\ GivenUp(r, o) /\ Good(o.con)
      BY <3>1, <3>2, CloseGivesUp
    <3> QED BY <3>3 DEF Effect, GivenUp
  <2>2. CASE ~r.hctx
    <3>1. o = CgiOut(r, "")
      BY <2>2
    <3>2. r.h = cgi_handler_ctx_init
      BY <1>1, <2>2 DEF Good, Loose, Bound
    <3> QED BY <1>1, <2>2, <3>1, <3>2 DEF CgiOut, IsOut, Effect, Stays, SameScript, Quiet
  <2> QED BY <2>1, <2>2
<1> HIDE DEF o
<1>7. ~keep => Settled(y)
  BY <1>5, IdleSettled
<1>8. y.h = o.con.h /\ y.hctx = o.con.hctx
  <2>1. y.hctx \in BOOLEAN /\ o.con.hctx \in BOOLEAN
    <3>1. y.hctx \in BOOLEAN
      BY <1>5 DEF Good, Loose, CgiConnections
    <3>2. o.con.hctx \in BOOLEAN
      BY <1>6 DEF Good, Loose, CgiConnections
    <3> QED BY <3>1, <3>2
  <2> QED BY <1>5, <1>6, <2>1
<1> QED BY <1>2, <1>3, <1>5, <1>6, <1>7, <1>8, RoundedOther DEF r

(* A round of the state machine keeps the invariant. *)
LEMMA RoundsKeep ==
    ASSUME CgiSound, Rounded
    PROVE  /\ CgiSound'
           /\ joblist' = joblist /\ cur' = cur /\ pc' \in {"sm", "jobs"}
           /\ \A c \in CgiCon : c # cur => con'[c] = con[c]
           /\ pc' = "jobs" => Settled(con'[cur])
<1>1. PICK o, again : /\ Good(o.con) /\ Outcome(con[cur], o) /\ Round(o, again)
                      /\ again \in BOOLEAN
                      /\ ~again => Settled(o.con)
  BY DEF Rounded
<1>2. /\ Apply(cur, o) /\ pc' = (IF again THEN "sm" ELSE "jobs")
      /\ batch' = batch /\ joblist' = joblist /\ cur' = cur /\ k' = k
  BY <1>1 DEF Round
<1>3. Owned /\ cur \in CgiCon
  BY DEF CgiSound, CgiLoop
<1>4. Owned'
  BY <1>1, <1>2, <1>3, ApplyKeeps
<1>5. CgiLoop'
  BY <1>2 DEF CgiSound, CgiLoop
<1>6. con'[cur] = o.con /\ \A c \in CgiCon : c # cur => con'[c] = con[c]
  BY <1>2, <1>3 DEF Apply, Owned, CgiTypes
<1>7. pc' = "jobs" => ~again
  BY <1>2
<1> QED BY <1>1, <1>2, <1>4, <1>5, <1>6, <1>7 DEF CgiSound

-----------------------------------------------------------------------------
(* Events *)

(* fdevent_get_handler(): a descriptor that is registered is a pipe of the connection it is
   registered for, and its handler leaves the connection sound. *)
LEMMA HandlerFound ==
    ASSUME Owned, NEW f \in Fd, fdarray[f] # CgiNil, NEW revents,
           NEW o \in IF fdarray[f][1] = "out"
                     THEN cgi_handle_fdevent(con[fdarray[f][2]], revents)
                     ELSE cgi_handle_fdevent_send(con[fdarray[f][2]], revents)
    PROVE  /\ fdarray[f][2] \in CgiCon
           /\ Good(o.con) /\ Effect(con[fdarray[f][2]], o)
<1> DEFINE c == fdarray[f][2]
           r == con[c]
<1>1. fdarray[f] \in {"in", "out"} \X CgiCon
  BY DEF Owned, CgiTypes
<1>2. c \in CgiCon /\ fdarray[f][1] \in {"in", "out"} /\ fdarray[f] = <<fdarray[f][1], c>>
  BY <1>1
<1>3. f \in {r.h.fd, r.h.fdtocgi} /\ f # CgiNil
  BY CgiAssumption DEF Owned, DescriptorsOwned
<1>4. /\ Good(r)
      /\ r.h.fd # CgiNil => fdarray[r.h.fd] = <<"out", c>>
      /\ r.h.fdtocgi # CgiNil => fdarray[r.h.fdtocgi] = <<"in", c>>
  BY <1>2, AtWork
<1> HIDE DEF c
<1>5. CASE fdarray[f][1] = "out"
  <2>1. o \in cgi_handle_fdevent(r, revents)
    BY <1>5 DEF c
  <2>2. r.h.fd # CgiNil
    BY <1>3, <1>4, <1>5
  <2> HIDE DEF r
  <2>3. Good(o.con) /\ (Stays(r, o) \/ GivenUp(r, o))
    BY <1>4, <2>1, <2>2, RecvEvent
  <2> QED BY <1>2, <2>3 DEF Effect, r, c
<1>6. CASE fdarray[f][1] # "out"
  <2>1. o \in cgi_handle_fdevent_send(r, revents)
    BY <1>6 DEF c
  <2>2. r.h.fdtocgi # CgiNil
    BY <1>3, <1>4, <1>6
  <2> HIDE DEF r
  <2>3. Good(o.con) /\ (Stays(r, o) \/ StdinClosed(r, o) \/ GivenUp(r, o))
    BY <1>4, <2>1, <2>2, SendHandler
  <2> QED BY <1>2, <2>3 DEF Effect, r, c
<1> QED BY <1>5, <1>6

(* One event is handled, or ends the process. *)
LEMMA DispatchKeeps ==
    ASSUME CgiSound, Dispatch
    PROVE  /\ CgiSound'
           /\ cur' = cur /\ pc' \in {"dispatch", "abort"}
           /\ \A c \in CgiCon : c \in joblist' \/ (c \notin joblist /\ con'[c] = con[c])
           /\ pc = "dispatch"
<1>1. PICK e \in batch :
        /\ batch' = batch \ {e}
        /\ IF fdarray[e.fd] = CgiNil
           THEN /\ pc' = "abort"
                /\ UNCHANGED <<con, fdarray, child, cgi_pid, joblist>>
           ELSE LET c == fdarray[e.fd][2]
                IN  \E o \in IF fdarray[e.fd][1] = "out"
                             THEN cgi_handle_fdevent(con[c], e.revents)
                             ELSE cgi_handle_fdevent_send(con[c], e.revents) :
                        /\ Apply(c, o)
                        /\ joblist' = joblist \cup {c}
                        /\ pc' = IF o.ret = "ABORT" THEN "abort" ELSE pc
  BY DEF Dispatch
<1>2. /\ cur' = cur /\ k' = k /\ pc = "dispatch"
      /\ e.fd \in Fd /\ Owned /\ CgiLoop
  BY DEF Dispatch, CgiSound, CgiLoop
<1>3. CgiLoop'
  BY <1>1, <1>2 DEF CgiLoop
<1>4. CASE fdarray[e.fd] = CgiNil
  <2>1. Owned'
    BY <1>1, <1>2, <1>4 DEF Owned, CgiTypes, DescriptorsOwned, OneOwner, Good, Loose, Balanced, Bound,
                            Heard, Sending, Fed
  <2> QED BY <1>1, <1>2, <1>3, <1>4, <2>1 DEF CgiSound
<1>5. CASE fdarray[e.fd] # CgiNil
  <2> DEFINE c == fdarray[e.fd][2]
  <2>1. PICK o \in IF fdarray[e.fd][1] = "out"
                   THEN cgi_handle_fdevent(con[c], e.revents)
                   ELSE cgi_handle_fdevent_send(con[c], e.revents) :
            /\ Apply(c, o)
            /\ joblist' = joblist \cup {c}
            /\ pc' = IF o.ret = "ABORT" THEN "abort" ELSE pc
    BY <1>1, <1>5
  <2>2. c \in CgiCon /\ Good(o.con) /\ Effect(con[c], o)
    BY <1>2, <1>5, HandlerFound
  <2> HIDE DEF c
  <2>3. Owned'
    BY <1>2, <2>1, <2>2, ApplyKeeps DEF Outcome
  <2>4. \A d \in CgiCon : d # c => con'[d] = con[d]
    BY <1>2, <2>1, <2>2 DEF Apply, Owned, CgiTypes
  <2> QED BY <1>2, <1>3, <2>1, <2>3, <2>4 DEF CgiSound
<1> QED BY <1>4, <1>5

-----------------------------------------------------------------------------
(* The client and the script *)

(* A step that changes one connection, but neither its pipes nor its script. *)
LEMMA ConnectionKeeps ==
    ASSUME Owned, NEW c \in CgiCon, NEW x, Good(x),
           x.h.pid = con[c].h.pid, x.h.fd = con[c].h.fd, x.h.fdtocgi = con[c].h.fdtocgi,
           con' = [con EXCEPT ![c] = x], UNCHANGED <<fdarray, child, cgi_pid>>
    PROVE  Owned'
<1> DEFINE o == CgiOut(x, "")
<1>1. /\ o.con = x /\ o.add = {} /\ o.del = {} /\ o.new = CgiNil /\ o.left = CgiNil
  BY DEF CgiOut
<1> HIDE DEF o
<1>2. Outcome(con[c], o)
  BY <1>1 DEF Outcome, Untouched, Quiet
<1>3. fdarray \in [Fd -> {CgiNil} \cup ({"in", "out"} \X CgiCon)] /\ child \in [Pid -> {"free", "run", "zombie"}]
      /\ CgiNil \notin Pid
  BY CgiAssumption DEF Owned, CgiTypes
<1>4. fdarray' = [f \in Fd |-> CASE f \in o.del -> CgiNil
                                  [] f \notin o.del /\ \E a \in o.add : a[1] = f ->
                                        <<(CHOOSE a \in o.add : a[1] = f)[2], c>>
                                  [] OTHER -> fdarray[f]]
  <2>1. \A f \in Fd : fdarray[f] = CASE f \in o.del -> CgiNil
                                     [] f \notin o.del /\ \E a \in o.add : a[1] = f ->
                                           <<(CHOOSE a \in o.add : a[1] = f)[2], c>>
                                     [] OTHER -> fdarray[f]
    BY <1>1
  <2>2. fdarray' = [f \in Fd |-> fdarray[f]]
    BY <1>3
  <2> QED BY <2>1, <2>2
<1>5. Apply(c, o)
  <2>1. child' = [p \in Pid |-> CASE p = o.new -> "run"
                      [] p # o.new /\ p = o.left /\ (o.left # CgiNil /\ child[o.left] = "zombie") -> "free"
                      [] OTHER -> child[p]]
    BY <1>1, <1>3
  <2> QED BY <1>1, <1>4, <2>1 DEF Apply
<1>6. Good(o.con)
  BY <1>1
<1> QED BY <1>2, <1>5, <1>6, ApplyKeeps

(* Nothing of the module changes. *)
LEMMA NothingKeeps ==
    ASSUME Owned, UNCHANGED <<con, fdarray, child, cgi_pid>>
    PROVE  Owned'
BY DEF Owned, CgiTypes, DescriptorsOwned, OneOwner, Good, Loose, Balanced, Bound, Heard, Sending, Fed

(* An event of the client keeps what everybody owns and queues the connection. *)
LEMMA ClientKeeps ==
    ASSUME CgiSound, NEW c \in CgiCon, ClientEvent(c)
    PROVE  /\ CgiSound'
           /\ joblist' = joblist \cup {c} /\ pc = "dispatch" /\ pc' = pc /\ cur' = cur
           /\ \A d \in CgiCon : d # c => con'[d] = con[d]
<1> DEFINE r == con[c]
<1>1. Owned /\ CgiLoop /\ con \in [CgiCon -> CgiConnections] /\ Good(r) /\ r \in CgiConnections
  BY AtWork DEF CgiSound, Owned, CgiTypes
<1>2. PICK x \in {[r EXCEPT !.rd = TRUE], [r EXCEPT !.wr = TRUE], [r EXCEPT !.st = "error"], Idle} :
            (x = Idle => r.st = "closed") /\ con' = [con EXCEPT ![c] = x]
  BY DEF ClientEvent
<1> HIDE DEF r
<1>3. Good(x) /\ x.h = r.h
  <2>1. CASE x = [r EXCEPT !.rd = TRUE]
    BY <1>1, <2>1, SocketIsGood
  <2>2. CASE x = [r EXCEPT !.wr = TRUE]
    <3>1. /\ x \in CgiConnections
          /\ x.h = r.h /\ x.hctx = r.hctx /\ x.st = r.st /\ x.mode = r.mode /\ x.pollin = r.pollin
          /\ x.len = r.len /\ x.in = r.in /\ x.out = r.out /\ x.owed = r.owed /\ x.ka = r.ka
          /\ x.started = r.started /\ x.wq = r.wq /\ x.fin = r.fin /\ x.status = r.status
      BY <1>1, <2>2 DEF CgiConnections
    <3> QED BY <1>1, <3>1 DEF Good, Loose, Balanced, Bound, Heard, Sending, Fed
  <2>3. CASE x = [r EXCEPT !.st = "error"]
    BY <1>1, <2>3, ErrorIsGood
  <2>4. CASE x = Idle
    <3>1. r.h = cgi_handler_ctx_init
      BY <1>1, <1>2, <2>4 DEF Good, Loose, Heard, Bound
    <3> DEFINE zero == 0
    <3>2. x = [st |-> "idle", mode |-> "direct", status |-> "none", rd |-> FALSE, wr |-> TRUE, ka |-> FALSE,
               count |-> zero, len |-> 0, in |-> 0, out |-> 0, owed |-> 0, pollin |-> FALSE,
               started |-> FALSE, fin |-> FALSE, wq |-> 0, hctx |-> FALSE, h |-> cgi_handler_ctx_init]
      BY <2>4 DEF Idle
    <3>3. zero \in Nat
      OBVIOUS
    <3> HIDE DEF zero
    <3>4. Good(x) /\ x.h = cgi_handler_ctx_init
      BY <3>2, <3>3, FreshIsGood
    <3> QED BY <3>1, <3>4
  <2> QED BY <1>2, <2>1, <2>2, <2>3, <2>4
<1>4. /\ UNCHANGED <<fdarray, child, cgi_pid, batch, cur, k, pc>>
      /\ joblist' = joblist \cup {c} /\ pc = "dispatch"
  BY DEF ClientEvent, loopVars
<1>5. Owned'
  BY <1>1, <1>2, <1>3, <1>4, ConnectionKeeps DEF r
<1>6. CgiLoop'
  BY <1>1, <1>4 DEF CgiLoop
<1>7. \A d \in CgiCon : d # c => con'[d] = con[d]
  BY <1>1, <1>2
<1> QED BY <1>4, <1>5, <1>6, <1>7 DEF CgiSound

(* What a script does to its pipes is not yet noticed. *)
SameButPipes(r, x) ==
    /\ x.st = r.st /\ x.pollin = r.pollin /\ x.wq = r.wq /\ x.wr = r.wr /\ x.in = r.in /\ x.out = r.out
    /\ x.h.pid = r.h.pid /\ x.h.fd = r.h.fd /\ x.h.fdtocgi = r.h.fdtocgi
    /\ x.h.ev = r.h.ev /\ x.h.evto = r.h.evto

(* A script that prints, or closes a pipe, changes nothing that is relied on. *)
LEMMA PipeIsGood ==
    ASSUME NEW r, Good(r), r.h.pid # CgiNil, NEW data \in {"none", "part", "rest", "local"},
           NEW reader \in BOOLEAN, NEW writer \in BOOLEAN,
           NEW x, x = [r EXCEPT !.h = [r.h EXCEPT !.data = data, !.reader = reader, !.writer = writer]]
    PROVE  Good(x) /\ SameButPipes(r, x)
<1> DEFINE h == [r.h EXCEPT !.data = data, !.reader = reader, !.writer = writer]
<1>1. r \in CgiConnections /\ r.h \in CgiHandlers /\ Bound(r)
  BY DEF Good, Loose, CgiConnections
<1>2. /\ h \in CgiHandlers /\ h.pid = r.h.pid /\ h.fd = r.h.fd /\ h.fdtocgi = r.h.fdtocgi
      /\ h.ev = r.h.ev /\ h.evto = r.h.evto
  BY <1>1 DEF CgiHandlers
<1>3. x = [r EXCEPT !.h = h]
  OBVIOUS
<1> HIDE DEF h
<1>4. x \in CgiConnections /\ x.h = h
  BY <1>1, <1>2, <1>3 DEF CgiConnections
<1>5. /\ x.hctx = r.hctx /\ x.st = r.st /\ x.mode = r.mode /\ x.pollin = r.pollin
      /\ x.len = r.len /\ x.in = r.in /\ x.out = r.out /\ x.owed = r.owed /\ x.ka = r.ka /\ x.wr = r.wr
      /\ x.started = r.started /\ x.wq = r.wq /\ x.fin = r.fin /\ x.status = r.status
  BY <1>1, <1>3 DEF CgiConnections
<1>6. r.hctx
  BY <1>1, NoScriptTyped DEF Bound
<1>7. Bound(x)
  BY <1>1, <1>2, <1>4, <1>5, <1>6 DEF Bound
<1>8. Balanced(x) /\ Heard(x) /\ Sending(x) /\ Fed(x)
  BY <1>2, <1>4, <1>5 DEF Good, Loose, Balanced, Heard, Sending, Fed
<1> QED BY <1>2, <1>4, <1>5, <1>7, <1>8 DEF Good, Loose, SameButPipes

(* ... and wakes nobody who was not watched. *)
LEMMA SettledStays ==
    ASSUME NEW r, NEW x, SameButPipes(r, x), Settled(r)
    PROVE  Settled(x)
BY DEF SameButPipes, Settled

(* What the wake-up argument needs of a step that is nobody's round. *)
Passed ==
    /\ joblist' = joblist /\ cur' = cur
    /\ \A c \in CgiCon : SameButPipes(con[c], con'[c])

(* A step of a script on its pipes. *)
LEMMA PipeKeeps ==
    ASSUME CgiSound, NEW c \in CgiCon, NEW data \in {"none", "part", "rest", "local"},
           NEW reader \in BOOLEAN, NEW writer \in BOOLEAN, con[c].h.pid # CgiNil, NEW x,
           x = [con[c] EXCEPT !.h = [con[c].h EXCEPT !.data = data, !.reader = reader, !.writer = writer]],
           con' = [con EXCEPT ![c] = x],
           UNCHANGED <<fdarray, child, cgi_pid, batch, joblist, loopVars>>
    PROVE  CgiSound' /\ Passed /\ pc' = pc
<1>1. Good(con[c]) /\ Owned /\ CgiLoop
  BY AtWork DEF CgiSound
<1>2. Good(x) /\ SameButPipes(con[c], x)
  BY <1>1, PipeIsGood
<1>3. x.h.pid = con[c].h.pid /\ x.h.fd = con[c].h.fd /\ x.h.fdtocgi = con[c].h.fdtocgi
  BY <1>2 DEF SameButPipes
<1>4. UNCHANGED <<fdarray, child, cgi_pid>>
  OBVIOUS
<1>5. Owned'
  BY <1>1, <1>2, <1>3, <1>4, ConnectionKeeps
<1>6. CgiLoop' /\ pc' = pc /\ joblist' = joblist /\ cur' = cur
  BY <1>1 DEF CgiLoop, loopVars
<1>7. ASSUME NEW d \in CgiCon PROVE SameButPipes(con[d], con'[d])
  <2>1. con'[d] = IF d = c THEN x ELSE con[d]
    BY <1>1 DEF Owned, CgiTypes
  <2> QED BY <1>2, <2>1 DEF SameButPipes
<1> QED BY <1>5, <1>6, <1>7 DEF CgiSound, Passed

(* A script prints. *)
LEMMA PrintKeeps ==
    ASSUME CgiSound, NEW c \in CgiCon, ScriptPrint(c)
    PROVE  CgiSound' /\ Passed /\ pc' = pc
<1> DEFINE r == con[c]
           reader == r.h.reader
           writer == r.h.writer
<1>1. /\ r \in CgiConnections /\ r.h \in CgiHandlers /\ con \in [CgiCon -> CgiConnections]
      /\ reader \in BOOLEAN /\ writer \in BOOLEAN
  BY AtWork DEF CgiHandlers, CgiSound, Owned, CgiTypes
<1>2. PICK d \in Printed : con' = [con EXCEPT ![c].h.data = d]
  BY DEF ScriptPrint
<1>3. d \in {"none", "part", "rest", "local"} /\ r.h.pid # CgiNil
  BY CgiAssumption DEF ScriptPrint, Running
<1> DEFINE g == [r.h EXCEPT !.data = d, !.reader = reader, !.writer = writer]
           x == [r EXCEPT !.h = g]
<1>4. con' = [con EXCEPT ![c] = x]
  <2>1. [r.h EXCEPT !.data = d] = g
    BY <1>1 DEF CgiHandlers
  <2>2. con' = [con EXCEPT ![c] = [r EXCEPT !.h = [r.h EXCEPT !.data = d]]]
    BY <1>2
  <2> QED BY <2>1, <2>2
<1>5. UNCHANGED <<fdarray, child, cgi_pid, batch, joblist, loopVars>>
  BY DEF ScriptPrint
<1>6. x = [con[c] EXCEPT !.h = [con[c].h EXCEPT !.data = d, !.reader = reader, !.writer = writer]]
  OBVIOUS
<1> HIDE DEF x, g, reader, writer
<1> QED BY <1>1, <1>3, <1>4, <1>5, <1>6, PipeKeeps

(* A script closes one of its pipes. *)
LEMMA CloseKeeps ==
    ASSUME CgiSound, NEW c \in CgiCon, ScriptClose(c)
    PROVE  CgiSound' /\ Passed /\ pc' = pc
<1> DEFINE r == con[c]
           data == r.h.data
<1>1. /\ r \in CgiConnections /\ r.h \in CgiHandlers /\ con \in [CgiCon -> CgiConnections]
      /\ r.h.reader \in BOOLEAN /\ r.h.writer \in BOOLEAN /\ data \in {"none", "part", "rest", "local"}
  BY AtWork DEF CgiHandlers, CgiSound, Owned, CgiTypes
<1>2. r.h.pid # CgiNil /\ UNCHANGED <<fdarray, child, cgi_pid, batch, joblist, loopVars>>
  BY DEF ScriptClose, Running
<1>3. ASSUME NEW reader \in BOOLEAN, NEW writer \in BOOLEAN,
             con' = [con EXCEPT ![c] = [r EXCEPT !.h = [r.h EXCEPT !.data = data, !.reader = reader,
                                                                  !.writer = writer]]]
      PROVE  CgiSound' /\ Passed /\ pc' = pc
  <2> DEFINE x == [con[c] EXCEPT !.h = [con[c].h EXCEPT !.data = data, !.reader = reader, !.writer = writer]]
  <2>1. con' = [con EXCEPT ![c] = x]
    BY <1>3
  <2>2. x = [con[c] EXCEPT !.h = [con[c].h EXCEPT !.data = data, !.reader = reader, !.writer = writer]]
    OBVIOUS
  <2> HIDE DEF x, data
  <2> QED BY <1>1, <1>2, <2>1, <2>2, PipeKeeps
<1>4. CASE con' = [con EXCEPT ![c].h.reader = FALSE]
  <2> DEFINE writer == r.h.writer
  <2>1. [r.h EXCEPT !.reader = FALSE] = [r.h EXCEPT !.data = data, !.reader = FALSE, !.writer = writer]
    BY <1>1 DEF CgiHandlers
  <2>2. con' = [con EXCEPT ![c] = [r EXCEPT !.h = [r.h EXCEPT !.reader = FALSE]]]
    BY <1>4
  <2>3. con' = [con EXCEPT ![c] = [r EXCEPT !.h = [r.h EXCEPT !.data = data, !.reader = FALSE,
                                                                 !.writer = writer]]]
    BY <2>1, <2>2
  <2>4. writer \in BOOLEAN
    BY <1>1
  <2> HIDE DEF writer, data
  <2> QED BY <1>3, <2>3, <2>4
<1>5. CASE con' = [con EXCEPT ![c].h.writer = FALSE]
  <2> DEFINE reader == r.h.reader
  <2>1. [r.h EXCEPT !.writer = FALSE] = [r.h EXCEPT !.data = data, !.reader = reader, !.writer = FALSE]
    BY <1>1 DEF CgiHandlers
  <2>2. con' = [con EXCEPT ![c] = [r EXCEPT !.h = [r.h EXCEPT !.writer = FALSE]]]
    BY <1>5
  <2>3. con' = [con EXCEPT ![c] = [r EXCEPT !.h = [r.h EXCEPT !.data = data, !.reader = reader,
                                                                 !.writer = FALSE]]]
    BY <2>1, <2>2
  <2>4. reader \in BOOLEAN
    BY <1>1
  <2> HIDE DEF reader, data
  <2> QED BY <1>3, <2>3, <2>4
<1> QED BY <1>4, <1>5 DEF ScriptClose

(* A script ends; it stays the child of the connection, or of the list, until it is reaped. *)
LEMMA ExitKeeps ==
    ASSUME CgiSound, NEW p \in Pid, ScriptExit(p)
    PROVE  CgiSound' /\ Passed /\ pc' = pc
<1>1. /\ Owned /\ CgiLoop /\ con \in [CgiCon -> CgiConnections] /\ child \in [Pid -> {"free", "run", "zombie"}]
      /\ p # CgiNil /\ child[p] = "run" /\ child' = [child EXCEPT ![p] = "zombie"]
      /\ UNCHANGED <<fdarray, cgi_pid, batch, joblist, pc, cur, k>>
  BY CgiAssumption DEF CgiSound, Owned, CgiTypes, ScriptExit, loopVars
<1>2. con' = [c \in CgiCon |-> IF con[c].h.pid = p
                               THEN [con[c] EXCEPT !.h.reader = FALSE, !.h.writer = FALSE]
                               ELSE con[c]]
  BY DEF ScriptExit
<1>3. ASSUME NEW c \in CgiCon
      PROVE  Good(con'[c]) /\ SameButPipes(con[c], con'[c])
  <2> DEFINE r == con[c]
             data == r.h.data
             x == con'[c]
  <2>1. r \in CgiConnections /\ r.h \in CgiHandlers /\ Good(r) /\ data \in {"none", "part", "rest", "local"}
    BY <1>1, AtWork DEF CgiHandlers
  <2>2. CASE r.h.pid = p
    <3>1. x = [r EXCEPT !.h.reader = FALSE, !.h.writer = FALSE]
      BY <1>2, <2>2
    <3> HIDE DEF x, r
    <3>2. x = [r EXCEPT !.h = [r.h EXCEPT !.data = data, !.reader = FALSE, !.writer = FALSE]]
      <4>1. [r.h EXCEPT !.reader = FALSE, !.writer = FALSE]
              = [r.h EXCEPT !.data = data, !.reader = FALSE, !.writer = FALSE]
        BY <2>1 DEF CgiHandlers
      <4>2. [r EXCEPT !.h.reader = FALSE, !.h.writer = FALSE]
              = [r EXCEPT !.h = [r.h EXCEPT !.reader = FALSE, !.writer = FALSE]]
        BY <2>1 DEF CgiConnections, CgiHandlers
      <4> QED BY <3>1, <4>1, <4>2
    <3>3. r.h.pid # CgiNil
      BY <1>1, <2>2
    <3> HIDE DEF data
    <3>4. FALSE \in BOOLEAN
      OBVIOUS
    <3>5. Good(x) /\ SameButPipes(r, x)
      BY <2>1, <3>2, <3>3, <3>4, PipeIsGood
    <3> QED BY <3>5 DEF x, r
  <2>3. CASE r.h.pid # p
    <3>1. x = r
      BY <1>2, <2>3
    <3> QED BY <2>1, <3>1 DEF SameButPipes
  <2> QED BY <2>2, <2>3
<1>4. con' \in [CgiCon -> CgiConnections]
  <2>1. \A c \in CgiCon : con'[c] \in CgiConnections
    BY <1>3 DEF Good, Loose
  <2> QED BY <1>2, <2>1
<1>5. /\ \A c \in CgiCon : /\ con'[c].h.pid = con[c].h.pid /\ con'[c].h.fd = con[c].h.fd
                           /\ con'[c].h.fdtocgi = con[c].h.fdtocgi
  BY <1>3 DEF SameButPipes
<1>6. DescriptorsOwned'
  <2>1. \A f \in Fd : fdarray[f] # CgiNil => fdarray[f][2] \in CgiCon
    BY <1>1 DEF Owned, CgiTypes
  <2> QED BY <1>1, <1>5, <2>1 DEF Owned, DescriptorsOwned
<1>7. OneOwner'
  <2>1. \A q \in Pid : child'[q] = "free" <=> child[q] = "free"
    BY <1>1
  <2> QED BY <1>1, <1>5, <2>1 DEF Owned, OneOwner
<1>8. CgiTypes'
  <2>1. \A c \in CgiCon : Good(con[c])'
    BY <1>3 DEF Good, Loose, Balanced, Bound, Heard, Sending, Fed
  <2> QED BY <1>1, <1>4, <2>1 DEF Owned, CgiTypes
<1>9. CgiLoop'
  BY <1>1 DEF CgiLoop
<1> QED BY <1>1, <1>3, <1>6, <1>7, <1>8, <1>9 DEF CgiSound, Owned, Passed

-----------------------------------------------------------------------------
(* The main loop *)

(* cgi_pid_del(): the last entry takes the place of the one that goes. *)
LEMMA Deleted ==
    ASSUME NEW s \in Seq(Pid), NEW i \in 1 .. Len(s)
    PROVE  LET t == SubSeq([s EXCEPT ![i] = s[Len(s)]], 1, Len(s) - 1)
           IN  /\ t \in Seq(Pid)
               /\ DOMAIN t = 1 .. Len(s) - 1
               /\ \A j \in DOMAIN t : t[j] = IF j = i THEN s[Len(s)] ELSE s[j]
<1> DEFINE n == Len(s)
           u == [s EXCEPT ![i] = s[n]]
           t == SubSeq(u, 1, n - 1)
<1>1. n \in Nat /\ n >= 1 /\ i \in 1 .. n /\ DOMAIN s = 1 .. n /\ \A j \in 1 .. n : s[j] \in Pid
  OBVIOUS
<1>2. u \in Seq(Pid) /\ Len(u) = n
  BY ExceptSeq, <1>1
<1>3. \A j \in 1 .. n : u[j] = IF j = i THEN s[n] ELSE s[j]
  BY <1>1
<1> HIDE DEF n, u
<1>4. t \in Seq(Pid) /\ Len(t) = n - 1 /\ \A j \in 1 .. n - 1 : t[j] = u[j]
  BY <1>1, <1>2, SubSeqProperties
<1> QED BY <1>1, <1>3, <1>4 DEF u, n

(* cgi_trigger(): the script that is reaped is nobody's any more. *)
LEMMA TriggerKeeps ==
    ASSUME CgiSound, cgi_trigger
    PROVE  CgiSound' /\ con' = con /\ joblist' = joblist /\ cur' = cur /\ pc' = pc
<1>1. /\ Owned /\ CgiLoop /\ con \in [CgiCon -> CgiConnections] /\ child \in [Pid -> {"free", "run", "zombie"}]
      /\ cgi_pid \in Seq(Pid) /\ k \in Nat \ {0}
      /\ UNCHANGED <<con, fdarray, batch, joblist, pc, cur>>
  BY DEF CgiSound, CgiLoop, Owned, CgiTypes, cgi_trigger
<1>2. k \in 1 .. Len(cgi_pid)
  BY <1>1 DEF cgi_trigger
<1>3. CASE child[cgi_pid[k]] = "run"
  <2>1. UNCHANGED <<child, cgi_pid>> /\ k' = k + 1
    BY <1>3 DEF cgi_trigger
  <2>2. Owned'
    BY <1>1, <2>1, NothingKeeps
  <2>3. CgiLoop'
    BY <1>1, <2>1 DEF CgiLoop
  <2> QED BY <1>1, <2>2, <2>3 DEF CgiSound
<1>4. CASE child[cgi_pid[k]] # "run"
  <2> DEFINE p == cgi_pid[k]
             n == Len(cgi_pid)
  <2>1. /\ child' = [child EXCEPT ![p] = "free"] /\ k' = k
        /\ cgi_pid' = SubSeq([cgi_pid EXCEPT ![k] = cgi_pid[Len(cgi_pid)]], 1, Len(cgi_pid) - 1)
    BY <1>4 DEF cgi_trigger, cgi_pid_del
  <2>2. /\ cgi_pid' \in Seq(Pid) /\ DOMAIN cgi_pid' = 1 .. n - 1
        /\ \A j \in 1 .. n - 1 : cgi_pid'[j] = IF j = k THEN cgi_pid[n] ELSE cgi_pid[j]
    BY <1>1, <1>2, <2>1, Deleted
  <2>3. n \in Nat /\ DOMAIN cgi_pid = 1 .. n /\ p \in Pid /\ n \in 1 .. n /\ k \in 1 .. n
    BY <1>1, <1>2
  <2> HIDE DEF p, n
  <2>4. \A q \in Pid :
        /\ child[q] = "free" <=> /\ \A c \in CgiCon : con[c].h.pid # q
                                 /\ \A i \in 1 .. n : cgi_pid[i] # q
        /\ \A c, d \in CgiCon : con[c].h.pid = q /\ con[d].h.pid = q => c = d
        /\ \A i, j \in 1 .. n : cgi_pid[i] = q /\ cgi_pid[j] = q => i = j
        /\ \A c \in CgiCon, i \in 1 .. n : con[c].h.pid = q => cgi_pid[i] # q
    BY <1>1, <2>3 DEF Owned, OneOwner
  <2>5. cgi_pid[k] = p
    BY DEF p
  <2>6. ASSUME NEW q \in Pid
        PROVE  /\ child'[q] = "free" <=> /\ \A c \in CgiCon : con[c].h.pid # q
                                         /\ \A i \in 1 .. n - 1 : cgi_pid'[i] # q
               /\ \A i, j \in 1 .. n - 1 : cgi_pid'[i] = q /\ cgi_pid'[j] = q => i = j
               /\ \A c \in CgiCon, i \in 1 .. n - 1 : con[c].h.pid = q => cgi_pid'[i] # q
    <3> DEFINE from(i) == IF i = k THEN n ELSE i
    <3>1. \A i \in 1 .. n - 1 : from(i) \in 1 .. n /\ from(i) # k /\ cgi_pid'[i] = cgi_pid[from(i)]
      BY <2>2, <2>3
    <3>2. \A i, j \in 1 .. n - 1 : from(i) = from(j) => i = j
      BY <2>3
    <3>3. \A m \in 1 .. n : m # k => \E i \in 1 .. n - 1 : from(i) = m
      <4> SUFFICES ASSUME NEW m \in 1 .. n, m # k PROVE \E i \in 1 .. n - 1 : from(i) = m
        OBVIOUS
      <4>1. CASE m = n
        <5>1. k \in 1 .. n - 1 /\ from(k) = m
          BY <2>3, <4>1
        <5> QED BY <5>1
      <4>2. CASE m # n
        <5>1. m \in 1 .. n - 1 /\ from(m) = m
          BY <2>3, <4>2
        <5> QED BY <5>1
      <4> QED BY <4>1, <4>2
    <3> HIDE DEF from
    <3>4. CASE q = p
      <4>1. child'[q] = "free"
        BY <1>1, <2>1, <3>4
      <4>2. \A c \in CgiCon : con[c].h.pid # q
        BY <2>3, <2>4, <2>5, <3>4
      <4>3. \A i \in 1 .. n - 1 : cgi_pid'[i] # q
        BY <2>3, <2>4, <2>5, <3>1, <3>4
      <4> QED BY <4>1, <4>2, <4>3
    <3>5. CASE q # p
      <4>1. child'[q] = child[q]
        BY <1>1, <2>1, <3>5
      <4>2. (\A i \in 1 .. n - 1 : cgi_pid'[i] # q) <=> (\A i \in 1 .. n : cgi_pid[i] # q)
        BY <2>5, <3>1, <3>3, <3>5
      <4>3. \A i, j \in 1 .. n - 1 : cgi_pid'[i] = q /\ cgi_pid'[j] = q => i = j
        BY <2>4, <3>1, <3>2
      <4>4. \A c \in CgiCon, i \in 1 .. n - 1 : con[c].h.pid = q => cgi_pid'[i] # q
        BY <2>4, <3>1
      <4> QED BY <2>4, <4>1, <4>2, <4>3, <4>4
    <3> QED BY <3>4, <3>5
  <2>7. OneOwner'
    BY <1>1, <2>2, <2>4, <2>6 DEF OneOwner
  <2>8. child' \in [Pid -> {"free", "run", "zombie"}]
    BY <1>1, <2>1
  <2>9. CgiTypes'
    BY <1>1, <2>2, <2>8 DEF Owned, CgiTypes, Good, Loose, Balanced, Bound, Heard, Sending, Fed
  <2>10. DescriptorsOwned'
    BY <1>1 DEF Owned, DescriptorsOwned
  <2>11. CgiLoop'
    BY <1>1, <2>1 DEF CgiLoop
  <2> QED BY <1>1, <2>7, <2>9, <2>10, <2>11 DEF CgiSound, Owned
<1> QED BY <1>3, <1>4

(* The steps of the loop that touch neither connections nor scripts. *)
LEMMA LoopKeeps ==
    ASSUME CgiSound,
           \/ TriggerStart \/ TriggerEnd \/ NoTrigger \/ fdevent_poll \/ DispatchEnd \/ JobsEnd
           \/ \E c \in CgiCon : RunJob(c)
    PROVE  CgiSound' /\ con' = con
<1>1. Owned /\ CgiLoop
  BY DEF CgiSound
<1>2. ASSUME TriggerStart \/ TriggerEnd \/ NoTrigger \/ DispatchEnd \/ JobsEnd
      PROVE  CgiSound' /\ con' = con
  <2>1. UNCHANGED <<con, fdarray, child, cgi_pid>> /\ UNCHANGED <<batch, cur>> /\ k' \in {k, 1}
    BY <1>2 DEF TriggerStart, TriggerEnd, NoTrigger, DispatchEnd, JobsEnd
  <2>2. CgiLoop'
    BY <1>1, <2>1 DEF CgiLoop
  <2> QED BY <1>1, <2>1, <2>2, NothingKeeps DEF CgiSound
<1>3. ASSUME NEW c \in CgiCon, RunJob(c)
      PROVE  CgiSound' /\ con' = con
  <2>1. UNCHANGED <<con, fdarray, child, cgi_pid>> /\ UNCHANGED <<batch, k>> /\ cur' = c
    BY <1>3 DEF RunJob
  <2>2. CgiLoop'
    BY <1>1, <2>1 DEF CgiLoop
  <2> QED BY <1>1, <2>1, <2>2, NothingKeeps DEF CgiSound
<1>4. ASSUME fdevent_poll
      PROVE  CgiSound' /\ con' = con
  <2>1. UNCHANGED <<con, fdarray, child, cgi_pid>> /\ UNCHANGED <<cur, k>>
    BY <1>4 DEF fdevent_poll
  <2>2. \A e \in batch' : e.fd \in Fd
    <3>1. PICK room \in SUBSET CgiCon :
        batch' = {e \in {[fd |-> con[c].h.fd, revents |-> FromCgi(con[c].h)] :
                             c \in {d \in CgiCon : con[d].h.fd # CgiNil}}
                        \cup {[fd |-> con[c].h.fdtocgi, revents |-> ToCgi(con[c].h, c \in room)] :
                                 c \in {d \in CgiCon : con[d].h.fdtocgi # CgiNil}} :
                    e.revents # {}}
      BY <1>4 DEF fdevent_poll
    <3> SUFFICES ASSUME NEW e \in batch' PROVE e.fd \in Fd
      OBVIOUS
    <3>2. \E c \in CgiCon : \/ con[c].h.fd # CgiNil /\ e.fd = con[c].h.fd
                            \/ con[c].h.fdtocgi # CgiNil /\ e.fd = con[c].h.fdtocgi
      BY <3>1
    <3> QED BY <1>1, <3>2, AtWork
  <2>3. CgiLoop'
    BY <1>1, <2>1, <2>2 DEF CgiLoop
  <2> QED BY <1>1, <2>1, <2>3, NothingKeeps DEF CgiSound
<1> QED BY <1>2, <1>3, <1>4

-----------------------------------------------------------------------------
(* The theorems *)

(* The invariant holds at the start. *)
LEMMA CgiStarts ==
    ASSUME Init
    PROVE  CgiSound
<1> DEFINE x == [Idle EXCEPT !.st = "closed"]
           zero == 0
<1>0. x = [Idle EXCEPT !.st = "closed"]
  OBVIOUS
<1> HIDE DEF x
<1>1. x = [st |-> "closed", mode |-> "direct", status |-> "none", rd |-> FALSE, wr |-> TRUE, ka |-> FALSE,
           count |-> zero, len |-> 0, in |-> 0, out |-> 0, owed |-> 0, pollin |-> FALSE,
           started |-> FALSE, fin |-> FALSE, wq |-> 0, hctx |-> FALSE, h |-> cgi_handler_ctx_init]
  BY <1>0 DEF Idle
<1>2. zero \in Nat
  OBVIOUS
<1> HIDE DEF zero
<1>3. Good(x) /\ x.h = cgi_handler_ctx_init
  BY <1>1, <1>2, FreshIsGood
<1>4. x.h.pid = CgiNil /\ x.h.fd = CgiNil /\ x.h.fdtocgi = CgiNil /\ x \in CgiConnections
  BY <1>3, NoScriptTyped DEF Good, Loose
<1>5. /\ con = [c \in CgiCon |-> x] /\ fdarray = [f \in Fd |-> CgiNil] /\ child = [p \in Pid |-> "free"]
      /\ cgi_pid = <<>> /\ batch = {} /\ cur \in CgiCon /\ k = 1
  BY DEF Init, x
<1>6. CgiTypes
  BY <1>3, <1>4, <1>5 DEF CgiTypes
<1>7. DescriptorsOwned
  BY <1>4, <1>5 DEF DescriptorsOwned
<1>8. OneOwner
  BY <1>4, <1>5, CgiAssumption DEF OneOwner
<1> QED BY <1>5, <1>6, <1>7, <1>8 DEF CgiSound, Owned, CgiLoop

(* Every step keeps the invariant. *)
LEMMA CgiSteps ==
    ASSUME CgiSound, [Next]_vars
    PROVE  CgiSound'
<1>1. CASE UNCHANGED vars
  <2>1. UNCHANGED <<con, fdarray, child, cgi_pid>> /\ UNCHANGED <<batch, cur, k>>
    BY <1>1 DEF vars, loopVars
  <2>2. CgiLoop'
    BY <2>1 DEF CgiSound, CgiLoop
  <2> QED BY <2>1, <2>2, NothingKeeps DEF CgiSound
<1>2. CASE Process
  BY <1>2, LoopKeeps, TriggerKeeps, DispatchKeeps, ReadRounds, RequestRounds, WriteRounds, EndRounds,
     RoundsKeep DEF Process
<1>3. CASE \E c \in CgiCon : ClientEvent(c) \/ ScriptPrint(c) \/ ScriptClose(c)
  BY <1>3, ClientKeeps, PrintKeeps, CloseKeeps
<1>4. CASE \E p \in Pid : ScriptExit(p)
  BY <1>4, ExitKeeps
<1> QED BY <1>1, <1>2, <1>3, <1>4 DEF Next

(* The inductive invariant. *)
LEMMA CgiAlwaysSound == Spec => []CgiSound
<1>1. Init => CgiSound
  BY CgiStarts
<1>2. CgiSound /\ [Next]_vars => CgiSound'
  BY CgiSteps
<1> QED BY <1>1, <1>2, PTL DEF Spec

(* One owner at most, in the words of ChildrenOwned. *)
LEMMA OwnersCounted ==
    ASSUME Owned
    PROVE  ChildrenOwned
<1> SUFFICES ASSUME NEW p \in Pid
             PROVE  Cardinality({c \in CgiCon : con[c].h.pid = p})
                    + Cardinality({i \in DOMAIN cgi_pid : cgi_pid[i] = p})
                    = IF child[p] = "free" THEN 0 ELSE 1
  BY DEF ChildrenOwned
<1> DEFINE C == {c \in CgiCon : con[c].h.pid = p}
           L == {i \in DOMAIN cgi_pid : cgi_pid[i] = p}
<1>1. /\ child[p] = "free" <=> /\ \A c \in CgiCon : con[c].h.pid # p
                               /\ \A i \in DOMAIN cgi_pid : cgi_pid[i] # p
      /\ \A c, d \in CgiCon : con[c].h.pid = p /\ con[d].h.pid = p => c = d
      /\ \A i, j \in DOMAIN cgi_pid : cgi_pid[i] = p /\ cgi_pid[j] = p => i = j
      /\ \A c \in CgiCon, i \in DOMAIN cgi_pid : con[c].h.pid = p => cgi_pid[i] # p
  BY DEF Owned, OneOwner
<1>2. child[p] = "free" <=> C = {} /\ L = {}
  BY <1>1
<1>3. C = {} \/ L = {}
  BY <1>1
<1>4. C # {} => \E c : C = {c}
  <2>1. \A c, d \in C : c = d
    BY <1>1
  <2> QED BY <2>1
<1>5. L # {} => \E i : L = {i}
  <2>1. \A i, j \in L : i = j
    BY <1>1
  <2> QED BY <2>1
<1> HIDE DEF C, L
<1>6. Cardinality({}) = 0
  BY FS_EmptySet
<1>7. C # {} => Cardinality(C) = 1
  BY <1>4, FS_Singleton
<1>8. L # {} => Cardinality(L) = 1
  BY <1>5, FS_Singleton
<1>9. Cardinality(C) + Cardinality(L) = IF child[p] = "free" THEN 0 ELSE 1
  <2>1. CASE C = {} /\ L = {}
    BY <1>2, <1>6, <2>1
  <2>2. CASE C # {}
    <3>1. L = {} /\ child[p] # "free"
      BY <1>2, <1>3, <2>2
    <3> QED BY <1>6, <1>7, <2>2, <3>1
  <2>3. CASE L # {}
    <3>1. C = {} /\ child[p] # "free"
      BY <1>2, <1>3, <2>3
    <3> QED BY <1>6, <1>8, <2>3, <3>1
  <2> QED BY <2>1, <2>2, <2>3
<1> QED BY <1>9 DEF C, L

(* Whatever scripts, clients and pipes do, in any order: every descriptor belongs to the connection
   it is registered for and every process has one owner (cgi_connection_close, cgi_pid_del). *)
THEOREM CgiStaysSound == Spec => []CgiInv
<1>1. CgiSound => CgiInv
  <2> SUFFICES ASSUME CgiSound PROVE CgiInv
    OBVIOUS
  <2>1. Owned
    BY DEF CgiSound
  <2>2. CgiTypeOK
    <3>1. ASSUME NEW c \in CgiCon
          PROVE  /\ con[c].st \in {"closed", "idle", "request", "write", "end", "error"}
                 /\ con[c].out \in 0 .. con[c].in /\ con[c].in \in 0 .. con[c].len
                 /\ con[c].len \in 0 .. MaxBody /\ con[c].owed \in 0 .. MaxBody
                 /\ con[c].h.fd \in Fd \cup {CgiNil} /\ con[c].h.fdtocgi \in Fd \cup {CgiNil}
      <4>1. con[c] \in CgiConnections /\ Balanced(con[c])
        BY <2>1, AtWork DEF Good, Loose
      <4>2. /\ con[c].st \in {"closed", "idle", "request", "write", "end", "error"}
            /\ con[c].len \in 0 .. MaxBody /\ con[c].owed \in 0 .. MaxBody
            /\ con[c].in \in Nat /\ con[c].out \in Nat
        BY <4>1 DEF CgiConnections, CgiStates
      <4>3. con[c].out \in 0 .. con[c].in /\ con[c].in \in 0 .. con[c].len
        BY <4>1, <4>2, CgiAssumption DEF Balanced
      <4> QED BY <2>1, <4>2, <4>3, AtWork
    <3> QED BY <2>1, <3>1 DEF CgiTypeOK, Owned, CgiTypes
  <2>3. DescriptorsOwned /\ ChildrenOwned
    BY <2>1, OwnersCounted DEF Owned
  <2> QED BY <2>2, <2>3 DEF CgiInv
<1> QED BY <1>1, CgiAlwaysSound, PTL

(* A connection that is kept alive has read the body of its last request to the end, also if a local
   redirect forgot how long it was (connection_reset, cgi_recv_response). *)
THEOREM KeptAliveOwesNothing == Spec => []IdleOwesNothing
<1>1. CgiSound => IdleOwesNothing
  BY AtWork DEF CgiSound, IdleOwesNothing, Good, Loose, Heard
<1> QED BY <1>1, CgiAlwaysSound, PTL

-----------------------------------------------------------------------------
(* Nobody sleeps *)

(* A connection is at rest, or somebody will run the state machine on it; and the process does
   not sleep while the list of those is not empty. *)
Awake ==
    /\ pc # "abort" =>
        \A c \in CgiCon : c \in joblist \/ (pc = "sm" /\ cur = c) \/ Settled(con[c])
    /\ joblist # {} => pc \in {"dispatch", "jobs", "sm", "abort"}

(* Nobody waits at the start. *)
LEMMA AwakeStarts ==
    ASSUME Init
    PROVE  Awake
<1>1. Owned
  BY CgiStarts DEF CgiSound
<1>2. ASSUME NEW c \in CgiCon PROVE Settled(con[c])
  <2>1. con[c].st = "closed" /\ con[c].h = cgi_handler_ctx_init
    BY DEF Init, Idle
  <2> QED BY <1>1, <2>1, AtWork, IdleSettled, NoScriptTyped
<1>3. joblist = {}
  BY DEF Init
<1> QED BY <1>2, <1>3 DEF Awake

(* A round of the state machine leaves its connection at work or at rest. *)
LEMMA AwakeRounds ==
    ASSUME CgiSound, Awake, pc = "sm", Rounded
    PROVE  Awake'
<1>1. /\ joblist' = joblist /\ cur' = cur /\ pc' \in {"sm", "jobs"}
      /\ \A c \in CgiCon : c # cur => con'[c] = con[c]
      /\ pc' = "jobs" => Settled(con'[cur])
  BY RoundsKeep
<1>2. ASSUME NEW c \in CgiCon
      PROVE  c \in joblist' \/ (pc' = "sm" /\ cur' = c) \/ Settled(con'[c])
  <2>1. CASE c = cur
    BY <1>1, <2>1
  <2>2. CASE c # cur
    <3>1. c \in joblist \/ Settled(con[c])
      BY <2>2 DEF Awake
    <3> QED BY <1>1, <2>2, <3>1
  <2> QED BY <2>1, <2>2
<1>3. Awake' <=> /\ pc' # "abort" =>
                     \A c \in CgiCon : c \in joblist' \/ (pc' = "sm" /\ cur' = c) \/ Settled(con'[c])
                 /\ joblist' # {} => pc' \in {"dispatch", "jobs", "sm", "abort"}
  BY DEF Awake, Settled
<1> QED BY <1>1, <1>2, <1>3

(* A step that leaves the place of the state machine. *)
LEMMA AwakePasses ==
    ASSUME Awake, \A c \in CgiCon : SameButPipes(con[c], con'[c]),
           joblist' = joblist, pc # "sm" \/ cur' = cur,
           pc' = pc \/ (pc' \notin {"abort"} /\ pc # "sm" /\ pc # "abort"
                        /\ (joblist # {} => pc' \in {"dispatch", "jobs", "sm", "abort"}))
    PROVE  Awake'
<1>1. ASSUME pc' # "abort", NEW c \in CgiCon
      PROVE  c \in joblist' \/ (pc' = "sm" /\ cur' = c) \/ Settled(con'[c])
  <2>1. c \in joblist \/ (pc = "sm" /\ cur = c) \/ Settled(con[c])
    BY <1>1 DEF Awake
  <2>2. Settled(con[c]) => Settled(con'[c])
    BY SettledStays
  <2> QED BY <2>1, <2>2
<1>2. Awake' <=> /\ pc' # "abort" =>
                     \A c \in CgiCon : c \in joblist' \/ (pc' = "sm" /\ cur' = c) \/ Settled(con'[c])
                 /\ joblist' # {} => pc' \in {"dispatch", "jobs", "sm", "abort"}
  BY DEF Awake, Settled
<1>3. joblist' # {} => pc' \in {"dispatch", "jobs", "sm", "abort"}
  BY DEF Awake
<1> QED BY <1>1, <1>2, <1>3

(* Every step does. *)
LEMMA AwakeSteps ==
    ASSUME CgiSound, Awake, [Next]_vars
    PROVE  Awake'
<1>0. Awake' <=> /\ pc' # "abort" =>
                     \A c \in CgiCon : c \in joblist' \/ (pc' = "sm" /\ cur' = c) \/ Settled(con'[c])
                 /\ joblist' # {} => pc' \in {"dispatch", "jobs", "sm", "abort"}
  BY DEF Awake, Settled
<1>1. con' = con => \A c \in CgiCon : SameButPipes(con[c], con'[c])
  BY DEF SameButPipes
<1>2. CASE UNCHANGED vars
  BY <1>1, <1>2, AwakePasses DEF vars, loopVars
<1>3. CASE TriggerStart \/ TriggerEnd \/ NoTrigger \/ fdevent_poll \/ DispatchEnd
  <2>1. /\ con' = con /\ joblist' = joblist /\ pc # "sm" /\ pc # "abort"
        /\ pc' \in {"trigger", "poll", "dispatch", "jobs"}
        /\ pc = "dispatch" => pc' = "jobs"
        /\ pc \in {"top", "trigger", "poll", "dispatch"}
    BY <1>3 DEF TriggerStart, TriggerEnd, NoTrigger, fdevent_poll, DispatchEnd
  <2>2. joblist # {} => pc' \in {"dispatch", "jobs", "sm", "abort"}
    BY <2>1 DEF Awake
  <2> QED BY <1>1, <2>1, <2>2, AwakePasses
<1>4. CASE JobsEnd
  <2>1. con' = con /\ joblist' = joblist /\ pc = "jobs" /\ pc' = "top" /\ joblist = {}
    BY <1>4 DEF JobsEnd
  <2> QED BY <1>1, <2>1, AwakePasses
<1>5. CASE cgi_trigger
  <2>1. con' = con /\ joblist' = joblist /\ cur' = cur /\ pc' = pc
    BY <1>5, TriggerKeeps
  <2> QED BY <1>1, <2>1, AwakePasses
<1>6. ASSUME NEW d \in CgiCon, RunJob(d) PROVE Awake'
  <2>1. con' = con /\ joblist' = joblist \ {d} /\ pc = "jobs" /\ pc' = "sm" /\ cur' = d
    BY <1>6 DEF RunJob
  <2>2. \A c \in CgiCon : c \in joblist' \/ (pc' = "sm" /\ cur' = c) \/ Settled(con'[c])
    BY <2>1 DEF Awake
  <2> QED BY <1>0, <2>1, <2>2
<1>7. CASE Dispatch
  <2>1. /\ cur' = cur /\ pc' \in {"dispatch", "abort"} /\ pc = "dispatch"
        /\ \A c \in CgiCon : c \in joblist' \/ (c \notin joblist /\ con'[c] = con[c])
    BY <1>7, DispatchKeeps
  <2>2. \A c \in CgiCon : c \in joblist' \/ Settled(con'[c])
    BY <2>1 DEF Awake
  <2> QED BY <1>0, <2>1, <2>2
<1>8. CASE SmRead \/ SmHandleRequest \/ SmWrite \/ SmResponseEnd
  <2>1. pc = "sm"
    BY <1>8 DEF SmRead, SmHandleRequest, SmWrite, SmResponseEnd
  <2> QED BY <1>8, <2>1, ReadRounds, RequestRounds, WriteRounds, EndRounds, AwakeRounds
<1>9. ASSUME NEW d \in CgiCon, ClientEvent(d) PROVE Awake'
  <2>1. /\ joblist' = joblist \cup {d} /\ pc = "dispatch" /\ pc' = pc /\ cur' = cur
        /\ \A c \in CgiCon : c # d => con'[c] = con[c]
    BY <1>9, ClientKeeps
  <2>2. ASSUME NEW c \in CgiCon PROVE c \in joblist' \/ Settled(con'[c])
    <3>1. c \in joblist \/ Settled(con[c])
      BY <2>1 DEF Awake
    <3> QED BY <2>1, <3>1
  <2> QED BY <1>0, <2>1, <2>2
<1>10. ASSUME NEW d \in CgiCon, ScriptPrint(d) \/ ScriptClose(d) PROVE Awake'
  <2>1. Passed /\ pc' = pc
    BY <1>10, PrintKeeps, CloseKeeps
  <2> QED BY <2>1, AwakePasses DEF Passed
<1>11. ASSUME NEW p \in Pid, ScriptExit(p) PROVE Awake'
  <2>1. Passed /\ pc' = pc
    BY <1>11, ExitKeeps
  <2> QED BY <2>1, AwakePasses DEF Passed
<1> QED BY <1>2, <1>3, <1>4, <1>5, <1>6, <1>7, <1>8, <1>9, <1>10, <1>11 DEF Next, Process

(* When the process goes to sleep, every script is watched by somebody: no interest is forgotten
   between the handlers and the state machine (mod_cgi_handle_subrequest, cgi_write_request). *)
THEOREM NoScriptIsForgotten == Spec => []CgiNoLostWakeup
<1>1. Init => CgiSound /\ Awake
  BY CgiStarts, AwakeStarts
<1>2. CgiSound /\ Awake /\ [Next]_vars => (CgiSound /\ Awake)'
  BY CgiSteps, AwakeSteps
<1>3. Awake => CgiNoLostWakeup
  <2> SUFFICES ASSUME Awake, pc = "poll", NEW c \in CgiCon
               PROVE  LET r == con[c] IN
                      /\ r.st = "request" => r.h.fd # CgiNil \/ r.pollin
                      /\ r.h.fd # CgiNil => r.h.ev \/ (r.st = "write" /\ r.wq > 0 /\ ~r.wr)
                      /\ r.h.fdtocgi # CgiNil => IF r.in > r.out THEN r.h.evto = "OUT" ELSE r.pollin
    BY DEF CgiNoLostWakeup
  <2>1. joblist = {}
    BY DEF Awake
  <2>2. Settled(con[c])
    BY <2>1 DEF Awake
  <2> QED BY <2>2 DEF Settled
<1> QED BY <1>1, <1>2, <1>3, PTL DEF Spec
=============================================================================
