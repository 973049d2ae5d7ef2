------------------------------ MODULE Exchange ------------------------------
(***************************************************************************)
(* What the server promises on each connection: a sequence of exchanges,   *)
(* one request and one response each.                                      *)
(*                                                                         *)
(* A connection is used for another request only after the response is     *)
(* complete and the whole body of the request was read, so that body bytes *)
(* are never taken for a request; after an error it is never used again;   *)
(* and no backend works for a connection that waits for a request, lingers *)
(* or is closed.                                                           *)
(***************************************************************************)
CONSTANT Con

VARIABLES
    phase,      \* of each connection
    body,       \* bytes of the request's body are still to come
    backend     \* a backend module holds the request

Phase == {"closed", "idle", "request", "response", "answered", "broken", "lingering"}

Init ==
    /\ phase = [c \in Con |-> "closed"]
    /\ body = [c \in Con |-> FALSE]
    /\ backend = [c \in Con |-> FALSE]

(* Connection c goes from phase p to phase q, with b of its body to come and
   held by a backend if h. *)
Move(c, p, q, b, h) ==
    /\ phase[c] = p
    /\ phase' = [phase EXCEPT ![c] = q]
    /\ body' = [body EXCEPT ![c] = b]
    /\ backend' = [backend EXCEPT ![c] = h]

Accept(c) == Move(c, "closed", "idle", FALSE, FALSE)
Receive(c) == Move(c, "idle", "request", FALSE, FALSE)
Work(c) == \E p \in {"request", "response"}, b, h \in BOOLEAN : Move(c, p, p, b, h)
Answer(c) == \E h \in BOOLEAN : Move(c, "request", "response", body[c], h)
Complete(c) == \E b, h \in BOOLEAN : Move(c, "response", "answered", b, h)

(* A backend may go away by itself once the response is complete. *)
Release(c) == \E p \in {"answered", "broken"} : Move(c, p, p, body[c], FALSE)

KeepAlive(c) ==
    /\ ~body[c]
    /\ Move(c, "answered", "idle", FALSE, FALSE)

Break(c) ==
    \/ \E p \in {"idle", "lingering"} : Move(c, p, "broken", FALSE, FALSE)
    \/ \E p \in {"request", "response"}, b, h \in BOOLEAN : Move(c, p, "broken", b, h)
    \/ Move(c, "answered", "broken", body[c], backend[c])

Linger(c) == \E p \in {"answered", "broken"} : Move(c, p, "lingering", FALSE, FALSE)

Close(c) == \E p \in {"answered", "broken", "lingering"} : Move(c, p, "closed", FALSE, FALSE)

Next ==
    \E c \in Con :
        \/ Accept(c) \/ Receive(c) \/ Work(c) \/ Answer(c) \/ Complete(c) \/ Release(c)
        \/ KeepAlive(c) \/ Break(c) \/ Linger(c) \/ Close(c)

Spec == Init /\ [][Next]_<<phase, body, backend>>
=============================================================================
