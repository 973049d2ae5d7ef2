------------------------------ MODULE ConnSet ------------------------------
(***************************************************************************)
(* What the table of connections promises to its users (connections.c):    *)
(* it is a set of open connections.  Accepting adds one connection that    *)
(* was not open, closing removes that connection and no other, both for    *)
(* those who hold the connection and for those who walk over the table.    *)
(***************************************************************************)
CONSTANT Con
VARIABLES
    held,       \* connections handed out to a client and not yet closed
    listed      \* connections a walk over the table meets

Init ==
    /\ held = {}
    /\ listed = {}

Add(c) ==
    /\ c \notin held
    /\ held' = held \cup {c}
    /\ listed' = listed \cup {c}

Remove(c) ==
    /\ c \in held
    /\ held' = held \ {c}
    /\ listed' = listed \ {c}

Next == \E c \in Con : Add(c) \/ Remove(c)

Spec == Init /\ [][Next]_<<held, listed>>
=============================================================================
