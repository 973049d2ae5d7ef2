----------------------------- MODULE ConnTable -----------------------------
(***************************************************************************)
(* srv->conns, the table of connection objects (connections.c).            *)
(*                                                                         *)
(* ptr is the array conns->ptr, whose first `used` entries are the open    *)
(* connections; the entries from used to size-1 are connection objects     *)
(* that wait to be reused.  Every object carries its own position, ndx,    *)
(* or -1.  Objects are allocated in blocks of Block (128 in the code) and  *)
(* live as long as the server.                                             *)
(*                                                                         *)
(* Closing a connection swaps it with the last open one, so the table is   *)
(* reordered under everybody who walks over it.                            *)
(***************************************************************************)
EXTENDS Integers

CONSTANTS
    Con,        \* the connection objects malloc can hand out
    Block       \* how many objects one growth of the table allocates

ASSUME BlockAssumption == Block \in Nat \ {0}

VARIABLES
    ptr,        \* conns->ptr
    size,       \* conns->size
    used,       \* conns->used
    ndx         \* con->ndx of every object, -1 when it is not open

tableVars == <<ptr, size, used, ndx>>

(* The connections a walk over conns->ptr[0 .. used-1] meets. *)
Open == {ptr[i] : i \in 0 .. used - 1}

(* The connections that know of a slot of their own. *)
Held == {c \in Con : ndx[c] # -1}

TableInit ==
    /\ ptr = [i \in 0 .. -1 |-> 0]
    /\ size = 0
    /\ used = 0
    /\ ndx = [c \in Con |-> -1]

----------------------------------------------------------------------------
(* The objects connection_init() can allocate, Block at a time: none of
   them is in the table, and no two of them are the same. *)
Fresh ==
    {f \in [size .. size + Block - 1 -> Con \ {ptr[i] : i \in 0 .. size - 1}] :
        \A i, j \in DOMAIN f : f[i] = f[j] => i = j}

(* conns->ptr after realloc(), with the fresh objects f behind the old ones. *)
Grown(f) ==
    [i \in 0 .. size + Block - 1 |-> IF i < size THEN ptr[i] ELSE f[i]]

(* Hand out the first object behind the open ones, which is c.  A table
   without a free object (the empty one is such a table) grows first. *)
connections_get_new_connection(c) ==
    /\ \/ /\ used < size
          /\ UNCHANGED <<ptr, size>>
       \/ /\ used = size
          /\ \E f \in Fresh : ptr' = Grown(f)
          /\ size' = size + Block
    /\ c = ptr'[used]
    /\ ndx' = [ndx EXCEPT ![c] = used]
    /\ used' = used + 1

(* Mutants of connection_del: the object that moved keeps its old index; there
   is no swap at all. *)
Del_StaleNdx(c) ==
    IF ndx[c] = -1
    THEN UNCHANGED tableVars
    ELSE /\ ptr' = [ptr EXCEPT ![ndx[c]] = ptr[used - 1], ![used - 1] = c]
         /\ ndx' = [ndx EXCEPT ![c] = -1]
         /\ used' = used - 1
         /\ UNCHANGED size

Del_NoSwap(c) ==
    IF ndx[c] = -1
    THEN UNCHANGED tableVars
    ELSE /\ ndx' = [ndx EXCEPT ![c] = -1]
         /\ used' = used - 1
         /\ UNCHANGED <<ptr, size>>

(* Take an open connection out of the table: the last open one moves into
   its slot.  An object that is not in the table is left alone. *)
connection_del(c) ==
    LET i == ndx[c]
        last == used - 1
    IN  IF i = -1
        THEN UNCHANGED tableVars
        ELSE /\ ptr' = [ptr EXCEPT ![i] = ptr[last], ![last] = ptr[i]]
             /\ ndx' = [ndx EXCEPT ![ptr[last]] = i, ![ptr[i]] = -1, ![c] = -1]
             /\ used' = used - 1
             /\ UNCHANGED size

TableNext ==
    \E c \in Con : connections_get_new_connection(c) \/ connection_del(c)

TableSpec == TableInit /\ [][TableNext]_tableVars

----------------------------------------------------------------------------
(* Type correctness: used never passes size, and the array is as long as
   size says. *)
TableTypeOK ==
    /\ size \in Nat
    /\ used \in 0 .. size
    /\ ptr \in [0 .. size - 1 -> Con]
    /\ ndx \in [Con -> {-1} \cup 0 .. size - 1]

(* No connection object occupies two slots: handing out conns->ptr[used]
   never hands out an object that is open already. *)
NoSharedSlot ==
    \A i, j \in 0 .. size - 1 : ptr[i] = ptr[j] => i = j

(* con->ndx and the table agree, also after the swap in connection_del: a
   slot below used holds an object that knows its slot, and an object that
   has an index is found there.  A wrong index would make the next close
   drop somebody else's connection. *)
NdxInverse ==
    /\ \A i \in 0 .. used - 1 : ndx[ptr[i]] = i
    /\ \A c \in Con : ndx[c] # -1 => ndx[c] < used /\ ptr[ndx[c]] = c

(* The invariant as a whole; it is inductive. *)
TableInv == TableTypeOK /\ NoSharedSlot /\ NdxInverse

TableSet == INSTANCE ConnSet WITH held <- Held, listed <- Open

(* The table, with all its growing and swapping, implements a set: a connection
   that is handed out was not open, and closing one removes it, no other, from
   the walk over the table. *)
ImplementsConnSet == TableSet!Spec
=============================================================================
