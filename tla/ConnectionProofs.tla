-------------------------- MODULE ConnectionProofs --------------------------
(***************************************************************************)
(* The connections of the server: what their table keeps, for any number   *)
(* of connection objects and any growth step, and that it implements a set *)
(* of connections; and what the handlers of one connection leave alone,    *)
(* whatever the client, the backend and the plugins do: its socket, and    *)
(* the balance between the descriptor of its backend and what is added to  *)
(* srv->cur_fds.                                                           *)
(***************************************************************************)
EXTENDS ConnTable, Connection, TLAPS

----------------------------------------------------------------------------
(* The table *)

(* An accepted connection (connections_get_new_connection) keeps the table
   consistent, whether or not the array has to grow first. *)
LEMMA NewPreservesInv ==
    ASSUME TableInv, NEW c \in Con, connections_get_new_connection(c)
    PROVE  TableInv'
<1> USE BlockAssumption
<1>1. CASE used < size /\ UNCHANGED <<ptr, size>>
  <2>1. TableTypeOK'
    BY <1>1 DEF TableInv, TableTypeOK, connections_get_new_connection
  <2>2. NoSharedSlot'
    BY <1>1 DEF TableInv, NoSharedSlot
  <2>3. NdxInverse'
    BY <1>1 DEF TableInv, TableTypeOK, NoSharedSlot, NdxInverse,
                connections_get_new_connection
  <2> QED BY <2>1, <2>2, <2>3 DEF TableInv
<1>2. CASE used = size /\ (\E f \in Fresh : ptr' = Grown(f)) /\ size' = size + Block
  <2>1. PICK f \in Fresh : ptr' = Grown(f)
    BY <1>2
  <2>2. /\ size \in Nat /\ used = size /\ size' = size + Block
        /\ ptr \in [0 .. size - 1 -> Con]
        /\ ndx \in [Con -> {-1} \cup 0 .. size - 1]
    BY <1>2 DEF TableInv, TableTypeOK
  <2>3. /\ f \in [size .. size + Block - 1 -> Con]
        /\ \A i \in size .. size + Block - 1 : f[i] \in Con
        /\ \A i \in size .. size + Block - 1 : \A j \in 0 .. size - 1 : f[i] # ptr[j]
        /\ \A i, j \in size .. size + Block - 1 : f[i] = f[j] => i = j
    BY <2>1 DEF Fresh
  <2>4. /\ \A i \in 0 .. size - 1 : ptr'[i] = ptr[i]
        /\ \A i \in size .. size + Block - 1 : ptr'[i] = f[i]
    BY <2>1, <2>2 DEF Grown
  <2>5. ptr' \in [0 .. size' - 1 -> Con]
    BY <2>1, <2>2, <2>3 DEF Grown
  <2>6. /\ c = f[size]
        /\ ndx' = [ndx EXCEPT ![c] = size]
        /\ used' = size + 1
    BY <2>2, <2>4 DEF connections_get_new_connection
  <2>7. TableTypeOK'
    BY <2>2, <2>5, <2>6 DEF TableTypeOK
  <2>8. NoSharedSlot'
    <3> SUFFICES ASSUME NEW i \in 0 .. size + Block - 1,
                        NEW j \in 0 .. size + Block - 1,
                        ptr'[i] = ptr'[j]
                 PROVE  i = j
      BY <2>2 DEF NoSharedSlot
    <3>1. CASE i < size /\ j < size
      BY <3>1, <2>2, <2>4 DEF TableInv, NoSharedSlot
    <3>2. CASE i >= size \/ j >= size
      BY <3>2, <2>2, <2>3, <2>4
    <3> QED BY <3>1, <3>2, <2>2
  <2>9. NdxInverse'
    <3>1. \A j \in 0 .. size - 1 : ptr[j] # c
      BY <2>2, <2>3, <2>6
    <3>2. /\ \A i \in 0 .. size - 1 : ndx[ptr[i]] = i
          /\ \A d \in Con : ndx[d] # -1 => ndx[d] < size /\ ptr[ndx[d]] = d
      BY <2>2 DEF TableInv, NdxInverse
    <3>3. \A i \in 0 .. size : ndx'[ptr'[i]] = i
      BY <2>2, <2>4, <2>6, <3>1, <3>2
    <3>4. \A d \in Con : ndx'[d] # -1 => ndx'[d] < size + 1 /\ ptr'[ndx'[d]] = d
      BY <2>2, <2>4, <2>6, <3>1, <3>2
    <3> QED BY <2>2, <2>6, <3>3, <3>4 DEF NdxInverse
  <2> QED BY <2>7, <2>8, <2>9 DEF TableInv
<1> QED BY <1>1, <1>2 DEF connections_get_new_connection

(* A closed connection (connection_del) leaves a consistent table, the
   connection swapped into its slot included. *)
LEMMA DelPreservesInv ==
    ASSUME TableInv, NEW c \in Con, connection_del(c)
    PROVE  TableInv'
<1>1. CASE ndx[c] = -1
  BY <1>1 DEF connection_del, tableVars, TableInv, TableTypeOK, NoSharedSlot, NdxInverse
<1>2. CASE ndx[c] # -1
  <2> DEFINE i == ndx[c]
             last == used - 1
  <2>1. /\ size \in Nat /\ used \in 0 .. size /\ ptr \in [0 .. size - 1 -> Con]
        /\ ndx \in [Con -> {-1} \cup 0 .. size - 1]
        /\ i \in 0 .. last /\ last \in 0 .. size - 1 /\ ptr[i] = c
    BY <1>2 DEF TableInv, TableTypeOK, NdxInverse
  <2>2. /\ ptr' = [ptr EXCEPT ![i] = ptr[last], ![last] = c]
        /\ ndx' = [ndx EXCEPT ![ptr[last]] = i, ![c] = -1]
        /\ used' = used - 1 /\ size' = size
    BY <1>2, <2>1 DEF connection_del
  <2> HIDE DEF i, last
  <2>3. TableTypeOK'
    BY <2>1, <2>2 DEF TableTypeOK, last
  <2>4. NoSharedSlot'
    BY <2>1, <2>2 DEF NoSharedSlot, TableInv
  <2>5. NdxInverse'
    <3>1. /\ \A k \in 0 .. last : ndx[ptr[k]] = k
          /\ \A d \in Con : ndx[d] # -1 => ndx[d] <= last /\ ptr[ndx[d]] = d
      BY <2>1 DEF TableInv, NdxInverse, last
    <3>2. \A k \in 0 .. last - 1 : ndx'[ptr'[k]] = k
      BY <2>1, <2>2, <3>1
    <3>3. \A d \in Con : ndx'[d] # -1 => ndx'[d] < last /\ ptr'[ndx'[d]] = d
      BY <2>1, <2>2, <3>1
    <3> QED BY <2>1, <2>2, <3>2, <3>3 DEF NdxInverse, last
  <2> QED BY <2>3, <2>4, <2>5 DEF TableInv
<1> QED BY <1>1, <1>2

(* Every reachable table is consistent: used stays within size, no object
   sits in two slots, and every open connection knows its own slot. *)
THEOREM TableInvariant == TableSpec => []TableInv
<1>1. TableInit => TableInv
  BY DEF TableInit, TableInv, TableTypeOK, NoSharedSlot, NdxInverse
<1>2. TableInv /\ [TableNext]_tableVars => TableInv'
  <2> SUFFICES ASSUME TableInv, [TableNext]_tableVars PROVE TableInv'
    OBVIOUS
  <2>1. CASE TableNext
    BY <2>1, NewPreservesInv, DelPreservesInv DEF TableNext
  <2>2. CASE UNCHANGED tableVars
    BY <2>2 DEF tableVars, TableInv, TableTypeOK, NoSharedSlot, NdxInverse
  <2> QED BY <2>1, <2>2
<1> QED BY <1>1, <1>2, PTL DEF TableSpec

(* The parts of the invariant the rest of the server relies on: the object
   that connections_get_new_connection() hands out is not open already ... *)
THEOREM NoSharing == TableSpec => []NoSharedSlot
BY TableInvariant, PTL DEF TableInv

(* ... and connection_del() finds the connection it is to remove. *)
THEOREM IndexIsInverse == TableSpec => []NdxInverse
BY TableInvariant, PTL DEF TableInv

(* The table implements the set of connections (ConnSet): a new connection
   was not open before, and closing one removes it and no other, although
   the code moves a second connection to another slot. *)
THEOREM TableImplementsSet == TableSpec => ImplementsConnSet
<1>1. TableInit => TableSet!Init
  BY DEF TableInit, TableSet!Init, Open, Held
<1>2. ASSUME TableInv, TableInv', [TableNext]_tableVars
      PROVE  [TableSet!Next]_<<Held, Open>>
  <2>a. Held = Open
    BY <1>2 DEF TableInv, TableTypeOK, NdxInverse, Held, Open
  <2>b. Held' = Open'
    BY <1>2 DEF TableInv, TableTypeOK, NdxInverse, Held, Open
  <2>1. ASSUME NEW c \in Con, connections_get_new_connection(c)
        PROVE  TableSet!Add(c)
    <3>1. /\ size \in Nat /\ used \in 0 .. size
          /\ used' = used + 1 /\ c = ptr'[used]
          /\ (size' = size /\ used < size) \/ size' = size + Block
      BY <1>2, <2>1 DEF TableInv, TableTypeOK, connections_get_new_connection
    <3>2. \A i \in 0 .. used - 1 : ptr'[i] = ptr[i]
      <4>1. CASE UNCHANGED <<ptr, size>>
        BY <4>1
      <4>2. CASE \E f \in Fresh : ptr' = Grown(f)
        BY <4>2, <3>1, BlockAssumption DEF Grown
      <4> QED BY <2>1, <4>1, <4>2 DEF connections_get_new_connection
    <3>3. c \notin Open
      <4> SUFFICES ASSUME NEW i \in 0 .. used - 1, ptr[i] = c PROVE FALSE
        BY DEF Open
      <4>1. ptr'[i] = ptr'[used]
        BY <3>1, <3>2
      <4>2. i # used /\ i \in 0 .. size' - 1 /\ used \in 0 .. size' - 1
        BY <3>1, BlockAssumption
      <4> QED BY <4>1, <4>2, <1>2 DEF TableInv, NoSharedSlot
    <3>4. Open' = Open \cup {c}
      BY <3>1, <3>2 DEF Open
    <3> QED BY <2>a, <2>b, <3>3, <3>4 DEF TableSet!Add
  <2>2. ASSUME NEW c \in Con, connection_del(c), ndx[c] # -1
        PROVE  TableSet!Remove(c)
    <3> DEFINE i == ndx[c]
               last == used - 1
    <3>1. /\ size \in Nat /\ used \in 0 .. size /\ ptr \in [0 .. size - 1 -> Con]
          /\ i \in 0 .. last /\ last \in 0 .. size - 1 /\ ptr[i] = c
      BY <1>2, <2>2 DEF TableInv, TableTypeOK, NdxInverse
    <3>2. /\ ptr' = [ptr EXCEPT ![i] = ptr[last], ![last] = c]
          /\ used' = last
      BY <2>2, <3>1 DEF connection_del
    <3> HIDE DEF i
    <3>3. c \in Open
      BY <3>1 DEF Open
    <3>4. \A k, m \in 0 .. last : ptr[k] = ptr[m] => k = m
      BY <1>2, <3>1 DEF TableInv, NoSharedSlot
    <3>5. ASSUME NEW d \in Open' PROVE d \in Open /\ d # c
      <4>1. PICK k \in 0 .. last - 1 : d = ptr'[k]
        BY <3>2, <3>5 DEF Open
      <4>2. PICK m \in 0 .. last : d = ptr[m] /\ m # i
        BY <4>1, <3>1, <3>2, <3>4
      <4> QED BY <4>2, <3>1, <3>4 DEF Open
    <3>6. ASSUME NEW d \in Open, d # c PROVE d \in Open'
      <4>1. PICK k \in 0 .. last : d = ptr[k] /\ k # i
        BY <3>1, <3>6 DEF Open
      <4>2. PICK m \in 0 .. last - 1 : d = ptr'[m]
        BY <4>1, <3>1, <3>2
      <4> QED BY <4>2, <3>2 DEF Open
    <3>7. Open' = Open \ {c}
      BY <3>5, <3>6
    <3> QED BY <2>a, <2>b, <3>3, <3>7 DEF TableSet!Remove
  <2>3. ASSUME NEW c \in Con, connection_del(c), ndx[c] = -1
        PROVE  UNCHANGED <<Held, Open>>
    BY <2>3 DEF connection_del, tableVars, Open, Held
  <2>4. CASE UNCHANGED tableVars
    BY <2>4 DEF tableVars, Open, Held
  <2>5. CASE TableNext
    <3>1. PICK c \in Con : connections_get_new_connection(c) \/ connection_del(c)
      BY <2>5 DEF TableNext
    <3> QED BY <3>1, <2>1, <2>2, <2>3 DEF TableSet!Next
  <2> QED BY <2>4, <2>5, <1>2
<1> QED BY <1>1, <1>2, TableInvariant, PTL DEF TableSpec, ImplementsConnSet, TableSet!Spec

----------------------------------------------------------------------------
(* The handlers *)

(* A handler takes the open connection r to x and adds d to srv->cur_fds: the socket stays as it
   is, the connection is not kept alive if it was not to be, the state is one of S or the same,
   and d accounts for the descriptor of the backend. *)
Handled(r, x, d, S) ==
    /\ x \in Connections
    /\ x.fd = r.fd /\ x.polled = r.polled /\ x.count = r.count
    /\ x.ka => r.ka
    /\ x.state = r.state \/ x.state \in S
    /\ d = Fds(x.bfd) - Fds(r.bfd)

LEMMA FdsType == ASSUME NEW b \in BOOLEAN PROVE Fds(b) \in Int
BY DEF Fds

LEMMA ConnectionFields ==
    ASSUME NEW r \in Connections
    PROVE  /\ r.state \in ConState /\ r.rq \in Queue /\ r.bfd \in BOOLEAN /\ r.fd \in BOOLEAN
           /\ r.count \in Int /\ r.tries \in 0 .. reconnects
           /\ r.rage \in 0 .. Bigger(max_read_idle, max_keep_alive_idle) + 1
           /\ r.wage \in -1 .. max_write_idle + 1
           /\ r.cage \in 0 .. HTTP_LINGER_TIMEOUT + 1
           /\ r.ev \in SUBSET {"IN", "OUT"}
           /\ r.status \in {"none", "ok", "404", "error"}
BY TimeoutAssumption DEF Connections

LEMMA Nothing == ASSUME NEW r \in Connections, NEW S PROVE Handled(r, r, 0, S)
<1>1. Fds(r.bfd) \in Int
  BY FdsType, ConnectionFields
<1>2. QED
  BY <1>1 DEF Handled

(* A handler that touches neither the socket nor the descriptor of the backend. *)
LEMMA SameSocket ==
    ASSUME NEW r \in Connections, NEW x \in Connections, NEW S,
           x.fd = r.fd, x.polled = r.polled, x.count = r.count, x.ka => r.ka, x.bfd = r.bfd,
           x.state = r.state \/ x.state \in S
    PROVE  Handled(r, x, 0, S)
<1>1. Fds(r.bfd) \in Int
  BY FdsType, ConnectionFields
<1>2. QED
  BY <1>1 DEF Handled

(* Handlers that call each other. *)
LEMMA InTurn ==
    ASSUME NEW r \in Connections, NEW x, NEW y, NEW d, NEW e, NEW S,
           Handled(r, x, d, S), Handled(x, y, e, S)
    PROVE  Handled(r, y, d + e, S)
<1>1. Fds(r.bfd) \in Int /\ Fds(x.bfd) \in Int /\ Fds(y.bfd) \in Int
  BY FdsType, ConnectionFields DEF Handled
<1>2. QED
  BY <1>1 DEF Handled

(* connection_handle_read() *)
LEMMA ReadHandled ==
    ASSUME NEW r \in Connections, NEW o \in connection_handle_read(r), NEW S, "ERROR" \in S
    PROVE  Handled(r, o.con, 0, S)
<1>1. PICK res \in ReadResults : \E q \in Received(r.rq, res) :
         o = Out([r EXCEPT !.rd = res \in {"intr", "full"}, !.rq = q,
                           !.state = IF res = "error" THEN "ERROR" ELSE @], res, 0)
  BY DEF connection_handle_read
<1>a. PICK q \in Received(r.rq, res) :
         o = Out([r EXCEPT !.rd = res \in {"intr", "full"}, !.rq = q,
                           !.state = IF res = "error" THEN "ERROR" ELSE @], res, 0)
  BY <1>1
<1> DEFINE b == res \in {"intr", "full"}
           s == IF res = "error" THEN "ERROR" ELSE r.state
<1>2. b \in BOOLEAN
  OBVIOUS
<1>3. s \in ConState /\ s \in {r.state, "ERROR"}
  BY ConnectionFields DEF ConState
<1>4. q \in Queue
  BY ConnectionFields DEF Received, Queue
<1> HIDE DEF b
<1>5. o.con = [r EXCEPT !.rd = b, !.rq = q, !.state = s] 
  BY <1>a DEF Out, b
<1> HIDE DEF s
<1>6. [r EXCEPT !.rd = b, !.rq = q, !.state = s] \in Connections
  BY <1>2, <1>3, <1>4 DEF Connections
<1>7. /\ o.con.fd = r.fd /\ o.con.polled = r.polled /\ o.con.count = r.count
      /\ o.con.ka = r.ka /\ o.con.bfd = r.bfd /\ o.con.state = s
  BY <1>5 DEF Connections
<1>8. Fds(r.bfd) \in Int
  BY FdsType, ConnectionFields
<1>9. QED
  BY <1>3, <1>5, <1>6, <1>7, <1>8 DEF Handled

(* ScanHeader() *)
LEMMA ScanHandled ==
    ASSUME NEW r \in Connections, NEW closed, NEW x \in ScanHeader(r, closed),
           NEW S, {"REQUEST_END", "ERROR", "HANDLE_REQUEST"} \subseteq S
    PROVE  Handled(r, x, 0, S)
<1> USE ConnectionFields
<1>0. Fds(r.bfd) \in Int
  BY FdsType
<1>1. ASSUME NEW q \in Pipelined, x = [r EXCEPT !.state = "REQUEST_END", !.rq = q]
      PROVE  Handled(r, x, 0, S)
  <2>1. q \in Queue /\ "REQUEST_END" \in ConState
    BY ChoiceAssumption DEF Queue, ConState
  <2>2. [r EXCEPT !.state = "REQUEST_END", !.rq = q] \in Connections
    BY <2>1 DEF Connections
  <2>3. x.fd = r.fd /\ x.polled = r.polled /\ x.count = r.count /\ x.ka = r.ka /\ x.bfd = r.bfd
        /\ x.state = "REQUEST_END"
    BY <1>1 DEF Connections
  <2>4. QED
    BY <1>0, <1>1, <2>2, <2>3 DEF Handled
<1>2. ASSUME x = [r EXCEPT !.state = "ERROR"]
      PROVE  Handled(r, x, 0, S)
  <2>1. "ERROR" \in ConState
    BY DEF ConState
  <2>2. [r EXCEPT !.state = "ERROR"] \in Connections
    BY <2>1 DEF Connections
  <2>3. x.fd = r.fd /\ x.polled = r.polled /\ x.count = r.count /\ x.ka = r.ka /\ x.bfd = r.bfd
        /\ x.state = "ERROR"
    BY <1>2 DEF Connections
  <2>4. QED
    BY <1>0, <1>2, <2>2, <2>3 DEF Handled
<1>3. ASSUME x = [r EXCEPT !.state = "HANDLE_REQUEST", !.status = "error", !.ka = FALSE]
      PROVE  Handled(r, x, 0, S)
  <2>1. "HANDLE_REQUEST" \in ConState
    BY DEF ConState
  <2>2. [r EXCEPT !.state = "HANDLE_REQUEST", !.status = "error", !.ka = FALSE] \in Connections
    BY <2>1 DEF Connections
  <2>3. x.fd = r.fd /\ x.polled = r.polled /\ x.count = r.count /\ x.ka = FALSE /\ x.bfd = r.bfd
        /\ x.state = "HANDLE_REQUEST"
    BY <1>3 DEF Connections
  <2>4. QED
    BY <1>0, <1>3, <2>2, <2>3 DEF Handled
<1>4. CASE r.rq = "full"
  BY <1>1, <1>4 DEF ScanHeader
<1>5. CASE r.rq # "full"
  <2>1. \/ x = [r EXCEPT !.state = IF closed THEN "ERROR" ELSE @]
        \/ x = [r EXCEPT !.state = "HANDLE_REQUEST", !.status = "error", !.ka = FALSE]
    BY <1>5 DEF ScanHeader
  <2>2. CASE x = [r EXCEPT !.state = IF closed THEN "ERROR" ELSE @] /\ ~closed
    <3>1. x = r
      BY <2>2 DEF Connections
    <3>2. QED
      BY <3>1, Nothing
  <2>3. QED
    BY <1>2, <1>3, <2>1, <2>2
<1>6. QED
  BY <1>4, <1>5

LEMMA RageReset ==
    ASSUME NEW r \in Connections, NEW S
    PROVE  Handled(r, [r EXCEPT !.rage = 0], 0, S)
<1>1. 0 \in 0 .. Bigger(max_read_idle, max_keep_alive_idle) + 1 /\ Fds(r.bfd) \in Int
  BY TimeoutAssumption, FdsType, ConnectionFields DEF Bigger
<1>2. [r EXCEPT !.rage = 0] \in Connections
  BY <1>1 DEF Connections
<1>3. QED
  BY <1>1, <1>2 DEF Handled, Connections

(* connection_handle_read_state() *)
LEMMA ReadStateHandled ==
    ASSUME NEW r \in Connections, NEW x \in connection_handle_read_state(r),
           NEW S, {"REQUEST_END", "ERROR", "HANDLE_REQUEST"} \subseteq S
    PROVE  Handled(r, x, 0, S)
<1>1. CASE ~r.rd
  BY <1>1, ScanHandled DEF connection_handle_read_state
<1>2. CASE r.rd
  <2> DEFINE r0 == [r EXCEPT !.rage = 0]
  <2>1. Handled(r, r0, 0, S)
    BY RageReset
  <2>2. PICK o \in connection_handle_read(r0) :
           x \in IF o.ret = "error" THEN {o.con} ELSE ScanHeader(o.con, o.ret = "eof")
    BY <1>2 DEF connection_handle_read_state
  <2> HIDE DEF r0
  <2>3. r0 \in Connections
    BY <2>1 DEF Handled
  <2>4. Handled(r0, o.con, 0, S)
    BY <2>3, ReadHandled
  <2>5. o.con \in Connections
    BY <2>4 DEF Handled
  <2>6. Handled(o.con, x, 0, S)
    <3>1. CASE o.ret = "error"
      BY <3>1, <2>2, <2>5, Nothing
    <3>2. CASE o.ret # "error"
      <4>1. x \in ScanHeader(o.con, o.ret = "eof")
        BY <3>2, <2>2
      <4>2. QED
        BY <4>1, <2>5, ScanHandled
    <3>3. QED
      BY <3>1, <3>2
  <2>7. Handled(r0, x, 0 + 0, S)
    BY <2>3, <2>4, <2>6, InTurn
  <2>8. Handled(r, x, 0 + (0 + 0), S)
    BY <2>1, <2>7, InTurn
  <2>9. QED
    BY <2>8
<1>3. QED
  BY <1>1, <1>2

(* http_request_parse(): here alone a connection may become one to be kept alive. *)
LEMMA ParseTyped ==
    ASSUME NEW r \in Connections, NEW x \in http_request_parse(r)
    PROVE  /\ x \in Connections /\ x.state \in {"HANDLE_REQUEST", "READ_POST"}
           /\ x.fd = r.fd /\ x.polled = r.polled /\ x.count = r.count /\ x.bfd = r.bfd
<1>1. PICK req \in Requests, keep \in BOOLEAN : x = Parsed(r, req, keep)
  BY DEF http_request_parse
<1>2. "HANDLE_REQUEST" \in ConState /\ "READ_POST" \in ConState
  BY DEF ConState
<1>3. CASE x = [r EXCEPT !.state = "HANDLE_REQUEST", !.status = "error", !.ka = FALSE]
  BY <1>2, <1>3, ZenonT(40) DEF Connections
<1>4. CASE x = [r EXCEPT !.state = "HANDLE_REQUEST", !.ka = keep]
  BY <1>2, <1>4 DEF Connections
<1>5. CASE x = [r EXCEPT !.state = "READ_POST", !.ka = keep, !.len = TRUE, !.unread = TRUE]
  BY <1>2, <1>5, ZenonT(40) DEF Connections
<1>6. QED
  BY <1>1, <1>3, <1>4, <1>5, ChoiceAssumption DEF Parsed

(* connection_handle_read_post_state() *)
LEMMA PostBytesHandled ==
    ASSUME NEW r \in Connections, NEW closed, NEW fresh, NEW o \in PostBytes(r, closed, fresh),
           NEW S, {"ERROR", "HANDLE_REQUEST"} \subseteq S
    PROVE  Handled(r, o.con, 0, S) /\ o.dfd = 0
<1>0. Fds(r.bfd) \in Int /\ r.state \in ConState /\ r.rq \in Queue /\ "none" \in Queue
      /\ "HANDLE_REQUEST" \in ConState
  BY FdsType, ConnectionFields DEF Queue, ConState
<1>1. ASSUME NEW q \in Queue,
             o = Out([r EXCEPT !.unread = @ /\ ~Due(r), !.rq = q, !.pollin = FALSE,
                               !.state = IF @ = "READ_POST" THEN "HANDLE_REQUEST" ELSE @], "GO_ON", 0)
      PROVE  Handled(r, o.con, 0, S) /\ o.dfd = 0
  <2> DEFINE b == r.unread /\ ~Due(r)
             s == IF r.state = "READ_POST" THEN "HANDLE_REQUEST" ELSE r.state
  <2>1. b \in BOOLEAN
    OBVIOUS
  <2>2. s \in ConState /\ (s = r.state \/ s \in S)
    BY <1>0
  <2>3. o.con = [r EXCEPT !.unread = b, !.rq = q, !.pollin = FALSE, !.state = s] /\ o.dfd = 0
    BY <1>1 DEF Out
  <2> HIDE DEF b, s
  <2>4. [r EXCEPT !.unread = b, !.rq = q, !.pollin = FALSE, !.state = s] \in Connections
    BY <2>1, <2>2 DEF Connections
  <2>5. o.con.fd = r.fd /\ o.con.polled = r.polled /\ o.con.count = r.count
        /\ o.con.ka = r.ka /\ o.con.bfd = r.bfd /\ o.con.state = s
    BY <2>3 DEF Connections
  <2>6. QED
    BY <1>0, <2>2, <2>3, <2>4, <2>5 DEF Handled
<1>2. ASSUME o = Out([r EXCEPT !.rq = "none"], "ERROR", 0)
      PROVE  Handled(r, o.con, 0, S) /\ o.dfd = 0
  <2>1. o.con = [r EXCEPT !.rq = "none"] /\ o.dfd = 0
    BY <1>2 DEF Out
  <2>2. [r EXCEPT !.rq = "none"] \in Connections
    BY <1>0 DEF Connections
  <2>3. QED
    BY <1>0, <2>1, <2>2 DEF Handled, Connections
<1>3. ASSUME NEW ret, o = Out([r EXCEPT !.rq = "none", !.pollin = TRUE], ret, 0)
      PROVE  Handled(r, o.con, 0, S) /\ o.dfd = 0
  <2>1. o.con = [r EXCEPT !.rq = "none", !.pollin = TRUE] /\ o.dfd = 0
    BY <1>3 DEF Out
  <2>2. [r EXCEPT !.rq = "none", !.pollin = TRUE] \in Connections
    BY <1>0 DEF Connections
  <2>3. QED
    BY <1>0, <2>1, <2>2 DEF Handled, Connections
<1>4. ASSUME o = Out([r EXCEPT !.rq = "none", !.status = "error", !.ka = FALSE, !.mode = "direct",
                               !.wq = FALSE], "FINISHED", 0)
      PROVE  Handled(r, o.con, 0, S) /\ o.dfd = 0
  <2> DEFINE x == [r EXCEPT !.rq = "none", !.status = "error", !.ka = FALSE, !.mode = "direct",
                            !.wq = FALSE]
  <2>1. o.con = x /\ o.dfd = 0
    BY <1>4 DEF Out
  <2>2. x \in Connections
    BY <1>0 DEF Connections
  <2>3. x.fd = r.fd /\ x.polled = r.polled /\ x.count = r.count /\ ~x.ka /\ x.bfd = r.bfd
        /\ x.state = r.state
    BY DEF Connections
  <2>4. QED
    BY <1>0, <2>1, <2>2, <2>3 DEF Handled
<1>5. Pipelined \subseteq Queue
  BY ChoiceAssumption DEF Queue
<1>6. QED
  BY <1>0, <1>1, <1>2, <1>3, <1>4, <1>5 DEF PostBytes

LEMMA ReadPostHandled ==
    ASSUME NEW r \in Connections, NEW o \in connection_handle_read_post_state(r),
           NEW S, {"ERROR", "HANDLE_REQUEST"} \subseteq S
    PROVE  Handled(r, o.con, 0, S) /\ o.dfd = 0
<1>1. CASE ~r.rd
  BY <1>1, PostBytesHandled DEF connection_handle_read_post_state
<1>2. CASE r.rd
  <2> DEFINE r0 == [r EXCEPT !.rage = 0]
  <2>1. Handled(r, r0, 0, S)
    BY RageReset
  <2>2. PICK p \in connection_handle_read(r0) :
           o \in IF p.ret = "error" THEN {Out(p.con, "ERROR", 0)}
                 ELSE PostBytes(p.con, p.ret = "eof", p.ret \in {"short", "full"})
    BY <1>2 DEF connection_handle_read_post_state
  <2> HIDE DEF r0
  <2>3. r0 \in Connections
    BY <2>1 DEF Handled
  <2>4. Handled(r0, p.con, 0, S)
    BY <2>3, ReadHandled
  <2>5. p.con \in Connections
    BY <2>4 DEF Handled
  <2>6. Handled(p.con, o.con, 0, S) /\ o.dfd = 0
    <3>1. CASE p.ret = "error"
      BY <3>1, <2>2, <2>5, Nothing DEF Out
    <3>2. CASE p.ret # "error"
      <4>1. o \in PostBytes(p.con, p.ret = "eof", p.ret \in {"short", "full"})
        BY <3>2, <2>2
      <4>2. QED
        BY <4>1, <2>5, PostBytesHandled
    <3>3. QED
      BY <3>1, <3>2
  <2>7. Handled(r, p.con, 0 + 0, S)
    BY <2>1, <2>4, InTurn
  <2>8. Handled(r, o.con, 0 + 0 + 0, S)
    BY <2>6, <2>7, InTurn
  <2>9. QED
    BY <2>6, <2>8
<1>3. QED
  BY <1>1, <1>2

----------------------------------------------------------------------------
(* The backend modules *)

LEMMA BackendDoneHandled ==
    ASSUME NEW r \in Connections, NEW x \in http_response_backend_done(r), NEW S
    PROVE  Handled(r, x, 0, S) /\ x.bfd = r.bfd
<1>1. \/ x = [r EXCEPT !.status = "error", !.mode = "direct"]
      \/ x = [r EXCEPT !.fin = TRUE]
      \/ x = [r EXCEPT !.fin = TRUE, !.wq = TRUE]
      \/ x = r
  BY DEF http_response_backend_done
<1>2. /\ x \in Connections /\ x.fd = r.fd /\ x.polled = r.polled /\ x.count = r.count
      /\ x.ka = r.ka /\ x.bfd = r.bfd /\ x.state = r.state
  <2>1. CASE x = [r EXCEPT !.status = "error", !.mode = "direct"]
    BY <2>1 DEF Connections
  <2>2. CASE x = [r EXCEPT !.fin = TRUE]
    BY <2>2 DEF Connections
  <2>3. CASE x = [r EXCEPT !.fin = TRUE, !.wq = TRUE]
    BY <2>3 DEF Connections
  <2>4. QED
    BY <1>1, <2>1, <2>2, <2>3
<1>3. QED
  BY <1>2, SameSocket

LEMMA BackendErrorHandled ==
    ASSUME NEW r \in Connections, NEW S
    PROVE  /\ Handled(r, http_response_backend_error(r), 0, S)
           /\ http_response_backend_error(r).bfd = r.bfd
<1> DEFINE x == [r EXCEPT !.mode = "direct", !.ka = FALSE, !.fin = TRUE]
<1>0. /\ x \in Connections /\ x.fd = r.fd /\ x.polled = r.polled /\ x.count = r.count
      /\ ~x.ka /\ x.bfd = r.bfd /\ x.state = r.state
  BY DEF Connections
<1>1. Handled(r, x, 0, S)
  BY <1>0, SameSocket
<1> HIDE DEF x
<1>2. CASE r.started
  <2>1. http_response_backend_error(r) = x
    BY <1>2 DEF http_response_backend_error, x
  <2>2. QED
    BY <1>0, <1>1, <2>1
<1>3. CASE ~r.started
  BY <1>3, Nothing DEF http_response_backend_error
<1>4. QED
  BY <1>2, <1>3

(* The descriptor is closed, if one was open. *)
LEMMA BackendCloseHandled ==
    ASSUME NEW r \in Connections, NEW x \in backend_connection_close(r), NEW S
    PROVE  Handled(r, x, -Fds(r.bfd), S)
<1>0. Fds(r.bfd) \in Int /\ Fds(FALSE) = 0
  BY FdsType, ConnectionFields DEF Fds
<1> DEFINE y == [r EXCEPT !.hctx = FALSE, !.bfd = FALSE, !.tries = 0]
<1>a. 0 \in 0 .. reconnects
  BY TimeoutAssumption
<1>1. /\ y \in Connections /\ y.bfd = FALSE /\ y.fd = r.fd /\ y.polled = r.polled
      /\ y.count = r.count /\ y.ka = r.ka /\ y.state = r.state
  BY <1>a DEF Connections
<1>2. Handled(r, y, -Fds(r.bfd), S)
  <2>1. Fds(y.bfd) = 0
    BY <1>1 DEF Fds
  <2> HIDE DEF y
  <2>2. QED
    BY <1>0, <1>1, <2>1 DEF Handled
<1>3. x \in http_response_backend_done(y) \/ x = y
  BY DEF backend_connection_close
<1> HIDE DEF y
<1>4. Handled(y, x, 0, S)
  BY <1>1, <1>3, BackendDoneHandled, Nothing
<1>5. Handled(r, x, -Fds(r.bfd) + 0, S)
  BY <1>2, <1>4, InTurn
<1>6. QED
  BY <1>0, <1>5

(* backend_send_request(): a descriptor is opened, closed or neither, and counted so. *)
LEMMA SendRequestHandled ==
    ASSUME NEW r \in Connections, NEW o \in backend_send_request(r), NEW S
    PROVE  Handled(r, o.con, o.dfd, S)
<1>0. Fds(r.bfd) \in Int /\ Fds(FALSE) = 0 /\ Fds(TRUE) = 1
  BY FdsType, ConnectionFields DEF Fds
<1>1. ASSUME NEW ret, o = Out(r, ret, 0)
      PROVE  Handled(r, o.con, o.dfd, S)
  BY <1>1, Nothing DEF Out
<1>2. ASSUME ~r.bfd, o = Out([r EXCEPT !.bfd = TRUE], "WAIT_FOR_EVENT", 1)
      PROVE  Handled(r, o.con, o.dfd, S)
  <2>1. o.con = [r EXCEPT !.bfd = TRUE] /\ o.dfd = 1
    BY <1>2 DEF Out
  <2>2. Fds(r.bfd) = 0
    BY <1>2 DEF Fds
  <2>a. o.dfd = 1
    BY <2>1
  <2>3. o.con.bfd = TRUE
    BY <2>1 DEF Connections
  <2>b. Fds(o.con.bfd) = 1
    BY <2>3 DEF Fds
  <2>4. o.con \in Connections /\ o.con.fd = r.fd /\ o.con.polled = r.polled /\ o.con.count = r.count
        /\ o.con.ka = r.ka /\ o.con.state = r.state
    BY <2>1, ZenonT(40) DEF Connections
  <2>5. QED
    BY <2>2, <2>4, <2>a, <2>b DEF Handled
<1>3. ASSUME NEW x \in backend_connection_close(r),
             o = Out([x EXCEPT !.status = "error"], "FINISHED", -Fds(r.bfd))
      PROVE  Handled(r, o.con, o.dfd, S)
  <2>1. Handled(r, x, -Fds(r.bfd), S)
    BY <1>3, BackendCloseHandled
  <2>2. x \in Connections
    BY <2>1 DEF Handled
  <2>3. Fds(x.bfd) \in Int
    BY <2>2, FdsType, ConnectionFields
  <2>4. o.con = [x EXCEPT !.status = "error"] /\ o.dfd = -Fds(r.bfd)
    BY <1>3 DEF Out
  <2>5. Handled(x, o.con, 0, S)
    BY <2>2, <2>3, <2>4 DEF Handled, Connections
  <2>6. Handled(r, o.con, -Fds(r.bfd) + 0, S)
    BY <2>1, <2>5, InTurn
  <2>7. QED
    BY <1>0, <2>4, <2>6
<1>4. ASSUME o \in backend_reconnect(r)
      PROVE  Handled(r, o.con, o.dfd, S)
  <2>1. /\ r.tries < reconnects /\ o.con = [r EXCEPT !.bfd = FALSE, !.tries = @ + 1]
        /\ o.dfd = -Fds(r.bfd)
    BY <1>4 DEF backend_reconnect, Out
  <2>2. r.tries + 1 \in 0 .. reconnects
    BY <2>1, ConnectionFields, TimeoutAssumption
  <2> DEFINE n == r.tries + 1
             y == [r EXCEPT !.bfd = FALSE, !.tries = n]
  <2>a. o.dfd = -Fds(r.bfd)
    BY <2>1
  <2>3. o.con = y
    BY <2>1
  <2> HIDE DEF n
  <2>4. /\ y \in Connections /\ y.bfd = FALSE /\ y.fd = r.fd /\ y.polled = r.polled
        /\ y.count = r.count /\ y.ka = r.ka /\ y.state = r.state
    BY <2>2 DEF Connections, n
  <2>5. Fds(y.bfd) = 0
    BY <2>4 DEF Fds
  <2> HIDE DEF y
  <2>6. QED
    BY <2>a, <2>3, <2>4, <2>5, <1>0 DEF Handled
<1>5. QED
  BY <1>1, <1>2, <1>3, <1>4 DEF backend_send_request

LEMMA SubrequestHandled ==
    ASSUME NEW r \in Connections, NEW o \in plugins_call_handle_subrequest(r),
           NEW S, {"ERROR", "HANDLE_REQUEST"} \subseteq S
    PROVE  Handled(r, o.con, o.dfd, S)
<1>1. ASSUME o = Out(r, "GO_ON", 0)
      PROVE  Handled(r, o.con, o.dfd, S)
  BY <1>1, Nothing DEF Out
<1>2. ASSUME NEW p \in IF r.state = "READ_POST" \/ Due(r)
                       THEN connection_handle_read_post_state(r) ELSE {Out(r, "GO_ON", 0)},
             o \in IF p.ret = "GO_ON" THEN backend_send_request(p.con) ELSE {p}
      PROVE  Handled(r, o.con, o.dfd, S)
  <2>1. Handled(r, p.con, 0, S) /\ p.dfd = 0
    <3>1. CASE p = Out(r, "GO_ON", 0)
      BY <3>1, Nothing DEF Out
    <3>2. CASE p \in connection_handle_read_post_state(r)
      BY <3>2, ReadPostHandled
    <3>3. QED
      BY <1>2, <3>1, <3>2
  <2>2. CASE p.ret # "GO_ON"
    BY <1>2, <2>1, <2>2
  <2>3. CASE p.ret = "GO_ON"
    <3>1. p.con \in Connections
      BY <2>1 DEF Handled
    <3>2. Handled(p.con, o.con, o.dfd, S)
      BY <1>2, <2>3, <3>1, SendRequestHandled
    <3>3. Handled(r, o.con, 0 + o.dfd, S)
      BY <2>1, <3>2, InTurn
    <3>4. o.dfd \in Int
      BY <3>1, <3>2, FdsType, ConnectionFields DEF Handled
    <3>5. QED
      BY <3>1, <3>3, <3>4
  <2>4. QED
    BY <2>2, <2>3
<1>3. QED
  BY <1>1, <1>2 DEF plugins_call_handle_subrequest

(* The backend module never returns HANDLER_GO_ON once it was reached. *)
LEMMA BackendGoesOn ==
    ASSUME NEW r \in Connections, NEW o \in plugins_call_handle_subrequest(r), o.ret = "GO_ON"
    PROVE  o.dfd = 0
<1>1. ASSUME NEW x, NEW q \in backend_send_request(x) PROVE q.ret # "GO_ON"
  BY <1>1 DEF backend_send_request, backend_reconnect, Out
<1>2. CASE o = Out(r, "GO_ON", 0)
  BY <1>2 DEF Out
<1>3. ASSUME NEW p \in IF r.state = "READ_POST" \/ Due(r)
                       THEN connection_handle_read_post_state(r) ELSE {Out(r, "GO_ON", 0)},
             o \in IF p.ret = "GO_ON" THEN backend_send_request(p.con) ELSE {p}
      PROVE  o.dfd = 0
  <2>1. (p.ret # "GO_ON" /\ o = p) \/ o \in backend_send_request(p.con)
    BY <1>3
  <2>2. QED
    BY <1>1, <2>1
<1>4. QED
  BY <1>2, <1>3 DEF plugins_call_handle_subrequest

(* backend_handle_fdevent() *)
LEMMA BackendEventHandled ==
    ASSUME NEW r \in Connections, NEW o \in backend_handle_fdevent(r), NEW S
    PROVE  Handled(r, o.con, o.dfd, S)
<1> DEFINE more == [r EXCEPT !.started = TRUE, !.wq = TRUE]
<1>1. /\ more \in Connections /\ more.fd = r.fd /\ more.polled = r.polled
      /\ more.count = r.count /\ more.ka = r.ka /\ more.state = r.state /\ more.bfd = r.bfd
  BY DEF Connections
<1> HIDE DEF more
<1>2. Handled(r, more, 0, S)
  BY <1>1, SameSocket
<1>3. Fds(r.bfd) \in Int
  BY FdsType, ConnectionFields
<1>4. ASSUME NEW x, NEW ret, NEW y \in Connections, Handled(r, y, 0, S), y.bfd = r.bfd,
             x \in backend_connection_close(y), o = Out(x, ret, -Fds(r.bfd))
      PROVE  Handled(r, o.con, o.dfd, S)
  <2>1. Handled(y, x, -Fds(r.bfd), S)
    BY <1>4, BackendCloseHandled
  <2>2. Handled(r, x, 0 + -Fds(r.bfd), S)
    BY <1>4, <2>1, InTurn
  <2>3. QED
    BY <1>3, <1>4, <2>2 DEF Out
<1>5. CASE o = Out(r, "GO_ON", 0) \/ o = Out(more, "GO_ON", 0)
  BY <1>2, <1>5, Nothing DEF Out
<1>6. CASE o \in {Out(x, "FINISHED", -Fds(r.bfd)) :
                     x \in backend_connection_close(more)
                           \cup backend_connection_close(r)
                           \cup backend_connection_close(http_response_backend_error(r))}
  <2>1. PICK x : /\ o = Out(x, "FINISHED", -Fds(r.bfd))
                 /\ \/ x \in backend_connection_close(more)
                    \/ x \in backend_connection_close(r)
                    \/ x \in backend_connection_close(http_response_backend_error(r))
    BY <1>6
  <2>2. CASE x \in backend_connection_close(more)
    BY <1>1, <1>2, <1>4, <2>1, <2>2
  <2>3. CASE x \in backend_connection_close(r)
    BY <1>4, <2>1, <2>3, Nothing
  <2>4. CASE x \in backend_connection_close(http_response_backend_error(r))
    <3>1. /\ Handled(r, http_response_backend_error(r), 0, S)
          /\ http_response_backend_error(r).bfd = r.bfd
      BY BackendErrorHandled
    <3>2. http_response_backend_error(r) \in Connections
      BY <3>1 DEF Handled
    <3>3. QED
      BY <1>4, <2>1, <2>4, <3>1, <3>2
  <2>5. QED
    BY <2>1, <2>2, <2>3, <2>4
<1>7. CASE o \in backend_send_request(r)
  BY <1>7, SendRequestHandled
<1>8. QED
  BY <1>5, <1>6, <1>7 DEF backend_handle_fdevent, more

----------------------------------------------------------------------------
(* Handling a request *)

(* http_response_prepare() *)
LEMMA PrepareHandled ==
    ASSUME NEW r \in Connections, NEW o \in http_response_prepare(r),
           NEW S, {"ERROR", "HANDLE_REQUEST"} \subseteq S
    PROVE  Handled(r, o.con, o.dfd, S)
<1>1. CASE r.mode = "direct" /\ ~Undecided(r)
  <2> DEFINE b == r.fin /\ r.wq
             x == [r EXCEPT !.wq = b]
  <2>1. b \in BOOLEAN
    OBVIOUS
  <2>2. o = Out(x, "FINISHED", 0)
    BY <1>1 DEF http_response_prepare
  <2> HIDE DEF b
  <2>3. /\ x \in Connections /\ x.fd = r.fd /\ x.polled = r.polled
        /\ x.count = r.count /\ x.ka = r.ka /\ x.state = r.state /\ x.bfd = r.bfd
    BY <2>1 DEF Connections
  <2> HIDE DEF x
  <2>4. QED
    BY <2>2, <2>3, SameSocket DEF Out
<1>2. CASE Undecided(r)
  <2> DEFINE file == [r EXCEPT !.wq = TRUE, !.fin = TRUE, !.status = "ok"]
             refused == [r EXCEPT !.status = "error"]
             missing == [r EXCEPT !.status = "404"]
             given == [r EXCEPT !.mode = "backend", !.hctx = TRUE]
  <2>1. \/ o = Out(file, "FINISHED", 0) \/ o = Out(refused, "FINISHED", 0)
        \/ o = Out(missing, "FINISHED", 0) \/ o = Out(r, "ERROR", 0)
        \/ o \in plugins_call_handle_subrequest(given)
    BY <1>2, ChoiceAssumption DEF http_response_prepare, Undecided
  <2>2. /\ file \in Connections /\ file.fd = r.fd /\ file.polled = r.polled
        /\ file.count = r.count /\ file.ka = r.ka /\ file.state = r.state /\ file.bfd = r.bfd
    BY DEF Connections
  <2>3. /\ refused \in Connections /\ refused.fd = r.fd /\ refused.polled = r.polled
        /\ refused.count = r.count /\ refused.ka = r.ka /\ refused.state = r.state
        /\ refused.bfd = r.bfd
    BY DEF Connections
  <2>4. /\ missing \in Connections /\ missing.fd = r.fd /\ missing.polled = r.polled
        /\ missing.count = r.count /\ missing.ka = r.ka /\ missing.state = r.state
        /\ missing.bfd = r.bfd
    BY DEF Connections
  <2>5. /\ given \in Connections /\ given.fd = r.fd /\ given.polled = r.polled
        /\ given.count = r.count /\ given.ka = r.ka /\ given.state = r.state /\ given.bfd = r.bfd
    BY DEF Connections
  <2> HIDE DEF file, refused, missing, given
  <2>6. Handled(r, file, 0, S) /\ Handled(r, refused, 0, S) /\ Handled(r, missing, 0, S)
    BY <2>2, <2>3, <2>4, SameSocket
  <2>7. CASE o \in plugins_call_handle_subrequest(given)
    <3>1. Handled(r, given, 0, S)
      BY <2>5, SameSocket
    <3>2. Handled(given, o.con, o.dfd, S)
      BY <2>5, <2>7, SubrequestHandled
    <3>3. Handled(r, o.con, 0 + o.dfd, S)
      BY <3>1, <3>2, InTurn
    <3>4. o.dfd \in Int
      BY <2>5, <3>2, FdsType, ConnectionFields DEF Handled
    <3>5. QED
      BY <3>3, <3>4
  <2>8. QED
    BY <2>1, <2>6, <2>7, Nothing DEF Out
<1>3. CASE r.mode # "direct"
  <2>1. PICK p \in plugins_call_handle_subrequest(r) :
           o = IF p.ret = "GO_ON" THEN Out(p.con, "FINISHED", 0) ELSE p
    BY <1>3 DEF http_response_prepare, Undecided
  <2>2. Handled(r, p.con, p.dfd, S)
    BY SubrequestHandled
  <2>3. p.ret = "GO_ON" => p.dfd = 0
    BY BackendGoesOn
  <2>4. QED
    BY <2>1, <2>2, <2>3 DEF Out
<1>4. QED
  BY <1>1, <1>2, <1>3

(* The error handler takes over, or the response starts. *)
LEMMA RestartHandled ==
    ASSUME NEW r \in Connections, NEW o \in RestartForErrorHandler(r), NEW S
    PROVE  Handled(r, o.con, o.dfd, S)
<1>0. Fds(r.bfd) \in Int
  BY FdsType, ConnectionFields
<1>1. CASE error_handler = "all"
  <2>1. PICK keep \in BOOLEAN : (keep => r.ka) /\ o = Restarted(r, keep)
    <3>1. PICK keep \in IF ~r.len THEN {r.ka} ELSE IF r.unread THEN {FALSE} ELSE {r.ka, FALSE} :
             o = Restarted(r, keep)
      BY <1>1 DEF RestartForErrorHandler
    <3>2. r.ka \in BOOLEAN
      BY DEF Connections
    <3>3. QED
      BY <3>1, <3>2
  <2> DEFINE none == 0
             x == [r EXCEPT !.hctx = FALSE, !.bfd = FALSE, !.tries = none,
                            !.ka = keep, !.len = FALSE, !.wr = TRUE, !.fin = FALSE,
                            !.started = FALSE, !.eh = "new", !.wq = FALSE, !.status = "none"]
  <2>2. o.con = x /\ o.dfd = -Fds(r.bfd)
    BY <2>1 DEF Restarted, Out
  <2>3. none \in 0 .. reconnects
    BY TimeoutAssumption
  <2> HIDE DEF none
  <2>a. x \in Connections
    BY <2>3, ZenonT(40) DEF Connections
  <2>4. /\ x.bfd = FALSE /\ x.fd = r.fd /\ x.polled = r.polled
        /\ x.count = r.count /\ x.ka = keep /\ x.state = r.state
    BY DEF Connections
  <2>5. Fds(x.bfd) = 0
    BY <2>4 DEF Fds
  <2> HIDE DEF x
  <2>6. QED
    BY <1>0, <2>1, <2>2, <2>a, <2>4, <2>5 DEF Handled
<1>2. CASE error_handler # "all"
  <2> DEFINE x == [r EXCEPT !.eh = "old", !.wq = FALSE, !.status = "none"]
  <2>1. o.con = x /\ o.dfd = 0
    BY <1>2 DEF RestartForErrorHandler, Out
  <2>2. /\ x \in Connections /\ x.bfd = r.bfd /\ x.fd = r.fd /\ x.polled = r.polled
        /\ x.count = r.count /\ x.ka = r.ka /\ x.state = r.state
    BY ZenonT(40) DEF Connections
  <2> HIDE DEF x
  <2>3. QED
    BY <2>1, <2>2, SameSocket
<1>3. QED
  BY <1>1, <1>2

LEMMA StartHandled ==
    ASSUME NEW r \in Connections, NEW S, "RESPONSE_START" \in S
    PROVE  Handled(r, StartResponse(r), 0, S)
<1> DEFINE v == CASE r.mode = "direct" /\ r.eh = "new" -> "error"
                  [] r.status = "none" -> "ok"
                  [] OTHER -> r.status
           x == [r EXCEPT !.state = "RESPONSE_START", !.status = v]
<1>1. v \in {"none", "ok", "404", "error"} /\ "RESPONSE_START" \in ConState
  BY ConnectionFields DEF ConState
<1>2. StartResponse(r) = x
  BY DEF StartResponse
<1> HIDE DEF v
<1>3. /\ x \in Connections /\ x.bfd = r.bfd /\ x.fd = r.fd /\ x.polled = r.polled
      /\ x.count = r.count /\ x.ka = r.ka /\ x.state = "RESPONSE_START"
  BY <1>1 DEF Connections
<1> HIDE DEF x
<1>4. QED
  BY <1>2, <1>3, SameSocket

(* connection_handle_write_prepare(): only a connection with requests left stays to be kept alive. *)
LEMMA WritePrepareHandled ==
    ASSUME NEW r \in Connections, NEW x \in connection_handle_write_prepare(r),
           NEW S, "WRITE" \in S
    PROVE  /\ Handled(r, x, 0, S) /\ x.bfd = r.bfd /\ x.state = "WRITE"
           /\ x.ka => x.count <= max_keep_alive_requests
<1> DEFINE full == [r EXCEPT !.fin = TRUE]
<1>1. PICK body, headeronly, close : /\ body = r \/ body = full
                                     /\ x = WritePrepared(body, headeronly, close)
  BY DEF connection_handle_write_prepare
<1>2. /\ full \in Connections /\ full.bfd = r.bfd /\ full.fd = r.fd /\ full.polled = r.polled
      /\ full.count = r.count /\ full.ka = r.ka
  BY DEF Connections
<1> HIDE DEF full
<1>3. /\ body \in Connections /\ body.bfd = r.bfd /\ body.fd = r.fd /\ body.polled = r.polled
      /\ body.count = r.count /\ body.ka = r.ka
  BY <1>1, <1>2
<1> DEFINE f == body.fin \/ headeronly
           k == /\ body.ka
                /\ body.count <= max_keep_alive_requests
                /\ max_keep_alive_idle # 0
                /\ ~close
           y == [body EXCEPT !.state = "WRITE", !.wq = TRUE, !.fin = f, !.ka = k]
<1>4. x = y
  BY <1>1 DEF WritePrepared
<1>5. f \in BOOLEAN /\ k \in BOOLEAN /\ (k => r.ka /\ r.count <= max_keep_alive_requests)
      /\ "WRITE" \in ConState
  BY <1>3 DEF ConState
<1> HIDE DEF f, k
<1>a. body \in Connections /\ f \in BOOLEAN /\ k \in BOOLEAN /\ "WRITE" \in ConState
  BY <1>3, <1>5
<1>b. y \in Connections
  BY <1>a DEF Connections
<1>6. /\ y.bfd = body.bfd /\ y.fd = body.fd /\ y.polled = body.polled
      /\ y.count = body.count /\ y.ka = k /\ y.state = "WRITE"
  BY <1>a DEF Connections
<1> HIDE DEF y
<1>7. Handled(r, y, 0, S)
  BY <1>3, <1>5, <1>6, <1>b, SameSocket
<1>8. QED
  BY <1>3, <1>4, <1>5, <1>6, <1>7

(* connection_handle_write() *)
LEMMA WriteHandled ==
    ASSUME NEW r \in Connections, NEW x \in connection_handle_write(r),
           NEW S, {"RESPONSE_END", "ERROR"} \subseteq S
    PROVE  Handled(r, x, 0, S)
<1> DEFINE s == IF r.fin THEN "RESPONSE_END" ELSE r.state
<1>1. \/ x = [r EXCEPT !.wq = FALSE, !.wage = 0, !.state = s]
      \/ x = [r EXCEPT !.wage = 0, !.wr = FALSE]
      \/ x = [r EXCEPT !.wage = 0, !.wr = FALSE, !.tl = TRUE]
      \/ x = [r EXCEPT !.state = "ERROR"]
  BY ChoiceAssumption DEF connection_handle_write
<1>2. s \in ConState /\ "ERROR" \in ConState /\ (s = r.state \/ s \in S)
  BY ConnectionFields DEF ConState
<1>3. 0 \in -1 .. max_write_idle + 1
  BY TimeoutAssumption
<1> HIDE DEF s
<1>4. /\ x \in Connections /\ x.bfd = r.bfd /\ x.fd = r.fd /\ x.polled = r.polled
      /\ x.count = r.count /\ x.ka = r.ka /\ x.state \in {r.state, s, "ERROR"}
  <2>1. CASE x = [r EXCEPT !.wq = FALSE, !.wage = 0, !.state = s]
    BY <1>2, <1>3, <2>1, ZenonT(40) DEF Connections
  <2>2. CASE x = [r EXCEPT !.wage = 0, !.wr = FALSE]
    BY <1>3, <2>2, ZenonT(40) DEF Connections
  <2>3. CASE x = [r EXCEPT !.wage = 0, !.wr = FALSE, !.tl = TRUE]
    BY <1>3, <2>3, ZenonT(40) DEF Connections
  <2>4. CASE x = [r EXCEPT !.state = "ERROR"]
    BY <1>2, <2>4 DEF Connections
  <2>5. QED
    BY <1>1, <2>1, <2>2, <2>3, <2>4
<1>5. QED
  BY <1>2, <1>4, SameSocket

----------------------------------------------------------------------------
(* The end of a request and of a connection *)

LEMMA ResetTyped ==
    ASSUME NEW r \in Connections
    PROVE  /\ connection_reset(r) \in Connections
           /\ connection_reset(r).bfd = FALSE /\ connection_reset(r).fd = r.fd
           /\ connection_reset(r).polled = r.polled /\ connection_reset(r).count = r.count
           /\ connection_reset(r).state = r.state
<1> DEFINE none == 0
           x == [r EXCEPT !.hctx = FALSE, !.bfd = FALSE, !.tries = none, !.mode = "direct",
                          !.rd = TRUE, !.wr = TRUE, !.status = "none", !.fin = FALSE,
                          !.started = FALSE, !.wq = FALSE, !.len = FALSE,
                          !.pollin = FALSE, !.eh = "none"]
<1>1. none \in 0 .. reconnects
  BY TimeoutAssumption
<1>2. connection_reset(r) = x
  BY DEF connection_reset
<1> HIDE DEF none
<1>3. x \in Connections
  <2> DEFINE y == [r EXCEPT !.hctx = FALSE, !.bfd = FALSE, !.tries = none, !.mode = "direct",
                            !.rd = TRUE, !.wr = TRUE]
             z == [y EXCEPT !.status = "none", !.eh = "none"]
             w == [z EXCEPT !.fin = FALSE, !.started = FALSE, !.wq = FALSE,
                            !.len = FALSE, !.pollin = FALSE]
  <2>1. y \in Connections
    BY <1>1, ZenonT(40) DEF Connections
  <2>2. x = w
    BY ZenonT(40) DEF Connections
  <2> HIDE DEF y, x
  <2>3. z \in Connections
    BY <2>1 DEF Connections
  <2> HIDE DEF z
  <2>a. w \in Connections
    BY <2>3, ZenonT(40) DEF Connections
  <2>4. QED
    BY <2>2, <2>a
<1>4. x.bfd = FALSE /\ x.fd = r.fd /\ x.polled = r.polled /\ x.count = r.count /\ x.state = r.state
  BY DEF Connections
<1>5. QED
  BY <1>2, <1>3, <1>4

LEMMA CloseTyped ==
    ASSUME NEW r \in Connections
    PROVE  /\ connection_close(r) \in Connections
           /\ connection_close(r).bfd = r.bfd /\ connection_close(r).fd = FALSE
           /\ connection_close(r).polled = FALSE /\ connection_close(r).state = "CONNECT"
<1> DEFINE none == 0
           x == [r EXCEPT !.fd = FALSE, !.polled = FALSE, !.ev = {}, !.state = "CONNECT",
                          !.unread = FALSE, !.ka = FALSE, !.rage = none, !.cage = none]
<1>1. /\ none \in 0 .. Bigger(max_read_idle, max_keep_alive_idle) + 1
      /\ none \in 0 .. HTTP_LINGER_TIMEOUT + 1
      /\ "CONNECT" \in ConState
  BY TimeoutAssumption DEF Bigger, ConState
<1>2. connection_close(r) = x
  BY DEF connection_close
<1> HIDE DEF none
<1>3. x \in Connections
  BY <1>1, ZenonT(40) DEF Connections
<1>4. x.bfd = r.bfd /\ x.fd = FALSE /\ x.polled = FALSE /\ x.state = "CONNECT"
  BY DEF Connections
<1>5. QED
  BY <1>2, <1>3, <1>4

(* What every handler keeps of a connection: the socket is open in every state but CONNECT and
   known to the kernel only while it is open, a connection that is closed or about to be has no
   backend, and one that will be kept alive has requests left. *)
Sound(r) ==
    /\ r.fd <=> r.state # "CONNECT"
    /\ r.polled => r.fd
    /\ r.bfd => r.fd /\ r.state # "CLOSE"
    /\ r.state = "REQUEST_START" => r.count <= max_keep_alive_requests
    /\ r.state \in {"WRITE", "RESPONSE_END"} /\ r.ka => r.count <= max_keep_alive_requests

LEMMA HandledSound ==
    ASSUME NEW r \in Connections, Sound(r), r.state \notin {"CONNECT", "CLOSE"},
           NEW x, NEW d, NEW S, Handled(r, x, d, S),
           S \cap {"CONNECT", "CLOSE", "REQUEST_START"} = {},
           \/ x.state \notin {"WRITE", "RESPONSE_END"}
           \/ r.state \in {"WRITE", "RESPONSE_END"}
           \/ x.ka => x.count <= max_keep_alive_requests
    PROVE  x \in Connections /\ Sound(x) /\ x.fd
<1>1. x \in Connections /\ r.fd /\ x.fd = r.fd /\ x.polled = r.polled /\ x.count = r.count
      /\ (x.ka => r.ka) /\ x.state \notin {"CONNECT", "CLOSE"}
      /\ (x.state = r.state \/ x.state # "REQUEST_START")
  BY DEF Handled, Sound
<1>2. QED
  BY <1>1 DEF Sound

(* connection_handle_response_end_state(), from RESPONSE_END or ERROR *)
LEMMA ResponseEndSound ==
    ASSUME NEW r \in Connections, Sound(r), r.state \in {"RESPONSE_END", "ERROR"},
           NEW x \in connection_handle_response_end_state(r)
    PROVE  x \in Connections /\ Sound(x) /\ x.bfd = FALSE /\ x.state # r.state
           /\ (x.state = "CONNECT" \/ x.fd)
<1>0. "REQUEST_START" \in ConState /\ "CLOSE" \in ConState
  BY DEF ConState
<1>1. CASE r.ka /\ r.state # "ERROR" /\ x = [connection_reset(r) EXCEPT !.state = "REQUEST_START"]
  <2> DEFINE y == connection_reset(r)
  <2>1. /\ y \in Connections /\ y.bfd = FALSE /\ y.fd = r.fd /\ y.polled = r.polled
        /\ y.count = r.count
    BY ResetTyped
  <2> HIDE DEF y
  <2>2. x = [y EXCEPT !.state = "REQUEST_START"]
    BY <1>1 DEF y
  <2>3. x \in Connections
    BY <1>0, <2>1, <2>2 DEF Connections
  <2>4. /\ x.bfd = FALSE /\ x.fd = r.fd /\ x.polled = r.polled /\ x.count = r.count
        /\ x.state = "REQUEST_START"
    BY <2>1, <2>2 DEF Connections
  <2>5. QED
    BY <1>1, <2>3, <2>4 DEF Sound
<1>2. CASE x \in connection_handle_shutdown([r EXCEPT !.ka = FALSE])
  <2> DEFINE q == [r EXCEPT !.ka = FALSE]
             y == connection_reset(q)
             none == 0
  <2>1. q \in Connections /\ q.fd = r.fd /\ q.polled = r.polled
    BY DEF Connections
  <2> HIDE DEF q
  <2>2. y \in Connections /\ y.bfd = FALSE /\ y.fd = r.fd /\ y.polled = r.polled
    BY <2>1, ResetTyped
  <2>3. x = [y EXCEPT !.cage = none, !.state = "CLOSE", !.unread = FALSE] \/ x = connection_close(y)
    BY <1>2 DEF connection_handle_shutdown, q
  <2>4. none \in 0 .. HTTP_LINGER_TIMEOUT + 1
    BY TimeoutAssumption
  <2> HIDE DEF y, none
  <2>5. CASE x = [y EXCEPT !.cage = none, !.state = "CLOSE", !.unread = FALSE]
    <3>1. x \in Connections
      BY <1>0, <2>2, <2>4, <2>5, ZenonT(40) DEF Connections
    <3>2. x.bfd = FALSE /\ x.fd = r.fd /\ x.polled = r.polled /\ x.state = "CLOSE"
      BY <2>2, <2>5 DEF Connections
    <3>3. QED
      BY <3>1, <3>2 DEF Sound
  <2>6. CASE x = connection_close(y)
    <3>1. x \in Connections /\ x.bfd = FALSE /\ x.fd = FALSE /\ x.polled = FALSE
          /\ x.state = "CONNECT"
      BY <2>2, <2>6, CloseTyped
    <3>2. QED
      BY <3>1 DEF Sound
  <2>7. QED
    BY <2>3, <2>5, <2>6
<1>3. QED
  BY <1>1, <1>2 DEF connection_handle_response_end_state

LEMMA DrainTyped ==
    ASSUME NEW r \in Connections, NEW x \in Drain(r)
    PROVE  /\ x \in Connections /\ x.fd = r.fd /\ x.polled = r.polled /\ x.bfd = r.bfd
           /\ x.state = r.state /\ x.count = r.count /\ x.ka = r.ka
<1> DEFINE due == HTTP_LINGER_TIMEOUT + 1
<1>1. due \in 0 .. HTTP_LINGER_TIMEOUT + 1
  BY TimeoutAssumption
<1>2. x = r \/ x = [r EXCEPT !.cage = due]
  BY DEF Drain
<1> HIDE DEF due
<1>3. QED
  BY <1>1, <1>2 DEF Connections

(* connection_handle_close_state() *)
LEMMA CloseSound ==
    ASSUME NEW r \in Connections, Sound(r), r.state = "CLOSE",
           NEW x \in connection_handle_close_state(r)
    PROVE  x \in Connections /\ Sound(x) /\ x.bfd = r.bfd /\ (x.state = "CONNECT" \/ x.fd)
<1>1. PICK y \in Drain(r) : x = y \/ x = connection_close(y)
  BY DEF connection_handle_close_state
<1>2. /\ y \in Connections /\ y.fd = r.fd /\ y.polled = r.polled /\ y.bfd = r.bfd
      /\ y.state = r.state /\ y.count = r.count /\ y.ka = r.ka
  BY DrainTyped
<1>3. r.bfd = FALSE
  BY DEF Sound, Connections
<1>4. CASE x = y
  BY <1>2, <1>4 DEF Sound
<1>5. CASE x = connection_close(y)
  <2>1. x \in Connections /\ x.bfd = y.bfd /\ x.fd = FALSE /\ x.polled = FALSE
        /\ x.state = "CONNECT"
    BY <1>2, <1>5, CloseTyped
  <2>2. QED
    BY <1>2, <1>3, <2>1 DEF Sound
<1>6. QED
  BY <1>1, <1>4, <1>5

----------------------------------------------------------------------------
(* Events and the passing of time *)

LEMMA ReventsTyped ==
    ASSUME NEW r \in Connections, NEW revents
    PROVE  Handled(r, AfterRevents(r, revents), 0, {"ERROR"})
<1> DEFINE i == r.rd \/ "IN" \in revents
           o == r.wr \/ "OUT" \in revents
           due == HTTP_LINGER_TIMEOUT + 1
           y == [r EXCEPT !.rd = i, !.wr = o]
<1>1. i \in BOOLEAN /\ o \in BOOLEAN
  OBVIOUS
<1>2. due \in 0 .. HTTP_LINGER_TIMEOUT + 1 /\ "ERROR" \in ConState
  BY TimeoutAssumption DEF ConState
<1>3. \/ AfterRevents(r, revents) = [y EXCEPT !.cage = due]
      \/ AfterRevents(r, revents) = [y EXCEPT !.state = "ERROR"]
      \/ AfterRevents(r, revents) = y
  BY DEF AfterRevents
<1> HIDE DEF i, o, due
<1>4. /\ y \in Connections /\ y.fd = r.fd /\ y.polled = r.polled /\ y.bfd = r.bfd
      /\ y.state = r.state /\ y.count = r.count /\ y.ka = r.ka
  BY <1>1, ZenonT(40) DEF Connections
<1> DEFINE z == [y EXCEPT !.cage = due]
           w == [y EXCEPT !.state = "ERROR"]
<1> HIDE DEF y
<1>5. /\ z \in Connections /\ z.fd = y.fd /\ z.polled = y.polled /\ z.bfd = y.bfd
      /\ z.state = y.state /\ z.count = y.count /\ z.ka = y.ka
  BY <1>2, <1>4 DEF Connections
<1>6. /\ w \in Connections /\ w.fd = y.fd /\ w.polled = y.polled /\ w.bfd = y.bfd
      /\ w.state = "ERROR" /\ w.count = y.count /\ w.ka = y.ka
  BY <1>2, <1>4 DEF Connections
<1>7. Handled(r, z, 0, {"ERROR"}) /\ Handled(r, w, 0, {"ERROR"}) /\ Handled(r, y, 0, {"ERROR"})
  <2> HIDE DEF z, w
  <2>1. Handled(r, z, 0, {"ERROR"})
    BY <1>4, <1>5, SameSocket
  <2>2. Handled(r, w, 0, {"ERROR"})
    BY <1>4, <1>6, SameSocket
  <2>3. Handled(r, y, 0, {"ERROR"})
    BY <1>4, SameSocket
  <2>4. QED
    BY <2>1, <2>2, <2>3
<1>8. QED
  BY <1>3, <1>7

LEMMA SameBackend ==
    ASSUME NEW r \in Connections, NEW x, NEW S, Handled(r, x, 0, S)
    PROVE  x.bfd = r.bfd
<1>1. r.bfd \in BOOLEAN /\ x.bfd \in BOOLEAN /\ Fds(x.bfd) = Fds(r.bfd)
  BY FdsType, ConnectionFields DEF Handled
<1>2. QED
  BY <1>1 DEF Fds

(* connection_handle_fdevent() *)
LEMMA FdeventSound ==
    ASSUME NEW r \in Connections, Sound(r), r.fd, NEW revents,
           NEW x \in connection_handle_fdevent(r, revents)
    PROVE  x \in Connections /\ Sound(x) /\ x.fd = r.fd /\ x.bfd = r.bfd
<1> DEFINE y == AfterRevents(r, revents)
<1>1. Handled(r, y, 0, {"ERROR"})
  BY ReventsTyped
<1>2. y \in Connections /\ y.bfd = r.bfd
  BY <1>1, SameBackend DEF Handled
<1>3. Sound(y) /\ y.fd = r.fd
  BY <1>1, <1>2 DEF Handled, Sound
<1>4. \/ y.state = "READ" /\ x \in connection_handle_read_state(y)
      \/ y.state = "WRITE" /\ x \in connection_handle_write(y)
      \/ y.state = "CLOSE" /\ x \in Drain(y)
      \/ x = y
  BY DEF connection_handle_fdevent
<1> HIDE DEF y
<1>5. CASE y.state = "READ" /\ x \in connection_handle_read_state(y)
  <2>1. Handled(y, x, 0, {"REQUEST_END", "ERROR", "HANDLE_REQUEST"})
    BY <1>2, <1>5, ReadStateHandled
  <2>2. x.bfd = y.bfd
    BY <1>2, <2>1, SameBackend
  <2>3. x.fd = y.fd
    BY <2>1 DEF Handled
  <2>4. x.state \notin {"WRITE", "RESPONSE_END"}
    BY <1>5, <2>1 DEF Handled
  <2>5. x \in Connections /\ Sound(x) /\ x.fd
    BY <1>2, <1>3, <1>5, <2>1, <2>4, HandledSound
  <2>6. QED
    BY <1>2, <1>3, <2>2, <2>3, <2>5
<1>6. CASE y.state = "WRITE" /\ x \in connection_handle_write(y)
  <2>1. Handled(y, x, 0, {"RESPONSE_END", "ERROR"})
    BY <1>2, <1>6, WriteHandled
  <2>2. x.bfd = y.bfd
    BY <1>2, <2>1, SameBackend
  <2>3. x.fd = y.fd
    BY <2>1 DEF Handled
  <2>4. x \in Connections /\ Sound(x) /\ x.fd
    BY <1>2, <1>3, <1>6, <2>1, HandledSound
  <2>5. QED
    BY <1>2, <1>3, <2>2, <2>3, <2>4
<1>7. CASE y.state = "CLOSE" /\ x \in Drain(y)
  <2>1. /\ x \in Connections /\ x.fd = y.fd /\ x.polled = y.polled /\ x.bfd = y.bfd
        /\ x.state = y.state /\ x.count = y.count /\ x.ka = y.ka
    BY <1>2, <1>7, DrainTyped
  <2>2. QED
    BY <1>2, <1>3, <2>1 DEF Sound
<1>8. QED
  BY <1>2, <1>3, <1>4, <1>5, <1>6, <1>7

(* The end of connection_state_machine() *)
LEMMA InterestSound ==
    ASSUME NEW r \in Connections, Sound(r)
    PROVE  /\ UpdateInterest(r) \in Connections /\ Sound(UpdateInterest(r))
           /\ UpdateInterest(r).fd = r.fd /\ UpdateInterest(r).bfd = r.bfd
           /\ UpdateInterest(r).state = r.state /\ UpdateInterest(r).count = r.count
<1>1. CASE ~r.fd
  BY <1>1 DEF UpdateInterest
<1>2. CASE r.fd
  <2> DEFINE e == Interest(r)
             p == r.polled \/ e # r.ev
             a == IF "IN" \in e \ r.ev THEN 0 ELSE r.rage
             w == IF "OUT" \in e \ r.ev THEN 0 ELSE r.wage
             x == [r EXCEPT !.ev = e, !.polled = p, !.rage = a, !.wage = w]
  <2>1. e \in SUBSET {"IN", "OUT"}
    BY DEF Interest
  <2>2. p \in BOOLEAN
    OBVIOUS
  <2>3. a \in 0 .. Bigger(max_read_idle, max_keep_alive_idle) + 1
    BY ConnectionFields, TimeoutAssumption DEF Bigger
  <2>4. w \in -1 .. max_write_idle + 1
    BY ConnectionFields, TimeoutAssumption
  <2>5. UpdateInterest(r) = x
    BY <1>2 DEF UpdateInterest
  <2> HIDE DEF e, p, a, w
  <2>6. x \in Connections
    BY <2>1, <2>2, <2>3, <2>4 DEF Connections
  <2>7. x.fd = r.fd /\ x.bfd = r.bfd /\ x.state = r.state /\ x.count = r.count /\ x.ka = r.ka
    BY DEF Connections
  <2> HIDE DEF x
  <2>8. Sound(x)
    BY <1>2, <2>7 DEF Sound
  <2>9. QED
    BY <2>5, <2>6, <2>7, <2>8
<1>3. QED
  BY <1>1, <1>2

(* A second passes. *)
LEMMA AgedSound ==
    ASSUME NEW r \in Connections, Sound(r)
    PROVE  /\ Aged(r) \in Connections /\ Sound(Aged(r))
           /\ Aged(r).fd = r.fd /\ Aged(r).bfd = r.bfd
           /\ Aged(r).state = r.state /\ Aged(r).count = r.count
<1> DEFINE a == IF "IN" \in r.ev
                THEN Older(r.rage, Bigger(max_read_idle, max_keep_alive_idle)) ELSE r.rage
           w == IF r.wage = -1 THEN r.wage ELSE Older(r.wage, max_write_idle)
           c == IF r.state = "CLOSE" THEN Older(r.cage, HTTP_LINGER_TIMEOUT) ELSE r.cage
           x == [r EXCEPT !.rage = a, !.wage = w, !.cage = c]
<1>0. ASSUME NEW l \in Nat, NEW n \in 0 .. l + 1 PROVE Older(n, l) \in 0 .. l + 1
  BY DEF Older
<1>1. a \in 0 .. Bigger(max_read_idle, max_keep_alive_idle) + 1
  <2>1. Bigger(max_read_idle, max_keep_alive_idle) \in Nat
    BY TimeoutAssumption DEF Bigger
  <2>2. QED
    BY <1>0, <2>1, ConnectionFields
<1>2. w \in -1 .. max_write_idle + 1
  BY ConnectionFields, TimeoutAssumption DEF Older
<1>3. c \in 0 .. HTTP_LINGER_TIMEOUT + 1
  BY <1>0, ConnectionFields, TimeoutAssumption
<1>5. Aged(r) = x
  BY DEF Aged
<1> HIDE DEF a, w, c
<1>6. x \in Connections
  BY <1>1, <1>2, <1>3 DEF Connections
<1>7. x.fd = r.fd /\ x.polled = r.polled /\ x.bfd = r.bfd /\ x.state = r.state /\ x.count = r.count
      /\ x.ka = r.ka
  BY DEF Connections
<1> HIDE DEF x
<1>8. Sound(x)
  BY <1>7 DEF Sound
<1>9. QED
  BY <1>5, <1>6, <1>7, <1>8
=============================================================================
