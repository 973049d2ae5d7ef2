------------------------------- MODULE Chunk -------------------------------
(***************************************************************************)
(* Chunk queues (chunk.c), the framing of responses (http_chunk.c) and the *)
(* functions that write a queue to a socket (network_write*.c).            *)
(*                                                                         *)
(* A connection either takes a request body to a backend, through the      *)
(* queues read -> body -> wb, or brings the output of a backend or a file  *)
(* to the client, through the queue write.  A byte of content, a length    *)
(* line, an end of line, the last chunk and a header are one element each. *)
(*                                                                         *)
(* Calls are atomic, as in the server, except the loop of                  *)
(* chunkqueue_append_mem_to_tempfile(), whose iterations are steps: cjob   *)
(* is the call under way, and nothing else happens until it returns.       *)
(***************************************************************************)
EXTENDS Integers, Sequences, FiniteSets, SequencesExt

CONSTANTS
    ContentLength,  \* bytes of a request body
    MaxEntered,     \* bound on the bytes that arrive
    TempSize,       \* upload_temp_file_size
    BufLimit,       \* bytes a response keeps in memory (64k)
    TempDirs,       \* number of server.upload-dirs, 0 if they are not set
    MaxWrite,       \* MAX_WRITE_LIMIT, or what the traffic limit leaves
    WriteBackends,  \* values of server.network-backend considered
    ChunkDirs       \* directions considered, of "upload" and "response"

ASSUME ChunkAssumption ==
    /\ {ContentLength, MaxEntered, BufLimit, TempDirs} \subseteq Nat
    /\ TempSize \in Nat \ {0} /\ MaxWrite \in Nat \ {0}
    /\ WriteBackends \subseteq {"write", "writev", "sendfile"}
    /\ ChunkDirs \subseteq {"upload", "response"}

VARIABLES
    cqueue,         \* the queues: chunks, bytes_in, bytes_out, tempdir_idx, and
                    \* files unlinked by the call under way
    ctemp,          \* temporary files that exist
    cjob,           \* the call of chunkqueue_append_mem_to_tempfile() under way
    cwire,          \* what was written to the socket
    centered,       \* bytes that arrived
    cresp,          \* the response: see NoResponse
    cconf,          \* the kind of request and the configuration
    ccrashed        \* the server dereferenced a null pointer

chunkVars == <<cqueue, ctemp, cjob, cwire, centered, cresp, cconf, ccrashed>>

Queues == {"read", "body", "wb", "write"}
EmptyQueue == [chunks |-> <<>>, in |-> 0, out |-> 0, dir |-> 0, unlinked |-> {}]

(* A chunk: its bytes that are not written yet; whether some are (offset # 0);
   of a file chunk, is_temp, whether the file is open, and its name (0: a file that
   is no temporary file). *)
MemChunk(data) ==
    [type |-> "mem", data |-> data, off |-> FALSE, temp |-> FALSE, fd |-> FALSE, name |-> 0]
FileChunk(data, temp, fd, name) ==
    [type |-> "file", data |-> data, off |-> FALSE, temp |-> temp, fd |-> fd, name |-> name]

(* todo: blocks of bytes still to be stored in the queue to; from: the queue whose
   first use bytes they are; len: bytes the call is to move in all from now on *)
NoJob == [to |-> "none", todo |-> <<>>, from |-> "none", use |-> 0, len |-> 0]

(* state: HANDLE_REQUEST, START (prepared), WRITE, END (response sent) or, of a request body, FAILED;
   open: the backend may still send; direct: mode DIRECT, after a file or an error of the backend;
   started, fin: file_started, file_finished; length: Content-Length among the headers, or -1;
   parsed: parsed_response & HTTP_CONTENT_LENGTH.
   History: lost: some of the content could not be stored; broken: the backend failed;
   said: the length the backend announced; bodiless: no content belongs to it; dropped: bytes of
   content that were thrown away with the queue *)
NoResponse == [state |-> "HANDLE_REQUEST", open |-> TRUE, direct |-> FALSE, started |-> FALSE, fin |-> FALSE,
               chunked |-> FALSE, keep |-> TRUE, length |-> -1, parsed |-> FALSE,
               lost |-> FALSE, broken |-> FALSE, said |-> -1, bodiless |-> FALSE, dropped |-> 0]

ChunkInit ==
    /\ cqueue = [q \in Queues |-> EmptyQueue]
    /\ ctemp = {} /\ cjob = NoJob /\ cwire = <<>> /\ centered = 0
    /\ cresp = NoResponse
    /\ cconf \in {k \in [dir : ChunkDirs, large : BOOLEAN, stream : BOOLEAN, head : BOOLEAN,
                         http11 : BOOLEAN, backend : WriteBackends] :
                    IF k.dir = "upload" THEN ~k.stream /\ ~k.head /\ ~k.http11 ELSE ~k.large}
    /\ ccrashed = FALSE

Content(chunks) == IF chunks = <<>> THEN <<>> ELSE FlattenSeq([i \in 1 .. Len(chunks) |-> chunks[i].data])

Prefix(s, n) == SubSeq(s, 1, IF n < Len(s) THEN n ELSE Len(s))
Data(from, n) == [i \in 1 .. n |-> <<"data", from + i>>]
LengthLine(n) == <<"length", n>>
EndOfLine == <<"eol", 0>>
LastChunk == <<"last", 0>>
Header == <<"header", 0>>

----------------------------------------------------------------------------
(* chunk.c: operators on queues *)

(* chunkqueue_push_unused_chunk() for each of the chunks: chunk_reset() removes the
   temporary file of a chunk. *)
chunkqueue_push_unused_chunk(q, chunks) ==
    [q EXCEPT !.unlinked = @ \cup {chunks[i].name : i \in {j \in 1 .. Len(chunks) : chunks[j].temp}}]

(* chunkqueue_reset() *)
chunkqueue_reset(q) ==
    [EmptyQueue EXCEPT !.unlinked = chunkqueue_push_unused_chunk(q, q.chunks).unlinked]

chunkqueue_append_chunk(q, c) ==
    [q EXCEPT !.chunks = Append(@, c), !.in = @ + Len(c.data)]

chunkqueue_prepend_chunk(q, c) ==
    [q EXCEPT !.chunks = <<c>> \o @, !.in = @ + Len(c.data)]

(* chunkqueue_append_buffer() is the same. *)
chunkqueue_append_mem(q, data) ==
    IF data = <<>> THEN q ELSE chunkqueue_append_chunk(q, MemChunk(data))

chunkqueue_prepend_buffer(q, data) ==
    IF data = <<>> THEN q ELSE chunkqueue_prepend_chunk(q, MemChunk(data))

chunkqueue_append_file_fd(q, data) ==
    IF data = <<>> THEN q ELSE chunkqueue_append_chunk(q, FileChunk(data, FALSE, TRUE, 0))

chunkqueue_append_file(q, name, data) ==
    IF data = <<>> THEN q ELSE chunkqueue_append_chunk(q, FileChunk(data, FALSE, FALSE, name))

(* p: the two queues, [to, from] *)
chunkqueue_append_chunkqueue(p) ==
    IF p.from.chunks = <<>> THEN p
    ELSE [to |-> [p.to EXCEPT !.chunks = @ \o p.from.chunks, !.in = @ + (p.from.in - p.from.out)],
          from |-> [p.from EXCEPT !.chunks = <<>>, !.out = p.from.in]]

(* chunkqueue_get_memory(), read() and chunkqueue_use_memory(): the bytes go to the
   end of the last chunk if there is room, always if it was never used; without any
   an empty chunk stays. *)
ReadInto(q, data) ==
    LET n == Len(q.chunks)
        more == [q EXCEPT !.chunks[n].data = @ \o data, !.in = @ + Len(data)]
        new == [q EXCEPT !.chunks = Append(@, MemChunk(data)), !.in = @ + Len(data)]
    IN  CASE n = 0 \/ (n > 0 /\ q.chunks[n].type = "file") -> {new}
          [] n > 0 /\ q.chunks[n].type = "mem" /\ q.chunks[n].data = <<>> /\ ~q.chunks[n].off -> {more}
          [] OTHER -> {more, new}

(* Chunks of which nothing is left at the front of a queue. *)
FinishedChunks(chunks) ==
    LET n == Len(chunks)
        j == CHOOSE i \in 0 .. n : /\ \A k \in 1 .. i : chunks[k].data = <<>>
                                   /\ i < n => chunks[i + 1].data # <<>>
    IN  SubSeq(chunks, 1, j)

chunkqueue_remove_finished_chunks(q) ==
    [chunkqueue_push_unused_chunk(q, FinishedChunks(q.chunks)) EXCEPT
        !.chunks = SubSeq(@, Len(FinishedChunks(@)) + 1, Len(@))]

(* After an empty chunk was taken out of the list the walk goes on behind the one that
   followed it: crash says that there was none. *)
chunkqueue_remove_empty_chunks(q) ==
    LET p == chunkqueue_remove_finished_chunks(q)
        walk == FoldLeft(LAMBDA acc, c :
                            IF ~acc.taken /\ c.data = <<>>
                            THEN [acc EXCEPT !.taken = TRUE, !.out = Append(@, c)]
                            ELSE [acc EXCEPT !.taken = FALSE, !.keep = Append(@, c)],
                         [keep |-> <<>>, out |-> <<>>, taken |-> FALSE], p.chunks)
    IN  [q |-> [chunkqueue_push_unused_chunk(p, walk.out) EXCEPT !.chunks = walk.keep],
         crash |-> walk.taken]

(* c->offset += n *)
Advance(c, n) == [c EXCEPT !.data = SubSeq(@, n + 1, Len(@)), !.off = @ \/ n > 0]

(* n bytes were written: chunks that are finished go, also empty ones behind them. *)
chunkqueue_mark_written(q, n) ==
    LET left[i \in 0 .. Len(q.chunks)] == IF i = 0 THEN n ELSE left[i - 1] - Len(q.chunks[i].data)
        k == Cardinality({i \in 1 .. Len(q.chunks) : left[i] >= 0})
    IN  [chunkqueue_push_unused_chunk(q, SubSeq(q.chunks, 1, k)) EXCEPT
            !.out = @ + n,
            !.chunks = IF k = Len(@) THEN <<>>
                       ELSE <<Advance(@[k + 1], left[k])>> \o SubSeq(@, k + 2, Len(@))]

(* Mutant: the part of a split file takes the right to remove the file with it. *)
StealFirst_MovesTemp(p, len) ==
    LET c == p.from.chunks[1]
    IN  IF Len(c.data) <= len
        THEN [to |-> chunkqueue_append_chunk(p.to, c),
              from |-> [p.from EXCEPT !.chunks = Tail(@), !.out = @ + Len(c.data)]]
        ELSE [to |-> chunkqueue_append_chunk(p.to, [c EXCEPT !.data = SubSeq(@, 1, len), !.fd = FALSE]),
              from |-> [p.from EXCEPT !.chunks[1] = [Advance(c, len) EXCEPT !.temp = FALSE],
                                      !.out = @ + len]]

(* The first chunk, or its beginning, moves to the other queue.  Of a file the
   "tempfile flag is in "last" chunk after the split", and so is the descriptor. *)
StealFirst(p, len) ==
    LET c == p.from.chunks[1]
        part == Prefix(c.data, len)
    IN  CASE Len(c.data) <= len ->
               [to |-> chunkqueue_append_chunk(p.to, c),
                from |-> [p.from EXCEPT !.chunks = Tail(@), !.out = @ + Len(c.data)]]
          [] Len(c.data) > len ->
               [to |-> IF c.type = "mem" THEN chunkqueue_append_mem(p.to, part)
                       ELSE chunkqueue_append_file(p.to, c.name, part),
                from |-> [p.from EXCEPT !.chunks[1] = Advance(c, len), !.out = @ + len]]

(* One chunk after the other, those of which nothing is left dropped, until len
   bytes have moved. *)
chunkqueue_steal(p, len) ==
    LET first(x) == [x EXCEPT !.from = chunkqueue_remove_finished_chunks(@)]
        steal[i \in 0 .. Len(p.from.chunks)] ==
            IF i = 0 THEN [p |-> p, len |-> len]
            ELSE LET s == steal[i - 1]
                     x == first(s.p)
                 IN  IF s.len = 0 \/ x.from.chunks = <<>> THEN [s EXCEPT !.p = IF s.len = 0 THEN @ ELSE x]
                     ELSE LET y == StealFirst(x, s.len)
                          IN  [p |-> y, len |-> s.len - (y.from.out - x.from.out)]
    IN  steal[Len(p.from.chunks)].p

----------------------------------------------------------------------------
(* The loop of chunkqueue_append_mem_to_tempfile() *)

TempChunks(q) == {i \in 1 .. Len(q.chunks) : q.chunks[i].temp}
Named == UNION {{cqueue[q].chunks[i].name : i \in 1 .. Len(cqueue[q].chunks)} : q \in Queues}
FreshName == CHOOSE n \in 1 .. Cardinality(ctemp \cup Named) + 1 :
                /\ n \notin ctemp \cup Named
                /\ \A m \in 1 .. n - 1 : m \in ctemp \cup Named

(* The last chunk is a temporary file that is open and of which nothing was read. *)
Appendable(q) ==
    /\ q.chunks # <<>>
    /\ LET c == Last(q.chunks) IN c.type = "file" /\ c.temp /\ c.fd /\ ~c.off

(* chunkqueue_get_append_tempfile(): mkstemp() in the first directory from
   tempdir_idx on that lets it; none does if fd is FALSE. *)
chunkqueue_get_append_tempfile(q, name) ==
    {[q |-> [chunkqueue_append_chunk(q, FileChunk(<<>>, TRUE, TRUE, name)) EXCEPT !.dir = d], fd |-> TRUE] :
        d \in IF TempDirs = 0 THEN {0} ELSE q.dir .. TempDirs - 1}
    \cup {[q |-> [q EXCEPT !.dir = IF TempDirs = 0 THEN 0 ELSE TempDirs], fd |-> FALSE]}

CloseLast(q) == [q EXCEPT !.chunks[Len(q.chunks)].fd = FALSE]

(* The file to write to: the last chunk if it will do, and is not too large. *)
TempFile(q, name) ==
    IF Appendable(q) /\ Len(Last(q.chunks).data) < TempSize THEN {[q |-> q, fd |-> TRUE]}
    ELSE chunkqueue_get_append_tempfile(IF Appendable(q) THEN CloseLast(q) ELSE q, name)

(* What one iteration can make of the queue and of the bytes still to be stored.
   ret: "again", "done" or "failed", or "crash". *)
StoreOnce(q, data, name) ==
    UNION {
        IF ~f.fd THEN {[q |-> f.q, data |-> data, ret |-> "failed"]}
        ELSE LET n == Len(f.q.chunks)
                 nospace == [f.q EXCEPT !.dir = IF TempDirs = 0 THEN 0 ELSE @ + 1]
                 (* write() failed; with space in another directory it is tried there *)
                 gone(r, retry) ==
                    LET e == chunkqueue_remove_empty_chunks(r)
                        ret == IF retry THEN "again" ELSE "failed"
                    IN  IF r.chunks[n].data = <<>>
                        THEN [q |-> e.q, data |-> data, ret |-> IF e.crash THEN "crash" ELSE ret]
                        ELSE [q |-> CloseLast(r), data |-> data, ret |-> ret]
             IN  {[q |-> [f.q EXCEPT !.chunks[n].data = @ \o SubSeq(data, 1, k), !.in = @ + k],
                   data |-> SubSeq(data, k + 1, Len(data)),
                   ret |-> IF k = Len(data) THEN "done" ELSE "again"] : k \in 0 .. Len(data)}
                 \cup {gone(f.q, FALSE), gone(nospace, TempDirs > 0 /\ nospace.dir < TempDirs)}
        : f \in TempFile(q, name)}

(* chunkqueue_steal_with_tempfiles() up to the next chunk that is in memory, whose
   bytes are to be stored: the queues and the job it leaves. *)
StealUntilMem(p, len, to, from) ==
    LET mem == {i \in 1 .. Len(p.from.chunks) : p.from.chunks[i].type = "mem" /\ p.from.chunks[i].data # <<>>}
        before == IF mem = {} THEN p.from.chunks
                  ELSE SubSeq(p.from.chunks, 1, (CHOOSE i \in mem : \A j \in mem : i <= j) - 1)
        size == Len(Content(before))
        x == chunkqueue_steal(p, IF size < len THEN size ELSE len)
        y == [x EXCEPT !.from = chunkqueue_remove_finished_chunks(@)]
        block == Prefix(y.from.chunks[1].data, len - size)
    IN  IF size >= len \/ mem = {} THEN [p |-> x, job |-> NoJob]
        ELSE [p |-> y, job |-> [to |-> to, todo |-> <<block>>, from |-> from,
                                use |-> Len(block), len |-> len - size]]

----------------------------------------------------------------------------
(* Steps *)

(* The queues after a step, and the temporary files: those made are the ones of
   chunks that are new. *)
Become(queues) ==
    LET gone == UNION {queues[q].unlinked : q \in Queues}
        owned == UNION {{queues[q].chunks[i].name : i \in TempChunks(queues[q])} : q \in Queues}
    IN  /\ cqueue' = [q \in Queues |-> [queues[q] EXCEPT !.unlinked = {}]]
        /\ ctemp' = (ctemp \cup (owned \ Named)) \ gone

ChunkIdle == cjob = NoJob /\ ~ccrashed

(* http_chunk_close() *)
http_chunk_close(q, r) ==
    IF r.chunked THEN chunkqueue_append_mem(q, <<LastChunk>>) ELSE q

(* The backend is closed: http_response_backend_done(). *)
http_response_backend_done(q, r) ==
    [q |-> IF r.fin THEN q ELSE http_chunk_close(q, r),
     r |-> [r EXCEPT !.open = FALSE, !.fin = TRUE]]

(* An iteration of the loop.  When everything is stored the bytes leave the queue they
   come from.  A response that cannot be stored ends with what there is; a request
   body is answered with an error. *)
Store ==
    /\ cjob # NoJob /\ ~ccrashed
    /\ \E o \in StoreOnce(cqueue[cjob.to], Head(cjob.todo), FreshName) :
        LET queues == [cqueue EXCEPT ![cjob.to] = o.q]
        IN  CASE o.ret = "crash" -> ccrashed' = TRUE /\ Become(queues) /\ UNCHANGED <<cjob, cresp>>
              [] o.ret = "again" -> /\ cjob' = [cjob EXCEPT !.todo[1] = o.data]
                                    /\ Become(queues) /\ UNCHANGED <<cresp, ccrashed>>
              [] o.ret = "failed" /\ cjob.from = "none" ->
                    LET d == http_response_backend_done(o.q, cresp)
                    IN  /\ Become([cqueue EXCEPT ![cjob.to] = d.q])
                        /\ cresp' = [d.r EXCEPT !.lost = TRUE]
                        /\ cjob' = NoJob /\ UNCHANGED ccrashed
              [] o.ret = "failed" /\ cjob.from # "none" ->
                    /\ Become(queues) /\ cjob' = NoJob
                    /\ cresp' = [cresp EXCEPT !.state = "FAILED"]
                    /\ UNCHANGED ccrashed
              [] o.ret = "done" /\ Len(cjob.todo) > 1 ->
                    /\ cjob' = [cjob EXCEPT !.todo = Tail(@)]
                    /\ Become(queues) /\ UNCHANGED <<cresp, ccrashed>>
              [] o.ret = "done" /\ Len(cjob.todo) = 1 /\ cjob.from = "none" ->
                    /\ cjob' = NoJob /\ Become(queues) /\ UNCHANGED <<cresp, ccrashed>>
              [] o.ret = "done" /\ Len(cjob.todo) = 1 /\ cjob.from # "none" ->
                    LET s == StealUntilMem([to |-> o.q, from |-> chunkqueue_mark_written(cqueue[cjob.from], cjob.use)],
                                           cjob.len - cjob.use, cjob.to, cjob.from)
                    IN  /\ cjob' = s.job
                        /\ Become([cqueue EXCEPT ![cjob.to] = s.p.to, ![cjob.from] = s.p.from])
                        /\ UNCHANGED <<cresp, ccrashed>>
    /\ UNCHANGED <<cwire, centered, cconf>>

----------------------------------------------------------------------------
(* A request body *)

Upload == ChunkIdle /\ cconf.dir = "upload" /\ cresp.state # "FAILED"

(* connection_handle_read(): n bytes arrive, or none. *)
connection_handle_read(n) ==
    /\ Upload
    /\ centered + n <= MaxEntered
    /\ \E q \in ReadInto(cqueue["read"], Data(centered, n)) : Become([cqueue EXCEPT !["read"] = q])
    /\ centered' = centered + n
    /\ UNCHANGED <<cjob, cwire, cresp, cconf, ccrashed>>

(* connection_handle_read_post_state(): what is missing of the body moves to
   request_content_queue, a large one to temporary files. *)
connection_handle_read_post_state ==
    LET p == [to |-> cqueue["body"], from |-> chunkqueue_remove_finished_chunks(cqueue["read"])]
        len == ContentLength - p.to.in
        x == chunkqueue_steal(p, len)
        s == StealUntilMem(p, len, "body", "read")
        y == IF cconf.large THEN s.p ELSE x
    IN  /\ Upload
        /\ Become([cqueue EXCEPT !["body"] = y.to, !["read"] = chunkqueue_remove_finished_chunks(y.from)])
        /\ cjob' = IF cconf.large THEN s.job ELSE NoJob
        /\ UNCHANGED <<cwire, centered, cresp, cconf, ccrashed>>

(* A backend module takes n bytes of the body at a time, or all of them. *)
BackendTakes(n) ==
    LET p == [to |-> cqueue["wb"], from |-> cqueue["body"]]
    IN  /\ Upload
        /\ p.from.chunks # <<>>
        /\ \E x \in {chunkqueue_steal(p, n), chunkqueue_append_chunkqueue(p)} :
              Become([cqueue EXCEPT !["wb"] = x.to, !["body"] = x.from])
        /\ UNCHANGED <<cjob, cwire, centered, cresp, cconf, ccrashed>>

----------------------------------------------------------------------------
(* Writing *)

(* The most that one call writes.  write() is given what the limit leaves; writev()
   whole chunks until they reach it; of a file never more than it leaves. *)
network_write_mem_chunk(size, max) == IF size > max THEN max ELSE size
network_writev_mem_chunks(size, max) == size
network_write_file_chunk(size, max) == IF size > max THEN max ELSE size

network_backend_write(chunks, max) ==
    LET left[i \in 0 .. Len(chunks)] ==
            IF i = 0 THEN max
            ELSE LET size == Len(chunks[i].data)
                 IN  CASE left[i - 1] <= 0 -> left[i - 1]
                       [] left[i - 1] > 0 /\ chunks[i].type = "file" ->
                             left[i - 1] - network_write_file_chunk(size, left[i - 1])
                       [] left[i - 1] > 0 /\ chunks[i].type = "mem" /\ cconf.backend = "write" ->
                             left[i - 1] - network_write_mem_chunk(size, left[i - 1])
                       [] OTHER -> left[i - 1] - network_writev_mem_chunks(size, left[i - 1])
    IN  max - left[Len(chunks)]

(* A file that is not open is opened by its name when its turn comes. *)
network_open_file_chunk(q) ==
    IF q.chunks # <<>> /\ q.chunks[1].type = "file" THEN [q EXCEPT !.chunks[1].fd = TRUE] ELSE q

(* The queue after n bytes went out: the loop went on to the chunk that follows
   unless the limit was reached at its beginning. *)
network_write_chunkqueue(q, n, limit) ==
    LET w == chunkqueue_mark_written(q, n)
        begun == w.chunks # <<>> /\ Len(w.chunks[1].data) < Len(q.chunks[Len(q.chunks) - Len(w.chunks) + 1].data)
    IN  chunkqueue_remove_finished_chunks(
            IF n < limit \/ begun THEN network_open_file_chunk(w) ELSE w)

(* The body is written to the backend. *)
BackendWrite ==
    /\ Upload
    /\ cqueue["wb"].chunks # <<>>
    /\ \E max \in 1 .. MaxWrite :
        LET limit == network_backend_write(cqueue["wb"].chunks, max)
        IN  \E n \in 0 .. limit :
              /\ Become([cqueue EXCEPT !["wb"] = network_write_chunkqueue(@, n, limit)])
              /\ cwire' = cwire \o SubSeq(Content(cqueue["wb"].chunks), 1, n)
    /\ UNCHANGED <<cjob, centered, cresp, cconf, ccrashed>>

----------------------------------------------------------------------------
(* A response *)

Response == ChunkIdle /\ cconf.dir = "response" /\ cresp.state # "END"

(* http_chunk_append_data(): to a temporary file if the last chunk is one or too much
   is in memory, otherwise to memory. *)
ToTempfile(q, data) ==
    \/ q.chunks # <<>> /\ Last(q.chunks).type = "file" /\ Last(q.chunks).temp
    \/ q.in - q.out + Len(data) > BufLimit

(* Content as it is sent: a block for each call that stores it. *)
Framed(data) == IF cresp.chunked THEN <<<<LengthLine(Len(data))>>, data, <<EndOfLine>>>> ELSE <<data>>

(* The backend sends n bytes, also when the response is finished for the client.
   Before the first of them it sent its header, with a Content-Length or without (-1). *)
http_chunk_append_data(n, length) ==
    LET q == cqueue["write"]
        data == Data(centered, n)
    IN  /\ Response /\ cresp.open /\ cresp.state # "START"
        /\ centered + n <= MaxEntered
        /\ IF ToTempfile(q, data)
           THEN /\ cjob' = [NoJob EXCEPT !.to = "write", !.todo = Framed(data)]
                /\ UNCHANGED <<cqueue, ctemp>>
           ELSE /\ Become([cqueue EXCEPT !["write"] = FoldLeft(chunkqueue_append_mem, @, Framed(data))])
                /\ UNCHANGED cjob
        /\ centered' = centered + n
        /\ cresp' = IF cresp.started THEN cresp
                    ELSE [cresp EXCEPT !.started = TRUE, !.length = length, !.parsed = length # -1, !.said = length]
        /\ UNCHANGED <<cwire, cconf, ccrashed>>

(* http_response_send_file(): the response is a file of n bytes. *)
http_chunk_append_file(n) ==
    /\ Response /\ cresp.state = "HANDLE_REQUEST"
    /\ cresp.open /\ ~cresp.started
    /\ Become([cqueue EXCEPT !["write"] = chunkqueue_append_file_fd(@, Data(centered, n))])
    /\ centered' = centered + n
    /\ cresp' = [cresp EXCEPT !.open = FALSE, !.direct = TRUE, !.fin = TRUE, !.started = TRUE]
    /\ UNCHANGED <<cjob, cwire, cconf, ccrashed>>

BackendEnd ==
    LET d == http_response_backend_done(cqueue["write"], cresp)
    IN  /\ Response /\ cresp.open /\ cresp.started /\ cresp.state # "START"
        /\ Become([cqueue EXCEPT !["write"] = d.q])
        /\ cresp' = d.r
        /\ UNCHANGED <<cjob, cwire, centered, cconf, ccrashed>>

(* http_response_backend_error() of a response that has started. *)
BackendBreaks ==
    /\ Response /\ cresp.open /\ cresp.started /\ cresp.state # "START"
    /\ cresp' = [cresp EXCEPT !.open = FALSE, !.direct = TRUE, !.fin = TRUE, !.keep = FALSE, !.broken = TRUE]
    /\ UNCHANGED <<cqueue, ctemp, cjob, cwire, centered, cconf, ccrashed>>

(* connection_handle_write_prepare(), by its parts.  First the status: one without a
   body (204, 205, 304) drops what is there, and so does the page made for an error,
   which is the content from then on. *)
HeaderOnly == {204, 205, 304}
ErrorPage == Data(0, 1)
ByStatus(q, r, status) ==
    CASE status \in HeaderOnly ->
            [q |-> chunkqueue_reset(q),
             r |-> [r EXCEPT !.chunked = FALSE, !.parsed = FALSE, !.said = -1, !.fin = TRUE,
                             !.bodiless = TRUE, !.dropped = centered]]
      [] status = 500 ->
            [q |-> chunkqueue_append_mem(chunkqueue_reset(q), ErrorPage),
             r |-> [r EXCEPT !.chunked = FALSE, !.length = -1, !.said = -1, !.fin = TRUE, !.open = FALSE,
                             !.broken = FALSE]]
      [] OTHER -> [q |-> q, r |-> r]

(* A response that is complete gets its length, another one becomes chunked, with what is
   there already as its first chunk, or ends with the connection; unless the backend announced a length. *)
Prepared(q, r, status) ==
    LET n == Len(Content(q.chunks))
        length == CASE status \in {204, 304} -> -1
                    [] status \notin {204, 304} /\ (n > 0 \/ ~cconf.head) -> n
                    [] OTHER -> r.length
    IN  CASE r.parsed -> [q |-> q, r |-> r]
          [] ~r.parsed /\ r.fin -> [q |-> q, r |-> [r EXCEPT !.length = length]]
          [] ~r.parsed /\ ~r.fin /\ cconf.http11 /\ n > 0 ->
                [q |-> chunkqueue_append_mem(chunkqueue_prepend_buffer(q, <<LengthLine(n)>>), <<EndOfLine>>),
                 r |-> [r EXCEPT !.chunked = TRUE]]
          [] ~r.parsed /\ ~r.fin /\ cconf.http11 /\ n = 0 -> [q |-> q, r |-> [r EXCEPT !.chunked = TRUE]]
          [] OTHER -> [q |-> q, r |-> [r EXCEPT !.keep = FALSE]]

(* At the end the content is dropped for HEAD; http_response_write_header().  An error is
   what the server found itself: nothing was sent by a backend yet, or it failed. *)
connection_handle_write_prepare(status) ==
    LET s == ByStatus(cqueue["write"], cresp, status)
        p == Prepared(s.q, s.r, status)
        page == IF status = 500 THEN Len(ErrorPage) ELSE centered
        h == IF cconf.head
             THEN [q |-> chunkqueue_reset(p.q),
                   r |-> [p.r EXCEPT !.fin = TRUE, !.chunked = FALSE, !.bodiless = TRUE, !.dropped = page]]
             ELSE p
    IN  /\ Response /\ cresp.state = "HANDLE_REQUEST"
        /\ IF status = 500 THEN cresp.direct \/ ~cresp.started ELSE cresp.fin \/ (cresp.started /\ cconf.stream)
        /\ Become([cqueue EXCEPT !["write"] = chunkqueue_prepend_buffer(h.q, <<Header>>)])
        /\ cresp' = [h.r EXCEPT !.state = "START"]
        /\ centered' = page
        /\ UNCHANGED <<cjob, cwire, cconf, ccrashed>>

(* CON_STATE_WRITE, first right after the response is prepared: the response ends when all is written and the file is finished. *)
connection_handle_write ==
    /\ Response /\ cresp.state \in {"START", "WRITE"}
    /\ \E max \in 1 .. MaxWrite :
        LET q == cqueue["write"]
            limit == network_backend_write(q.chunks, max)
        IN  \E n \in 0 .. limit :
              LET w == network_write_chunkqueue(q, n, limit)
              IN  /\ Become([cqueue EXCEPT !["write"] = w])
                  /\ cwire' = cwire \o SubSeq(Content(q.chunks), 1, n)
                  /\ cresp' = IF w.chunks = <<>> /\ cresp.fin
                              THEN [cresp EXCEPT !.state = "END", !.open = FALSE]
                              ELSE [cresp EXCEPT !.state = "WRITE"]
    /\ UNCHANGED <<cjob, centered, cconf, ccrashed>>

----------------------------------------------------------------------------
(* connection_reset() at the end, or after an error or a timeout. *)
ChunkReset ==
    /\ ChunkIdle
    /\ Become([q \in Queues |-> chunkqueue_reset(cqueue[q])])
    /\ cwire' = <<>> /\ centered' = 0 /\ cresp' = NoResponse
    /\ UNCHANGED <<cjob, cconf, ccrashed>>

ChunkCrashed == ccrashed /\ UNCHANGED chunkVars

ChunkNext ==
    \/ Store \/ ChunkReset \/ ChunkCrashed
    \/ \E n \in 0 .. 2 : connection_handle_read(n)
    \/ connection_handle_read_post_state
    \/ \E n \in 1 .. 2 : BackendTakes(n)
    \/ BackendWrite
    \/ \E n \in 1 .. 2, length \in {-1, 2} : http_chunk_append_data(n, length)
    \/ \E n \in 1 .. 2 : http_chunk_append_file(n)
    \/ BackendEnd \/ BackendBreaks
    \/ \E status \in {200, 500} \cup HeaderOnly : connection_handle_write_prepare(status)
    \/ connection_handle_write

ChunkSpec == ChunkInit /\ [][ChunkNext]_chunkVars

----------------------------------------------------------------------------
(* Properties *)

ChunksOf(q) == {cqueue[q].chunks[i] : i \in 1 .. Len(cqueue[q].chunks)}

(* Type correctness. *)
ChunkTypeOK ==
    /\ \A q \in Queues : /\ cqueue[q].in \in Nat /\ cqueue[q].out \in 0 .. cqueue[q].in
                          /\ cqueue[q].dir \in 0 .. TempDirs
                          /\ \A c \in ChunksOf(q) : c.type \in {"mem", "file"} /\ (c.temp => c.type = "file")
    /\ cjob.to \in Queues \cup {"none"} /\ cjob.from \in Queues \cup {"none"}
    /\ centered \in 0 .. MaxEntered

(* bytes_in - bytes_out, by which the server decides how much more to read, to store
   on disk and to announce, is what the queue holds, also in the middle of a call and
   after one that failed. *)
QueueLength ==
    \A q \in Queues : cqueue[q].in - cqueue[q].out = Len(Content(cqueue[q].chunks))

(* However a body is cut up, stored, moved and sent: the backend gets its bytes in
   order, none twice and none left out; what follows the body stays for the next
   request. *)
UploadInOrder ==
    (ChunkIdle /\ cconf.dir = "upload" /\ cresp.state # "FAILED") =>
        /\ cwire \o Content(cqueue["wb"].chunks) \o Content(cqueue["body"].chunks)
             \o Content(cqueue["read"].chunks) = Data(0, centered)
        /\ cqueue["body"].in <= ContentLength

(* A temporary file exists as long as the one chunk that will remove it, and every
   chunk that will open it by its name comes before that. *)
TempFilesOwned ==
    ~ccrashed =>
        /\ \A f \in ctemp : Cardinality(UNION {{<<q, i>> : i \in {j \in TempChunks(cqueue[q]) :
                                                      cqueue[q].chunks[j].name = f}} : q \in Queues}) = 1
        /\ \A q \in Queues : \A c \in ChunksOf(q) :
              c.type = "file" /\ c.name # 0 /\ (c.temp \/ ~c.fd) => c.name \in ctemp

(* s from i on is a sequence of chunks, the last one, if any, at its end. *)
ChunkedFrom(s) ==
    LET ok[i \in 1 .. Len(s) + 1] ==
            \/ i = Len(s) + 1
            \/ s[i] = LastChunk /\ i = Len(s)
            \/ /\ s[i][1] = "length"
               /\ i + s[i][2] + 1 <= Len(s)
               /\ \A k \in i + 1 .. i + s[i][2] : s[k][1] = "data"
               /\ s[i + s[i][2] + 1] = EndOfLine
               /\ ok[i + s[i][2] + 2]
    IN  ok[1]

(* A response is sent the way its header says: whole chunks, and the last one when it
   ends, but not when the backend failed; or as many bytes as announced; or the
   connection ends with it.  Its content is complete and in order, with what was sent
   before it was known whether the response would be chunked, in memory or in files,
   and an error page has nothing before it.  Two things the server leaves to the backend:
   to send as many bytes as it announced (said), and to send none after the header of a
   response without a body is queued (bodiless). *)
ResponseFramed ==
    (ChunkIdle /\ cconf.dir = "response" /\ cresp.state # "HANDLE_REQUEST" /\ ~cresp.lost) =>
        LET all == cwire \o Content(cqueue["write"].chunks)
            body == Tail(all)
            due == Data(cresp.dropped, centered - cresp.dropped)
        IN  /\ Head(all) = Header
            /\ SelectSeq(body, LAMBDA e : e[1] = "data") = due
            /\ cresp.chunked => /\ ChunkedFrom(body) /\ ~cresp.bodiless /\ cresp.said = -1
                                /\ cresp.fin /\ ~cresp.broken <=> body # <<>> /\ Last(body) = LastChunk
            /\ ~cresp.chunked => body = due
            /\ ~cresp.chunked /\ cresp.keep => cresp.fin \/ cresp.parsed
            /\ ~cresp.chunked /\ cresp.keep /\ cresp.fin /\ ~cresp.bodiless =>
                   cresp.length = Len(body) \/ (cresp.said # -1 /\ cresp.said # centered)

(* Bytes keep their number and their order on the way through queues and files.  Nothing
   is said of the queues once chunkqueue_remove_empty_chunks() has stepped off the end of
   the list, behind a temporary file that it removed as the last chunk (ccrashed). *)
ChunkInv == ChunkTypeOK /\ QueueLength /\ UploadInOrder /\ TempFilesOwned /\ ResponseFramed
=============================================================================
