------------------------------- MODULE Webdav -------------------------------
(***************************************************************************)
(* mod_webdav: a small tree of files and directories, the properties and   *)
(* the locks in sqlite, and the methods that change them.  A method runs   *)
(* in one piece except while it waits for the body of PUT, PROPPATCH and   *)
(* LOCK.  At most one system call of a request fails on its own (Faults).  *)
(***************************************************************************)
EXTENDS Naturals, Sequences, FiniteSets, SequencesExt

CONSTANTS
    DavClient,      \* connections that may be in the middle of a body
    DavUris,        \* the resources requests name
    DavStarts       \* [fs, readonly, db, locked, left]: the tree to begin with, webdav.is-readonly,
                    \* a sqlite database, a lock on e/f at the start, the bound on the requests

VARIABLES
    davfs,          \* the tree: absent, a directory or the content of a file
    davprops,       \* table properties: one property per resource, 0 = no row
    davlocks,       \* table locks
    davdest,        \* p->uri.path: the destination the plugin parsed last
    davbody,        \* requests whose body is being read
    davlast,        \* the last answer
    davconf,
    davleft         \* requests still to come: all, and MOVE or COPY among them

davVars == <<davfs, davprops, davlocks, davdest, davbody, davlast, davconf, davleft>>

Path == {<<t>> : t \in {"d", "e"}} \cup ({<<t, n>> : t \in {"d", "e"}, n \in {"f", "s"}} \cup {<<t, "s", "f">> : t \in {"d", "e"}})
File == {"one", "two", "three", "new", "empty", "part"}
(* A resource as URIs, properties and locks name it: with or without the last slash. *)
Uri == [p : Path, slash : BOOLEAN]
Plain(p) == [p |-> p, slash |-> FALSE]
NoUri == [p |-> <<>>, slash |-> FALSE]
NoBody == [m |-> "none", u |-> NoUri, bound |-> 0]

Under(p, q) == Len(p) < Len(q) /\ SubSeq(q, 1, Len(p)) = p
Below == [p \in Path \cup {<<>>} |-> {q \in Path : Under(p, q)}]
Above == [p \in Path |-> {q \in Path : Under(q, p)}]
Children == [p \in Path |-> {q \in Below[p] : Len(q) = Len(p) + 1}]
IsDir(fs, p) == p = <<>> \/ (p \in Path /\ fs[p] = "dir")
IsFile(fs, p) == p \in Path /\ fs[p] \in File

(* stat(): what the path with or without its last slash is. *)
Stat(fs, u) ==
    IF (\E q \in Above[u.p] : fs[q] \in File) \/ (u.slash /\ IsFile(fs, u.p)) THEN "ENOTDIR"
    ELSE IF fs[u.p] = "none" THEN "ENOENT" ELSE IF IsDir(fs, u.p) THEN "dir" ELSE "file"
CanMake(fs, p) == fs[p] = "none" /\ IsDir(fs, Front(p))

(* A failing system call, named by what it does and to which path at or below p. *)
NoFault == <<"none", <<>>>>
Faults(calls, p) == {NoFault} \cup (calls \X ((Below[p] \cup {p}) \ {<<>>}))

(* Mutant: only an exclusive lock on the directory is looked for. *)
HasLock_DirOnly(u, hasIf) == hasIf \/ ~\E l \in davlocks : l.u = u /\ u.slash

(* webdav_has_lock(): any If header is good enough; a lock never runs out. *)
webdav_has_lock(u, hasIf) == hasIf \/ ~\E l \in davlocks : l.u = u

(* stmt_copy_uri is an INSERT: it fails when the destination has the property; stmt_delete_uri; stmt_move_uri. *)
CopyProps(pr, src, dst) == IF davconf.db /\ pr[dst] = 0 THEN [pr EXCEPT ![dst] = pr[src]] ELSE pr
DeleteProps(pr, u) == IF davconf.db THEN [pr EXCEPT ![u] = 0] ELSE pr
MoveProps(pr, src, dst) ==
    IF davconf.db /\ pr[src] # 0 /\ src # dst THEN [pr EXCEPT ![dst] = pr[src], ![src] = 0] ELSE pr

(* The entry readdir() gives last, where there are two. *)
LastNames == {"f", "s"}
DavEntries(fs, p) == {q \in Children[p] : fs[q] # "none"}
LastEntry(fs, p, last) == IF Append(p, last) \in DavEntries(fs, p) THEN Append(p, last) ELSE CHOOSE q \in DavEntries(fs, p) : TRUE

(* webdav_delete_dir(): what cannot be unlinked stays, and what is in a    *)
(* directory that cannot be listed, and so do the directories above it.  The result is that of the entry readdir() gave   *)
(* last: what failed before is forgotten.  Without a database a file that  *)
(* was unlinked counts as a failure.                                       *)
webdav_delete_dir(fs, pr, top, fault, last) ==
    LET below == {q \in Below[top] : fs[q] # "none"}
        left == {q \in below : fault = <<"unlink", q>> \/ (fault[1] = "list" /\ Under(fault[2], q))}
        stay == {q \in below : \E k \in left : q = k \/ Under(q, k)}
        gone == below \ stay
        failed[q \in Path] == \/ q \in stay
                              \/ fs[q] \in File /\ ~davconf.db
                              \/ fs[q] = "dir" /\ DavEntries(fs, q) # {} /\ failed[LastEntry(fs, q, last)]
    IN [fs |-> [q \in Path |-> IF q \in gone THEN "none" ELSE fs[q]],
        pr |-> IF davconf.db THEN [u \in Uri |-> IF u.p \in gone /\ ~u.slash THEN 0 ELSE pr[u]] ELSE pr,
        multi |-> fault # <<"list", top>> /\ DavEntries(fs, top) # {} /\ failed[LastEntry(fs, top, last)]]

(* Mutant: a full disk goes unnoticed. *)
CopyFile_Unchecked(st, src, dst, ow, fault, skey, dkey) ==
    IF fault = <<"open", src>> THEN [st EXCEPT !.status = 403]
    ELSE IF st.fs[dst.p] # "none" /\ ~ow THEN [st EXCEPT !.status = 412]
    ELSE IF Stat(st.fs, dst) = "ENOTDIR" THEN [st EXCEPT !.status = 403]
    ELSE IF dst.slash \/ IsDir(st.fs, dst.p) \/ ~IsDir(st.fs, Front(dst.p)) THEN [st EXCEPT !.status = 409]
    ELSE [st EXCEPT !.fs[dst.p] = IF src = dst.p THEN "empty" ELSE IF fault = <<"write", dst.p>> THEN "part" ELSE st.fs[src],
                    !.pr = CopyProps(@, skey, dkey)]

(* webdav_copy_file(): the destination is truncated before anything is read. *)
webdav_copy_file(st, src, dst, ow, fault, skey, dkey) ==
    IF fault = <<"open", src>> THEN [st EXCEPT !.status = 403]
    ELSE IF st.fs[dst.p] # "none" /\ ~ow THEN [st EXCEPT !.status = 412]
    ELSE IF Stat(st.fs, dst) = "ENOTDIR" THEN [st EXCEPT !.status = 403]
    ELSE IF dst.slash \/ IsDir(st.fs, dst.p) \/ ~IsDir(st.fs, Front(dst.p)) THEN [st EXCEPT !.status = 409]
    ELSE IF fault = <<"open", dst.p>> THEN [st EXCEPT !.status = 403]
    ELSE IF fault = <<"write", dst.p>> THEN [st EXCEPT !.status = 507, !.fs[dst.p] = "part"]
    ELSE [st EXCEPT !.fs[dst.p] = IF src = dst.p THEN "empty" ELSE st.fs[src],
                    !.pr = CopyProps(@, skey, dkey)]

(* webdav_copy_dir(): entries in the order of readdir(), until a file fails. *)
(* An entry whose stat() fails, a directory that cannot be made and the      *)
(* content of one that cannot be opened are passed over (skipped).  Once a   *)
(* sub-directory is copied, it is the properties of the directories above    *)
(* that are copied.                                                          *)
Walk(last) ==
    LET f == << <<"in", <<"f">>>>, <<"out", <<"f">>>> >>
        s == << <<"in", <<"s">>>>, <<"in", <<"s", "f">>>>, <<"out", <<"s", "f">>>>, <<"out", <<"s">>>> >>
    IN IF last = "s" THEN f \o s ELSE s \o f
CopyEntry(st, step, src, dst, ow, fault) ==
    LET r == step[2]
        from == src.p \o r
        to == dst.p \o r
        up == Front(r)
        skey == IF up = <<>> THEN src ELSE Plain(src.p \o up)
        dkey == IF up = <<>> THEN dst ELSE Plain(dst.p \o up)
        unopened == IF fault = <<"opendir", from>> THEN {r} ELSE {}
    IN CASE st.status # 0 \/ from \notin Path -> st
         [] \E q \in st.skipped : Under(q, r) \/ (q = r /\ fault[1] # "opendir") -> st
         [] step[1] = "in" /\ fault = <<"stat", from>> /\ st.fs[from] # "none" -> [st EXCEPT !.skipped = {r}]
         [] step[1] = "in" /\ IsFile(st.fs, from) ->
                webdav_copy_file(st, from, Plain(to), ow, fault, Plain(from), Plain(to))
         [] step[1] = "in" /\ IsDir(st.fs, from) ->
                IF st.fs[to] # "none" THEN [st EXCEPT !.skipped = @ \cup unopened]
                ELSE IF ~CanMake(st.fs, to) \/ fault = <<"mkdir", to>> THEN [st EXCEPT !.skipped = @ \cup {r}]
                ELSE [st EXCEPT !.fs[to] = "dir", !.skipped = @ \cup unopened]
         [] step[1] = "out" /\ IsDir(st.fs, from) -> [st EXCEPT !.pr = CopyProps(@, skey, dkey)]
         [] OTHER -> st
webdav_copy_dir(st, src, dst, ow, fault, last) ==
    FoldLeft(LAMBDA s, step : CopyEntry(s, step, src, dst, ow, fault),
             [st EXCEPT !.skipped = IF fault = <<"opendir", src.p>> THEN {<<>>} ELSE {}], Walk(last))

Unmoved(fs, pr) == [fs |-> fs, pr |-> pr, status |-> 0, skipped |-> {}]

DavInit ==
    /\ \E s \in DavStarts : davfs = s.fs /\ davleft = s.left /\ davconf = [readonly |-> s.readonly, db |-> s.db, locked |-> s.locked]
    /\ davprops = [u \in Uri |-> IF u = Plain(<<"d", "f">>) /\ davconf.db THEN 1
                                 ELSE IF u = [p |-> <<"d", "s">>, slash |-> TRUE] /\ davconf.db THEN 2 ELSE 0]
    /\ davlocks = IF davconf.locked THEN {[u |-> Plain(<<"e", "f">>), scope |-> "exclusive", token |-> 0]} ELSE {}
    /\ davdest = NoUri
    /\ davbody = [c \in DavClient |-> NoBody]
    /\ davlast = [m |-> "none", u |-> NoUri, d |-> NoUri, status |-> 0, skipped |-> {}, bound |-> 0]

(* uuid_generate(): tokens are told apart by their age. *)
NewToken == 1 + CHOOSE t \in 0 .. 9 : (t = 0 \/ \E l \in davlocks : l.token = t) /\ \A l \in davlocks : l.token <= t
(* The locks a request is bound by are those older than its check; an If header frees it from all. *)
Bound(hasIf) == IF hasIf THEN 0 ELSE NewToken
NewRequest == davleft.all > 0 /\ davleft' = [davleft EXCEPT !.all = @ - 1]
NewCopy == /\ davleft.all > 0 /\ davleft.copies > 0
           /\ davleft' = [all |-> davleft.all - 1, copies |-> davleft.copies - 1]
Answer(m, u, status, bound) == davlast' = [m |-> m, u |-> u, d |-> NoUri, status |-> status, skipped |-> {}, bound |-> bound]
AnswerTo(m, u, d, status, skipped, bound) == davlast' = [m |-> m, u |-> u, d |-> d, status |-> status, skipped |-> skipped, bound |-> bound]
(* An If header is only worth sending where a lock is in the way. *)
IfHeader(us) == IF \E l \in davlocks : l.u \in us THEN BOOLEAN ELSE {FALSE}

(* MKCOL; a body is not supported. *)
MkCol(u, fault, body) ==
    LET status == IF davconf.readonly THEN 403 ELSE IF body THEN 415
                  ELSE IF fault = <<"mkdir", u.p>> THEN 403
                  ELSE IF davfs[u.p] # "none" THEN 405
                  ELSE IF ~IsDir(davfs, Front(u.p)) THEN 409 ELSE 201
    IN  /\ davfs' = IF status = 201 THEN [davfs EXCEPT ![u.p] = "dir"] ELSE davfs
        /\ Answer("MKCOL", u, status, 0)
        /\ UNCHANGED <<davprops, davlocks, davdest, davbody, davconf>>

(* DELETE *)
DavDelete(u, hasIf, fault, last) ==
    LET what == Stat(davfs, u)
        r == webdav_delete_dir(davfs, davprops, u.p, fault, last)
        stuck == r.multi \/ DavEntries(r.fs, u.p) # {} \/ fault = <<"unlink", u.p>>
        gone == [r.fs EXCEPT ![u.p] = "none"]
        status == IF davconf.readonly THEN 403
                  ELSE IF ~webdav_has_lock(u, hasIf) THEN 423
                  ELSE IF what = "ENOENT" THEN 404
                  ELSE IF what = "ENOTDIR" THEN 403
                  ELSE IF what = "dir" /\ ~u.slash THEN 301
                  ELSE IF what = "dir" /\ r.multi THEN 207
                  ELSE IF what = "dir" /\ stuck THEN 501
                  ELSE IF what = "file" /\ fault = <<"unlink", u.p>> THEN 403 ELSE 204
    IN  /\ davfs' = IF status \in {207, 501} THEN r.fs
                    ELSE IF status # 204 THEN davfs
                    ELSE IF what = "dir" THEN gone ELSE [davfs EXCEPT ![u.p] = "none"]
        /\ davprops' = IF what = "dir" /\ status \in {204, 207, 501} THEN r.pr ELSE davprops
        /\ Answer("DELETE", u, status, Bound(hasIf))
        /\ UNCHANGED <<davlocks, davdest, davbody, davconf>>

(* PUT, before its body is there: the lock is looked at once. *)
PutStart(c, u, hasIf) ==
    /\ davbody[c] = NoBody
    /\ IF davconf.readonly \/ ~webdav_has_lock(u, hasIf)
       THEN Answer("PUT", u, IF davconf.readonly THEN 403 ELSE 423, Bound(hasIf)) /\ UNCHANGED davbody
       ELSE davbody' = [davbody EXCEPT ![c] = [m |-> "PUT", u |-> u, bound |-> Bound(hasIf)]] /\ UNCHANGED davlast
    /\ UNCHANGED <<davfs, davprops, davlocks, davdest, davconf>>

(* PUT, the body is there: Content-Range writes into the file it finds, else it is truncated or created. *)
PutEnd(c, range, fault) ==
    LET u == davbody[c].u
        what == Stat(davfs, u)
        opened == IF range THEN what = "file"
                  ELSE what = "file" \/ (what = "ENOENT" /\ ~u.slash /\ CanMake(davfs, u.p))
        status == IF range /\ what = "ENOENT" THEN 404
                  ELSE IF ~opened \/ fault = <<"open", u.p>> THEN 403
                  ELSE IF fault = <<"write", u.p>> THEN 507
                  ELSE IF what = "ENOENT" THEN 201 ELSE 200
    IN  /\ davbody[c].m = "PUT"
        /\ davfs' = IF ~opened \/ status \in {403, 404} THEN davfs
                    ELSE [davfs EXCEPT ![u.p] = IF status = 507 \/ range THEN "part" ELSE "new"]
        /\ AnswerTo(IF range THEN "PUT-RANGE" ELSE "PUT", u, NoUri, status, {}, davbody[c].bound)
        /\ davbody' = [davbody EXCEPT ![c] = NoBody]
        /\ UNCHANGED <<davprops, davlocks, davdest, davconf>>

(* The URIs as strings: the same, or the destination within the source. *)
Nested(u, d) == \/ u = d
                \/ d.p \in Below[u.p]
                \/ u.p = d.p /\ ~u.slash
(* A file goes into a directory by its own name. *)
Target(fs, u, d) == IF Stat(fs, u) = "file" /\ Stat(fs, d) = "dir" THEN Plain(Append(d.p, Last(u.p))) ELSE d

(* The directory to copy into is made when there is none, in the place of a file when Overwrite allows. *)
DestinationDir(d, ow, fault) ==
    LET what == Stat(davfs, d)
        make == Unmoved([davfs EXCEPT ![d.p] = "dir"], davprops)
        none == Unmoved([davfs EXCEPT ![d.p] = "none"], davprops)
        same == Unmoved(davfs, davprops)
    IN CASE what = "dir" -> same
         [] what = "file" /\ ~ow -> [same EXCEPT !.status = 409]
         [] what = "file" /\ ow -> IF fault = <<"mkdir", d.p>> THEN [none EXCEPT !.status = 403] ELSE make
         [] OTHER -> IF CanMake(davfs, d.p) /\ fault # <<"mkdir", d.p>> THEN make ELSE [same EXCEPT !.status = 403]

(* MOVE and COPY of a directory: MOVE deletes what it copied, errors or not. *)
MoveCopyDir(m, u, d, ow, hasIf, fault, last) ==
    LET at == DestinationDir(d, ow, fault)
        copied == IF at.status # 0 THEN at ELSE webdav_copy_dir(at, u, d, ow, fault, last)
        del == webdav_delete_dir(copied.fs, copied.pr, u.p, fault, last)
        rest == IF DavEntries(del.fs, u.p) = {} /\ fault # <<"unlink", u.p>> THEN [del.fs EXCEPT ![u.p] = "none"] ELSE del.fs
        moved == m = "MOVE" /\ copied.status = 0
    IN  /\ davfs' = IF moved THEN rest ELSE copied.fs
        /\ davprops' = IF moved THEN del.pr ELSE copied.pr
        /\ AnswerTo(m, u, d, IF copied.status # 0 THEN copied.status ELSE IF Stat(davfs, d) = "dir" THEN 204 ELSE 201,
                    copied.skipped, Bound(hasIf))

(* MOVE and COPY of a file: rename(), or else copy and delete. *)
MoveCopyFile(m, u, d, ow, hasIf, fault, renames) ==
    LET to == Target(davfs, u, d)
        there == Stat(davfs, to)
        into == to # d
        renamed == /\ m = "MOVE" /\ renames /\ ~to.slash
                   /\ there \in {"file", "ENOENT"} /\ IsDir(davfs, Front(to.p))
        copied == webdav_copy_file(Unmoved(davfs, davprops), u.p, to, ow, fault, u, d)
        early == IF there = "ENOTDIR" THEN 409 ELSE IF there \in {"file", "dir"} /\ ~ow THEN 412 ELSE 0
        good == IF there = "ENOENT" /\ ~into THEN 201 ELSE 204
        unlinked == m = "MOVE" /\ fault # <<"unlink", u.p>>
    IN IF early # 0
       THEN AnswerTo(m, u, d, early, {}, Bound(hasIf)) /\ UNCHANGED <<davfs, davprops>>
       ELSE IF renamed
       THEN /\ davfs' = IF to.p = u.p THEN davfs ELSE [davfs EXCEPT ![to.p] = davfs[u.p], ![u.p] = "none"]
            /\ davprops' = MoveProps(davprops, u, d)
            /\ AnswerTo(m, u, d, good, {}, Bound(hasIf))
       ELSE IF copied.status # 0
       THEN davfs' = copied.fs /\ davprops' = copied.pr /\ AnswerTo(m, u, d, copied.status, {}, Bound(hasIf))
       ELSE /\ davfs' = IF unlinked THEN [copied.fs EXCEPT ![u.p] = "none"] ELSE copied.fs
            /\ davprops' = IF unlinked THEN DeleteProps(copied.pr, u) ELSE copied.pr
            /\ AnswerTo(m, u, d, good, {}, Bound(hasIf))

(* MOVE and COPY.  The lock on the destination is looked at for a file only. *)
MoveCopy(m, u, d, ow, hasIf, fault, last, renames) ==
    LET what == Stat(davfs, u)
        early == IF davconf.readonly THEN 403 ELSE IF m = "MOVE" /\ ~webdav_has_lock(u, hasIf) THEN 423 ELSE 0
        later == IF Nested(u, d) THEN 403
                 ELSE IF what = "ENOENT" THEN 404
                 ELSE IF what = "ENOTDIR" THEN 403
                 ELSE IF what = "dir" /\ ~u.slash THEN 301
                 ELSE IF what = "file" /\ ~webdav_has_lock(d, hasIf) THEN 423 ELSE 0
    IN  /\ davdest' = IF early = 0 THEN d ELSE davdest
        /\ IF early # 0 \/ later # 0
           THEN /\ AnswerTo(m, u, d, IF early # 0 THEN early ELSE later, {}, Bound(hasIf))
                /\ UNCHANGED <<davfs, davprops>>
           ELSE IF what = "dir" THEN MoveCopyDir(m, u, d, ow, hasIf, fault, last)
           ELSE MoveCopyFile(m, u, d, ow, hasIf, fault, renames)
        /\ UNCHANGED <<davlocks, davbody, davconf>>

(* A Destination or Overwrite header that cannot be used, or that names another host. *)
BadDestination(m, u) ==
    /\ ~davconf.readonly /\ (m = "COPY" \/ webdav_has_lock(u, FALSE))
    /\ \E status \in {400, 502} : Answer(m, u, status, 0)
    /\ UNCHANGED <<davfs, davprops, davlocks, davdest, davbody, davconf>>

(* PROPPATCH looks at the lock whenever it is called: before the body is there and when it is. *)
ProppatchStart(c, u, hasIf) ==
    LET status == IF davconf.readonly THEN 403 ELSE IF ~webdav_has_lock(u, hasIf) THEN 423
                  ELSE IF Stat(davfs, u) = "dir" /\ ~u.slash THEN 301 ELSE 0
    IN  /\ davbody[c] = NoBody
        /\ IF status # 0 THEN Answer("PROPPATCH", u, status, Bound(hasIf)) /\ UNCHANGED davbody
           ELSE davbody' = [davbody EXCEPT ![c] = [m |-> IF hasIf THEN "PROPPATCH-IF" ELSE "PROPPATCH", u |-> u, bound |-> 0]] /\ UNCHANGED davlast
        /\ UNCHANGED <<davfs, davprops, davlocks, davdest, davconf>>

(* The updates are a transaction: a property without a namespace undoes them all. *)
ProppatchEnd(c, update) ==
    LET u == davbody[c].u
        status == IF ~webdav_has_lock(u, davbody[c].m = "PROPPATCH-IF") THEN 423
                  ELSE IF Stat(davfs, u) = "dir" /\ ~u.slash THEN 301
                  ELSE IF update = "malformed" THEN 400
                  ELSE IF ~davconf.db THEN 501
                  ELSE IF update = "no namespace" THEN 400 ELSE 200
    IN  /\ davbody[c].m \in {"PROPPATCH", "PROPPATCH-IF"}
        /\ davprops' = IF status # 200 THEN davprops ELSE [davprops EXCEPT ![u] = IF update = "set" THEN 3 ELSE 0]
        /\ Answer("PROPPATCH", u, status, Bound(davbody[c].m = "PROPPATCH-IF"))
        /\ davbody' = [davbody EXCEPT ![c] = NoBody]
        /\ UNCHANGED <<davfs, davlocks, davdest, davconf>>

(* LOCK with a body. *)
LockStart(c, u, hasIf) ==
    /\ davbody[c] = NoBody
    /\ davbody' = [davbody EXCEPT ![c] = [m |-> IF hasIf THEN "LOCK-IF" ELSE "LOCK", u |-> u, bound |-> 0]]
    /\ UNCHANGED <<davfs, davprops, davlocks, davdest, davlast, davconf>>

(* Rows that refuse a lock of this scope: the resource looked up is the last destination, p->uri.path. *)
DavInTheWay(scope) == {l \in davlocks : l.u = davdest /\ (l.scope # "exclusive" \/ scope = "exclusive")}
(* LOCK, the body is there: what does not exist is created before the body is looked at. *)
LockEnd(c, scope, depth) ==
    LET u == davbody[c].u
        what == Stat(davfs, u)
        create == what = "ENOENT" /\ ~u.slash /\ CanMake(davfs, u.p)
        status == IF what = "ENOENT" /\ ~create THEN 403
                  ELSE IF what = "dir" /\ davbody[c].m = "LOCK" /\ depth = "infinity" THEN 409
                  ELSE IF scope = "malformed" THEN 400
                  ELSE IF davconf.db /\ DavInTheWay(scope) # {} THEN 423
                  ELSE IF ~davconf.db THEN 0 ELSE IF create THEN 201 ELSE 200
    IN  /\ davbody[c].m \in {"LOCK", "LOCK-IF"}
        /\ davfs' = IF create THEN [davfs EXCEPT ![u.p] = "empty"] ELSE davfs
        /\ davlocks' = IF status \in {200, 201} THEN davlocks \cup {[u |-> u, scope |-> scope, token |-> NewToken]} ELSE davlocks
        /\ Answer("LOCK", u, status, 0)
        /\ davbody' = [davbody EXCEPT ![c] = NoBody]
        /\ UNCHANGED <<davprops, davdest, davconf>>

(* LOCK without a body refreshes the timeout nobody reads; Depth: 1 is refused. *)
LockRefresh(u, hasIf, depth) ==
    /\ Answer("LOCK", u, IF depth = "1" \/ ~hasIf THEN 400 ELSE 200, 0)
    /\ UNCHANGED <<davfs, davprops, davlocks, davdest, davbody, davconf>>

(* UNLOCK goes by the token alone. *)
Unlock(u, token) ==
    /\ davlocks' = {l \in davlocks : l.token # token}
    /\ Answer("UNLOCK", u, IF davlocks' = davlocks THEN 401 ELSE 204, 0)
    /\ UNCHANGED <<davfs, davprops, davdest, davbody, davconf>>

(* PROPFIND: what it finds goes into the answer. *)
Propfind(u, body) ==
    LET what == Stat(davfs, u)
    IN  /\ Answer("PROPFIND", u, IF what = "ENOENT" THEN 404 ELSE IF what = "dir" /\ ~u.slash THEN 301
                                 ELSE IF body = "malformed" THEN 400 ELSE 207, 0)
        /\ what # "ENOTDIR"
        /\ UNCHANGED <<davfs, davprops, davlocks, davdest, davbody, davconf>>

(* A copy that fits into the tree; a fault where the copy gets that far. *)
Fits(u, d) ==
    IF IsDir(davfs, u.p)
    THEN \A r \in {<<"f">>, <<"s">>, <<"s", "f">>} : u.p \o r \in Path /\ davfs[u.p \o r] # "none" => d.p \o r \in Path
    ELSE Target(davfs, u, d).p \in Path
CopyFaults(u, d, ow) ==
    IF ow /\ ~Nested(u, d) /\ ((IsFile(davfs, u.p) /\ ~u.slash) \/ (IsDir(davfs, u.p) /\ u.slash))
    THEN Faults({"open", "unlink", "opendir", "stat", "list"}, u.p) \cup Faults({"open", "write", "mkdir"}, d.p) ELSE {NoFault}

DavNext ==
    \/ /\ NewRequest
       /\ \E u \in DavUris :
            \/ \E fault \in Faults({"mkdir"}, u.p), body \in BOOLEAN : MkCol(u, fault, body)
            \/ \E hasIf \in IfHeader({u}), fault \in Faults({"unlink", "list"}, u.p), last \in LastNames : DavDelete(u, hasIf, fault, last)
            \/ \E c \in DavClient, hasIf \in IfHeader({u}) :
                    PutStart(c, u, hasIf) \/ ProppatchStart(c, u, hasIf) \/ LockStart(c, u, hasIf)
            \/ \E hasIf \in BOOLEAN, depth \in {"0", "1"} : LockRefresh(u, hasIf, depth)
            \/ \E token \in {l.token : l \in davlocks} \cup {99} : davconf.db /\ Unlock(u, token)
            \/ \E body \in {"none", "malformed"} : Propfind(u, body)
    \/ /\ NewCopy
       /\ \E u, d \in DavUris, m \in {"MOVE", "COPY"} :
            \/ BadDestination(m, u)
            \/ \E ow \in BOOLEAN, last \in LastNames, renames \in BOOLEAN, hasIf \in IfHeader({u, d}) :
                 \E fault \in CopyFaults(u, d, ow) :
                    /\ Fits(u, d) /\ (~IsFile(davfs, u.p) => ~renames) /\ (~IsDir(davfs, u.p) => last = "f")
                    /\ MoveCopy(m, u, d, ow, hasIf, fault, last, renames)
    \/ /\ UNCHANGED davleft
       /\ \E c \in DavClient :
            \/ \E range \in BOOLEAN, fault \in Faults({"open", "write"}, davbody[c].u.p) : PutEnd(c, range, fault)
            \/ \E update \in {"set", "remove", "malformed", "no namespace"} : ProppatchEnd(c, update)
            \/ \E scope \in {"exclusive", "shared", "malformed"}, depth \in {"0", "infinity"} : LockEnd(c, scope, depth)

DavSpec == DavInit /\ [][DavNext]_davVars

-----------------------------------------------------------------------------
Answered(m) == davlast' # davlast /\ davlast'.m = m
(* The destination is the source under another name: a directory without its slash, a file in its own directory. *)
SamePlace(u, d) == u.p = Target(davfs, u, d).p
Good == {200, 201, 204}

(* A COPY or MOVE that reports success has every file of the source, as it *)
(* was, and every directory, unless a file is in its place, at the         *)
(* destination.  Two exceptions, both of the code: what is at or below the *)
(* one name that a failing stat(), mkdir() or opendir() made it pass over, *)
(* and a source copied onto itself (a file put into the directory it is    *)
(* in, a directory named without its slash), whose files are truncated and *)
(* reported as good.                                                       *)
CopyComplete ==
    [][(Answered("COPY") \/ Answered("MOVE")) /\ davlast'.status \in Good /\ ~SamePlace(davlast'.u, davlast'.d) =>
        LET u == davlast'.u
            to == Target(davfs, u, davlast'.d).p
        IN /\ Cardinality(davlast'.skipped) <= 1
           /\ \A q \in {p \in Below[u.p] \cup {u.p} : davfs[p] # "none"} :
                LET r == SubSeq(q, Len(u.p) + 1, Len(q))
                IN \/ davfs'[to \o r] = davfs[q]
                   \/ davfs[q] = "dir" /\ IsFile(davfs, to \o r)
                   \/ \E k \in davlast'.skipped : k = r \/ Under(k, r)]_davVars

(* A COPY, whatever it answers, leaves its source as it was, but for one   *)
(* copied onto itself.                                                     *)
SourceKept ==
    [][Answered("COPY") /\ davlast'.d # NoUri /\ ~SamePlace(davlast'.u, davlast'.d) =>
        \A q \in Below[davlast'.u.p] \cup {davlast'.u.p} : davfs'[q] = davfs[q]]_davVars

(* DELETE says 204 exactly when the resource, with all that is below it,   *)
(* is gone by its doing; members may be gone without it.                   *)
DeleteHonest ==
    [][Answered("DELETE") =>
        LET u == davlast'.u
        IN IF davlast'.status = 204
           THEN davfs[u.p] # "none" /\ \A q \in Below[u.p] \cup {u.p} : davfs'[q] = "none"
           ELSE davfs'[u.p] = davfs[u.p] /\ \A q \in Path : davfs'[q] \in {davfs[q], "none"}]_davVars

(* A PUT of a whole file that reports success has written all of the body, *)
(* whatever became of the file while the body was read.                    *)
WrittenInFull ==
    [][Answered("PUT") /\ davlast'.status \in Good => davfs' = [davfs EXCEPT ![davlast'.u.p] = "new"]]_davVars

(* What is answered to a request that moves, copies, deletes or writes files is true of the
   files. *)
DavComplete == CopyComplete /\ SourceKept /\ DeleteHonest /\ WrittenInFull

(* The locks a request without an If header found when it looked.  A       *)
(* request for a locked resource changes nothing, neither does a file      *)
(* copied or moved to a locked destination, nor a PROPPATCH, which looks   *)
(* again once its body is there; and a locked file is changed by no other  *)
(* request but one with a directory: one that copies, moves or deletes it, *)
(* or one that puts a file into it by its own name, for which the lock of  *)
(* the directory is looked up.  A PUT does not look again: it writes under *)
(* a lock taken while its body was read (bound).                           *)
LockHonoured ==
    [][davlast' # davlast =>
        \A l \in {k \in davlocks : k.token < davlast'.bound} :
            LET m == davlast'.m
                u == davlast'.u
                d == davlast'.d
            IN /\ l.u = u /\ m # "COPY" => davfs' = davfs /\ davprops' = davprops
               /\ l.u = d /\ Stat(davfs, u) = "file" => davfs' = davfs /\ davprops' = davprops
               /\ IsFile(davfs, l.u.p) /\ ~l.u.slash =>
                      \/ davfs'[l.u.p] = davfs[l.u.p]
                      \/ IsDir(davfs, u.p) \/ (d # NoUri /\ IsDir(davfs, d.p))]_davVars

=============================================================================
