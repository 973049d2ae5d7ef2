------------------------------ MODULE Compress ------------------------------
(* mod_compress.c: a static file is answered compressed, from a cache of     *)
(* compressed copies that all worker processes share.  A worker handles one  *)
(* request at a time and runs PHYSICALPATH_FUNC(mod_compress_physical) to    *)
(* its end, so the interleavings are those of the workers' system calls.     *)
(* Contents are abstract: a file has a version, a cache file is "empty",     *)
(* "part" (a short write) or the version it was made from.                   *)
EXTENDS Naturals, FiniteSets

CONSTANTS
  CWorker,        \* the worker processes
  MaxVersion,     \* how often the plain file is replaced
  CRequests,      \* the requests: records [method, accept, match]
  CConfigs        \* the configurations: records [allowed, cachedir, etags]

VARIABLES
  plain,    \* the plain file: its version
  cached,   \* the cache directory: <<encoding, version>> -> content
  work,     \* what each worker is doing
  told,     \* the answer of the last step, if it was one
  died,     \* the cache files whose writer was killed
  cmconf    \* the configuration

compressVars == <<plain, cached, work, told, died, cmconf>>

AllEncodings == {"gzip", "x-gzip", "deflate", "compress", "bzip2", "x-bzip2"}

\* compress.allowed-encodings: an entry is searched with strstr, so that
\* "x-gzip" also allows gzip; nothing listed means the default.
EncodingsOf(name) ==
  CASE name \in {"gzip", "x-gzip"}   -> {"gzip", "x-gzip"}
    [] name = "deflate"              -> {"deflate"}
    [] name \in {"bzip2", "x-bzip2"} -> {"bzip2", "x-bzip2"}
    [] OTHER                         -> {}

Allowed(names) ==
  IF names = {} THEN AllEncodings \ {"compress"}
                ELSE UNION {EncodingsOf(n) : n \in names}

\* The name a cache file gets: x-gzip and gzip share one.
CacheKind(enc) ==
  CASE enc \in {"gzip", "x-gzip"}   -> "gzip"
    [] enc \in {"bzip2", "x-bzip2"} -> "bzip2"
    [] OTHER                        -> "deflate"

Kinds == {"gzip", "bzip2", "deflate"}
Names == Kinds \X (1..MaxVersion)

\* A body or a cache file: how much of it is there and of which version.
Content(st, v) == [st |-> st, v |-> v]
Absent == Content("absent", 0)
Full(v) == Content("full", v)

\* "select best matching encoding"
Best(matched) ==
  CASE "bzip2"   \in matched -> "bzip2"
    [] "x-bzip2" \in matched -> "x-bzip2"
    [] "gzip"    \in matched -> "gzip"
    [] "x-gzip"  \in matched -> "x-gzip"
    [] OTHER                 -> "deflate"

Resting == [at |-> "idle"]

\* An answer: how the body is encoded as the header says, the content and,
\* for a 304, the tag it confirms.
Reply(status, enc, kind, body) ==
  [status |-> status, enc |-> enc, kind |-> kind, body |-> body]

NoReply == Reply(0, "none", "none", Absent)

CompressInit ==
  /\ plain = 1
  /\ cached = [n \in Names |-> Absent]
  /\ work = [w \in CWorker |-> Resting]
  /\ told = NoReply
  /\ died = {}
  /\ cmconf \in CConfigs

Rest(w, reply) ==
  /\ work' = [work EXCEPT ![w] = Resting]
  /\ told' = reply

Step(w, rec) ==
  /\ work' = [work EXCEPT ![w] = rec]
  /\ told' = NoReply

\* HANDLER_GO_ON: the plain file is sent by mod_staticfile, which opens it
\* later and finds what is there then.
GoOnPlain(w) == Step(w, [at |-> "plain"])

-----------------------------------------------------------------------------
\* What is compared: first the plain file's tag, then that of the compressed
\* version; a date is written as a tag of its own kind.
TagOf(v, enc) == [v |-> v, enc |-> enc]

\* http_response_handle_cachable: what is answered instead of the file, 0 for
\* nothing.  The client names a tag (If-None-Match) or a date, which only a GET
\* is asked for; without tags of its own the server knows of none.
NotModified(r, sce, enc) ==
  CASE r.match.enc = "date" -> IF r.method = "GET" /\ sce <= r.match.v THEN 304 ELSE 0
    [] cmconf.etags /\ r.match \in {TagOf(sce, "none"), TagOf(sce, enc)} ->
         IF r.method = "GET" THEN 304 ELSE 412
    [] OTHER -> 0

\* PHYSICALPATH_FUNC up to the first system call on the cache.  The stat
\* cache hands out the entry of the version it saw: the present one, or the
\* one before it for up to a second.  `file' is what it says of the file: it
\* fits (regular, no refused link, a size between 128 bytes and the configured
\* maximum, a mime type in compress.filetype), or not, or it is an error.
mod_compress_physical(w, r, sce, file) ==
  LET matched == r.accept \cap Allowed(cmconf.allowed)
      enc     == Best(matched)
  IN
  /\ work[w] = Resting
  /\ sce \in {plain, plain - 1} \ {0}
  /\ IF r.method \notin {"GET", "POST"}
       THEN GoOnPlain(w)
     ELSE IF file = "error"
       THEN Rest(w, Reply(403, "none", "none", Absent))
     ELSE IF file = "unfit" \/ matched = {}
       THEN GoOnPlain(w)
     ELSE IF NotModified(r, sce, enc) # 0
       THEN Rest(w, Reply(NotModified(r, sce, enc), enc, "none", Full(sce)))
     ELSE Step(w, [at   |-> IF cmconf.etags /\ cmconf.cachedir THEN "create" ELSE "open",
                   enc  |-> enc, sce |-> sce, from |-> 0,
                   into |-> IF cmconf.etags /\ cmconf.cachedir THEN "file" ELSE "buffer"])
  /\ UNCHANGED <<plain, cached, died, cmconf>>

NameOf(job) == <<CacheKind(job.enc), job.sce>>

\* deflate_file_to_file: the directories and the exclusive creation.  When the
\* file exists already it is taken as a hit, whoever is still writing it.
CreateCache(w) ==
  LET job == work[w] IN
  /\ job.at = "create"
  /\ \/ /\ cached[NameOf(job)] = Absent
        /\ cached' = [cached EXCEPT ![NameOf(job)] = Content("empty", 0)]
        /\ Step(w, [job EXCEPT !.at = "open"])
     \/ /\ cached[NameOf(job)] # Absent
        /\ Step(w, [job EXCEPT !.at = "serve"])
        /\ UNCHANGED cached
     \/ /\ cached[NameOf(job)] = Absent     \* mkdir or open fails
        /\ GoOnPlain(w)
        /\ UNCHANGED cached
  /\ UNCHANGED <<plain, died, cmconf>>

GiveUp_Keeps(w) ==
  /\ UNCHANGED cached
  /\ GoOnPlain(w)

\* Every error path after the creation: the file is unlinked by its name, and
\* the request goes on with the plain file.
GiveUp(w) ==
  /\ cached' = IF work[w].into = "file"
                 THEN [cached EXCEPT ![NameOf(work[w])] = Absent] ELSE cached
  /\ GoOnPlain(w)

\* open and mmap (or read) of the plain file, in both deflate_file_to_*.
OpenPlain(w) ==
  /\ work[w].at = "open"
  /\ \/ /\ Step(w, [work[w] EXCEPT !.at = "deflate", !.from = plain])
        /\ UNCHANGED cached
     \/ GiveUp(w)
  /\ UNCHANGED <<plain, died, cmconf>>

\* deflate_file_to_buffer_gzip, _deflate and _bzip2: p->b holds the copy of
\* what was mapped, or nothing when the compressor refuses it.
Deflated(job) == {Full(job.from), Absent}

\* The compressors return -1, or SIGBUS ends the reading of a file that was
\* cut while it is mapped; otherwise p->b holds the copy and it is written:
\* in full, in part, or not at all.
DeflateToFile(w) ==
  /\ work[w].at = "deflate" /\ work[w].into = "file"
  /\ \/ GiveUp(w)
     \/ \E st \in {"full", "part"}, copy \in Deflated(work[w]) \ {Absent} :
          /\ cached' = [cached EXCEPT ![NameOf(work[w])] = Content(st, copy.v)]
          /\ Step(w, [work[w] EXCEPT !.at = "close"])
  /\ UNCHANGED <<plain, died, cmconf>>

\* A short write and a failing close() remove the file.
CloseCache(w) ==
  /\ work[w].at = "close"
  /\ \/ GiveUp(w)
     \/ /\ cached[NameOf(work[w])].st = "full"
        /\ Step(w, [work[w] EXCEPT !.at = "serve"])
        /\ UNCHANGED cached
  /\ UNCHANGED <<plain, died, cmconf>>

\* deflate_file_to_buffer: the copy goes to the write queue.
DeflateToBuffer(w) ==
  /\ work[w].at = "deflate" /\ work[w].into = "buffer"
  /\ \/ GiveUp(w)
     \/ \E copy \in Deflated(work[w]) \ {Absent} :
          /\ UNCHANGED cached
          /\ Rest(w, Reply(200, work[w].enc, CacheKind(work[w].enc), copy))
  /\ UNCHANGED <<plain, died, cmconf>>

\* mod_staticfile sends con->physical.path, now the cache file, with the
\* Content-Encoding and the ETag already set.
ServeCached(w) ==
  LET name == NameOf(work[w]) IN
  /\ work[w].at = "serve"
  /\ Rest(w, IF cached[name] = Absent
               THEN Reply(403, work[w].enc, "none", Absent)
               ELSE Reply(200, work[w].enc, name[1], cached[name]))
  /\ UNCHANGED <<plain, cached, died, cmconf>>

ServePlain(w) ==
  /\ work[w].at = "plain"
  /\ Rest(w, Reply(200, "none", "none", Full(plain)))
  /\ UNCHANGED <<plain, cached, died, cmconf>>

-----------------------------------------------------------------------------
\* A worker is killed: what it had created stays as it is.
Killed(w) ==
  /\ work[w].at \in {"open", "deflate", "close"}
  /\ died' = IF work[w].into = "file" THEN died \cup {NameOf(work[w])} ELSE died
  /\ work' = [work EXCEPT ![w] = Resting]
  /\ told' = NoReply
  /\ UNCHANGED <<plain, cached, cmconf>>

\* The file is replaced: it gets a new time and so a new tag.
Replace ==
  /\ plain < MaxVersion
  /\ plain' = plain + 1
  /\ told' = NoReply
  /\ UNCHANGED <<cached, work, died, cmconf>>

CompressNext ==
  \/ Replace
  \/ \E w \in CWorker :
       \/ \E r \in CRequests, sce \in 1..MaxVersion, file \in {"fits", "unfit", "error"} :
            mod_compress_physical(w, r, sce, file)
       \/ CreateCache(w)
       \/ OpenPlain(w)
       \/ DeflateToFile(w)
       \/ CloseCache(w)
       \/ DeflateToBuffer(w)
       \/ ServeCached(w)
       \/ ServePlain(w)
       \/ Killed(w)

CompressSpec == CompressInit /\ [][CompressNext]_compressVars

-----------------------------------------------------------------------------
Writing(n) ==
  \E w \in CWorker : /\ work[w].at \in {"open", "deflate", "close"}
                     /\ work[w].into = "file"
                     /\ NameOf(work[w]) = n

\* mod_compress.c:509ff: whatever fails on the way, an incomplete file stays in
\* the cache only while its one writer is at work, or when that writer was
\* killed.
IncompleteIsOwned ==
  \A n \in Names :
    cached[n].st \in {"empty", "part"} => Writing(n) \/ n \in died

\* mod_compress.c:485: O_EXCL lets one worker write a cache file, and nobody
\* removes it under the others: two writers would interleave in it.
OneWriter ==
  \A w, x \in CWorker :
    /\ w # x
    /\ work[w].at \in {"open", "deflate", "close"} /\ work[w].into = "file"
    /\ work[x].at \in {"open", "deflate", "close"} /\ work[x].into = "file"
    => NameOf(work[w]) # NameOf(work[x])

\* mod_compress.c:885ff: a body is labelled with the encoding it is in, an
\* unlabelled one is the plain file, and the encoding is one that is allowed.
Labelled ==
  told.status = 200 =>
    /\ (told.enc = "none") = (told.kind = "none")
    /\ told.enc # "none" =>
         /\ told.kind = CacheKind(told.enc)
         /\ told.enc \in Allowed(cmconf.allowed)

(* What the cache holds and what it was used for. *)
CompressInv == IncompleteIsOwned /\ OneWriter /\ Labelled
=============================================================================
