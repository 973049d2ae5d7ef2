----------------------------- MODULE StatCache -----------------------------
(***************************************************************************)
(* The cache of stat() results (stat_cache.c), for each of its engines:    *)
(* without one every lookup asks the file system; "simple" trusts an entry *)
(* for the rest of the second; "fam" trusts it until the monitor reports a *)
(* change of the directory.  Files change under the server at any time,    *)
(* and the monitor reports it later.                                       *)
(***************************************************************************)
EXTENDS Integers, Sequences

CONSTANTS
    SFile,          \* files, all in one directory
    SKey,           \* values of hashme()
    MaxFamEvents,   \* bound on the reports of the monitor that are pending
    MaxDirVersion,  \* bound on fam_dir->version
    Engines         \* values of server.stat-cache-engine considered

ASSUME StatCacheAssumption ==
    /\ MaxFamEvents \in Nat /\ MaxDirVersion \in Nat \ {0}
    /\ Engines \subseteq {"none", "simple", "fam"}

VARIABLES
    disk,           \* what stat() and lstat() would say of each file
    famq,           \* reports of the monitor that are pending
    sfiles,         \* sc->files: hash -> entry
    sdirs,          \* sc->dirs: the fam_dir for either value of follow_symlink
    sanswer,        \* the last answer
    sconf           \* engine, and the hash of each name

statVars == <<disk, famq, sfiles, sdirs, sanswer, sconf>>

(* No file; two contents of a file; a symbolic link to a file. *)
Contents == {"absent", "old", "new", "link"}

(* known: the entry was true of the file at some time of this second or, with "fam",
   since the reports were last read to the end.  This is history: no code looks at it. *)
NoEntry == [name |-> "none", st |-> "absent", link |-> FALSE, age |-> 0, version |-> 0, known |-> TRUE]
NoStat == [name |-> "none", of |-> "none", st |-> "absent", link |-> FALSE, follow |-> TRUE, known |-> TRUE]

(* The hash depends on the name and on follow_symlink; for one name the two differ. *)
StatInit ==
    /\ disk = [f \in SFile |-> "old"]
    /\ famq = <<>>
    /\ sfiles = [k \in SKey |-> NoEntry]
    /\ sdirs = [follow \in BOOLEAN |-> 0]
    /\ sanswer = NoStat
    /\ sconf \in {k \in [engine : Engines, hash : [SFile -> [BOOLEAN -> SKey]]] :
                    \A f \in SFile : k.hash[f][TRUE] # k.hash[f][FALSE]}

----------------------------------------------------------------------------
(* External: the file system and its monitor *)

(* Entries that have become true, because the files are now as d says. *)
NowTrue(files, d) ==
    [k \in SKey |-> IF files[k] # NoEntry /\ files[k].st = d[files[k].name]
                    THEN [files[k] EXCEPT !.known = TRUE] ELSE files[k]]

(* What is known from now on: only what is true now. *)
OnlyTrue(files, d) ==
    [k \in SKey |-> IF files[k] = NoEntry THEN NoEntry
                    ELSE [files[k] EXCEPT !.known = files[k].st = d[files[k].name]]]

(* The files become d; the monitor owes a report to each fam_dir there is. *)
FilesChange(d, code) ==
    LET watching == {follow \in BOOLEAN : sdirs[follow] # 0}
    IN  /\ d # disk /\ disk' = d
        /\ watching # {} => Len(famq) < MaxFamEvents
        /\ famq' = IF watching = {} THEN famq ELSE Append(famq, [code |-> code, to |-> watching])
        /\ sfiles' = NowTrue(sfiles, d)
        /\ sanswer' = NoStat
        /\ UNCHANGED <<sdirs, sconf>>

Change == \E f \in SFile, c \in Contents : FilesChange([disk EXCEPT ![f] = c], "file")

(* The directory is removed and made again, with other files in it. *)
Replace == FilesChange([f \in SFile |-> IF disk[f] = "old" THEN "new" ELSE "old"], "directory")

----------------------------------------------------------------------------
(* Lookups *)

(* The entry found for a name is used as it is. *)
StatTrusted(e, follow) ==
    \/ sconf.engine = "simple" /\ e.age = 0 /\ follow
    \/ sconf.engine = "fam" /\ sdirs[follow] # 0 /\ e.version = sdirs[follow]

(* Mutant: a link is only looked for when the entry is made. *)
Restat_KeepsLink(e, name, follow, version) ==
    [name |-> name, st |-> disk[name],
     link |-> IF e.name = name THEN e.link ELSE ~follow /\ disk[name] = "link",
     age |-> 0, version |-> version, known |-> TRUE]

(* The entry after stat(): links are only looked for if they are not to be followed. *)
Restat(e, name, follow, version) ==
    [name |-> name, st |-> disk[name], link |-> ~follow /\ disk[name] = "link",
     age |-> 0, version |-> version, known |-> TRUE]

(* The entry with the hash of the name is that of the name. *)
Found(e, name) == e.name = name

AnswerOf(e, name, follow) ==
    [name |-> name, of |-> e.name, st |-> e.st, link |-> e.link, follow |-> follow, known |-> e.known]

(* stat_cache_get_entry().  An entry of another name with the same hash is replaced.
   With "fam" the directory is monitored from now on, unless that fails; the version of
   an entry whose directory is not monitored stays what it was. *)
stat_cache_get_entry(name, follow) ==
    LET k == sconf.hash[name][follow]
        e == sfiles[k]
    IN  /\ \/ /\ Found(e, name) /\ StatTrusted(e, follow)
              /\ sanswer' = AnswerOf(e, name, follow)
              /\ UNCHANGED <<sfiles, sdirs>>
           \/ /\ ~(Found(e, name) /\ StatTrusted(e, follow))
              /\ disk[name] = "absent"
              /\ sanswer' = NoStat
              /\ UNCHANGED <<sfiles, sdirs>>
           \/ /\ ~(Found(e, name) /\ StatTrusted(e, follow))
              /\ disk[name] # "absent"
              /\ \E dir \in IF sconf.engine = "fam" /\ sdirs[follow] = 0 THEN {0, 1} ELSE {sdirs[follow]} :
                    LET old == IF Found(e, name) THEN e.version ELSE 0
                        new == Restat(e, name, follow, IF dir = 0 THEN old ELSE dir)
                    IN  /\ sdirs' = [sdirs EXCEPT ![follow] = dir]
                        /\ sfiles' = [sfiles EXCEPT ![k] = new]
                        /\ sanswer' = AnswerOf(new, name, follow)
        /\ UNCHANGED <<disk, famq, sconf>>

(* stat_cache_handle_fdevent(): a report makes every entry of the directory old; one
   that the directory is gone ends the monitoring, for both values of follow_symlink.
   What is pending then refers to a fam_dir that has been freed: see the README. *)
stat_cache_handle_fdevent ==
    /\ famq # <<>>
    /\ LET e == Head(famq)
       IN  /\ \A follow \in e.to : sdirs[follow] < MaxDirVersion
           /\ sdirs' = IF e.code = "directory" THEN [follow \in BOOLEAN |-> 0]
                       ELSE [follow \in BOOLEAN |-> IF follow \in e.to THEN sdirs[follow] + 1 ELSE sdirs[follow]]
           /\ famq' = IF e.code = "directory" THEN <<>> ELSE Tail(famq)
    /\ sanswer' = NoStat
    /\ sfiles' = IF sconf.engine = "fam" /\ famq' = <<>> THEN OnlyTrue(sfiles, disk) ELSE sfiles
    /\ UNCHANGED <<disk, sconf>>

(* stat_cache_trigger_cleanup(): entries made more than two seconds ago go. *)
stat_cache_trigger_cleanup(files) ==
    [k \in SKey |-> IF files[k].age > 2 THEN NoEntry ELSE files[k]]

(* A second passes, or several while the server was busy. *)
StatSecond ==
    /\ \E n \in 1 .. 2 :
        LET older == [k \in SKey |-> IF sfiles[k] = NoEntry THEN NoEntry
                                     ELSE [sfiles[k] EXCEPT !.age = @ + n]]
            kept == stat_cache_trigger_cleanup(older)
        IN  sfiles' = IF sconf.engine = "fam" /\ famq # <<>> THEN kept ELSE OnlyTrue(kept, disk)
    /\ sanswer' = NoStat
    /\ UNCHANGED <<disk, famq, sdirs, sconf>>

StatNext ==
    \/ Change
    \/ Replace
    \/ \E f \in SFile, follow \in BOOLEAN : stat_cache_get_entry(f, follow)
    \/ stat_cache_handle_fdevent
    \/ StatSecond

StatSpec == StatInit /\ [][StatNext]_statVars

----------------------------------------------------------------------------
(* Properties *)

(* Type correctness; no entry is older than the cleanup allows. *)
StatTypeOK ==
    /\ disk \in [SFile -> Contents]
    /\ \A k \in SKey : sfiles[k].age \in 0 .. 2 /\ sfiles[k].name \in SFile \cup {"none"}
    /\ sdirs \in [BOOLEAN -> 0 .. MaxDirVersion]
    /\ Len(famq) <= MaxFamEvents

(* With "simple" or without an engine an answer is about the file that was asked for,
   and was true of it at some time of this second: two names with the same hash are kept
   apart, and no entry is trusted beyond its second. *)
AnswerRecent ==
    sanswer # NoStat /\ sconf.engine # "fam" => sanswer.of = sanswer.name /\ sanswer.known

(* Whoever may not follow a link is told that it is one, as the file is now: the cache
   does not answer in place of the file system. *)
LinksSeen ==
    sanswer # NoStat /\ ~sanswer.follow /\ sconf.engine # "fam" =>
        sanswer.link = (disk[sanswer.name] = "link")

(* The cache answers as the file system would have, a second ago at most. *)
StatInv == StatTypeOK /\ AnswerRecent /\ LinksSeen
=============================================================================
