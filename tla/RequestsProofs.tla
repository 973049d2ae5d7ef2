-------------------------- MODULE RequestsProofs --------------------------
(***************************************************************************)
(* What the server reads requests and files with: the buffers, for texts of*)
(* every length, the cache of file properties, and the event backends with *)
(* the descriptors they watch.                                             *)
(***************************************************************************)
EXTENDS Buffer, StatCache, Fdevent, FiniteSetTheorems, SequenceTheorems, WellFoundedInduction, TLAPS

-----------------------------------------------------------------------------
(* Buffers *)

(* buffer_align_size(): memory for one byte more than was asked for, at least. *)
LEMMA AlignSizeLarger ==
    ASSUME NEW n \in Nat
    PROVE  AlignSize(n) \in Nat /\ n < AlignSize(n)
<1>1. n % BUFFER_PIECE_SIZE \in 0 .. BUFFER_PIECE_SIZE - 1
  BY BufferAssumption
<1>2. QED
  BY <1>1, BufferAssumption DEF AlignSize

(* buffer_alloc() and buffer_realloc() give what was asked for. *)
LEMMA AllocatedEnough ==
    ASSUME NEW n \in Nat, bsize \in Nat
    PROVE  Allocated(n) \in Nat /\ n <= Allocated(n) /\ 0 < Allocated(n)
<1>1. CASE n = 0
  <2>1. AlignSize(1) \in Nat /\ 1 < AlignSize(1)
    BY AlignSizeLarger
  <2>2. QED
    BY <1>1, <2>1 DEF Allocated
<1>2. CASE n # 0
  <2>1. AlignSize(n) \in Nat /\ n < AlignSize(n)
    BY AlignSizeLarger
  <2>2. QED
    BY <1>2, <2>1 DEF Allocated
<1>3. QED
  BY <1>1, <1>2

(* No operation on a buffer leaves it with more used than it has, without its NUL, or with
   less room than it promised. *)
LEMMA BufferStep == BufferInv /\ [BufferNext]_bufferVars => BufferInv'
<1>0. SUFFICES ASSUME BufferInv, [BufferNext]_bufferVars
               PROVE  BufferInv'
  OBVIOUS
<1>t. BufferTypeOK /\ BufferSound /\ (broom > 0 => bused > 0)
  BY <1>0 DEF BufferInv
<1>m. MaxLen \in Nat /\ AlignSize(MaxLen) \in Nat
  BY BufferAssumption, AlignSizeLarger
<1>1. CASE buffer_reset
  <2>1. bnul' \in BOOLEAN
    BY <1>1, Zenon DEF buffer_reset
  <2>2. bsize' \in Nat /\ bused' = 0 /\ broom' = 0
    BY <1>t, <1>1 DEF buffer_reset, BufferTypeOK
  <2>3. QED
    BY <2>1, <2>2 DEF BufferInv, BufferTypeOK, BufferSound
<1>2. CASE CopyEmptyBuffer
  <2>1. Allocated(1) \in Nat
    BY <1>t, AllocatedEnough DEF BufferTypeOK
  <2>2. bnul' \in BOOLEAN
    BY <1>2, Zenon DEF CopyEmptyBuffer
  <2>3. bsize' \in Nat /\ bused' = 0 /\ broom' = 0
    BY <1>2, <2>1 DEF CopyEmptyBuffer
  <2>4. QED
    BY <2>2, <2>3 DEF BufferInv, BufferTypeOK, BufferSound
<1>3. ASSUME NEW n \in 0 .. MaxLen, buffer_string_prepare_copy(n)
      PROVE  BufferInv'
  <2>1. n + 1 \in Nat /\ Allocated(n + 1) \in Nat /\ n + 1 <= Allocated(n + 1)
    BY <1>t, <1>m, AllocatedEnough DEF BufferTypeOK
  <2>2. QED
    BY <1>3, <2>1, <1>m DEF buffer_string_prepare_copy, BufferInv, BufferTypeOK, BufferSound
<1>4. ASSUME NEW n \in 0 .. MaxLen, buffer_string_set_length(n) \/ buffer_copy_string_len(n)
      PROVE  BufferInv'
  <2>1. n + 1 \in Nat /\ Allocated(n + 1) \in Nat /\ n + 1 <= Allocated(n + 1)
    BY <1>t, <1>m, AllocatedEnough DEF BufferTypeOK
  <2>2. bsize' = Allocated(n + 1) /\ bused' = n + 1 /\ bnul' = TRUE /\ broom' = 0
    BY <1>4 DEF buffer_string_set_length, buffer_copy_string_len
  <2>3. QED
    BY <2>1, <2>2, <1>m DEF BufferInv, BufferTypeOK, BufferSound
<1>5. ASSUME NEW n \in 0 .. MaxLen, buffer_string_prepare_append(n)
      PROVE  BufferInv'
  <2>1. CASE Length = 0
    BY <1>3, <1>5, <2>1 DEF buffer_string_prepare_append
  <2>2. CASE Length # 0
    <3>1. bused + n \in Nat /\ Allocated(bused + n) \in Nat /\ bused + n <= Allocated(bused + n)
      BY <1>t, <1>m, AllocatedEnough DEF BufferTypeOK
    <3>2. QED
      BY <1>5, <1>t, <1>m, <2>2, <3>1
      DEF buffer_string_prepare_append, Length, BufferInv, BufferTypeOK, BufferSound
  <2>3. QED
    BY <2>1, <2>2
<1>6. ASSUME NEW n \in 0 .. MaxLen, buffer_append_string_len(n)
      PROVE  BufferInv'
  <2>1. CASE Length = 0
    BY <1>4, <1>6, <2>1 DEF buffer_append_string_len
  <2>2. CASE Length # 0
    <3>1. bused + n \in Nat /\ Allocated(bused + n) \in Nat /\ bused + n <= Allocated(bused + n)
      BY <1>t, <1>m, AllocatedEnough DEF BufferTypeOK
    <3>2. QED
      BY <1>6, <1>t, <1>m, <2>2, <3>1
      DEF buffer_append_string_len, Length, BufferInv, BufferTypeOK, BufferSound
  <2>3. QED
    BY <2>1, <2>2
<1>7. ASSUME NEW n \in 0 .. MaxLen, buffer_commit(n)
      PROVE  BufferInv'
  BY <1>7, <1>t, <1>m DEF buffer_commit, BufferInv, BufferTypeOK, BufferSound
<1>8. ASSUME NEW n \in 0 .. MaxLen, buffer_move(AlignSize(MaxLen), n)
      PROVE  BufferInv'
  BY <1>8, <1>m DEF buffer_move, BufferInv, BufferTypeOK, BufferSound
<1>9. CASE UNCHANGED bufferVars
  BY <1>t, <1>9 DEF bufferVars, BufferInv, BufferTypeOK, BufferSound
<1>10. QED
  BY <1>0, <1>1, <1>2, <1>3, <1>4, <1>5, <1>6, <1>7, <1>8, <1>9 DEF BufferNext

(* Initially nothing is allocated. *)
LEMMA BufferStart == BufferInit => BufferInv
<1>1. SUFFICES ASSUME BufferInit PROVE BufferInv
  OBVIOUS
<1>2. bnul \in BOOLEAN
  BY <1>1, Zenon DEF BufferInit
<1>3. QED
  BY <1>1, <1>2 DEF BufferInit, BufferInv, BufferTypeOK, BufferSound

(* What is used of a buffer fits what is allocated and ends in a NUL, and the room a
   caller was given is there, in whatever order a buffer is reset, moved, filled, appended
   to and shortened: the assertion of buffer_commit() never fails. *)
THEOREM BufferStaysSound == BufferSpec => []BufferInv
BY BufferStart, BufferStep, PTL DEF BufferSpec

-----------------------------------------------------------------------------
(* File properties *)

StatEntries == [name : SFile \cup {"none"}, st : Contents, link : BOOLEAN, age : 0 .. 2,
            version : Nat, known : BOOLEAN]

StatTypes ==
    /\ disk \in [SFile -> Contents]
    /\ famq \in Seq([code : {"file", "directory"}, to : SUBSET BOOLEAN]) /\ Len(famq) <= MaxFamEvents
    /\ sfiles \in [SKey -> StatEntries]
    /\ sdirs \in [BOOLEAN -> 0 .. MaxDirVersion]
    /\ sconf \in [engine : Engines, hash : [SFile -> [BOOLEAN -> SKey]]]

(* Without "fam" nobody reports anything, and an entry of this second was made in it. *)
EntriesRecent ==
    sconf.engine # "fam" =>
        /\ famq = <<>> /\ \A follow \in BOOLEAN : sdirs[follow] = 0
        /\ \A k \in SKey : sfiles[k].age = 0 => sfiles[k].known

StatSound == StatTypes /\ EntriesRecent /\ AnswerRecent /\ LinksSeen

(* What is said of the types follows from them. *)
LEMMA StatTyped == StatTypes => StatTypeOK
BY DEF StatTypes, StatTypeOK, StatEntries

(* Whoever has no answer has no wrong one. *)
LEMMA NoWrongAnswer == sanswer' = NoStat => AnswerRecent' /\ LinksSeen'
BY DEF AnswerRecent, LinksSeen

(* What a change of the files and the end of a second make of the entries. *)
LEMMA NowTrueSound ==
    ASSUME NEW files \in [SKey -> StatEntries], NEW d \in [SFile -> Contents]
    PROVE  /\ NowTrue(files, d) \in [SKey -> StatEntries]
           /\ \A k \in SKey : /\ NowTrue(files, d)[k].age = files[k].age
                              /\ files[k].known => NowTrue(files, d)[k].known
<1> SUFFICES ASSUME NEW k \in SKey
             PROVE  /\ NowTrue(files, d)[k] \in StatEntries /\ NowTrue(files, d)[k].age = files[k].age
                    /\ files[k].known => NowTrue(files, d)[k].known
  BY DEF NowTrue
<1> QED BY DEF NowTrue, StatEntries

(* When a second begins only what is true is known. *)
LEMMA OnlyTrueSound ==
    ASSUME NEW files \in [SKey -> StatEntries], NEW d \in [SFile -> Contents]
    PROVE  /\ OnlyTrue(files, d) \in [SKey -> StatEntries]
           /\ \A k \in SKey : /\ OnlyTrue(files, d)[k].age = files[k].age
                              /\ OnlyTrue(files, d)[k] = NoEntry \/ files[k] # NoEntry
<1>1. NoEntry \in StatEntries /\ NoEntry.age = 0
  BY DEF NoEntry, StatEntries, Contents
<1>2. ASSUME NEW k \in SKey
      PROVE  /\ OnlyTrue(files, d)[k] \in StatEntries /\ OnlyTrue(files, d)[k].age = files[k].age
             /\ OnlyTrue(files, d)[k] = NoEntry \/ files[k] # NoEntry
  <2>1. CASE files[k] = NoEntry
    BY <1>1, <2>1 DEF OnlyTrue
  <2>2. CASE files[k] # NoEntry
    <3> DEFINE true == files[k].st = d[files[k].name]
    <3>1. OnlyTrue(files, d)[k] = [files[k] EXCEPT !.known = true]
      BY <2>2 DEF OnlyTrue
    <3>2. true \in BOOLEAN
      OBVIOUS
    <3> HIDE DEF true
    <3> QED BY <2>2, <3>1, <3>2 DEF StatEntries
  <2> QED BY <2>1, <2>2
<1>3. OnlyTrue(files, d) = [k \in SKey |-> OnlyTrue(files, d)[k]]
  BY DEF OnlyTrue
<1> QED BY <1>2, <1>3

(* The files change. *)
LEMMA FilesChangeSound ==
    ASSUME StatSound, NEW d \in [SFile -> Contents], NEW code \in {"file", "directory"},
           FilesChange(d, code)
    PROVE  StatSound'
<1> DEFINE watching == {follow \in BOOLEAN : sdirs[follow] # 0}
           report == [code |-> code, to |-> watching]
<1>1. /\ disk' = d /\ UNCHANGED <<sdirs, sconf>> /\ sanswer' = NoStat /\ sfiles' = NowTrue(sfiles, d)
      /\ watching # {} => Len(famq) < MaxFamEvents
      /\ famq' = IF watching = {} THEN famq ELSE Append(famq, report)
  BY DEF FilesChange
<1>2. report \in [code : {"file", "directory"}, to : SUBSET BOOLEAN]
  OBVIOUS
<1> HIDE DEF report, watching
<1> DEFINE R == [code : {"file", "directory"}, to : SUBSET BOOLEAN]
<1> HIDE DEF R
<1>3. famq' \in Seq(R) /\ Len(famq') <= MaxFamEvents
  <2>1. report \in R /\ famq \in Seq(R) /\ Len(famq) <= MaxFamEvents
    BY <1>2 DEF R, StatSound, StatTypes
  <2> QED BY <1>1, <2>1, AppendProperties, StatCacheAssumption
<1>4. /\ sfiles' \in [SKey -> StatEntries]
      /\ \A k \in SKey : sfiles'[k].age = sfiles[k].age /\ (sfiles[k].known => sfiles'[k].known)
  BY <1>1, NowTrueSound DEF StatSound, StatTypes
<1>5. StatTypes'
  BY <1>1, <1>3, <1>4 DEF StatSound, StatTypes, R
<1>6. EntriesRecent'
  <2>1. sconf.engine # "fam" => watching = {}
    BY DEF StatSound, EntriesRecent, watching
  <2> QED BY <1>1, <1>4, <2>1 DEF StatSound, EntriesRecent
<1> QED BY <1>1, <1>5, <1>6, NoWrongAnswer DEF StatSound

(* A lookup: an entry that is trusted is of this second and may be a link for those only who
   follow links; any other answer is that of the file system. *)
LEMMA GetEntrySound ==
    ASSUME StatSound, NEW name \in SFile, NEW follow \in BOOLEAN, stat_cache_get_entry(name, follow)
    PROVE  StatSound'
<1> DEFINE k == sconf.hash[name][follow]
           e == sfiles[k]
<1>1. k \in SKey /\ e \in StatEntries /\ UNCHANGED <<disk, famq, sconf>>
  BY DEF stat_cache_get_entry, StatSound, StatTypes
<1>2. CASE Found(e, name) /\ StatTrusted(e, follow) /\ sanswer' = AnswerOf(e, name, follow)
             /\ UNCHANGED <<sfiles, sdirs>>
  <2>1. StatTypes' /\ EntriesRecent'
    BY <1>1, <1>2 DEF StatSound, StatTypes, EntriesRecent
  <2>2. sconf.engine # "fam" => e.known /\ follow
    BY <1>1, <1>2 DEF StatTrusted, StatSound, EntriesRecent
  <2>3. AnswerRecent' /\ LinksSeen'
    BY <1>1, <1>2, <2>2 DEF AnswerOf, Found, AnswerRecent, LinksSeen
  <2> QED BY <2>1, <2>3 DEF StatSound
<1>3. CASE sanswer' = NoStat /\ UNCHANGED <<sfiles, sdirs>>
  BY <1>1, <1>3, NoWrongAnswer DEF StatSound, StatTypes, EntriesRecent
<1>4. ASSUME NEW dir \in IF sconf.engine = "fam" /\ sdirs[follow] = 0 THEN {0, 1} ELSE {sdirs[follow]},
             NEW old \in Nat, NEW new,
             new = Restat(e, name, follow, IF dir = 0 THEN old ELSE dir),
             sdirs' = [sdirs EXCEPT ![follow] = dir], sfiles' = [sfiles EXCEPT ![k] = new],
             sanswer' = AnswerOf(new, name, follow)
      PROVE  StatSound'
  <2>1. dir \in 0 .. MaxDirVersion /\ (sconf.engine # "fam" => dir = sdirs[follow])
    BY <1>4, StatCacheAssumption DEF StatSound, StatTypes
  <2>2. new \in StatEntries /\ new.known /\ new.age = 0 /\ new.name = name
        /\ new.link = (~follow /\ disk[name] = "link")
    <3>1. disk[name] \in Contents /\ (IF dir = 0 THEN old ELSE dir) \in Nat
      BY <2>1 DEF StatSound, StatTypes
    <3> DEFINE linked == ~follow /\ disk[name] = "link"
    <3>2. linked \in BOOLEAN
      OBVIOUS
    <3>3. new = [name |-> name, st |-> disk[name], link |-> linked, age |-> 0,
                 version |-> IF dir = 0 THEN old ELSE dir, known |-> TRUE]
      BY <1>4 DEF Restat
    <3> QED BY <3>1, <3>2, <3>3 DEF StatEntries
  <2> HIDE DEF e, k
  <2>3. StatTypes'
    BY <1>1, <1>4, <2>1, <2>2 DEF StatSound, StatTypes
  <2>4. EntriesRecent'
    BY <1>1, <1>4, <2>1, <2>2 DEF StatSound, StatTypes, EntriesRecent
  <2>5. AnswerRecent' /\ LinksSeen'
    BY <1>1, <1>4, <2>2 DEF AnswerOf, AnswerRecent, LinksSeen
  <2> QED BY <2>3, <2>4, <2>5 DEF StatSound
<1>5. (IF Found(e, name) THEN e.version ELSE 0) \in Nat
  BY <1>1 DEF StatEntries
<1> QED BY <1>2, <1>3, <1>4, <1>5 DEF stat_cache_get_entry

(* A report of the monitor. *)
LEMMA HandleFdeventSound ==
    ASSUME StatSound, stat_cache_handle_fdevent
    PROVE  StatSound'
<1>1. /\ famq # <<>> /\ UNCHANGED <<disk, sconf>> /\ sanswer' = NoStat
      /\ sfiles' \in {sfiles, OnlyTrue(sfiles, disk)}
      /\ famq' \in {<<>>, Tail(famq)}
  BY DEF stat_cache_handle_fdevent
<1>2. sconf.engine = "fam"
  BY <1>1 DEF StatSound, EntriesRecent
<1>3. sfiles' \in [SKey -> StatEntries]
  <2>1. sfiles \in [SKey -> StatEntries] /\ disk \in [SFile -> Contents]
    BY DEF StatSound, StatTypes
  <2>2. OnlyTrue(sfiles, disk) \in [SKey -> StatEntries]
    BY <2>1, OnlyTrueSound
  <2> QED BY <1>1, <2>1, <2>2
<1>4. /\ famq' \in Seq([code : {"file", "directory"}, to : SUBSET BOOLEAN])
      /\ Len(famq') <= MaxFamEvents
  <2> DEFINE R == [code : {"file", "directory"}, to : SUBSET BOOLEAN]
  <2>1. famq \in Seq(R) /\ Len(famq) <= MaxFamEvents
    BY DEF StatSound, StatTypes
  <2> HIDE DEF R
  <2>2. famq' \in Seq(R) /\ Len(famq') <= MaxFamEvents
    <3>1. CASE famq' = <<>>
      BY <3>1, StatCacheAssumption
    <3>2. CASE famq' = Tail(famq)
      <4>1. Tail(famq) \in Seq(R) /\ Len(Tail(famq)) = Len(famq) - 1
        BY <1>1, <2>1, HeadTailProperties
      <4> QED BY <2>1, <3>2, <4>1, StatCacheAssumption
    <3> QED BY <1>1, <3>1, <3>2
  <2> QED BY <2>2 DEF R
<1>5. sdirs' \in [BOOLEAN -> 0 .. MaxDirVersion]
  BY <1>1, StatCacheAssumption DEF stat_cache_handle_fdevent, StatSound, StatTypes
<1>6. StatTypes'
  BY <1>1, <1>3, <1>4, <1>5 DEF StatSound, StatTypes
<1>7. EntriesRecent'
  BY <1>1, <1>2 DEF EntriesRecent
<1> QED BY <1>1, <1>6, <1>7, NoWrongAnswer DEF StatSound

(* The end of a second makes every entry older. *)
LEMMA StatSecondSound ==
    ASSUME StatSound, StatSecond
    PROVE  StatSound'
<1>1. PICK n \in 1 .. 2 :
        LET older == [k \in SKey |-> IF sfiles[k] = NoEntry THEN NoEntry
                                     ELSE [sfiles[k] EXCEPT !.age = @ + n]]
            kept == stat_cache_trigger_cleanup(older)
        IN  sfiles' \in {kept, OnlyTrue(kept, disk)}
  BY DEF StatSecond
<1> DEFINE older == [k \in SKey |-> IF sfiles[k] = NoEntry THEN NoEntry
                                    ELSE [sfiles[k] EXCEPT !.age = @ + n]]
           kept == stat_cache_trigger_cleanup(older)
<1>2. sanswer' = NoStat /\ UNCHANGED <<disk, famq, sdirs, sconf>>
  BY DEF StatSecond
<1>3. NoEntry \in StatEntries /\ NoEntry.age = 0 /\ NoEntry.known
  BY DEF NoEntry, StatEntries, Contents
<1>4. ASSUME NEW k \in SKey
      PROVE  kept[k] \in StatEntries /\ (kept[k] = NoEntry \/ kept[k].age > 0)
  <2>1. sfiles[k] \in StatEntries
    BY DEF StatSound, StatTypes
  <2>2. CASE sfiles[k] = NoEntry
    BY <1>3, <2>2 DEF stat_cache_trigger_cleanup
  <2>3. CASE sfiles[k] # NoEntry
    <3>1. older[k] = [sfiles[k] EXCEPT !.age = @ + n]
      BY <2>3
    <3>2. older[k].age > 0 /\ (older[k].age <= 2 => older[k] \in StatEntries)
      BY <2>1, <3>1 DEF StatEntries
    <3>3. kept[k] = IF older[k].age > 2 THEN NoEntry ELSE older[k]
      BY DEF stat_cache_trigger_cleanup
    <3>4. older[k].age \in Nat
      BY <2>1, <3>1 DEF StatEntries
    <3> HIDE DEF older, kept
    <3> QED BY <1>3, <3>2, <3>3, <3>4
  <2> QED BY <2>2, <2>3
<1>5. kept \in [SKey -> StatEntries]
  <2>1. kept = [k \in SKey |-> IF older[k].age > 2 THEN NoEntry ELSE older[k]]
    BY DEF stat_cache_trigger_cleanup
  <2> QED BY <1>4, <2>1
<1> HIDE DEF kept
<1>6. /\ OnlyTrue(kept, disk) \in [SKey -> StatEntries]
      /\ \A k \in SKey : OnlyTrue(kept, disk)[k].age = kept[k].age
                         /\ (OnlyTrue(kept, disk)[k] = NoEntry \/ kept[k] # NoEntry)
  BY <1>5, OnlyTrueSound DEF StatSound, StatTypes
<1>7. sfiles' \in {kept, OnlyTrue(kept, disk)}
  BY <1>1 DEF kept
<1>8. /\ sfiles' \in [SKey -> StatEntries]
      /\ \A k \in SKey : sfiles'[k] = NoEntry \/ sfiles'[k].age > 0
  BY <1>4, <1>5, <1>6, <1>7
<1>9. StatTypes'
  BY <1>2, <1>8 DEF StatSound, StatTypes
<1>10. EntriesRecent'
  BY <1>2, <1>3, <1>8 DEF StatSound, EntriesRecent
<1> QED BY <1>2, <1>9, <1>10, NoWrongAnswer DEF StatSound

(* The cache is empty. *)
LEMMA StatStarts == StatInit => StatSound
<1> SUFFICES ASSUME StatInit
             PROVE  StatSound
  OBVIOUS
<1>1. NoEntry \in StatEntries /\ NoEntry.known
  BY DEF NoEntry, StatEntries, Contents
<1>2. StatTypes /\ EntriesRecent
  BY <1>1, StatCacheAssumption DEF StatInit, StatTypes, EntriesRecent, Contents
<1>3. AnswerRecent /\ LinksSeen
  BY DEF StatInit, AnswerRecent, LinksSeen
<1> QED BY <1>2, <1>3 DEF StatSound

(* Every step keeps what is sound. *)
LEMMA StatSteps == StatSound /\ [StatNext]_statVars => StatSound'
<1> SUFFICES ASSUME StatSound, [StatNext]_statVars
             PROVE  StatSound'
  OBVIOUS
<1>1. CASE UNCHANGED statVars
  BY <1>1 DEF statVars, StatSound, StatTypes, EntriesRecent, AnswerRecent, LinksSeen
<1>2. CASE Change
  <2>1. PICK f \in SFile, c \in Contents : FilesChange([disk EXCEPT ![f] = c], "file")
    BY <1>2 DEF Change
  <2>2. [disk EXCEPT ![f] = c] \in [SFile -> Contents]
    BY DEF StatSound, StatTypes
  <2> QED BY <2>1, <2>2, FilesChangeSound
<1>3. CASE Replace
  <2>1. [f \in SFile |-> IF disk[f] = "old" THEN "new" ELSE "old"] \in [SFile -> Contents]
    BY DEF Contents
  <2> QED BY <1>3, <2>1, FilesChangeSound DEF Replace
<1>4. CASE stat_cache_handle_fdevent
  BY <1>4, HandleFdeventSound
<1>5. CASE StatSecond
  BY <1>5, StatSecondSound
<1> QED BY <1>1, <1>2, <1>3, <1>4, <1>5, GetEntrySound DEF StatNext

(* The cache answers as the file system would have, a second ago at most: for every number of
   files, whatever hashes coincide and however the files change meanwhile. *)
THEOREM AnswersAreRecent == StatSpec => []StatInv
<1>1. StatInit => StatSound
  BY StatStarts
<1>2. StatSound /\ [StatNext]_statVars => StatSound'
  BY StatSteps
<1>3. StatSound => StatInv
  BY StatTyped DEF StatSound, StatInv
<1> QED BY <1>1, <1>2, <1>3, PTL DEF StatSpec

-----------------------------------------------------------------------------
(* Events *)

Handlers == [handler : BOOLEAN, events : Interests]
Revents == SUBSET {"in", "out", "some", "junk"}
Pollfds == [fd : Fd \cup {NoFd}, events : Interests, rev : Revents]

FdeventTypes ==
    /\ fbackend \in Backends
    /\ fdarray \in [Fd -> Handlers]
    /\ fndx \in [Fd -> Nat \cup {-1}]
    /\ fslots \in [used : Seq(Pollfds), unused : Seq(Nat)]
    /\ fwatch \in [Fd -> Interests \cup {Off}]
    /\ fres \in Seq([fd : Fd, rev : Revents])
    /\ fn \in Int /\ fcur \in Nat
    /\ fcall \in Fd \cup {NoFd}
    /\ fphase \in {"jobs", "dispatch", "handling", "crashed", "overrun", "null"}
    /\ fhist \in [fresh : SUBSET Fd, stale : BOOLEAN, other : BOOLEAN]

(* poll: index and slot lead to each other, and a slot on the stack of unused ones is unused and
   there once. *)
SlotsAgree ==
    /\ \A fd \in Fd : fndx[fd] # -1 =>
            /\ IsRegistered(fd) /\ fndx[fd] \in DOMAIN fslots.used
            /\ fslots.used[fndx[fd]].fd = fd /\ fslots.used[fndx[fd]].events = fdarray[fd].events
    /\ \A i \in DOMAIN fslots.used : fslots.used[i].fd # NoFd => fndx[fslots.used[i].fd] = i
    /\ \A i \in DOMAIN fslots.unused :
            fslots.unused[i] \in DOMAIN fslots.used /\ fslots.used[fslots.unused[i]].fd = NoFd
    /\ \A i, j \in DOMAIN fslots.unused : fslots.unused[i] = fslots.unused[j] => i = j

(* The others: what is watched is what was asked for, as far as the backend keeps it. *)
WatchAgrees ==
    \A fd \in Fd :
        IF fndx[fd] = -1 THEN fwatch[fd] = Off
        ELSE /\ IsRegistered(fd)
             /\ fwatch[fd] \in Interests
             /\ fbackend = "devpoll" => fdarray[fd].events \subseteq fwatch[fd]
             /\ fbackend = "port" => fwatch[fd] = PortSet(Off, fdarray[fd].events)
             /\ fbackend \notin {"devpoll", "port"} => fwatch[fd] = fdarray[fd].events

BackendAgrees == IF fbackend = "poll" THEN SlotsAgree ELSE WatchAgrees

(* The entries that are still to be handed out. *)
Hot == {i \in DOMAIN Entries : i > fcur /\ Entries[i].rev # {} /\ Entries[i].rev # Junk}

(* The count of the round leads to entries the kernel wrote; what handlers add comes after. *)
Counted ==
    LET left == IF fphase = "handling" THEN fn - 1 ELSE fn IN
    fphase \in {"dispatch", "handling"} =>
        /\ fbackend # "libev" => fn > 0
        /\ fbackend \in Batched =>
            fcur + left = Len(fres) /\ \A i \in DOMAIN fres : fres[i].rev # {}
        /\ fbackend = "poll" =>
            /\ Cardinality(Hot) = left
            /\ \A i, j \in DOMAIN fslots.used :
                    fslots.used[i].rev = Junk /\ fslots.used[j].rev \notin {{}, Junk} => j < i
        /\ fbackend # "poll" => \A i \in DOMAIN fres : fres[i].rev # Junk

(* What is to be handed out finds a handler that was there before, each one once. *)
Meddled == (fhist.other /\ fbackend # "libev") \/ fbackend = "kqueue"
HotFindTheirs ==
    ~Meddled /\ fphase \in {"dispatch", "handling"} =>
        /\ \A i \in Hot : /\ Entries[i].fd \in Fd /\ IsRegistered(Entries[i].fd)
                          /\ fndx[Entries[i].fd] # -1
                          /\ Entries[i].fd \notin fhist.fresh \cup {fcall}
        /\ \A i, j \in Hot : Entries[i].fd = Entries[j].fd => i = j

FdeventSound ==
    /\ FdeventTypes /\ BackendAgrees /\ Counted /\ HotFindTheirs
    /\ fphase # "overrun" /\ (~Meddled => fphase # "crashed" /\ ~fhist.stale)

(* A set of numbers that is not empty has a least one. *)
LEMMA MinIsLeast ==
    ASSUME NEW S \in SUBSET Nat, S # {}
    PROVE  Min(S) \in S /\ \A y \in S : Min(S) <= y
<1>1. PICK x \in S : \A y \in S : ~(<<y, x>> \in OpToRel(<, Nat))
  BY WFMin, NatLessThanWellFounded
<1>2. \A y \in S : x <= y
  <2> SUFFICES ASSUME NEW y \in S
               PROVE  x <= y
    OBVIOUS
  <2>1. x \in Nat /\ y \in Nat
    OBVIOUS
  <2>2. ~(y < x)
    BY <1>1, <2>1 DEF OpToRel
  <2> QED BY <2>1, <2>2
<1> QED BY <1>2 DEF Min

(* A descriptor is watched if its owner has an index for it. *)
LEMMA WatchedOwned ==
    ASSUME FdeventTypes, BackendAgrees, NEW fd \in Fd
    PROVE  /\ fndx[fd] = -1 => KernelWatch(fd) = Off
           /\ fndx[fd] # -1 => /\ IsRegistered(fd) /\ KernelWatch(fd) \in Interests
                               /\ KernelWatch(fd) # Off
           /\ fbackend = "poll" /\ fndx[fd] # -1 => KernelWatch(fd) = fdarray[fd].events
           /\ fbackend # "poll" => KernelWatch(fd) = fwatch[fd]
<1>1. \A events \in Interests : events # Off
  BY DEF Interests, Off
<1>2. CASE fbackend # "poll"
  BY <1>1, <1>2 DEF BackendAgrees, WatchAgrees, KernelWatch
<1>3. CASE fbackend = "poll"
  <2> DEFINE mine == {i \in DOMAIN fslots.used : fslots.used[i].fd = fd}
  <2>1. KernelWatch(fd) = IF mine = {} THEN Off ELSE fslots.used[CHOOSE i \in mine : TRUE].events
    BY <1>3 DEF KernelWatch
  <2>2. fd # NoFd /\ SlotsAgree
    BY <1>3 DEF Fd, NoFd, BackendAgrees
  <2>3. \A i \in mine : i = fndx[fd] /\ fndx[fd] # -1
    <3> SUFFICES ASSUME NEW i \in mine
                 PROVE  i = fndx[fd] /\ fndx[fd] # -1
      OBVIOUS
    <3>1. i \in Nat
      BY DEF FdeventTypes
    <3> QED BY <2>2, <3>1 DEF SlotsAgree
  <2>4. CASE fndx[fd] = -1
    BY <1>3, <2>1, <2>3, <2>4
  <2>5. CASE fndx[fd] # -1
    <3>1. mine = {fndx[fd]}
      BY <2>2, <2>3, <2>5 DEF SlotsAgree
    <3>2. KernelWatch(fd) = fslots.used[fndx[fd]].events
      BY <2>1, <3>1
    <3>3. fslots.used[fndx[fd]].events = fdarray[fd].events /\ fdarray[fd].events \in Interests
          /\ IsRegistered(fd)
      BY <2>2, <2>5 DEF SlotsAgree, FdeventTypes, Handlers
    <3> QED BY <1>1, <1>3, <2>5, <3>2, <3>3
  <2> QED BY <2>4, <2>5
<1> QED BY <1>2, <1>3

(* What a handler may do to the tables without disturbing the round. *)
LEMMA HandlersKeep ==
    ASSUME FdeventSound, Running, fphase' \in {fphase, "null"},
           UNCHANGED <<fbackend, fn, fcur, fcall>>,
           FdeventTypes', BackendAgrees',
           Hot' \subseteq Hot, fbackend # "libev" => Hot' = Hot, Len(fres') = Len(fres),
           fbackend \in Batched => fres' = fres,
           fhist'.stale = fhist.stale, fhist.other => fhist'.other,
           ~Meddled' /\ fphase = "handling" => \A i \in Hot' :
                /\ Entries'[i].fd = Entries[i].fd
                /\ fdarray'[Entries[i].fd].handler /\ fndx'[Entries[i].fd] # -1
                /\ Entries[i].fd \notin fhist'.fresh,
           fbackend = "poll" /\ fphase = "handling" => \A i, j \in DOMAIN fslots'.used :
                fslots'.used[i].rev = Junk /\ fslots'.used[j].rev \notin {{}, Junk} => j < i,
           fbackend # "poll" => \A i \in DOMAIN fres' : fres'[i].rev # Junk \/ fphase = "jobs"
    PROVE  FdeventSound'
<1>1. Counted'
  BY DEF FdeventSound, Running, Counted, Batched
<1>2. ~Meddled' => ~Meddled
  BY DEF Meddled
<1>3. HotFindTheirs'
  <2> SUFFICES ASSUME ~Meddled', fphase = "handling", fphase' = "handling"
               PROVE  HotFindTheirs'
    BY DEF HotFindTheirs, Running
  <2>1. /\ \A i \in Hot : /\ Entries[i].fd \in Fd
                          /\ Entries[i].fd \notin fhist.fresh \cup {fcall}
        /\ \A i, j \in Hot : Entries[i].fd = Entries[j].fd => i = j
    BY <1>2 DEF FdeventSound, HotFindTheirs
  <2>2. \A i \in Hot' : i \in Hot /\ Entries'[i].fd = Entries[i].fd
    OBVIOUS
  <2> QED BY <2>1, <2>2 DEF HotFindTheirs, IsRegistered
<1>4. fphase' # "overrun" /\ (~Meddled' => fphase' # "crashed" /\ ~fhist'.stale)
  BY <1>2 DEF FdeventSound, Running
<1> QED BY <1>1, <1>3, <1>4 DEF FdeventSound

(* fdevent_register(): the descriptor is new in the round, so nothing is left for it. *)
LEMMA RegisterSound ==
    ASSUME FdeventSound, NEW fd \in Fd, fdevent_register(fd)
    PROVE  FdeventSound'
<1>1. /\ Running /\ ~IsRegistered(fd)
      /\ fdarray' = [fdarray EXCEPT ![fd] = [handler |-> TRUE, events |-> {}]]
      /\ fhist' = [fhist EXCEPT !.fresh = IF fphase = "handling" THEN @ \cup {fd} ELSE @]
      /\ UNCHANGED <<fbackend, fndx, fslots, fwatch, fres, fn, fcur, fphase, fcall>>
  BY DEF fdevent_register
<1>2. FdeventTypes'
  <2>1. fdarray' \in [Fd -> Handlers]
    BY <1>1 DEF FdeventSound, FdeventTypes, Handlers, Interests
  <2>2. fhist' \in [fresh : SUBSET Fd, stale : BOOLEAN, other : BOOLEAN]
    BY <1>1 DEF FdeventSound, FdeventTypes
  <2> QED BY <1>1, <2>1, <2>2 DEF FdeventSound, FdeventTypes
<1>3. fndx[fd] = -1 /\ \A g \in Fd \ {fd} : fdarray'[g] = fdarray[g]
  BY <1>1 DEF FdeventSound, FdeventTypes, BackendAgrees, SlotsAgree, WatchAgrees
<1>4. \A g \in Fd : fndx[g] # -1 => fdarray'[g] = fdarray[g]
  BY <1>3
<1>5. BackendAgrees'
  <2>1. SlotsAgree => SlotsAgree'
    BY <1>1, <1>4 DEF SlotsAgree, IsRegistered
  <2>2. WatchAgrees => WatchAgrees'
    BY <1>1, <1>4 DEF WatchAgrees, IsRegistered, PortSet
  <2> QED BY <1>1, <2>1, <2>2 DEF FdeventSound, BackendAgrees
<1>6. Hot' = Hot /\ Entries' = Entries
  BY <1>1 DEF Hot, Entries
<1>7. ~Meddled' /\ fphase = "handling" => \A i \in Hot' :
                /\ fdarray'[Entries[i].fd].handler /\ fndx'[Entries[i].fd] # -1
                /\ Entries[i].fd \notin fhist'.fresh
  <2> SUFFICES ASSUME ~Meddled', fphase = "handling", NEW i \in Hot
               PROVE  /\ fdarray'[Entries[i].fd].handler /\ fndx'[Entries[i].fd] # -1
                      /\ Entries[i].fd \notin fhist'.fresh
    BY <1>6
  <2>1. ~Meddled /\ fhist'.fresh = fhist.fresh \cup {fd}
    BY <1>1 DEF Meddled, FdeventSound, FdeventTypes
  <2>2. /\ Entries[i].fd \in Fd /\ IsRegistered(Entries[i].fd) /\ fndx[Entries[i].fd] # -1
        /\ Entries[i].fd \notin fhist.fresh
    BY <2>1 DEF FdeventSound, HotFindTheirs
  <2> DEFINE g == Entries[i].fd
  <2>3. g # fd /\ g \in Fd /\ g \notin fhist.fresh /\ fndx[g] # -1 /\ fdarray[g].handler
    BY <1>3, <2>2 DEF IsRegistered
  <2> HIDE DEF g
  <2>4. fndx'[g] # -1 /\ fdarray'[g].handler /\ g \notin fhist'.fresh
    BY <1>1, <1>3, <2>1, <2>3
  <2> QED BY <2>4 DEF g, IsRegistered
<1>8. /\ fbackend = "poll" /\ fphase = "handling" => \A i, j \in DOMAIN fslots'.used :
                fslots'.used[i].rev = Junk /\ fslots'.used[j].rev \notin {{}, Junk} => j < i
      /\ fbackend # "poll" => \A i \in DOMAIN fres' : fres'[i].rev # Junk \/ fphase = "jobs"
  BY <1>1 DEF FdeventSound, Counted, Running
<1>9. fhist'.stale = fhist.stale /\ fhist.other => fhist'.other
  BY <1>1 DEF FdeventSound, FdeventTypes
<1>10. fhist'.stale = fhist.stale
  BY <1>1 DEF FdeventSound, FdeventTypes
<1> QED BY <1>1, <1>2, <1>5, <1>6, <1>7, <1>8, <1>9, <1>10, HandlersKeep

(* A sequence without its last element. *)
LEMMA FrontOf ==
    ASSUME NEW S, NEW s \in Seq(S), s # <<>>
    PROVE  /\ Front(s) \in Seq(S) /\ DOMAIN Front(s) = 1 .. Len(s) - 1
           /\ Len(s) \in Nat \ {0} /\ DOMAIN s = 1 .. Len(s)
           /\ \A i \in 1 .. Len(s) - 1 : Front(s)[i] = s[i]
<1>1. Len(s) \in Nat \ {0}
  OBVIOUS
<1>2. Front(s) = SubSeq(s, 1, Len(s) - 1)
  BY DEF Front
<1> QED BY <1>1, <1>2

(* event_set() of poll: the slot is the owner's, an unused one or a new one, and keeps what the
   kernel wrote into it. *)
LEMMA PollSetSound ==
    ASSUME FdeventSound, fbackend = "poll", NEW fd \in Fd, NEW events \in Interests, IsRegistered(fd),
           fdarray' = [fdarray EXCEPT ![fd].events = events],
           fslots' = fdevent_poll_event_set(fslots, fndx[fd], fd, events),
           fndx' = [fndx EXCEPT ![fd] = PollSlot(fslots, fndx[fd])]
    PROVE  /\ fslots' \in [used : Seq(Pollfds), unused : Seq(Nat)]
           /\ fndx' \in [Fd -> Nat \cup {-1}]
           /\ SlotsAgree'
           /\ DOMAIN fslots.used \subseteq DOMAIN fslots'.used
           /\ \A i \in DOMAIN fslots.used : /\ fslots'.used[i].rev = fslots.used[i].rev
                                            /\ fslots.used[i].fd \in {fslots'.used[i].fd, NoFd}
           /\ \A i \in DOMAIN fslots'.used \ DOMAIN fslots.used :
                    i = Len(fslots.used) + 1 /\ fslots'.used[i].rev = Junk
           /\ \A g \in Fd : fndx'[g] = -1 => fndx[g] = -1
<1> DEFINE used == fslots.used
           unused == fslots.unused
           k == PollSlot(fslots, fndx[fd])
           rev == IF k <= Len(used) THEN used[k].rev ELSE Junk
           slot == [fd |-> fd, events |-> events, rev |-> rev]
           free == fndx[fd] = -1 /\ unused # <<>>
<1>1. /\ used \in Seq(Pollfds) /\ unused \in Seq(Nat) /\ fndx \in [Fd -> Nat \cup {-1}]
      /\ fd # NoFd /\ SlotsAgree /\ fndx[fd] \in Nat \cup {-1}
      /\ fdarray \in [Fd -> Handlers]
  BY DEF FdeventSound, FdeventTypes, BackendAgrees, Fd, NoFd
<1>2. /\ k \in 1 .. Len(used) + 1
      /\ k <= Len(used) => used[k].fd \in {fd, NoFd} /\ (fndx[fd] = -1 => used[k].fd = NoFd)
      /\ fndx[fd] # -1 => k = fndx[fd] /\ k <= Len(used)
      /\ free => k = unused[Len(unused)] /\ k <= Len(used)
      /\ fndx[fd] = -1 /\ ~free => k = Len(used) + 1
  <2>1. CASE fndx[fd] # -1
    BY <1>1, <2>1 DEF PollSlot, SlotsAgree
  <2>2. CASE fndx[fd] = -1 /\ unused = <<>>
    BY <1>1, <2>2 DEF PollSlot
  <2>3. CASE free
    <3>1. Len(unused) \in DOMAIN unused
      BY <1>1, <2>3
    <3>2. k = unused[Len(unused)]
      BY <2>3 DEF PollSlot, Last
    <3>3. k \in DOMAIN used /\ used[k].fd = NoFd
      BY <1>1, <3>1, <3>2 DEF SlotsAgree
    <3> QED BY <1>1, <2>3, <3>2, <3>3
  <2> QED BY <2>1, <2>2, <2>3
<1>3. slot \in Pollfds /\ slot.fd = fd /\ slot.events = events /\ slot.rev = rev
  <2>1. rev \in Revents
    <3>1. CASE k <= Len(used)
      <4>1. used[k] \in Pollfds
        BY <1>1, <1>2, <3>1
      <4> QED BY <3>1, <4>1 DEF Pollfds
    <3>2. CASE ~(k <= Len(used))
      BY <3>2 DEF Revents, Junk
    <3> QED BY <3>1, <3>2
  <2> QED BY <2>1 DEF Pollfds
<1>4. /\ fslots'.used = IF k <= Len(used) THEN [used EXCEPT ![k] = slot] ELSE Append(used, slot)
      /\ fslots'.unused = IF free THEN Front(unused) ELSE unused
      /\ fslots' = [used |-> fslots'.used, unused |-> fslots'.unused]
  BY DEF fdevent_poll_event_set
<1> HIDE DEF slot, k
<1>5. /\ fslots'.used \in Seq(Pollfds)
      /\ fslots'.used[k] = slot /\ k \in DOMAIN fslots'.used
      /\ \A i \in DOMAIN fslots'.used : i # k => i \in DOMAIN used /\ fslots'.used[i] = used[i]
      /\ DOMAIN used \subseteq DOMAIN fslots'.used
      /\ k \notin DOMAIN used => k = Len(used) + 1
  <2>1. DOMAIN used = 1 .. Len(used) /\ Len(used) \in Nat
    BY <1>1
  <2>2. CASE k <= Len(used)
    <3>1. fslots'.used = [used EXCEPT ![k] = slot] /\ k \in DOMAIN used
      BY <1>2, <1>4, <2>1, <2>2
    <3>2. fslots'.used \in Seq(Pollfds) /\ DOMAIN fslots'.used = DOMAIN used
      BY <1>1, <1>3, <3>1
    <3> QED BY <3>1, <3>2
  <2>3. CASE ~(k <= Len(used))
    <3>1. fslots'.used = Append(used, slot) /\ k = Len(used) + 1
      BY <1>2, <1>4, <2>1, <2>3
    <3>2. fslots'.used \in Seq(Pollfds) /\ DOMAIN fslots'.used = 1 .. k
      BY <1>1, <1>3, <2>1, <3>1
    <3>3. fslots'.used[k] = slot /\ \A i \in DOMAIN used : fslots'.used[i] = used[i]
      BY <1>1, <1>3, <2>1, <3>1
    <3> QED BY <2>1, <3>1, <3>2, <3>3
  <2> QED BY <2>2, <2>3
<1>6. /\ fslots'.unused \in Seq(Nat)
      /\ \A i \in DOMAIN fslots'.unused : i \in DOMAIN unused /\ fslots'.unused[i] = unused[i]
      /\ free => \A i \in DOMAIN fslots'.unused : i # Len(unused)
  <2>1. CASE free
    <3>1. fslots'.unused = Front(unused) /\ unused # <<>> /\ unused \in Seq(Nat)
      BY <1>1, <1>4, <2>1
    <3> HIDE DEF unused, used
    <3>2. /\ Front(unused) \in Seq(Nat) /\ DOMAIN Front(unused) = 1 .. Len(unused) - 1
          /\ Len(unused) \in Nat \ {0} /\ DOMAIN unused = 1 .. Len(unused)
          /\ \A i \in 1 .. Len(unused) - 1 : Front(unused)[i] = unused[i]
      BY <3>1, FrontOf
    <3>3. \A i \in DOMAIN Front(unused) :
              i \in DOMAIN unused /\ i # Len(unused) /\ Front(unused)[i] = unused[i]
      BY <3>2
    <3> QED BY <3>1, <3>2, <3>3
  <2>2. CASE ~free
    BY <1>1, <1>4, <2>2
  <2> QED BY <2>1, <2>2
<1>7. fndx' = [fndx EXCEPT ![fd] = k] /\ k \in Nat
  BY <1>2 DEF k
<1>8. fndx'[fd] = k /\ \A g \in Fd \ {fd} : fndx'[g] = fndx[g] /\ fdarray'[g] = fdarray[g]
  BY <1>1, <1>7
<1>9. fdarray'[fd].events = events /\ fdarray'[fd].handler
  BY <1>1 DEF Handlers, IsRegistered
<1>10. SlotsAgree'
  <2>1. ASSUME NEW g \in Fd, fndx'[g] # -1
        PROVE  /\ IsRegistered(g)' /\ fndx'[g] \in DOMAIN fslots'.used
               /\ fslots'.used[fndx'[g]].fd = g /\ fslots'.used[fndx'[g]].events = fdarray'[g].events
    <3>1. CASE g = fd
      BY <1>3, <1>5, <1>8, <1>9, <3>1 DEF IsRegistered
    <3>2. CASE g # fd
      <4>1. /\ fndx'[g] = fndx[g] /\ fdarray'[g] = fdarray[g] /\ IsRegistered(g)
            /\ fndx[g] \in DOMAIN used /\ used[fndx[g]].fd = g /\ used[fndx[g]].events = fdarray[g].events
        BY <1>1, <1>8, <2>1, <3>2 DEF SlotsAgree
      <4>2. fndx[g] # k
        BY <1>1, <1>2, <3>2, <4>1 DEF Fd, NoFd
      <4>3. fndx[g] \in DOMAIN fslots'.used /\ fslots'.used[fndx[g]] = used[fndx[g]]
        BY <1>5, <4>1, <4>2
      <4> QED BY <4>1, <4>3 DEF IsRegistered
    <3> QED BY <3>1, <3>2
  <2>2. ASSUME NEW i \in DOMAIN fslots'.used, fslots'.used[i].fd # NoFd
        PROVE  fndx'[fslots'.used[i].fd] = i
    <3>1. CASE i = k
      BY <1>3, <1>5, <1>8, <3>1
    <3>2. CASE i # k
      <4>1. i \in DOMAIN used /\ fslots'.used[i] = used[i] /\ fndx[used[i].fd] = i /\ used[i].fd \in Fd
        <5>1. i \in DOMAIN used /\ fslots'.used[i] = used[i]
          BY <1>5, <3>2
        <5>2. used[i] \in Pollfds
          BY <1>1, <5>1
        <5> QED BY <1>1, <2>2, <5>1, <5>2 DEF SlotsAgree, Pollfds
      <4>2. used[i].fd # fd
        BY <1>1, <1>2, <3>2, <4>1
      <4> QED BY <1>8, <4>1, <4>2
    <3> QED BY <3>1, <3>2
  <2>3. ASSUME NEW i \in DOMAIN fslots'.unused
        PROVE  fslots'.unused[i] \in DOMAIN fslots'.used /\ fslots'.used[fslots'.unused[i]].fd = NoFd
    <3>1. /\ i \in DOMAIN unused /\ fslots'.unused[i] = unused[i]
          /\ unused[i] \in DOMAIN used /\ used[unused[i]].fd = NoFd
      BY <1>1, <1>6 DEF SlotsAgree
    <3>2. unused[i] # k
      <4>1. CASE free
        <5>1. i # Len(unused) /\ Len(unused) \in DOMAIN unused /\ k = unused[Len(unused)]
          BY <1>1, <1>2, <1>6, <4>1
        <5> QED BY <1>1, <3>1, <5>1 DEF SlotsAgree
      <4>2. CASE fndx[fd] # -1
        <5>1. used[k].fd = fd
          BY <1>1, <1>2, <4>2 DEF SlotsAgree
        <5> QED BY <1>1, <3>1, <5>1
      <4>3. CASE fndx[fd] = -1 /\ unused = <<>>
        BY <3>1, <4>3
      <4> QED BY <4>1, <4>2, <4>3
    <3> QED BY <1>5, <3>1, <3>2
  <2>4. \A i, j \in DOMAIN fslots'.unused : fslots'.unused[i] = fslots'.unused[j] => i = j
    BY <1>1, <1>6 DEF SlotsAgree
  <2> QED BY <2>1, <2>2, <2>3, <2>4 DEF SlotsAgree
<1>11. \A i \in DOMAIN used : /\ fslots'.used[i].rev = used[i].rev
                              /\ used[i].fd \in {fslots'.used[i].fd, NoFd}
  <2> SUFFICES ASSUME NEW i \in DOMAIN used
               PROVE  fslots'.used[i].rev = used[i].rev /\ used[i].fd \in {fslots'.used[i].fd, NoFd}
    OBVIOUS
  <2>1. CASE i = k
    BY <1>1, <1>2, <1>3, <1>5, <2>1
  <2>2. CASE i # k
    BY <1>5, <2>2
  <2> QED BY <2>1, <2>2
<1>12. \A i \in DOMAIN fslots'.used \ DOMAIN used : i = Len(used) + 1 /\ fslots'.used[i].rev = Junk
  BY <1>1, <1>2, <1>3, <1>5
<1>13. fndx' \in [Fd -> Nat \cup {-1}]
  BY <1>1, <1>7
<1>14. fslots' \in [used : Seq(Pollfds), unused : Seq(Nat)]
  BY <1>4, <1>5, <1>6
<1> QED BY <1>5, <1>7, <1>8, <1>10, <1>11, <1>12, <1>13, <1>14

(* event_set() leaves the round what it had. *)
LEMMA EventSetSound ==
    ASSUME FdeventSound, NEW fd \in Fd, NEW events \in Interests, Running, IsRegistered(fd),
           EventSet(fd, events)
    PROVE  FdeventSound'
<1>1. /\ fdarray' = [fdarray EXCEPT ![fd].events = events]
      /\ fphase' \in {fphase, "null"}
      /\ UNCHANGED <<fbackend, fres, fn, fcur, fcall, fhist>>
  BY DEF EventSet
<1>2. /\ fdarray' \in [Fd -> Handlers] /\ fdarray'[fd].events = events
      /\ \A g \in Fd : fdarray'[g].handler = fdarray[g].handler
      /\ \A g \in Fd \ {fd} : fdarray'[g] = fdarray[g]
  BY <1>1 DEF FdeventSound, FdeventTypes, Handlers
<1>3. FdeventTypes /\ BackendAgrees /\ Counted /\ HotFindTheirs
  BY DEF FdeventSound
<1>4. CASE fbackend = "poll"
  <2>1. /\ fslots' = fdevent_poll_event_set(fslots, fndx[fd], fd, events)
        /\ fndx' = [fndx EXCEPT ![fd] = PollSlot(fslots, fndx[fd])]
        /\ UNCHANGED fwatch
    BY <1>4 DEF EventSet
  <2>2. /\ fslots' \in [used : Seq(Pollfds), unused : Seq(Nat)]
        /\ fndx' \in [Fd -> Nat \cup {-1}]
        /\ SlotsAgree'
        /\ DOMAIN fslots.used \subseteq DOMAIN fslots'.used
        /\ \A i \in DOMAIN fslots.used : /\ fslots'.used[i].rev = fslots.used[i].rev
                                         /\ fslots.used[i].fd \in {fslots'.used[i].fd, NoFd}
        /\ \A i \in DOMAIN fslots'.used \ DOMAIN fslots.used :
                    i = Len(fslots.used) + 1 /\ fslots'.used[i].rev = Junk
        /\ \A g \in Fd : fndx'[g] = -1 => fndx[g] = -1
    BY <1>1, <1>4, <2>1, PollSetSound
  <2>3. FdeventTypes'
    BY <1>1, <1>2, <1>3, <2>1, <2>2 DEF FdeventTypes, Running
  <2>4. BackendAgrees'
    BY <1>1, <1>4, <2>2 DEF BackendAgrees
  <2>5. Entries = fslots.used /\ Entries' = fslots'.used
    BY <1>1, <1>4 DEF Entries
  <2>6. Hot' = Hot
    BY <1>1, <2>2, <2>5 DEF Hot
  <2>7. ASSUME ~Meddled', fphase = "handling", NEW i \in Hot'
        PROVE  /\ Entries'[i].fd = Entries[i].fd
               /\ fdarray'[Entries[i].fd].handler /\ fndx'[Entries[i].fd] # -1
               /\ Entries[i].fd \notin fhist'.fresh
    <3>1. i \in Hot /\ i \in DOMAIN fslots.used /\ ~Meddled
      BY <1>1, <2>5, <2>6, <2>7 DEF Hot, Meddled
    <3>2. /\ fslots.used[i].fd \in Fd /\ fdarray[fslots.used[i].fd].handler
          /\ fndx[fslots.used[i].fd] # -1 /\ fslots.used[i].fd \notin fhist.fresh
      BY <1>3, <2>5, <2>7, <3>1 DEF HotFindTheirs, IsRegistered
    <3>3. fslots.used[i].fd # NoFd
      BY <3>2 DEF Fd, NoFd
    <3> QED BY <1>1, <1>2, <2>2, <2>5, <3>1, <3>2, <3>3
  <2>8. fphase = "handling" => \A i, j \in DOMAIN fslots'.used :
                fslots'.used[i].rev = Junk /\ fslots'.used[j].rev \notin {{}, Junk} => j < i
    <3> SUFFICES ASSUME fphase = "handling", NEW i \in DOMAIN fslots'.used, NEW j \in DOMAIN fslots'.used,
                        fslots'.used[i].rev = Junk, fslots'.used[j].rev \notin {{}, Junk}
                 PROVE  j < i
      OBVIOUS
    <3>1. j \in DOMAIN fslots.used /\ fslots.used[j].rev \notin {{}, Junk}
      BY <2>2
    <3>2. fslots.used \in Seq(Pollfds)
      BY <1>3 DEF FdeventTypes
    <3>3. CASE i \in DOMAIN fslots.used
      BY <1>3, <1>4, <2>2, <3>1, <3>3 DEF Counted
    <3>4. CASE i \notin DOMAIN fslots.used
      BY <2>2, <3>1, <3>2, <3>4
    <3> QED BY <3>3, <3>4
  <2> QED BY <1>1, <1>4, <2>3, <2>4, <2>6, <2>7, <2>8, HandlersKeep
<1>5. CASE fbackend # "poll"
  <2>1. /\ fwatch' = [fwatch EXCEPT ![fd] = WatchSet(@, events)]
        /\ fndx' = [fndx EXCEPT ![fd] = fd]
        /\ UNCHANGED fslots
    BY <1>5 DEF EventSet
  <2>2. WatchAgrees /\ fwatch \in [Fd -> Interests \cup {Off}] /\ fndx \in [Fd -> Nat \cup {-1}]
        /\ fbackend \in {"select", "epoll", "kqueue", "devpoll", "port", "libev"} /\ fd \in Nat \ {0}
    BY <1>3, <1>5, FdeventAssumption DEF BackendAgrees, FdeventTypes, Fd
  <2>3. fwatch[fd] \in Interests \cup {Off}
    BY <2>2
  <2>4. /\ WatchSet(fwatch[fd], events) \in Interests
        /\ fbackend = "devpoll" => events \subseteq WatchSet(fwatch[fd], events)
        /\ fbackend = "port" => WatchSet(fwatch[fd], events) = PortSet(Off, events)
        /\ fbackend \notin {"devpoll", "port"} => WatchSet(fwatch[fd], events) = events
    BY <2>2, <2>3 DEF WatchSet, SelectSet, EpollSet, KqueueSet, LibevSet, DevpollSet, PortSet,
                      Interests, Off
  <2>5. /\ fwatch' \in [Fd -> Interests \cup {Off}] /\ fndx' \in [Fd -> Nat \cup {-1}]
        /\ fwatch'[fd] = WatchSet(fwatch[fd], events) /\ fndx'[fd] = fd
        /\ \A g \in Fd \ {fd} : fwatch'[g] = fwatch[g] /\ fndx'[g] = fndx[g]
    BY <2>1, <2>2, <2>4
  <2>6. FdeventTypes'
    BY <1>1, <1>2, <1>3, <2>1, <2>5 DEF FdeventTypes, Running
  <2>7. WatchAgrees'
    <3> SUFFICES ASSUME NEW g \in Fd
                 PROVE  IF fndx'[g] = -1 THEN fwatch'[g] = Off
                        ELSE /\ fdarray'[g].handler
                             /\ fwatch'[g] \in Interests
                             /\ fbackend = "devpoll" => fdarray'[g].events \subseteq fwatch'[g]
                             /\ fbackend = "port" => fwatch'[g] = PortSet(Off, fdarray'[g].events)
                             /\ fbackend \notin {"devpoll", "port"} => fwatch'[g] = fdarray'[g].events
      BY <1>1 DEF WatchAgrees, IsRegistered, PortSet
    <3>1. CASE g = fd
      BY <1>2, <2>2, <2>4, <2>5, <3>1 DEF IsRegistered
    <3>2. CASE g # fd
      BY <1>2, <2>2, <2>5, <3>2 DEF WatchAgrees, IsRegistered
    <3> QED BY <3>1, <3>2
  <2>8. BackendAgrees'
    BY <1>1, <1>5, <2>7 DEF BackendAgrees
  <2>9. Entries' = Entries /\ Hot' = Hot
    BY <1>1, <1>5 DEF Entries, Hot
  <2>10. ~Meddled' /\ fphase = "handling" => \A i \in Hot' :
                /\ Entries'[i].fd = Entries[i].fd
                /\ fdarray'[Entries[i].fd].handler /\ fndx'[Entries[i].fd] # -1
                /\ Entries[i].fd \notin fhist'.fresh
    <3> SUFFICES ASSUME ~Meddled', fphase = "handling", NEW i \in Hot
                 PROVE  /\ fdarray'[Entries[i].fd].handler /\ fndx'[Entries[i].fd] # -1
                        /\ Entries[i].fd \notin fhist'.fresh
      BY <2>9
    <3> DEFINE g == Entries[i].fd
    <3>1. g \in Fd /\ fdarray[g].handler /\ fndx[g] # -1 /\ g \notin fhist.fresh
      BY <1>1, <1>3 DEF HotFindTheirs, IsRegistered, Meddled
    <3> HIDE DEF g
    <3>2. fdarray'[g].handler /\ fndx'[g] # -1 /\ g \notin fhist'.fresh
      BY <1>1, <1>2, <2>2, <2>5, <3>1
    <3> QED BY <3>2 DEF g
  <2>11. \A i \in DOMAIN fres' : fres'[i].rev # Junk \/ fphase = "jobs"
    BY <1>1, <1>3, <1>5 DEF Counted, Running
  <2> QED BY <1>1, <1>5, <2>6, <2>8, <2>9, <2>10, <2>11, HandlersKeep
<1> QED BY <1>4, <1>5

(* event_del() of poll: the slot keeps its revents and goes to the unused ones. *)
LEMMA PollDelSound ==
    ASSUME FdeventSound, fbackend = "poll", NEW fd \in Fd, fndx[fd] # -1, NEW entry \in Handlers,
           fdarray' = [fdarray EXCEPT ![fd] = entry], fndx' = [fndx EXCEPT ![fd] = -1],
           fslots' = fdevent_poll_event_del(fslots, fndx[fd], fd)
    PROVE  /\ fslots' \in [used : Seq(Pollfds), unused : Seq(Nat)]
           /\ SlotsAgree'
           /\ DOMAIN fslots'.used = DOMAIN fslots.used
           /\ \A i \in DOMAIN fslots.used : /\ fslots'.used[i].rev = fslots.used[i].rev
                                            /\ fslots.used[i].fd \in {fslots'.used[i].fd, fd}
<1> DEFINE used == fslots.used
           unused == fslots.unused
           k == fndx[fd]
           slot == [used[k] EXCEPT !.fd = NoFd]
<1>1. /\ used \in Seq(Pollfds) /\ unused \in Seq(Nat) /\ fndx \in [Fd -> Nat \cup {-1}]
      /\ SlotsAgree /\ fdarray \in [Fd -> Handlers]
  BY DEF FdeventSound, FdeventTypes, BackendAgrees
<1>2. k \in DOMAIN used /\ used[k] \in Pollfds /\ used[k].fd = fd
  BY <1>1 DEF SlotsAgree
<1>3. slot \in Pollfds /\ slot.fd = NoFd /\ slot.rev = used[k].rev
  BY <1>2 DEF Pollfds
<1>4. /\ fslots'.used = [used EXCEPT ![k] = slot] /\ fslots'.unused = Append(unused, k)
      /\ fslots' = [used |-> fslots'.used, unused |-> fslots'.unused]
  BY DEF fdevent_poll_event_del
<1>5. fndx' = [fndx EXCEPT ![fd] = -1]
  OBVIOUS
<1> HIDE DEF slot, k
<1>6. /\ fslots'.used \in Seq(Pollfds) /\ DOMAIN fslots'.used = DOMAIN used
      /\ fslots'.used[k] = slot /\ \A i \in DOMAIN used \ {k} : fslots'.used[i] = used[i]
  BY <1>1, <1>2, <1>3, <1>4
<1>7. /\ fslots'.unused \in Seq(Nat) /\ k \in Nat
      /\ \A i \in DOMAIN fslots'.unused :
            IF i \in DOMAIN unused THEN fslots'.unused[i] = unused[i]
            ELSE i = Len(unused) + 1 /\ fslots'.unused[i] = k
  BY <1>1, <1>2, <1>4
<1>8. fndx'[fd] = -1 /\ \A g \in Fd \ {fd} : fndx'[g] = fndx[g] /\ fdarray'[g] = fdarray[g]
  BY <1>1, <1>5
<1>9. fd # NoFd
  BY DEF Fd, NoFd
<1>10. SlotsAgree'
  <2>1. ASSUME NEW g \in Fd, fndx'[g] # -1
        PROVE  /\ IsRegistered(g)' /\ fndx'[g] \in DOMAIN fslots'.used
               /\ fslots'.used[fndx'[g]].fd = g /\ fslots'.used[fndx'[g]].events = fdarray'[g].events
    <3>1. g # fd
      BY <1>8, <2>1
    <3>2. /\ fndx'[g] = fndx[g] /\ fdarray'[g] = fdarray[g] /\ IsRegistered(g)
          /\ fndx[g] \in DOMAIN used /\ used[fndx[g]].fd = g /\ used[fndx[g]].events = fdarray[g].events
      BY <1>1, <1>8, <2>1, <3>1 DEF SlotsAgree
    <3>3. fndx[g] # k
      BY <1>2, <3>1, <3>2
    <3> QED BY <1>6, <3>2, <3>3 DEF IsRegistered
  <2>2. ASSUME NEW i \in DOMAIN fslots'.used, fslots'.used[i].fd # NoFd
        PROVE  fndx'[fslots'.used[i].fd] = i
    <3>1. i # k /\ fslots'.used[i] = used[i] /\ i \in DOMAIN used
      BY <1>3, <1>6, <2>2
    <3>2. used[i] \in Pollfds
      BY <1>1, <3>1
    <3>3. fndx[used[i].fd] = i /\ used[i].fd \in Fd
      BY <1>1, <2>2, <3>1, <3>2 DEF SlotsAgree, Pollfds
    <3>4. used[i].fd # fd
      BY <3>1, <3>3 DEF k
    <3> QED BY <1>8, <3>1, <3>3, <3>4
  <2>3. ASSUME NEW i \in DOMAIN fslots'.unused
        PROVE  fslots'.unused[i] \in DOMAIN fslots'.used /\ fslots'.used[fslots'.unused[i]].fd = NoFd
    <3>1. CASE i \in DOMAIN unused
      <4>1. fslots'.unused[i] = unused[i] /\ unused[i] \in DOMAIN used /\ used[unused[i]].fd = NoFd
        BY <1>1, <1>7, <3>1 DEF SlotsAgree
      <4>2. unused[i] # k
        BY <1>2, <1>9, <4>1
      <4> QED BY <1>6, <4>1, <4>2
    <3>2. CASE i \notin DOMAIN unused
      BY <1>2, <1>3, <1>6, <1>7, <3>2
    <3> QED BY <3>1, <3>2
  <2>4. ASSUME NEW i \in DOMAIN fslots'.unused, NEW j \in DOMAIN fslots'.unused,
               fslots'.unused[i] = fslots'.unused[j]
        PROVE  i = j
    <3>1. \A l \in DOMAIN unused : unused[l] # k
      BY <1>1, <1>2, <1>9 DEF SlotsAgree
    <3>2. \A l \in DOMAIN fslots'.unused : l \in DOMAIN unused <=> fslots'.unused[l] # k
      BY <1>7, <3>1
    <3>3. CASE i \in DOMAIN unused
      <4>1. j \in DOMAIN unused /\ unused[i] = unused[j]
        BY <1>7, <2>4, <3>2, <3>3
      <4> QED BY <1>1, <3>3, <4>1 DEF SlotsAgree
    <3>4. CASE i \notin DOMAIN unused
      <4>1. j \notin DOMAIN unused
        BY <2>4, <3>2, <3>4
      <4> QED BY <1>7, <3>4, <4>1
    <3> QED BY <3>3, <3>4
  <2> QED BY <2>1, <2>2, <2>3, <2>4 DEF SlotsAgree
<1>11. fslots' \in [used : Seq(Pollfds), unused : Seq(Nat)]
  BY <1>4, <1>6, <1>7
<1>12. \A i \in DOMAIN used : /\ fslots'.used[i].rev = used[i].rev
                              /\ used[i].fd \in {fslots'.used[i].fd, fd}
  BY <1>2, <1>3, <1>6
<1> QED BY <1>6, <1>10, <1>11, <1>12

(* event_del(), with or without the handler: nothing is left for the descriptor, unless a handler
   meddles with another's. *)
LEMMA DeleteSound ==
    ASSUME FdeventSound, NEW fd \in Fd, NEW entry \in Handlers, Running,
           EventDel(fd),
           fdarray' = [fdarray EXCEPT ![fd] = entry],
           fhist' = [fhist EXCEPT !.other = @ \/ (fphase = "handling" /\ fcall # fd)],
           fndx[fd] = -1 \/ IsRegistered(fd),
           UNCHANGED <<fbackend, fn, fcur, fphase, fcall>>
    PROVE  FdeventSound'
<1>1. FdeventTypes /\ BackendAgrees /\ Counted /\ HotFindTheirs
  BY DEF FdeventSound
<1>2. /\ fdarray' \in [Fd -> Handlers]
      /\ \A g \in Fd \ {fd} : fdarray'[g] = fdarray[g]
  BY <1>1 DEF FdeventTypes
<1> DEFINE meddles == fphase = "handling" /\ fcall # fd
<1>3. /\ fhist' \in [fresh : SUBSET Fd, stale : BOOLEAN, other : BOOLEAN]
      /\ fhist'.fresh = fhist.fresh /\ fhist'.stale = fhist.stale
      /\ fhist'.other = (fhist.other \/ meddles)
  <2> DEFINE other == fhist.other \/ meddles
  <2>1. other \in BOOLEAN
    OBVIOUS
  <2>2. fhist' = [fhist EXCEPT !.other = other]
    OBVIOUS
  <2> HIDE DEF other
  <2>3. /\ fhist' \in [fresh : SUBSET Fd, stale : BOOLEAN, other : BOOLEAN]
        /\ fhist'.fresh = fhist.fresh /\ fhist'.stale = fhist.stale
        /\ fhist'.other = other
    BY <1>1, <2>1, <2>2 DEF FdeventTypes
  <2> QED BY <2>3 DEF other
<1>4. ~Meddled' /\ fphase = "handling" => ~Meddled /\ (fbackend # "libev" => fcall = fd)
  BY <1>3 DEF Meddled
<1>5. CASE fndx[fd] = -1
  <2>1. UNCHANGED <<fslots, fwatch, fres, fndx>>
    BY <1>5 DEF EventDel
  <2>2. FdeventTypes'
    BY <1>1, <1>2, <1>3, <2>1 DEF FdeventTypes
  <2>3. \A g \in Fd : fndx[g] # -1 => fdarray'[g] = fdarray[g]
    BY <1>2, <1>5
  <2>4. BackendAgrees'
    <3>1. SlotsAgree => SlotsAgree'
      BY <2>1, <2>3 DEF SlotsAgree, IsRegistered
    <3>2. WatchAgrees => WatchAgrees'
      BY <2>1, <2>3 DEF WatchAgrees, IsRegistered, PortSet
    <3> QED BY <1>1, <3>1, <3>2 DEF BackendAgrees
  <2>5. Entries' = Entries /\ Hot' = Hot
    BY <2>1 DEF Entries, Hot
  <2>6. ~Meddled' /\ fphase = "handling" => \A i \in Hot' :
                /\ Entries'[i].fd = Entries[i].fd
                /\ fdarray'[Entries[i].fd].handler /\ fndx'[Entries[i].fd] # -1
                /\ Entries[i].fd \notin fhist'.fresh
    <3> SUFFICES ASSUME ~Meddled', fphase = "handling", NEW i \in Hot
                 PROVE  /\ fdarray'[Entries[i].fd].handler /\ fndx'[Entries[i].fd] # -1
                        /\ Entries[i].fd \notin fhist'.fresh
      BY <2>5
    <3> DEFINE g == Entries[i].fd
    <3>1. g \in Fd /\ fdarray[g].handler /\ fndx[g] # -1 /\ g \notin fhist.fresh
      BY <1>1, <1>4 DEF HotFindTheirs, IsRegistered
    <3> HIDE DEF g
    <3>2. fdarray'[g].handler /\ fndx'[g] # -1 /\ g \notin fhist'.fresh
      BY <1>3, <2>1, <2>3, <3>1
    <3> QED BY <3>2 DEF g
  <2>7. /\ fbackend = "poll" /\ fphase = "handling" => \A i, j \in DOMAIN fslots'.used :
                fslots'.used[i].rev = Junk /\ fslots'.used[j].rev \notin {{}, Junk} => j < i
        /\ fbackend # "poll" => \A i \in DOMAIN fres' : fres'[i].rev # Junk \/ fphase = "jobs"
    BY <1>1, <2>1 DEF Counted, Running
  <2>8. fhist'.stale = fhist.stale /\ (fhist.other => fhist'.other) /\ Len(fres') = Len(fres)
    BY <1>3, <2>1
  <2>9. fres' = fres
    BY <2>1
  <2> QED BY <1>1, <1>3, <2>2, <2>4, <2>5, <2>6, <2>7, <2>8, <2>9, HandlersKeep
<1>6. CASE fndx[fd] # -1 /\ fbackend = "poll"
  <2>1. /\ fndx' = [fndx EXCEPT ![fd] = -1] /\ UNCHANGED <<fwatch, fres>>
        /\ fslots' = fdevent_poll_event_del(fslots, fndx[fd], fd)
    BY <1>6 DEF EventDel
  <2>2. /\ fslots' \in [used : Seq(Pollfds), unused : Seq(Nat)]
        /\ SlotsAgree'
        /\ DOMAIN fslots'.used = DOMAIN fslots.used
        /\ \A i \in DOMAIN fslots.used : /\ fslots'.used[i].rev = fslots.used[i].rev
                                         /\ fslots.used[i].fd \in {fslots'.used[i].fd, fd}
    BY <1>6, <2>1, PollDelSound
  <2>3. /\ fndx' \in [Fd -> Nat \cup {-1}] /\ \A g \in Fd \ {fd} : fndx'[g] = fndx[g]
    BY <1>1, <2>1 DEF FdeventTypes
  <2>4. FdeventTypes'
    BY <1>1, <1>2, <1>3, <2>1, <2>2, <2>3 DEF FdeventTypes
  <2>5. BackendAgrees'
    BY <1>6, <2>2 DEF BackendAgrees
  <2>6. Entries = fslots.used /\ Entries' = fslots'.used
    BY <1>6 DEF Entries
  <2>7. Hot' = Hot
    BY <2>2, <2>6 DEF Hot
  <2>8. ASSUME ~Meddled', fphase = "handling", NEW i \in Hot'
        PROVE  /\ Entries'[i].fd = Entries[i].fd
               /\ fdarray'[Entries[i].fd].handler /\ fndx'[Entries[i].fd] # -1
               /\ Entries[i].fd \notin fhist'.fresh
    <3>1. i \in Hot /\ i \in DOMAIN fslots.used /\ ~Meddled /\ fcall = fd
      BY <1>4, <1>6, <2>6, <2>7, <2>8 DEF Hot
    <3>2. /\ fslots.used[i].fd \in Fd /\ fdarray[fslots.used[i].fd].handler
          /\ fndx[fslots.used[i].fd] # -1 /\ fslots.used[i].fd \notin fhist.fresh \cup {fcall}
      BY <1>1, <2>6, <2>8, <3>1 DEF HotFindTheirs, IsRegistered
    <3> QED BY <1>2, <1>3, <2>2, <2>3, <2>6, <3>1, <3>2
  <2>9. fphase = "handling" => \A i, j \in DOMAIN fslots'.used :
                fslots'.used[i].rev = Junk /\ fslots'.used[j].rev \notin {{}, Junk} => j < i
    BY <1>1, <1>6, <2>2 DEF Counted
  <2>10. fhist'.stale = fhist.stale /\ (fhist.other => fhist'.other) /\ Len(fres') = Len(fres)
    BY <1>3, <2>1
  <2>11. fres' = fres
    BY <2>1
  <2> QED BY <1>3, <1>6, <2>4, <2>5, <2>7, <2>8, <2>9, <2>10, <2>11, HandlersKeep
<1>7. CASE fndx[fd] # -1 /\ fbackend # "poll"
  <2>1. /\ fndx' = [fndx EXCEPT ![fd] = -1] /\ fwatch' = [fwatch EXCEPT ![fd] = Off]
        /\ UNCHANGED fslots
        /\ fres' = IF fbackend = "libev" THEN Dropped(fres, fd) ELSE fres
    BY <1>7 DEF EventDel
  <2>2. /\ fndx' \in [Fd -> Nat \cup {-1}] /\ fwatch' \in [Fd -> Interests \cup {Off}]
        /\ fndx'[fd] = -1 /\ fwatch'[fd] = Off
        /\ \A g \in Fd \ {fd} : fndx'[g] = fndx[g] /\ fwatch'[g] = fwatch[g]
    BY <1>1, <2>1 DEF FdeventTypes
  <2>3. /\ fres' \in Seq([fd : Fd, rev : Revents]) /\ Len(fres') = Len(fres)
        /\ DOMAIN fres' = DOMAIN fres
        /\ \A i \in DOMAIN fres : /\ fres'[i].fd = fres[i].fd
                                  /\ fres'[i].rev \in {fres[i].rev, {}}
        /\ fbackend # "libev" => fres' = fres
        /\ fbackend = "libev" => \A i \in DOMAIN fres : fres[i].fd = fd => fres'[i].rev = {}
    <3> DEFINE R == [fd : Fd, rev : Revents]
    <3>1. fres \in Seq(R)
      BY <1>1 DEF FdeventTypes
    <3>2. CASE fbackend # "libev"
      BY <2>1, <3>1, <3>2
    <3>3. CASE fbackend = "libev"
      <4>1. fres' = [i \in DOMAIN fres |-> IF fres[i].fd = fd THEN [fres[i] EXCEPT !.rev = {}] ELSE fres[i]]
        BY <2>1, <3>3 DEF Dropped
      <4>2. ASSUME NEW i \in DOMAIN fres
            PROVE  /\ fres'[i] \in R /\ fres'[i].fd = fres[i].fd
                   /\ fres'[i].rev \in {fres[i].rev, {}}
                   /\ fres[i].fd = fd => fres'[i].rev = {}
        <5>1. fres[i] \in R /\ {} \in Revents
          <6>1. {} \in Revents
            BY DEF Revents
          <6> HIDE DEF R
          <6>2. fres[i] \in R
            BY <3>1
          <6> QED BY <6>1, <6>2
        <5>2. CASE fres[i].fd = fd
          BY <4>1, <5>1, <5>2
        <5>3. CASE fres[i].fd # fd
          BY <4>1, <5>1, <5>3
        <5> QED BY <5>2, <5>3
      <4> HIDE DEF R
      <4>3. DOMAIN fres = 1 .. Len(fres) /\ Len(fres) \in Nat /\ fres' = [i \in 1 .. Len(fres) |-> fres'[i]]
        BY <3>1, <4>1
      <4>4. fres' \in [1 .. Len(fres) -> R]
        BY <4>2, <4>3
      <4>5. fres' \in Seq(R) /\ Len(fres') = Len(fres) /\ DOMAIN fres' = DOMAIN fres
        BY <4>3, <4>4
      <4> QED BY <3>3, <4>2, <4>5 DEF R
    <3> QED BY <3>2, <3>3
  <2>4. FdeventTypes'
    BY <1>1, <1>2, <1>3, <2>1, <2>2, <2>3 DEF FdeventTypes
  <2>5. BackendAgrees'
    <3>1. WatchAgrees'
      BY <1>1, <1>2, <1>7, <2>2 DEF BackendAgrees, WatchAgrees, IsRegistered, PortSet
    <3> QED BY <1>7, <3>1 DEF BackendAgrees
  <2>6. Entries = fres /\ Entries' = fres'
    BY <1>7 DEF Entries
  <2>7. Hot' \subseteq Hot /\ (fbackend # "libev" => Hot' = Hot)
    BY <2>3, <2>6 DEF Hot
  <2>8. ~Meddled' /\ fphase = "handling" => \A i \in Hot' :
                /\ Entries'[i].fd = Entries[i].fd
                /\ fdarray'[Entries[i].fd].handler /\ fndx'[Entries[i].fd] # -1
                /\ Entries[i].fd \notin fhist'.fresh
    <3> SUFFICES ASSUME ~Meddled', fphase = "handling", NEW i \in Hot'
                 PROVE  /\ fres'[i].fd = fres[i].fd
                        /\ fdarray'[fres[i].fd].handler /\ fndx'[fres[i].fd] # -1
                        /\ fres[i].fd \notin fhist'.fresh
      BY <2>6
    <3>1. i \in Hot /\ i \in DOMAIN fres /\ fres'[i].rev # {}
      BY <2>3, <2>6, <2>7 DEF Hot
    <3>2. /\ fres[i].fd \in Fd /\ fdarray[fres[i].fd].handler
          /\ fndx[fres[i].fd] # -1 /\ fres[i].fd \notin fhist.fresh \cup {fcall}
      BY <1>1, <1>4, <2>6, <3>1 DEF HotFindTheirs, IsRegistered
    <3>3. fres[i].fd # fd
      BY <1>4, <2>3, <3>1, <3>2
    <3> QED BY <1>2, <1>3, <2>2, <2>3, <3>1, <3>2, <3>3
  <2>9. \A i \in DOMAIN fres' : fres'[i].rev # Junk \/ fphase = "jobs"
    BY <1>1, <1>7, <2>3 DEF Counted, Running, Junk
  <2>10. fhist'.stale = fhist.stale /\ (fhist.other => fhist'.other)
    BY <1>3
  <2> QED BY <1>7, <2>3, <2>4, <2>5, <2>7, <2>8, <2>9, <2>10, HandlersKeep DEF Batched
<1> QED BY <1>5, <1>6, <1>7

(* Index and slot still lead to each other when only the revents of the slots are written. *)
LEMMA SlotsStillAgree ==
    ASSUME SlotsAgree, UNCHANGED <<fdarray, fndx>>,
           DOMAIN fslots'.used = DOMAIN fslots.used, fslots'.unused = fslots.unused,
           \A i \in DOMAIN fslots.used : /\ fslots'.used[i].fd = fslots.used[i].fd
                                        /\ fslots'.used[i].events = fslots.used[i].events
    PROVE  SlotsAgree'
<1>1. \A fd \in Fd : fndx'[fd] # -1 =>
            /\ IsRegistered(fd)' /\ fndx'[fd] \in DOMAIN fslots'.used
            /\ fslots'.used[fndx'[fd]].fd = fd /\ fslots'.used[fndx'[fd]].events = fdarray'[fd].events
  BY DEF SlotsAgree, IsRegistered
<1>2. \A i \in DOMAIN fslots'.used : fslots'.used[i].fd # NoFd => fndx'[fslots'.used[i].fd] = i
  BY DEF SlotsAgree
<1>3. /\ \A i \in DOMAIN fslots'.unused :
            fslots'.unused[i] \in DOMAIN fslots'.used /\ fslots'.used[fslots'.unused[i]].fd = NoFd
      /\ \A i, j \in DOMAIN fslots'.unused : fslots'.unused[i] = fslots'.unused[j] => i = j
  BY DEF SlotsAgree
<1> QED BY <1>1, <1>2, <1>3 DEF SlotsAgree

(* A round of poll(): the slots with an event are as many as descriptors with one. *)
LEMMA PollPollSound ==
    ASSUME FdeventSound, fphase = "jobs", fbackend = "poll", NEW h \in Happened,
           fslots' = [fslots EXCEPT !.used = [i \in DOMAIN fslots.used |->
                        LET slot == fslots.used[i]
                        IN [slot EXCEPT !.rev = IF slot.fd = NoFd THEN {} ELSE h[slot.fd]]]],
           fn' = Cardinality({fd \in DOMAIN h : h[fd] # {}}),
           fcur' = 0, fphase' = IF fn' > 0 THEN "dispatch" ELSE "jobs", fcall' = NoFd,
           fhist' = [fresh |-> {}, stale |-> FALSE, other |-> FALSE],
           UNCHANGED <<fbackend, fdarray, fndx, fwatch, fres>>
    PROVE  FdeventSound'
<1> DEFINE used == fslots.used
           active == {fd \in DOMAIN h : h[fd] # {}}
<1>1. FdeventTypes /\ BackendAgrees /\ SlotsAgree /\ used \in Seq(Pollfds)
  BY DEF FdeventSound, BackendAgrees, FdeventTypes
<1>2. /\ DOMAIN h = {fd \in Fd : KernelWatch(fd) # Off}
      /\ \A fd \in DOMAIN h : h[fd] \in {{}, {"some"}}
  BY DEF Happened
<1>3. DOMAIN h = {fd \in Fd : fndx[fd] # -1}
  BY <1>1, <1>2, WatchedOwned
<1> DEFINE now == [i \in DOMAIN used |-> [used[i] EXCEPT !.rev = IF used[i].fd = NoFd THEN {} ELSE h[used[i].fd]]]
<1>4. ASSUME NEW i \in DOMAIN used
      PROVE  /\ now[i] \in Pollfds /\ now[i].fd = used[i].fd /\ now[i].events = used[i].events
             /\ used[i].fd = NoFd => now[i].rev = {}
             /\ used[i].fd # NoFd => /\ used[i].fd \in DOMAIN h /\ fndx[used[i].fd] = i
                                     /\ now[i].rev = h[used[i].fd]
  <2>1. used[i] \in Pollfds
    BY <1>1
  <2>2. used[i].fd # NoFd => used[i].fd \in DOMAIN h /\ fndx[used[i].fd] = i
    <3>1. i \in Nat /\ (used[i].fd # NoFd => used[i].fd \in Fd)
      BY <1>1, <2>1 DEF Pollfds
    <3> QED BY <1>1, <1>3, <3>1 DEF SlotsAgree
  <2>3. (IF used[i].fd = NoFd THEN {} ELSE h[used[i].fd]) \in Revents
    BY <1>2, <2>2 DEF Revents
  <2> QED BY <2>1, <2>2, <2>3 DEF Pollfds
<1>5. fslots' = [fslots EXCEPT !.used = now]
  OBVIOUS
<1> HIDE DEF now
<1>6. now \in Seq(Pollfds) /\ DOMAIN now = DOMAIN used
  <2>1. now = [i \in 1 .. Len(used) |-> now[i]] /\ Len(used) \in Nat /\ DOMAIN used = 1 .. Len(used)
    BY <1>1 DEF now
  <2> QED BY <1>4, <2>1
<1>7. fslots'.used = now /\ fslots'.unused = fslots.unused
      /\ fslots' \in [used : Seq(Pollfds), unused : Seq(Nat)]
  BY <1>1, <1>5, <1>6 DEF FdeventTypes
<1>8. SlotsAgree'
  <2>1. \A i \in DOMAIN used : fslots'.used[i].fd = used[i].fd /\ fslots'.used[i].events = used[i].events
    BY <1>4, <1>7
  <2>2. DOMAIN fslots'.used = DOMAIN used /\ fslots'.unused = fslots.unused
    BY <1>6, <1>7
  <2> QED BY <1>1, <2>1, <2>2, SlotsStillAgree
<1>9. IsFiniteSet(active)
  <2>1. IsFiniteSet(Fd)
    BY FS_Interval, FdeventAssumption DEF Fd
  <2> QED BY <1>2, <2>1, FS_Subset
<1>10. fn' \in Nat
  BY <1>9, FS_CardinalityType
<1>11. FdeventTypes'
  <2>1. /\ fcur' \in Nat /\ fcall' \in Fd \cup {NoFd} /\ fn' \in Int
        /\ fphase' \in {"jobs", "dispatch", "handling", "crashed", "overrun", "null"}
        /\ fhist' \in [fresh : SUBSET Fd, stale : BOOLEAN, other : BOOLEAN]
    BY <1>10
  <2> QED BY <1>1, <1>7, <2>1 DEF FdeventTypes
<1>12. BackendAgrees'
  BY <1>8 DEF BackendAgrees
<1>13. Entries' = now
  BY <1>7 DEF Entries
<1>18. \A i \in DOMAIN used : now[i].rev # Junk
  <2>1. Junk \notin {{}, {"some"}}
    BY DEF Junk
  <2> QED BY <1>2, <1>4, <2>1
<1>14. Hot' = {i \in DOMAIN used : used[i].fd # NoFd /\ h[used[i].fd] # {}}
  <2>1. \A i \in DOMAIN used : i > 0
    BY <1>1
  <2> QED BY <1>4, <1>6, <1>13, <1>18, <2>1 DEF Hot
<1>15. Cardinality(Hot') = fn'
  <2> DEFINE f == [fd \in active |-> fndx[fd]]
             hot == {i \in DOMAIN used : used[i].fd # NoFd /\ h[used[i].fd] # {}}
  <2>1. f \in [active -> hot]
    BY <1>1, <1>3 DEF SlotsAgree, Fd, NoFd
  <2>2. \A fd \in active, g \in active : f[fd] = f[g] => fd = g
    BY <1>1, <1>3 DEF SlotsAgree
  <2>3. \A i \in hot : \E fd \in active : f[fd] = i
    BY <1>4
  <2>4. f \in Bijection(active, hot)
    BY <2>1, <2>2, <2>3 DEF Bijection, Injection, Surjection, IsInjective
  <2>5. ExistsBijection(active, hot)
    BY <2>4 DEF ExistsBijection
  <2>6. Cardinality(hot) = Cardinality(active)
    BY <1>9, <2>5, FS_Bijection
  <2> QED BY <1>14, <2>6
<1>16. Counted'
  <2>1. \A i \in DOMAIN fslots'.used : fslots'.used[i].rev # Junk
    BY <1>6, <1>7, <1>18
  <2> QED BY <1>10, <1>15, <2>1 DEF Counted, Batched
<1>17. HotFindTheirs'
  <2>1. \A i \in Hot' : now[i].fd \in Fd /\ fndx[now[i].fd] # -1 /\ now[i].fd # NoFd
    BY <1>2, <1>3, <1>4, <1>14
  <2>2. \A i \in Hot' : IsRegistered(now[i].fd)
    BY <1>1, <2>1 DEF SlotsAgree
  <2>3. \A i, j \in Hot' : now[i].fd = now[j].fd => i = j
    BY <1>4, <1>14
  <2> QED BY <1>13, <2>1, <2>2, <2>3 DEF HotFindTheirs, IsRegistered
<1> QED BY <1>11, <1>12, <1>16, <1>17 DEF FdeventSound

(* What the others write: no entry without a descriptor that is watched. *)
LEMMA ResultsSound ==
    ASSUME FdeventSound, fbackend \notin {"poll", "select"}, NEW h \in Happened
    PROVE  /\ Results(h) \subseteq [fd : Fd, rev : Revents] /\ IsFiniteSet(Results(h))
           /\ \A e \in Results(h) : e.fd \in DOMAIN h /\ e.rev \notin {{}, Junk}
           /\ fbackend # "kqueue" => \A e, g \in Results(h) : e.fd = g.fd => e = g
<1>1. /\ DOMAIN h = {fd \in Fd : KernelWatch(fd) # Off}
      /\ h \in [DOMAIN h -> SUBSET {"in", "out"} \cup {{"some"}}]
      /\ \A fd \in DOMAIN h : IF fbackend \in {"kqueue", "select"} THEN h[fd] \subseteq KernelWatch(fd)
                               ELSE h[fd] \in {{}, {"some"}}
  BY DEF Happened
<1>2. /\ Results(h) \subseteq [fd : Fd, rev : Revents]
      /\ \A e \in Results(h) : e.fd \in DOMAIN h /\ e.rev \notin {{}, Junk}
      /\ fbackend # "kqueue" => \A e, g \in Results(h) : e.fd = g.fd => e = g
  <2>1. CASE fbackend = "kqueue"
    <3>1. \A fd \in DOMAIN h : h[fd] \subseteq {"in", "out"}
      <4>1. \A fd \in DOMAIN h : KernelWatch(fd) \in Interests
        BY <1>1, WatchedOwned DEF FdeventSound
      <4> QED BY <1>1, <2>1, <4>1 DEF Interests
    <3>2. Results(h) = UNION {{[fd |-> fd, rev |-> {e}] : e \in h[fd]} : fd \in DOMAIN h}
      BY <2>1 DEF Results
    <3>3. \A r \in Results(h) : \E fd \in DOMAIN h : \E e \in h[fd] : r = [fd |-> fd, rev |-> {e}]
      BY <3>2
    <3>4. ASSUME NEW r \in Results(h)
          PROVE  r \in [fd : Fd, rev : Revents] /\ r.fd \in DOMAIN h /\ r.rev \notin {{}, Junk}
      <4>1. PICK fd \in DOMAIN h : \E e \in h[fd] : r = [fd |-> fd, rev |-> {e}]
        BY <3>3
      <4>2. h[fd] \subseteq {"in", "out"} /\ fd \in Fd
        BY <1>1, <3>1
      <4> QED BY <4>1, <4>2 DEF Revents, Junk
    <3> QED BY <2>1, <3>4
  <2>2. CASE fbackend # "kqueue"
    <3>1. Results(h) = {[fd |-> fd, rev |-> h[fd]] : fd \in {fd \in DOMAIN h : h[fd] # {}}}
      BY <2>2 DEF Results
    <3>2. \A r \in Results(h) : \E fd \in DOMAIN h : h[fd] # {} /\ r = [fd |-> fd, rev |-> h[fd]]
      BY <3>1
    <3>3. \A r \in Results(h) : r.fd \in DOMAIN h /\ h[r.fd] # {} /\ r = [fd |-> r.fd, rev |-> h[r.fd]]
      BY <3>2
    <3>4. \A fd \in DOMAIN h : fd \in Fd /\ h[fd] \in {{}, {"some"}}
      BY <1>1, <2>2
    <3> QED BY <3>3, <3>4 DEF Revents, Junk
  <2> QED BY <2>1, <2>2
<1>3. IsFiniteSet(Results(h))
  <2> DEFINE T == [fd : Fd, rev : Revents]
             P == Fd \X Revents
             f == [p \in P |-> [fd |-> p[1], rev |-> p[2]]]
  <2>1. IsFiniteSet(Fd)
    BY FS_Interval, FdeventAssumption DEF Fd
  <2>2. IsFiniteSet({"in", "out", "some", "junk"})
    <3>1. IsFiniteSet({"in"} \cup {"out"})
      BY FS_Singleton, FS_AddElement
    <3>2. IsFiniteSet(({"in"} \cup {"out"}) \cup {"some"})
      BY <3>1, FS_AddElement
    <3>3. IsFiniteSet((({"in"} \cup {"out"}) \cup {"some"}) \cup {"junk"})
      BY <3>2, FS_AddElement
    <3>4. {"in", "out", "some", "junk"} = (({"in"} \cup {"out"}) \cup {"some"}) \cup {"junk"}
      OBVIOUS
    <3> QED BY <3>3, <3>4
  <2>3. IsFiniteSet(Revents)
    BY <2>2, FS_SUBSET DEF Revents
  <2>4. IsFiniteSet(P)
    BY <2>1, <2>3, FS_Product
  <2>5. f \in [P -> T]
    OBVIOUS
  <2>6. \A t \in T : \E p \in P : f[p] = t
    <3> SUFFICES ASSUME NEW t \in T
                 PROVE  \E p \in P : f[p] = t
      OBVIOUS
    <3>1. <<t.fd, t.rev>> \in P
      OBVIOUS
    <3>2. f[<<t.fd, t.rev>>] = t
      BY <3>1
    <3> QED BY <3>1, <3>2
  <2>7. f \in Surjection(P, T)
    BY <2>5, <2>6 DEF Surjection
  <2>8. IsFiniteSet(T)
    BY <2>4, <2>7, FS_Surjection
  <2> QED BY <1>2, <2>8, FS_Subset
<1> QED BY <1>2, <1>3

(* A round of select(), or of a backend that returns entries. *)
LEMMA PollOthersSound ==
    ASSUME FdeventSound, fphase = "jobs", fbackend # "poll", NEW h \in Happened,
           IF fbackend = "select"
           THEN /\ fres' = [fd \in Fd |-> [fd |-> fd, rev |-> IF fd \in DOMAIN h THEN h[fd] ELSE {}]]
                /\ fn' = Cardinality(UNION {{fd} \X h[fd] : fd \in DOMAIN h})
           ELSE fres' \in SetToSeqs(Results(h)) /\ fn' = Len(fres'),
           fcur' = 0, fphase' = IF fn' > 0 THEN "dispatch" ELSE "jobs", fcall' = NoFd,
           fhist' = [fresh |-> {}, stale |-> FALSE, other |-> FALSE],
           UNCHANGED <<fbackend, fdarray, fndx, fwatch, fslots>>
    PROVE  FdeventSound'
<1> DEFINE R == [fd : Fd, rev : Revents]
<1>1. FdeventTypes /\ BackendAgrees /\ WatchAgrees
  BY DEF FdeventSound, BackendAgrees
<1>2. DOMAIN h = {fd \in Fd : fndx[fd] # -1}
  <2>1. DOMAIN h = {fd \in Fd : KernelWatch(fd) # Off}
    BY DEF Happened
  <2> QED BY <1>1, <2>1, WatchedOwned
<1>3. /\ fn' \in Nat /\ fres' \in Seq(R)
      /\ \A i \in DOMAIN fres' : fres'[i].rev # {} => fres'[i].fd \in DOMAIN h /\ fres'[i].rev # Junk
      /\ fbackend # "kqueue" => \A i, j \in DOMAIN fres' : fres'[i].fd = fres'[j].fd => i = j
      /\ fbackend # "select" => fn' = Len(fres') /\ \A i \in DOMAIN fres' : fres'[i].rev # {}
  <2>1. CASE fbackend = "select"
    <3>1. \A fd \in DOMAIN h : h[fd] \subseteq {"in", "out"}
      <4>1. \A fd \in DOMAIN h : h[fd] \subseteq KernelWatch(fd)
        BY <2>1 DEF Happened
      <4>2. \A fd \in DOMAIN h : KernelWatch(fd) \in Interests
        BY <1>1, <1>2, WatchedOwned
      <4> QED BY <4>1, <4>2 DEF Interests
    <3>2. ASSUME NEW fd \in Fd
          PROVE  /\ (IF fd \in DOMAIN h THEN h[fd] ELSE {}) \in Revents
                 /\ (IF fd \in DOMAIN h THEN h[fd] ELSE {}) # Junk
      BY <3>1 DEF Revents, Junk
    <3>3. fres' = [fd \in Fd |-> [fd |-> fd, rev |-> IF fd \in DOMAIN h THEN h[fd] ELSE {}]]
      BY <2>1
    <3>4. \A fd \in Fd : /\ fres'[fd] \in R /\ fres'[fd].fd = fd /\ fres'[fd].rev # Junk
                         /\ fres'[fd].rev # {} => fd \in DOMAIN h
      BY <3>2, <3>3
    <3>5. fres' \in Seq(R) /\ DOMAIN fres' = Fd
      <4> HIDE DEF R
      <4> QED BY <3>3, <3>4, FdeventAssumption DEF Fd
    <3>6. fn' \in Nat
      <4> DEFINE U == UNION {{fd} \X h[fd] : fd \in DOMAIN h}
      <4>1. U \subseteq Fd \X {"in", "out"}
        BY <1>2, <3>1
      <4>2. IsFiniteSet(Fd)
        BY FS_Interval, FdeventAssumption DEF Fd
      <4>3. IsFiniteSet({"in", "out"})
        <5>1. IsFiniteSet({"in"} \cup {"out"})
          BY FS_Singleton, FS_AddElement
        <5>2. {"in", "out"} = {"in"} \cup {"out"}
          OBVIOUS
        <5> QED BY <5>1, <5>2
      <4>4. IsFiniteSet(Fd \X {"in", "out"})
        BY <4>2, <4>3, FS_Product
      <4>5. IsFiniteSet(U)
        BY <4>1, <4>4, FS_Subset
      <4> QED BY <2>1, <4>5, FS_CardinalityType
    <3> QED BY <2>1, <3>4, <3>5, <3>6
  <2>2. CASE fbackend # "select"
    <3>1. /\ Results(h) \subseteq R /\ IsFiniteSet(Results(h))
          /\ \A e \in Results(h) : e.fd \in DOMAIN h /\ e.rev \notin {{}, Junk}
          /\ fbackend # "kqueue" => \A e, g \in Results(h) : e.fd = g.fd => e = g
      BY <2>2, ResultsSound
    <3> DEFINE N == Cardinality(Results(h))
    <3>2. N \in Nat
      BY <3>1, FS_CardinalityType
    <3>3. /\ fres' \in [1 .. N -> Results(h)]
          /\ \A i, j \in 1 .. N : i # j => fres'[i] # fres'[j]
      BY <2>2 DEF SetToSeqs
    <3> HIDE DEF R, N
    <3>4. fres' \in Seq(R) /\ DOMAIN fres' = 1 .. N
      BY <3>1, <3>2, <3>3
    <3>5. fn' \in Nat
      BY <2>2, <3>4
    <3> QED BY <2>2, <3>1, <3>3, <3>4, <3>5
  <2> QED BY <2>1, <2>2
<1>4. FdeventTypes'
  BY <1>1, <1>3 DEF FdeventTypes
<1>5. BackendAgrees'
  BY <1>1 DEF BackendAgrees, WatchAgrees, IsRegistered, PortSet
<1>6. Entries' = fres'
  BY DEF Entries
<1>7. Counted'
  <2>1. {} # Junk
    BY DEF Junk
  <2>2. \A i \in DOMAIN fres' : fres'[i].rev # Junk
    BY <1>3, <2>1
  <2>3. fphase' \in {"dispatch", "jobs"} /\ (fphase' = "dispatch" => fn' > 0)
    BY <1>3
  <2>4. fbackend \in Batched => fcur' + fn' = Len(fres') /\ \A i \in DOMAIN fres' : fres'[i].rev # {}
    <3> HIDE DEF R
    <3> SUFFICES ASSUME fbackend \in Batched
                 PROVE  fcur' + fn' = Len(fres') /\ \A i \in DOMAIN fres' : fres'[i].rev # {}
      OBVIOUS
    <3>1. fbackend # "select"
      BY DEF Batched
    <3>2. fn' = Len(fres') /\ \A i \in DOMAIN fres' : fres'[i].rev # {}
      BY <1>3, <3>1
    <3>3. fn' \in Nat /\ fcur' = 0
      BY <1>3
    <3>4. fcur' + fn' = fn'
      BY <3>3
    <3> QED BY <3>2, <3>4
  <2> QED BY <2>2, <2>3, <2>4 DEF Counted
<1>8. HotFindTheirs'
  <2> SUFFICES ASSUME ~Meddled'
               PROVE  /\ \A i \in Hot' : /\ fres'[i].fd \in Fd /\ fdarray[fres'[i].fd].handler
                                         /\ fndx[fres'[i].fd] # -1 /\ fres'[i].fd # NoFd
                      /\ \A i, j \in Hot' : fres'[i].fd = fres'[j].fd => i = j
    BY <1>6 DEF HotFindTheirs, IsRegistered
  <2>1. \A i \in Hot' : i \in DOMAIN fres' /\ fres'[i].rev # {}
    BY <1>6 DEF Hot
  <2>2. \A i \in Hot' : fres'[i].fd \in Fd /\ fndx[fres'[i].fd] # -1 /\ fres'[i].fd # NoFd
    BY <1>2, <1>3, <2>1 DEF Fd, NoFd
  <2>3. \A fd \in Fd : fndx[fd] # -1 => fdarray[fd].handler
    BY <1>1 DEF WatchAgrees, IsRegistered
  <2>4. fbackend # "kqueue"
    BY DEF Meddled
  <2> QED BY <1>3, <2>1, <2>2, <2>3, <2>4
<1> QED BY <1>4, <1>5, <1>7, <1>8 DEF FdeventSound

(* fdevent_poll() *)
LEMMA PollSound ==
    ASSUME FdeventSound, fdevent_poll
    PROVE  FdeventSound'
<1>1. /\ fphase = "jobs" /\ fcur' = 0 /\ fphase' = IF fn' > 0 THEN "dispatch" ELSE "jobs"
      /\ fcall' = NoFd /\ fhist' = [fresh |-> {}, stale |-> FALSE, other |-> FALSE]
      /\ UNCHANGED <<fbackend, fdarray, fndx, fwatch>>
  BY DEF fdevent_poll
<1>2. CASE fbackend = "poll"
  <2>1. PICK h \in Happened :
            /\ fslots' = [fslots EXCEPT !.used = [i \in DOMAIN fslots.used |->
                        LET slot == fslots.used[i]
                        IN [slot EXCEPT !.rev = IF slot.fd = NoFd THEN {} ELSE h[slot.fd]]]]
            /\ fn' = Cardinality({fd \in DOMAIN h : h[fd] # {}})
            /\ UNCHANGED fres
    BY <1>2 DEF fdevent_poll
  <2> QED BY <1>1, <1>2, <2>1, PollPollSound
<1>3. CASE fbackend = "select"
  <2>1. PICK h \in Happened :
            /\ fres' = [fd \in Fd |-> [fd |-> fd, rev |-> IF fd \in DOMAIN h THEN h[fd] ELSE {}]]
            /\ fn' = Cardinality(UNION {{fd} \X h[fd] : fd \in DOMAIN h})
            /\ UNCHANGED fslots
    BY <1>3 DEF fdevent_poll
  <2> QED BY <1>1, <1>3, <2>1, PollOthersSound
<1>4. CASE fbackend \notin {"poll", "select"}
  <2>1. PICK h \in Happened : fres' \in SetToSeqs(Results(h)) /\ fn' = Len(fres') /\ UNCHANGED fslots
    BY <1>4 DEF fdevent_poll
  <2> QED BY <1>1, <1>4, <2>1, PollOthersSound
<1> QED BY <1>2, <1>3, <1>4

(* The round is over, and forgets its results. *)
LEMMA RoundOverSound ==
    ASSUME FdeventSound, RoundOver, UNCHANGED <<fbackend, fdarray, fndx, fwatch>>
    PROVE  FdeventSound'
<1> DEFINE used == fslots.used
           now == [i \in DOMAIN used |-> [used[i] EXCEPT !.rev = {}]]
<1>1. FdeventTypes /\ BackendAgrees /\ used \in Seq(Pollfds)
  BY DEF FdeventSound, FdeventTypes
<1>2. ASSUME NEW i \in DOMAIN used
      PROVE  now[i] \in Pollfds /\ now[i].fd = used[i].fd /\ now[i].events = used[i].events
  <2>1. used[i] \in Pollfds /\ {} \in Revents
    BY <1>1 DEF Revents
  <2> QED BY <2>1 DEF Pollfds
<1>3. /\ fphase' = "jobs" /\ fcall' = NoFd /\ fn' = 0 /\ fcur' = 0 /\ fres' = <<>>
      /\ fslots' = [fslots EXCEPT !.used = now]
      /\ fhist' = [fresh |-> {}, stale |-> FALSE, other |-> FALSE]
  BY DEF RoundOver
<1> HIDE DEF now
<1>4. now \in Seq(Pollfds) /\ DOMAIN now = DOMAIN used
  <2>1. now = [i \in 1 .. Len(used) |-> now[i]] /\ Len(used) \in Nat /\ DOMAIN used = 1 .. Len(used)
    BY <1>1 DEF now
  <2> QED BY <1>2, <2>1
<1>5. fslots'.used = now /\ fslots'.unused = fslots.unused
      /\ fslots' \in [used : Seq(Pollfds), unused : Seq(Nat)]
  BY <1>1, <1>3, <1>4 DEF FdeventTypes
<1>6. BackendAgrees'
  <2>1. SlotsAgree => SlotsAgree'
    <3> SUFFICES ASSUME SlotsAgree
                 PROVE  SlotsAgree'
      OBVIOUS
    <3>1. /\ DOMAIN fslots'.used = DOMAIN used /\ fslots'.unused = fslots.unused
          /\ \A i \in DOMAIN used : fslots'.used[i].fd = used[i].fd /\ fslots'.used[i].events = used[i].events
      BY <1>2, <1>4, <1>5
    <3> QED BY <3>1, SlotsStillAgree
  <2>2. WatchAgrees => WatchAgrees'
    BY DEF WatchAgrees, IsRegistered, PortSet
  <2> QED BY <1>1, <2>1, <2>2 DEF BackendAgrees
<1>7. FdeventTypes'
  BY <1>1, <1>3, <1>5 DEF FdeventTypes
<1>8. Counted' /\ HotFindTheirs'
  BY <1>3 DEF Counted, HotFindTheirs
<1> QED BY <1>3, <1>6, <1>7, <1>8 DEF FdeventSound

(* The first of the entries that are left is handed out. *)
LEMMA CallSound ==
    ASSUME FdeventSound, fphase = "dispatch", NEW i \in Hot, \A j \in Hot : i <= j,
           fbackend \in Batched => i = fcur + 1,
           Call(Entries[i].fd), fcur' = i,
           UNCHANGED <<fbackend, fdarray, fndx, fwatch, fslots, fres, fn>>
    PROVE  FdeventSound'
<1> DEFINE fd == Entries[i].fd
           stale == fphase' = "handling" /\ fd \in fhist.fresh
<1>1. FdeventTypes /\ BackendAgrees /\ Counted /\ HotFindTheirs
  BY DEF FdeventSound
<1>2. /\ fcall' = fd /\ fphase' = IF fd # NoFd /\ IsRegistered(fd) THEN "handling" ELSE "crashed"
      /\ fhist' = [fhist EXCEPT !.stale = stale]
  BY DEF Call
<1>3. Entries' = Entries /\ DOMAIN Entries \subseteq Nat
      /\ \A j \in DOMAIN Entries : Entries[j].fd \in Fd \cup {NoFd}
  <2>1. CASE fbackend = "poll"
    <3>1. Entries = fslots.used /\ Entries' = Entries
      BY <2>1 DEF Entries
    <3>2. fslots.used \in Seq(Pollfds)
      BY <1>1 DEF FdeventTypes
    <3>3. \A j \in DOMAIN fslots.used : fslots.used[j] \in Pollfds /\ j \in Nat
      BY <3>2
    <3> QED BY <3>1, <3>3 DEF Pollfds
  <2>2. CASE fbackend # "poll"
    <3> DEFINE R == [fd : Fd, rev : Revents]
    <3>1. Entries = fres /\ Entries' = Entries
      BY <2>2 DEF Entries
    <3>2. fres \in Seq(R)
      BY <1>1 DEF FdeventTypes
    <3>3. \A r \in R : r.fd \in Fd
      OBVIOUS
    <3> HIDE DEF R
    <3>4. \A j \in DOMAIN fres : fres[j] \in R /\ j \in Nat
      BY <3>2
    <3> QED BY <3>1, <3>3, <3>4
  <2> QED BY <2>1, <2>2
<1>4. i \in DOMAIN Entries /\ i \in Nat /\ i > fcur /\ fcur \in Nat
  <2>1. i \in DOMAIN Entries /\ i > fcur
    BY DEF Hot
  <2>2. i \in Nat /\ fcur \in Nat
    BY <1>1, <1>3, <2>1 DEF FdeventTypes
  <2> QED BY <2>1, <2>2
<1>5. Hot' = Hot \ {i}
  <2>1. Hot' = {j \in DOMAIN Entries : j > i /\ Entries[j].rev # {} /\ Entries[j].rev # Junk}
    BY <1>3 DEF Hot
  <2>2. \A j \in Hot : j \in Nat /\ j \in DOMAIN Entries /\ j > fcur /\ Entries[j].rev # {} /\ Entries[j].rev # Junk
    BY <1>3 DEF Hot
  <2>3. \A j \in DOMAIN Entries : j > fcur /\ Entries[j].rev # {} /\ Entries[j].rev # Junk => j \in Hot
    BY DEF Hot
  <2>4. ASSUME NEW j \in Hot, j # i
        PROVE  j \in Hot'
    BY <1>4, <2>1, <2>2, <2>4
  <2>5. ASSUME NEW j \in Hot'
        PROVE  j \in Hot /\ j # i
    <3>1. j \in DOMAIN Entries /\ j > i /\ Entries[j].rev # {} /\ Entries[j].rev # Junk /\ j \in Nat
      BY <1>3, <2>1, <2>5
    <3> QED BY <1>4, <2>3, <3>1
  <2> QED BY <2>4, <2>5
<1>6. /\ fhist' \in [fresh : SUBSET Fd, stale : BOOLEAN, other : BOOLEAN]
      /\ fhist'.fresh = fhist.fresh /\ fhist'.other = fhist.other /\ fhist'.stale = stale
  <2>1. stale \in BOOLEAN
    OBVIOUS
  <2> HIDE DEF stale
  <2> QED BY <1>1, <1>2, <2>1 DEF FdeventTypes
<1>7. FdeventTypes'
  <2>1. fcall' \in Fd \cup {NoFd} /\ fcur' \in Nat /\ fphase' \in {"handling", "crashed"}
    BY <1>2, <1>3, <1>4
  <2> QED BY <1>1, <1>6, <2>1 DEF FdeventTypes
<1>8. BackendAgrees'
  BY <1>1 DEF BackendAgrees, SlotsAgree, WatchAgrees, IsRegistered, PortSet
<1>9. Counted'
  <2>1. fbackend = "poll" => Cardinality(Hot') = fn - 1
    <3> SUFFICES ASSUME fbackend = "poll"
                 PROVE  Cardinality(Hot') = fn - 1
      OBVIOUS
    <3>1. Cardinality(Hot) = fn
      BY <1>1 DEF Counted
    <3>2. Hot \subseteq 1 .. Len(fslots.used) /\ Len(fslots.used) \in Nat
      <4>1. Entries = fslots.used
        BY DEF Entries
      <4>2. fslots.used \in Seq(Pollfds)
        BY <1>1 DEF FdeventTypes
      <4>3. DOMAIN fslots.used = 1 .. Len(fslots.used) /\ Len(fslots.used) \in Nat
        BY <4>2
      <4> QED BY <4>1, <4>3 DEF Hot
    <3>3. IsFiniteSet(Hot)
      <4>1. IsFiniteSet(1 .. Len(fslots.used))
        BY <3>2, FS_Interval
      <4> QED BY <3>2, <4>1, FS_Subset
    <3> QED BY <1>5, <3>1, <3>3, FS_RemoveElement
  <2>2. fphase' # "dispatch"
    BY <1>2
  <2>3. fbackend \in Batched => fcur' + (fn - 1) = Len(fres) /\ \A j \in DOMAIN fres : fres[j].rev # {}
    BY <1>1, <1>4 DEF Counted, FdeventTypes
  <2>4. (fbackend # "libev" => fn > 0) /\ (fbackend # "poll" => \A j \in DOMAIN fres : fres[j].rev # Junk)
    BY <1>1 DEF Counted
  <2>5. fbackend = "poll" => \A j, l \in DOMAIN fslots.used :
                    fslots.used[j].rev = Junk /\ fslots.used[l].rev \notin {{}, Junk} => l < j
    BY <1>1 DEF Counted
  <2> QED BY <2>1, <2>2, <2>3, <2>4, <2>5 DEF Counted
<1>10. Meddled' = Meddled
  BY <1>6 DEF Meddled
<1>11. HotFindTheirs'
  <2> SUFFICES ASSUME ~Meddled
               PROVE  /\ \A j \in Hot' : /\ Entries[j].fd \in Fd /\ IsRegistered(Entries[j].fd)
                                         /\ fndx[Entries[j].fd] # -1
                                         /\ Entries[j].fd \notin fhist.fresh \cup {fd}
                      /\ \A j, l \in Hot' : Entries[j].fd = Entries[l].fd => j = l
    BY <1>2, <1>3, <1>6, <1>10 DEF HotFindTheirs, IsRegistered
  <2> QED BY <1>1, <1>5 DEF HotFindTheirs
<1>12. ~Meddled' => fphase' # "crashed" /\ ~fhist'.stale
  <2> SUFFICES ASSUME ~Meddled
               PROVE  fphase' # "crashed" /\ ~stale
    BY <1>6, <1>10
  <2>1. fd \in Fd /\ IsRegistered(fd) /\ fd \notin fhist.fresh
    BY <1>1 DEF HotFindTheirs
  <2> QED BY <1>2, <2>1 DEF Fd, NoFd
<1>13. fphase' # "overrun"
  BY <1>2
<1> QED BY <1>7, <1>8, <1>9, <1>11, <1>12, <1>13 DEF FdeventSound

(* The entry the loop looks at next is one of those left, the first of them. *)
LEMMA NextIsFirst ==
    ASSUME FdeventSound, fphase = "dispatch"
    PROVE  LET i == NextFdndx IN
           \/ i = -1
           \/ i \in Hot /\ (\A j \in Hot : i <= j) /\ (fbackend \in Batched => i = fcur + 1)
<1> DEFINE more == {i \in DOMAIN Entries : i > fcur /\ Entries[i].rev # {}}
<1>1. FdeventTypes /\ Counted
  BY DEF FdeventSound
<1>2. DOMAIN Entries \subseteq Nat /\ fcur \in Nat /\ fn \in Int /\ Hot \subseteq more
  BY <1>1 DEF FdeventTypes, Entries, Hot
<1>3. CASE fbackend \in Batched
  <2>1. /\ NextFdndx = fcur + 1 /\ fn > 0 /\ fcur + fn = Len(fres) /\ Entries = fres
        /\ \A i \in DOMAIN fres : fres[i].rev # {} /\ fres[i].rev # Junk
    BY <1>1, <1>3 DEF NextFdndx, Counted, Entries, Batched
  <2>2. fcur + 1 \in DOMAIN fres
    BY <1>1, <1>2, <2>1 DEF FdeventTypes
  <2>3. fcur + 1 \in Hot
    BY <1>2, <2>1, <2>2 DEF Hot
  <2>4. \A j \in Hot : fcur + 1 <= j
    BY <1>2 DEF Hot
  <2> QED BY <2>1, <2>3, <2>4
<1>4. CASE fbackend \notin Batched /\ more = {}
  BY <1>4 DEF NextFdndx
<1>5. CASE fbackend \notin Batched /\ more # {}
  <2>1. NextFdndx = Min(more)
    BY <1>5 DEF NextFdndx
  <2>2. Min(more) \in more /\ \A j \in more : Min(more) <= j
    BY <1>2, <1>5, MinIsLeast
  <2>3. Entries[Min(more)].rev # Junk
    <3>1. CASE fbackend # "poll"
      BY <1>1, <2>2, <3>1 DEF Counted, Entries
    <3>2. CASE fbackend = "poll"
      <4>1. fn > 0 /\ Cardinality(Hot) = fn
        BY <1>1, <3>2 DEF Counted
      <4>2. Hot # {}
        BY <4>1, FS_EmptySet
      <4>3. PICK j \in Hot : TRUE
        BY <4>2
      <4>4. j \in more /\ j \in DOMAIN fslots.used /\ fslots.used[j].rev \notin {{}, Junk}
        BY <3>2, <4>3 DEF Hot, Entries
      <4>5. Min(more) <= j /\ Min(more) \in Nat /\ j \in Nat /\ Min(more) \in DOMAIN fslots.used
        BY <1>2, <2>2, <3>2, <4>4 DEF Entries
      <4>6. ASSUME fslots.used[Min(more)].rev = Junk
            PROVE  FALSE
        <5>1. j < Min(more)
          BY <1>1, <3>2, <4>4, <4>5, <4>6 DEF Counted
        <5> QED BY <4>5, <5>1
      <4> QED BY <3>2, <4>6 DEF Entries
    <3> QED BY <3>1, <3>2
  <2>4. Min(more) \in Hot
    BY <2>2, <2>3 DEF Hot
  <2> QED BY <1>2, <1>5, <2>1, <2>2, <2>4
<1> QED BY <1>3, <1>4, <1>5

(* One turn of the loop. *)
LEMMA DispatchSound ==
    ASSUME FdeventSound, Dispatch
    PROVE  FdeventSound'
<1> DEFINE i == NextFdndx
<1>1. /\ fphase = "dispatch" /\ UNCHANGED <<fbackend, fdarray, fndx, fwatch>>
      /\ \/ i = -1 /\ RoundOver
         \/ i # -1 /\ (i \notin DOMAIN Entries \/ Entries[i].rev = Junk)
         \/ /\ i \in DOMAIN Entries /\ Call(Entries[i].fd) /\ fcur' = i
            /\ UNCHANGED <<fn, fres, fslots>>
  BY DEF Dispatch
<1>2. i = -1 \/ (i \in Hot /\ (\A j \in Hot : i <= j) /\ (fbackend \in Batched => i = fcur + 1))
  BY <1>1, NextIsFirst
<1>3. DOMAIN Entries \subseteq Nat
  BY DEF FdeventSound, FdeventTypes, Entries
<1> HIDE DEF i
<1>4. CASE i = -1
  <2>1. i \notin DOMAIN Entries
    BY <1>3, <1>4
  <2> QED BY <1>1, <1>4, <2>1, RoundOverSound
<1>5. CASE i # -1
  <2>1. i \in Hot /\ (\A j \in Hot : i <= j) /\ (fbackend \in Batched => i = fcur + 1)
    BY <1>2, <1>5
  <2>2. i \in DOMAIN Entries /\ Entries[i].rev # Junk
    BY <2>1 DEF Hot
  <2> QED BY <1>1, <1>5, <2>1, <2>2, CallSound
<1> QED BY <1>4, <1>5

(* libev hands out what is pending. *)
LEMMA IoWatcherSound ==
    ASSUME FdeventSound, io_watcher_cb
    PROVE  FdeventSound'
<1> DEFINE i == NextFdndx
<1>1. /\ fphase = "dispatch" /\ UNCHANGED <<fbackend, fdarray, fndx, fwatch>> /\ fbackend = "libev"
      /\ \/ i = -1 /\ RoundOver
         \/ /\ i # -1 /\ Call(fres[i].fd) /\ fcur' = i
            /\ UNCHANGED <<fn, fres, fslots>>
  BY DEF io_watcher_cb
<1>2. i = -1 \/ (i \in Hot /\ (\A j \in Hot : i <= j) /\ (fbackend \in Batched => i = fcur + 1))
  BY <1>1, NextIsFirst
<1>3. Entries = fres
  BY <1>1 DEF Entries
<1> HIDE DEF i
<1>4. CASE i = -1
  BY <1>1, <1>4, RoundOverSound
<1>5. CASE i # -1
  BY <1>1, <1>2, <1>3, <1>5, CallSound
<1> QED BY <1>4, <1>5

(* The handler returns. *)
LEMMA HandlerEndSound ==
    ASSUME FdeventSound, HandlerEnd
    PROVE  FdeventSound'
<1>1. fphase = "handling" /\ UNCHANGED <<fbackend, fdarray, fndx, fwatch>>
  BY DEF HandlerEnd
<1>2. CASE ~(fn > 1 \/ fbackend = "libev")
  BY <1>1, <1>2, RoundOverSound DEF HandlerEnd
<1>3. CASE fn > 1 \/ fbackend = "libev"
  <2>1. fn' = fn - 1 /\ fphase' = "dispatch" /\ fcall' = NoFd /\ UNCHANGED <<fres, fcur, fslots, fhist>>
    BY <1>3 DEF HandlerEnd
  <2>2. FdeventTypes /\ BackendAgrees /\ Counted /\ HotFindTheirs
    BY DEF FdeventSound
  <2>3. Entries' = Entries /\ Hot' = Hot /\ Meddled' = Meddled
    BY <1>1, <2>1 DEF Entries, Hot, Meddled
  <2>4. FdeventTypes'
    BY <1>1, <2>1, <2>2 DEF FdeventTypes
  <2>5. BackendAgrees'
    BY <1>1, <2>1, <2>2 DEF BackendAgrees, SlotsAgree, WatchAgrees, IsRegistered, PortSet
  <2>6. Counted'
    <3>1. fn \in Int /\ fcur \in Nat /\ fphase = "handling" /\ fphase' = "dispatch"
      BY <1>1, <2>1, <2>2 DEF FdeventTypes
    <3>2. fbackend # "libev" => fn' > 0
      BY <1>3, <2>1, <3>1
    <3>3. fbackend \in Batched => fcur' + fn' = Len(fres') /\ \A i \in DOMAIN fres' : fres'[i].rev # {}
      BY <1>1, <2>1, <2>2, <3>1 DEF Counted
    <3>4. fbackend = "poll" =>
              /\ Cardinality(Hot') = fn'
              /\ \A i, j \in DOMAIN fslots'.used :
                    fslots'.used[i].rev = Junk /\ fslots'.used[j].rev \notin {{}, Junk} => j < i
      BY <1>1, <2>1, <2>2, <2>3, <3>1 DEF Counted
    <3>5. fbackend # "poll" => \A i \in DOMAIN fres' : fres'[i].rev # Junk
      BY <1>1, <2>1, <2>2, <3>1 DEF Counted
    <3> QED BY <1>1, <3>1, <3>2, <3>3, <3>4, <3>5 DEF Counted
  <2>7. HotFindTheirs'
    <3> SUFFICES ASSUME ~Meddled
                 PROVE  /\ \A j \in Hot : /\ Entries[j].fd \in Fd /\ IsRegistered(Entries[j].fd)
                                          /\ fndx[Entries[j].fd] # -1
                                          /\ Entries[j].fd \notin fhist.fresh \cup {NoFd}
                        /\ \A j, l \in Hot : Entries[j].fd = Entries[l].fd => j = l
      BY <1>1, <2>1, <2>3 DEF HotFindTheirs, IsRegistered
    <3> QED BY <1>1, <2>2 DEF HotFindTheirs, Fd, NoFd
  <2> QED BY <2>1, <2>3, <2>4, <2>5, <2>6, <2>7 DEF FdeventSound
<1> QED BY <1>2, <1>3

(* Nothing is registered. *)
LEMMA FdeventStarts == FdeventInit => FdeventSound
<1> SUFFICES ASSUME FdeventInit
             PROVE  FdeventSound
  OBVIOUS
<1>1. FdeventTypes
  <2>1. NoHandler \in Handlers
    BY DEF NoHandler, Handlers, Interests
  <2>2. fslots \in [used : Seq(Pollfds), unused : Seq(Nat)]
    BY DEF FdeventInit
  <2> QED BY <2>1, <2>2 DEF FdeventInit, FdeventTypes
<1>2. BackendAgrees
  BY DEF FdeventInit, BackendAgrees, SlotsAgree, WatchAgrees
<1>3. Counted /\ HotFindTheirs
  BY DEF FdeventInit, Counted, HotFindTheirs
<1> QED BY <1>1, <1>2, <1>3 DEF FdeventInit, FdeventSound

(* Every step keeps what is sound. *)
LEMMA FdeventSteps == FdeventSound /\ [FdeventNext]_fdeventVars => FdeventSound'
<1> SUFFICES ASSUME FdeventSound, [FdeventNext]_fdeventVars
             PROVE  FdeventSound'
  OBVIOUS
<1>1. CASE UNCHANGED fdeventVars
  <2> USE <1>1 DEF fdeventVars
  <2>1. Entries' = Entries /\ Meddled' = Meddled
    BY DEF Entries, Meddled
  <2>2. Hot' = Hot
    BY <2>1 DEF Hot
  <2>3. FdeventTypes'
    BY DEF FdeventSound, FdeventTypes
  <2>4. BackendAgrees'
    BY DEF FdeventSound, BackendAgrees, SlotsAgree, WatchAgrees, IsRegistered, PortSet
  <2>5. Counted'
    BY <2>2 DEF FdeventSound, Counted
  <2>6. HotFindTheirs'
    BY <2>1, <2>2 DEF FdeventSound, HotFindTheirs, IsRegistered
  <2> QED BY <2>1, <2>3, <2>4, <2>5, <2>6 DEF FdeventSound
<1>2. ASSUME NEW fd \in Fd, NEW events \in Interests, fdevent_event_set(fd, events)
      PROVE  FdeventSound'
  BY <1>2, EventSetSound DEF fdevent_event_set
<1>3. ASSUME NEW fd \in Fd, NEW event \in {"in", "out"},
             fdevent_event_add(fd, event) \/ fdevent_event_clr(fd, event)
      PROVE  FdeventSound'
  <2>1. fdarray[fd].events \in Interests
    BY DEF FdeventSound, FdeventTypes, Handlers
  <2>2. fdarray[fd].events \cup {event} \in Interests /\ fdarray[fd].events \ {event} \in Interests
    BY <2>1 DEF Interests
  <2> QED BY <1>3, <2>2, EventSetSound DEF fdevent_event_add, fdevent_event_clr
<1>4. ASSUME NEW fd \in Fd, fdevent_event_del(fd)
      PROVE  FdeventSound'
  <2>1. Running /\ IsRegistered(fd) /\ EventDel(fd)
        /\ fdarray' = [fdarray EXCEPT ![fd].events = {}]
        /\ fhist' = [fhist EXCEPT !.other = @ \/ (fphase = "handling" /\ fcall # fd)]
        /\ UNCHANGED <<fbackend, fn, fcur, fphase, fcall>>
    BY <1>4 DEF fdevent_event_del
  <2>2. fdarray[fd] \in Handlers
    BY DEF FdeventSound, FdeventTypes
  <2> DEFINE entry == [fdarray[fd] EXCEPT !.events = {}]
  <2>3. entry \in Handlers
    BY <2>2 DEF Handlers, Interests
  <2>4. fdarray' = [fdarray EXCEPT ![fd] = entry]
    BY <2>1
  <2> HIDE DEF entry
  <2> QED BY <2>1, <2>3, <2>4, DeleteSound
<1>5. ASSUME NEW fd \in Fd, fdevent_unregister(fd)
      PROVE  FdeventSound'
  <2>1. Running /\ IsRegistered(fd) /\ EventDel(fd)
        /\ fdarray' = [fdarray EXCEPT ![fd] = NoHandler]
        /\ fhist' = [fhist EXCEPT !.other = @ \/ (fphase = "handling" /\ fcall # fd)]
        /\ UNCHANGED <<fbackend, fn, fcur, fphase, fcall>>
    BY <1>5 DEF fdevent_unregister
  <2>2. NoHandler \in Handlers
    BY DEF NoHandler, Handlers, Interests
  <2> QED BY <2>1, <2>2, DeleteSound
<1> QED BY <1>1, <1>2, <1>3, <1>4, <1>5, RegisterSound, PollSound, DispatchSound, IoWatcherSound,
           HandlerEndSound DEF FdeventNext

(* What is sound agrees with the kernel and finds the handlers. *)
LEMMA SoundIsAgreed == FdeventSound => FdeventInv
<1> SUFFICES ASSUME FdeventSound
             PROVE  FdeventInv
  OBVIOUS
<1>1. KernelAgrees
  <2> SUFFICES ASSUME NEW fd \in Fd
               PROVE  IF IsRegistered(fd) /\ fndx[fd] # -1
                      THEN CASE fbackend = "devpoll" -> fdarray[fd].events \subseteq KernelWatch(fd)
                             [] fbackend = "port" -> KernelWatch(fd) = PortSet(Off, fdarray[fd].events)
                             [] OTHER -> KernelWatch(fd) = fdarray[fd].events
                      ELSE KernelWatch(fd) = Off /\ fndx[fd] = -1
    BY DEF KernelAgrees
  <2>1. /\ fndx[fd] = -1 => KernelWatch(fd) = Off
        /\ fndx[fd] # -1 => IsRegistered(fd)
        /\ fbackend = "poll" /\ fndx[fd] # -1 => KernelWatch(fd) = fdarray[fd].events
        /\ fbackend # "poll" => KernelWatch(fd) = fwatch[fd]
    BY WatchedOwned DEF FdeventSound
  <2>2. fbackend # "poll" /\ fndx[fd] # -1 =>
             /\ fbackend = "devpoll" => fdarray[fd].events \subseteq fwatch[fd]
             /\ fbackend = "port" => fwatch[fd] = PortSet(Off, fdarray[fd].events)
             /\ fbackend \notin {"devpoll", "port"} => fwatch[fd] = fdarray[fd].events
    BY DEF FdeventSound, BackendAgrees, WatchAgrees
  <2> QED BY <2>1, <2>2
<1>2. NeverOverrun /\ EventsFindTheirHandler
  BY DEF FdeventSound, NeverOverrun, EventsFindTheirHandler, Meddled
<1> QED BY <1>1, <1>2 DEF FdeventInv

(* For every number of descriptors and each backend: the kernel watches what the owners asked
   for, the loop never reads an entry nobody wrote, and an event finds the handler that was there
   when it happened as long as handlers close only their own descriptor. *)
THEOREM EventsReachTheirOwners == FdeventSpec => []FdeventInv
<1>1. FdeventInit => FdeventSound
  BY FdeventStarts
<1>2. FdeventSound /\ [FdeventNext]_fdeventVars => FdeventSound'
  BY FdeventSteps
<1>3. FdeventSound => FdeventInv
  BY SoundIsAgreed
<1> QED BY <1>1, <1>2, <1>3, PTL DEF FdeventSpec

=============================================================================
