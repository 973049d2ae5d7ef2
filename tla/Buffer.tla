------------------------------- MODULE Buffer -------------------------------
(***************************************************************************)
(* The memory of a buffer (buffer.c): how much is allocated, how much of   *)
(* it is used, the terminating NUL included, and whether the NUL is there. *)
(* Callers write into the room they were given and commit what they wrote. *)
(***************************************************************************)
EXTENDS Integers

CONSTANTS
    BUFFER_PIECE_SIZE,
    BUFFER_MAX_REUSE_SIZE,
    MaxLen          \* longest text

ASSUME BufferAssumption ==
    BUFFER_PIECE_SIZE \in Nat \ {0} /\ BUFFER_MAX_REUSE_SIZE \in Nat /\ MaxLen \in Nat

VARIABLES
    bsize,          \* b->size
    bused,          \* b->used
    bnul,           \* whether b->ptr[b->used - 1] is NUL, if anything is used
    broom           \* the room a caller was given and has not used yet

bufferVars == <<bsize, bused, bnul, broom>>

(* buffer_init() *)
BufferInit == bsize = 0 /\ bused = 0 /\ bnul = FALSE /\ broom = 0

(* buffer_string_length() *)
Length == IF bused = 0 THEN 0 ELSE bused - 1

(* buffer_align_size() *)
AlignSize(n) == n + BUFFER_PIECE_SIZE - (n % BUFFER_PIECE_SIZE)

(* buffer_alloc(), buffer_realloc(): at least one byte, and never less than there is. *)
Allocated(n) == IF (IF n = 0 THEN 1 ELSE n) <= bsize THEN bsize ELSE AlignSize(IF n = 0 THEN 1 ELSE n)

(* buffer_reset(): a large one is given back. *)
buffer_reset ==
    /\ bsize' = IF bsize > BUFFER_MAX_REUSE_SIZE THEN 0 ELSE bsize
    /\ bused' = 0 /\ bnul' = FALSE /\ broom' = 0

(* buffer_string_prepare_copy() *)
buffer_string_prepare_copy(n) ==
    /\ bsize' = Allocated(n + 1)
    /\ bused' = 1 /\ bnul' = TRUE /\ broom' = n

(* Mutant: the NUL that is there already is counted as room. *)
PrepareAppend_NoNul(n) ==
    IF Length = 0 THEN buffer_string_prepare_copy(n)
    ELSE bsize' = Allocated(bused - 1 + n) /\ broom' = n /\ UNCHANGED <<bused, bnul>>

(* buffer_string_prepare_append() *)
buffer_string_prepare_append(n) ==
    IF Length = 0 THEN buffer_string_prepare_copy(n)
    ELSE bsize' = Allocated(bused + n) /\ broom' = n /\ UNCHANGED <<bused, bnul>>

(* The caller writes over the old NUL and into the room it was given, then
   buffer_commit() counts what was written and puts the NUL behind it. *)
buffer_commit(n) ==
    /\ bsize > 0 /\ n <= broom
    /\ bused' = (IF bused = 0 THEN 1 ELSE bused) + n
    /\ bnul' = TRUE /\ broom' = 0
    /\ UNCHANGED bsize

(* buffer_string_set_length(): the caller has text up to there, or will write it. *)
buffer_string_set_length(n) ==
    /\ bsize' = Allocated(n + 1)
    /\ bused' = n + 1 /\ bnul' = TRUE /\ broom' = 0

(* buffer_copy_string_len(): prepare, write and commit in one. *)
buffer_copy_string_len(n) ==
    /\ bsize' = Allocated(n + 1)
    /\ bused' = n + 1 /\ bnul' = TRUE /\ broom' = 0

(* buffer_append_string_len(): without text nothing is committed. *)
buffer_append_string_len(n) ==
    IF Length = 0 THEN buffer_copy_string_len(n)
    ELSE /\ bsize' = Allocated(bused + n)
         /\ bused' = bused + n /\ bnul' = TRUE /\ broom' = 0

(* buffer_copy_buffer() of a buffer that was never written: the special empty state. *)
CopyEmptyBuffer ==
    /\ bsize' = Allocated(1)
    /\ bused' = 0 /\ bnul' = FALSE /\ broom' = 0

(* buffer_move(): what the other buffer has, with a size of its own. *)
buffer_move(size, n) ==
    /\ n < size
    /\ bsize' = size /\ bused' = n + 1 /\ bnul' = TRUE /\ broom' = 0

BufferNext ==
    \/ buffer_reset \/ CopyEmptyBuffer
    \/ \E n \in 0 .. MaxLen :
          \/ buffer_string_prepare_copy(n) \/ buffer_string_set_length(n) \/ buffer_copy_string_len(n)
          \/ bused + n <= MaxLen + 1 /\ (buffer_string_prepare_append(n) \/ buffer_append_string_len(n))
          \/ buffer_commit(n)
          \/ buffer_move(AlignSize(MaxLen), n)

BufferSpec == BufferInit /\ [][BufferNext]_bufferVars

----------------------------------------------------------------------------
(* Properties *)

(* Type correctness. *)
BufferTypeOK == bsize \in Nat /\ bused \in Nat /\ bnul \in BOOLEAN /\ broom \in Nat

(* What is used fits what is allocated and ends in a NUL, and so does what the caller may
   still write into the room it was given: the assertion b->used + size <= b->size of
   buffer_commit() cannot fail, in whatever order buffers are reset, moved, filled and
   shortened. *)
BufferSound ==
    /\ bused > 0 => bused <= bsize /\ bnul
    /\ broom > 0 => bused + broom <= bsize

(* Both, and that room is only given in a buffer that has its NUL; this is inductive. *)
BufferInv == BufferTypeOK /\ BufferSound /\ (broom > 0 => bused > 0)
=============================================================================
