------------------------------- MODULE Arrays -------------------------------
(***************************************************************************)
(* The array of array.c, which holds headers, the environment and the      *)
(* configuration: elements in order of insertion, an index sorted by key   *)
(* that is searched by halves, and, behind the used part, old elements     *)
(* which array_reset() leaves to be used again.  The caller owns an        *)
(* element between array_get_unused_element() and its insertion.           *)
(***************************************************************************)
EXTENDS Integers, Sequences, SequencesExt, FiniteSets, FiniteSetsExt

CONSTANTS
    Keys,           \* keys, ordered as numbers
    Types,          \* data_type_t
    GrowBy,         \* 16 in array.c
    MaxElems        \* elements that exist at the same time

ASSUME ArraysAssumption == Keys \subseteq Nat /\ GrowBy \in Nat \ {0} /\ MaxElems \in Nat

VARIABLES
    arr,            \* data: slots with an element or 0; sorted: the index; used; size
    elems,          \* the elements that exist: their keys and types
    aheld           \* the element the caller holds, or 0

arrayVars == <<arr, elems, aheld>>

Elem == 1 .. MaxElems

ArrayInit ==
    /\ arr = [data |-> <<>>, sorted |-> <<>>, used |-> 0, size |-> 0]
    /\ elems = [e \in {} |-> 0]
    /\ aheld = 0

InUse == {arr.data[i] : i \in 1 .. arr.used}

KeyAt(a, el, pos) == el[a.data[a.sorted[pos]]].key

(* array_get_index(): halves the index; where the key is, or where it belongs. *)
RECURSIVE Search(_, _, _, _, _)
Search(a, el, key, lower, upper) ==
    IF lower = upper THEN [found |-> FALSE, pos |-> lower]
    ELSE LET probe == (lower + upper) \div 2
         IN  IF key = KeyAt(a, el, probe) THEN [found |-> TRUE, pos |-> probe]
             ELSE IF key < KeyAt(a, el, probe) THEN Search(a, el, key, lower, probe)
             ELSE Search(a, el, key, probe + 1, upper)

array_get_index(a, el, key) == Search(a, el, key, 1, a.used + 1)

Without(el, es) == [e \in DOMAIN el \ es |-> el[e]]

(* array_find_or_insert() when the key is not there: room is made, an old element that is
   in the way is freed, the index is opened at pos. *)
Insert(a, e, pos) ==
    LET grown == IF a.used < a.size THEN a
                 ELSE [a EXCEPT !.size = @ + GrowBy,
                                !.data = @ \o [i \in 1 .. GrowBy |-> 0],
                                !.sorted = @ \o [i \in 1 .. GrowBy |-> 0]]
        n == a.used + 1
    IN  [grown EXCEPT !.used = n, !.data[n] = e,
                      !.sorted = [i \in 1 .. grown.size |->
                                    IF i < pos \/ i > n THEN @[i] ELSE IF i = pos THEN n ELSE @[i - 1]]]

InTheWay(a) == IF a.used < a.size /\ a.data[a.used + 1] # 0 THEN {a.data[a.used + 1]} ELSE {}

(* array_insert_unique(): an element whose key is there already is merged into it and freed. *)
array_insert_unique(e) ==
    LET i == array_get_index(arr, elems, elems[e].key)
        old == arr.data[arr.sorted[i.pos]]
    IN  IF i.found
        THEN /\ elems[old].type = elems[e].type
             /\ elems' = Without(elems, {e})
             /\ UNCHANGED arr
        ELSE /\ arr' = Insert(arr, e, i.pos)
             /\ elems' = Without(elems, InTheWay(arr))

(* array_replace(): the element takes the place of the one with its key. *)
array_replace(e) ==
    LET i == array_get_index(arr, elems, elems[e].key)
        old == arr.data[arr.sorted[i.pos]]
    IN  IF i.found
        THEN /\ arr' = [arr EXCEPT !.data[arr.sorted[i.pos]] = e]
             /\ elems' = Without(elems, {old})
        ELSE /\ arr' = Insert(arr, e, i.pos)
             /\ elems' = Without(elems, InTheWay(arr))

InsertHeld ==
    /\ aheld # 0
    /\ array_insert_unique(aheld) \/ array_replace(aheld)
    /\ aheld' = 0

(* A new element of the caller's: data_string_init() and so on. *)
NewElement ==
    /\ aheld = 0 /\ Cardinality(DOMAIN elems) < MaxElems
    /\ \E key \in Keys, type \in Types :
         LET e == Min(Elem \ DOMAIN elems)
         IN  /\ elems' = [x \in DOMAIN elems \cup {e} |->
                            IF x = e THEN [key |-> key, type |-> type] ELSE elems[x]]
             /\ aheld' = e
    /\ UNCHANGED arr

(* The slot after the used ones is empty for the next insertion. *)
Taken(a, i) == [a EXCEPT !.data = [@ EXCEPT ![i] = a.data[a.used + 1], ![a.used + 1] = 0]]

(* array_get_unused_element(): the first old element of the type; the caller gives it a key. *)
array_get_unused_element ==
    /\ aheld = 0
    /\ \E type \in Types, key \in Keys :
         LET slots == {i \in arr.used + 1 .. arr.size : arr.data[i] # 0 /\ elems[arr.data[i]].type = type}
             e == arr.data[Min(slots)]
         IN  /\ slots # {}
             /\ aheld' = e
             /\ arr' = Taken(arr, Min(slots))
             /\ elems' = [elems EXCEPT ![e].key = key]

(* The last element takes the place of the one that goes. *)
Extracted(a, el, pos) ==
    LET ndx == a.sorted[pos]
        last == a.used
        lastpos == array_get_index(a, el, el[a.data[last]].key).pos
        data == IF ndx = last THEN [a.data EXCEPT ![ndx] = 0]
                ELSE [a.data EXCEPT ![ndx] = a.data[last], ![last] = 0]
        sorted == IF ndx = last THEN a.sorted ELSE [a.sorted EXCEPT ![lastpos] = ndx]
    IN  [a EXCEPT !.data = data, !.used = @ - 1,
                  !.sorted = [i \in 1 .. a.size |-> IF i < pos \/ i > last THEN sorted[i]
                                                    ELSE IF i = last THEN 0 ELSE sorted[i + 1]]]

(* array_extract_element(): the caller gets the element. *)
array_extract_element ==
    /\ aheld = 0
    /\ \E key \in Keys :
         LET i == array_get_index(arr, elems, key)
         IN  /\ i.found
             /\ aheld' = arr.data[arr.sorted[i.pos]]
             /\ arr' = Extracted(arr, elems, i.pos)
             /\ UNCHANGED elems

(* The caller is done with its element. *)
FreeHeld ==
    /\ aheld # 0
    /\ elems' = Without(elems, {aheld})
    /\ aheld' = 0
    /\ UNCHANGED arr

(* array_reset(): the elements stay, emptied. *)
array_reset ==
    /\ arr.used # 0
    /\ arr' = [arr EXCEPT !.used = 0]
    /\ elems' = [e \in DOMAIN elems |-> IF e \in InUse THEN [elems[e] EXCEPT !.key = 0] ELSE elems[e]]
    /\ UNCHANGED aheld

ArrayNext ==
    NewElement \/ InsertHeld \/ array_get_unused_element \/ array_extract_element \/ FreeHeld \/ array_reset

ArraySpec == ArrayInit /\ [][ArrayNext]_arrayVars

----------------------------------------------------------------------------
(* Properties *)

(* The index leads to every element in use, once, in the order of the keys, and so the
   search finds a key if and only if it is there and tells where it belongs otherwise,
   whatever was inserted, replaced and taken out before (array_get_index, "invariant:
   [lower-1] < key < [upper]"). *)
SearchFinds ==
    /\ {arr.sorted[i] : i \in 1 .. arr.used} = 1 .. arr.used
    /\ \A i, j \in 1 .. arr.used : i < j => KeyAt(arr, elems, i) < KeyAt(arr, elems, j)
    /\ \A key \in Keys : array_get_index(arr, elems, key).found <=> \E e \in InUse : elems[e].key = key

(* Every element that exists is in one slot or in the caller's hands, and no slot has one
   that was freed: nothing is freed twice and nothing is lost (array_get_unused_element,
   "make sure there is nothing here" in array_find_or_insert). *)
ElementsOwned ==
    LET slots == {i \in 1 .. arr.size : arr.data[i] # 0}
    IN  /\ {arr.data[i] : i \in slots} \cup (IF aheld = 0 THEN {} ELSE {aheld}) = DOMAIN elems
        /\ \A i, j \in slots : i # j => arr.data[i] # arr.data[j]
        /\ \A i \in slots : arr.data[i] # aheld
        /\ \A i \in 1 .. arr.used : arr.data[i] # 0
=============================================================================
