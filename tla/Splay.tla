------------------------------- MODULE Splay -------------------------------
(***************************************************************************)
(* Splay trees with sizes (splaytree.c), which hold the stat cache: top    *)
(* down splaying, which takes the tree apart on the way to a key and puts  *)
(* it together around it.                                                  *)
(***************************************************************************)
EXTENDS Integers, Sequences, FiniteSets, SequencesExt

CONSTANT SplayKeys  \* keys considered, hashes of names

ASSUME SplayAssumption == SplayKeys \subseteq Nat

VARIABLES
    tree,           \* the tree
    skeys,          \* the keys inserted and not deleted
    stouched        \* the last operation and its key

splayVars == <<tree, skeys, stouched>>

NoTree == <<>>
Node(key, left, right, size) == [key |-> key, left |-> left, right |-> right, size |-> size]
splaytree_size(t) == IF t = NoTree THEN 0 ELSE t.size

(* The nodes passed on the way: l is the list of those with smaller keys, r of those
   with larger ones, from the root on; lsize and rsize what was counted of them. *)
Passed(t, l, r, lsize, rsize) == [t |-> t, l |-> l, r |-> r, lsize |-> lsize, rsize |-> rsize]

RotateRight(t) ==
    LET y == t.left
        down == Node(t.key, y.right, t.right, splaytree_size(y.right) + splaytree_size(t.right) + 1)
    IN  Node(y.key, y.left, down, y.size)

RotateLeft(t) ==
    LET y == t.right
        down == Node(t.key, t.left, y.left, splaytree_size(t.left) + splaytree_size(y.left) + 1)
    IN  Node(y.key, down, y.right, y.size)

(* The loop: two steps in one direction are a rotation and a link. *)
RECURSIVE Descend(_, _)
Descend(p, i) ==
    LET t == p.t
        right == IF i < t.left.key THEN RotateRight(t) ELSE t
        left == IF i > t.right.key THEN RotateLeft(t) ELSE t
    IN  CASE i < t.key /\ t.left # NoTree ->
               IF right.left = NoTree THEN [p EXCEPT !.t = right]
               ELSE Descend(Passed(right.left, p.l, Append(p.r, right), p.lsize,
                                   p.rsize + 1 + splaytree_size(right.right)), i)
          [] i > t.key /\ t.right # NoTree ->
               IF left.right = NoTree THEN [p EXCEPT !.t = left]
               ELSE Descend(Passed(left.right, Append(p.l, left), p.r,
                                   p.lsize + 1 + splaytree_size(left.left), p.rsize), i)
          [] OTHER -> p

(* The nodes of a list below each other, with their sizes corrected from the top. *)
RECURSIVE ChainRight(_, _, _)
ChainRight(l, size, end) ==
    IF l = <<>> THEN end
    ELSE LET n == Head(l)
         IN  Node(n.key, n.left, ChainRight(Tail(l), size - 1 - splaytree_size(n.left), end), size)

RECURSIVE ChainLeft(_, _, _)
ChainLeft(r, size, end) ==
    IF r = <<>> THEN end
    ELSE LET n == Head(r)
         IN  Node(n.key, ChainLeft(Tail(r), size - 1 - splaytree_size(n.right), end), n.right, size)

(* Mutant: the sizes of the nodes that were passed stay as they are. *)
Splay_OldSizes(t, i) ==
    IF t = NoTree THEN t
    ELSE LET p == Descend(Passed(t, <<>>, <<>>, 0, 0), i)
             chain[k \in 1 .. Len(p.l) + 1] ==
                IF k > Len(p.l) THEN p.t.left ELSE Node(p.l[k].key, p.l[k].left, chain[k + 1], p.l[k].size)
         IN  Node(p.t.key, chain[1], ChainLeft(p.r, p.rsize + splaytree_size(p.t.right), p.t.right),
                  p.lsize + splaytree_size(p.t.left) + p.rsize + splaytree_size(p.t.right) + 1)

splaytree_splay(t, i) ==
    IF t = NoTree THEN t
    ELSE LET p == Descend(Passed(t, <<>>, <<>>, 0, 0), i)
             lsize == p.lsize + splaytree_size(p.t.left)
             rsize == p.rsize + splaytree_size(p.t.right)
         IN  Node(p.t.key, ChainRight(p.l, lsize, p.t.left), ChainLeft(p.r, rsize, p.t.right),
                  lsize + rsize + 1)

splaytree_insert(t, i) ==
    LET s == splaytree_splay(t, i)
        new(left, right) == Node(i, left, right, 1 + splaytree_size(left) + splaytree_size(right))
    IN  CASE t = NoTree -> new(NoTree, NoTree)
          [] t # NoTree /\ i = s.key -> s
          [] t # NoTree /\ i < s.key ->
                new(s.left, Node(s.key, NoTree, s.right, 1 + splaytree_size(s.right)))
          [] OTHER -> new(Node(s.key, s.left, NoTree, 1 + splaytree_size(s.left)), s.right)

splaytree_delete(t, i) ==
    LET s == splaytree_splay(t, i)
        x == splaytree_splay(s.left, i)
    IN  CASE t = NoTree -> t
          [] t # NoTree /\ s.key # i -> s
          [] t # NoTree /\ s.key = i /\ s.left = NoTree ->
                IF s.right = NoTree THEN NoTree ELSE [s.right EXCEPT !.size = t.size - 1]
          [] OTHER -> Node(x.key, x.left, s.right, t.size - 1)

----------------------------------------------------------------------------
SplayInit == tree = NoTree /\ skeys = {} /\ stouched = <<"none", 0>>

SplayLookup(i) == tree' = splaytree_splay(tree, i) /\ stouched' = <<"lookup", i>> /\ UNCHANGED skeys
SplayInsert(i) == tree' = splaytree_insert(tree, i) /\ stouched' = <<"insert", i>> /\ skeys' = skeys \cup {i}
SplayDelete(i) == tree' = splaytree_delete(tree, i) /\ stouched' = <<"delete", i>> /\ skeys' = skeys \ {i}

SplayNext == \E i \in SplayKeys : SplayLookup(i) \/ SplayInsert(i) \/ SplayDelete(i)

SplaySpec == SplayInit /\ [][SplayNext]_splayVars

----------------------------------------------------------------------------
(* Properties *)

RECURSIVE KeysOf(_)
KeysOf(t) == IF t = NoTree THEN {} ELSE {t.key} \cup KeysOf(t.left) \cup KeysOf(t.right)

RECURSIVE Sound(_)
Sound(t) ==
    t # NoTree =>
        /\ \A k \in KeysOf(t.left) : k < t.key
        /\ \A k \in KeysOf(t.right) : k > t.key
        /\ t.size = Cardinality(KeysOf(t))
        /\ Sound(t.left) /\ Sound(t.right)

(* Whatever is looked up, inserted and deleted in whatever order: the tree holds the
   keys it should, in order, and the size of every subtree is right (stat_cache.c
   asserts the size at the root and allocates by it). *)
SplaySound == KeysOf(tree) = skeys /\ Sound(tree)

(* "already splayed file_ndx": after a lookup the key is at the root if it is in the
   tree, and after an insertion it is, which is where the stat cache looks for it. *)
SplayedToRoot ==
    /\ stouched[1] \in {"lookup", "insert"} /\ stouched[2] \in skeys => tree.key = stouched[2]
    /\ stouched[1] = "insert" => stouched[2] \in skeys
=============================================================================
