---------------------------- MODULE Conditions ----------------------------
(***************************************************************************)
(* Conditional configuration: the blocks of the configuration file, and    *)
(* the cache in which every connection keeps which of them apply to it     *)
(* (configfile-glue.c).  Blocks nest, and form chains of else branches;    *)
(* when something a condition looks at changes, a part of the cache is     *)
(* reset and the rest is kept.                                             *)
(***************************************************************************)
EXTENDS Integers, Sequences, SequencesExt

CONSTANTS
    Contexts,       \* number of conditional blocks
    Comp            \* what conditions look at: "ip", "url"

ASSUME ConditionsAssumption == Contexts \in Nat

Context == 1 .. Contexts

(* Configurations.  A block is in another one or in the global context 0, may be the
   else branch of an earlier block beside it which looks at the same thing, and holds
   if the value is the one it asks for. *)
Trees ==
    {t \in [Context -> [parent : 0 .. Contexts - 1, prev : 0 .. Contexts - 1, comp : Comp, asks : 0 .. 1]] :
        \A n \in Context :
            /\ t[n].parent < n /\ t[n].prev < n
            /\ t[n].prev # 0 => /\ t[n].prev # t[n].parent
                                /\ t[t[n].prev].parent = t[n].parent
                                /\ t[t[n].prev].comp = t[n].comp
            /\ \A m \in Context : m # n /\ t[n].prev # 0 => t[m].prev # t[n].prev}

(* An entry of con->cond_cache. *)
Unset == [result |-> "unset", local |-> "unset", captured |-> FALSE]

(* config_cond_cache_reset() *)
config_cond_cache_reset == [n \in Context |-> Unset]

----------------------------------------------------------------------------
(* Evaluation.  tree: configuration; v: what the conditions see; valid: what is known of
   the request so far. *)

(* The comparison of one block: it leaves the captures of its pattern. *)
Compare(tree, v, n) == IF v[tree[n].comp] = tree[n].asks THEN "true" ELSE "false"

(* config_check_cond_cached() with config_check_cond_nocache(): the enclosing block is
   looked at first, then the branch before, then the block itself; a comparison that was
   made and not reset is not made again. *)
RECURSIVE config_check_cond_cached(_, _, _, _, _)
config_check_cond_cached(tree, v, valid, n, c) ==
    LET p == tree[n].parent
        q == tree[n].prev
        c1 == IF p = 0 THEN c ELSE config_check_cond_cached(tree, v, valid, p, c)
        parent == IF p = 0 THEN "true" ELSE c1[p].result
        c2 == IF q = 0 \/ parent # "true" THEN c1 ELSE config_check_cond_cached(tree, v, valid, q, c1)
        before == IF q = 0 THEN "false" ELSE c2[q].result
    IN  CASE c[n].result # "unset" -> c
          [] c[n].result = "unset" /\ parent = "unset" -> c1
          [] c[n].result = "unset" /\ parent \in {"skip", "false"} -> [c1 EXCEPT ![n].result = "skip"]
          [] c[n].result = "unset" /\ parent = "true" /\ before = "unset" -> c2
          [] c[n].result = "unset" /\ parent = "true" /\ before \in {"skip", "true"} ->
                [c2 EXCEPT ![n].result = "skip"]
          [] OTHER ->
                IF tree[n].comp \notin valid THEN c2
                ELSE IF c2[n].local # "unset" THEN [c2 EXCEPT ![n].result = c2[n].local]
                ELSE LET r == Compare(tree, v, n)
                     IN  [c2 EXCEPT ![n] = [result |-> r, local |-> r, captured |-> r = "true"]]

(* A module looks at every block in turn: its patch_connection(). *)
PatchConnection(tree, v, valid, c) ==
    FoldLeft(LAMBDA acc, n : config_check_cond_cached(tree, v, valid, n, acc), c, [n \in Context |-> n])

(* Mutant: the else branches after the block keep their results. *)
RECURSIVE ClearNode_NotNext(_, _, _)
ClearNode_NotNext(tree, n, c) ==
    IF c[n].result = "unset" THEN c
    ELSE LET children == SetToSeq({m \in Context : tree[m].parent = n /\ tree[m].prev = 0})
         IN  FoldLeft(LAMBDA acc, m : ClearNode_NotNext(tree, m, acc),
                      [c EXCEPT ![n].result = "unset", ![n].captured = FALSE], children)

(* config_cond_clear_node(): the block, the blocks in it, and the else branches after
   it, unless the block is unset: then all of them are. *)
RECURSIVE config_cond_clear_node(_, _, _)
config_cond_clear_node(tree, n, c) ==
    IF c[n].result = "unset" THEN c
    ELSE LET children == {m \in Context : tree[m].parent = n /\ tree[m].prev = 0}
             next == {m \in Context : tree[m].prev = n}
         IN  FoldLeft(LAMBDA acc, m : config_cond_clear_node(tree, m, acc),
                      [c EXCEPT ![n].result = "unset", ![n].captured = FALSE],
                      SetToSeq(children) \o SetToSeq(next))

(* config_cond_cache_reset_item() *)
config_cond_cache_reset_item(tree, item, c) ==
    FoldLeft(LAMBDA acc, n : config_cond_clear_node(tree, n, [acc EXCEPT ![n].local = "unset"]),
             c, SetToSeq({n \in Context : tree[n].comp = item}))

----------------------------------------------------------------------------
(* Reference: what a block comes to without any cache. *)
Truth(tree, v, valid) ==
    LET t[n \in Context] ==
            LET parent == IF tree[n].parent = 0 THEN "true" ELSE t[tree[n].parent]
                before == IF tree[n].prev = 0 THEN "false" ELSE t[tree[n].prev]
            IN  CASE parent = "unset" -> "unset"
                  [] parent \in {"skip", "false"} -> "skip"
                  [] parent = "true" /\ before = "unset" -> "unset"
                  [] parent = "true" /\ before \in {"skip", "true"} -> "skip"
                  [] parent = "true" /\ before = "false" ->
                        IF tree[n].comp \in valid THEN Compare(tree, v, n) ELSE "unset"
    IN  t
=============================================================================
