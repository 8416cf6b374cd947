------------------------------ MODULE SortedSet ------------------------------
(***************************************************************************)
(* The sorted set of src/src/zset.cpp: the same nodes in an AVL tree in    *)
(* the order of (score, name) and in a hash map by name.  An iteration of  *)
(* avl_fix() is an action; nothing else happens until the call returns.    *)
(* Names are naturals, whose order is that of memcmp() and the lengths; a  *)
(* node is the ZNode of its name.                                          *)
(***************************************************************************)
EXTENDS AvlTree, Sequences, SequencesExt, FiniteSets

CONSTANTS
    Scores,
    Pairs,      \* the (name, score) pairs that zadd is called with
    None,
    Limits      \* the limits that zquery is called with

Calls ==
    [fn : {"insert"}, node : Names] \cup
    [fn : {"delete", "update"}, node : Names, score : Scores, victim : Names]

ASSUME SortedSetAssumption ==
    /\ Names \subseteq Nat /\ Scores \subseteq Int
    /\ Pairs \subseteq Names \X Scores
    /\ Limits \subseteq Int
    /\ Free \notin Scores /\ None \notin Calls

VARIABLES
    tree,       \* tree[n]: ZNode::tree of the node of n, or Free
    score,      \* score[n]: ZNode::score
    root,       \* ZSet::root
    hmap,       \* ZSet::hmap: the names it has nodes for (see HashMap)
    call,       \* the running call, or None
    cur         \* the node that avl_fix() looks at, or NULL at its end

vars == <<tree, score, root, hmap, call, cur>>

Init ==
    /\ tree = [n \in Names |-> Free] /\ score = [n \in Names |-> Free]
    /\ root = NULL /\ hmap = {}
    /\ call = None /\ cur = NULL

-----------------------------------------------------------------------------

\* avl_cmp() < 0 for a node against a pair, and for two nodes.
Before(sc, n, s, m) == sc[n] < s \/ (sc[n] = s /\ n < m)
Less(sc, n, m) == Before(sc, n, sc[m], m)

zset_lookup(n) == root # NULL /\ n \in hmap

\* The node of the tree of root r under which avl_insert() puts n, which is
\* not in the tree, or NULL.
Place(t, r, n, sc) ==
    LET Child(p) == IF Less(sc, n, p) THEN t[p].left ELSE t[p].right
        under[p \in Nodes(t) \ {n}] == IF Child(p) = NULL THEN p ELSE under[Child(p)]
    IN  IF r = NULL THEN NULL ELSE under[r]

\* avl_insert() of n into the tree of root r.
Insert(t, r, n, sc) ==
    LET p == Place(t, r, n, sc)
    IN  /\ tree' = Attached([t EXCEPT ![n] = avl_init], n, p, p # NULL /\ Less(sc, n, p))
        /\ score' = sc
        /\ root' = IF r = NULL THEN n ELSE r
        /\ cur' = n
        /\ call' = [fn |-> "insert", node |-> n]

\* avl_del() of n, for the call fn, which may have a new score for it.
Delete(n, fn, s) ==
    LET v == Victim(tree, n)
    IN  /\ tree' = Detached(tree, v)
        /\ cur' = tree[v].parent
        /\ root' = IF tree[v].parent = NULL THEN OnlyChild(tree, v) ELSE root
        /\ call' = [fn |-> fn, node |-> n, score |-> s, victim |-> v]
        /\ UNCHANGED score

\* zset_insert() of a name that is not found.
Add(n, s) ==
    /\ call = None /\ ~zset_lookup(n)
    /\ hmap' = hmap \cup {n}
    /\ Insert(tree, root, n, [score EXCEPT ![n] = s])

\* zset_insert() of a name that is found: up to the end of avl_del().
zset_update(n, s) ==
    /\ call = None /\ zset_lookup(n) /\ score[n] # s
    /\ Delete(n, "update", s)
    /\ UNCHANGED hmap

zset_delete(n) ==
    /\ call = None /\ zset_lookup(n)
    /\ hmap' = hmap \ {n}
    /\ Delete(n, "delete", score[n])

\* Mutant of Climb: the loop stops at a subtree whose height is as before.
Climb_WhileTaller(t, n, top) == IF t[top].height = tree[n].height THEN NULL ELSE tree[n].parent

\* Where avl_fix() goes from node n, whose subtree has a new root.
Climb(t, n, top) == tree[n].parent

\* An iteration; avl_insert() has nothing left to do after the last one.
avl_fix ==
    /\ cur # NULL
    /\ LET f == FixedAt(tree, cur)
       IN  /\ tree' = f.tree
           /\ root' = IF tree[cur].parent = NULL THEN f.top ELSE root
           /\ cur' = Climb(f.tree, cur, f.top)
           /\ call' = IF cur' = NULL /\ call.fn = "insert" THEN None ELSE call
    /\ UNCHANGED <<score, hmap>>

\* The end of avl_del(): the tree and its root without the node of the call.
Without(n, v) == IF v = n THEN tree ELSE Replaced(tree, n, v)
RootWithout(n, v) == IF v # n /\ tree[n].parent = NULL THEN v ELSE root

\* What the calls do when avl_fix() has returned, or was not called.
Deleted ==
    /\ call # None /\ cur = NULL /\ call.fn = "delete"
    /\ tree' = [Without(call.node, call.victim) EXCEPT ![call.node] = Free]
    /\ root' = RootWithout(call.node, call.victim)
    /\ score' = [score EXCEPT ![call.node] = Free]
    /\ call' = None
    /\ UNCHANGED <<hmap, cur>>

Updated ==
    /\ call # None /\ cur = NULL /\ call.fn = "update"
    /\ Insert(Without(call.node, call.victim), RootWithout(call.node, call.victim),
              call.node, [score EXCEPT ![call.node] = call.score])
    /\ UNCHANGED hmap

Allocated == Nodes(tree)
Linked == Allocated \cup {NULL}

\* The nodes of the subtree of n, those that tree_dispose() visits.
Subtree(n) ==
    LET sub[m \in Linked] ==
          IF m = NULL THEN {} ELSE {m} \cup sub[tree[m].left] \cup sub[tree[m].right]
    IN  sub[n]

\* Mutant of zset_clear: the root is left behind.
zset_clear_KeepsRoot ==
    /\ call = None
    /\ tree' = [n \in Names |-> IF n \in Subtree(root) THEN Free ELSE tree[n]]
    /\ score' = [n \in Names |-> IF n \in Subtree(root) THEN Free ELSE score[n]]
    /\ hmap' = {}
    /\ UNCHANGED <<root, call, cur>>

zset_clear ==
    /\ call = None
    /\ tree' = [n \in Names |-> IF n \in Subtree(root) THEN Free ELSE tree[n]]
    /\ score' = [n \in Names |-> IF n \in Subtree(root) THEN Free ELSE score[n]]
    /\ root' = NULL /\ hmap' = {}
    /\ UNCHANGED <<call, cur>>

Next ==
    \/ \E p \in Pairs : Add(p[1], p[2]) \/ zset_update(p[1], p[2])
    \/ \E n \in Names : zset_delete(n)
    \/ avl_fix \/ Deleted \/ Updated
    \/ zset_clear

Spec == Init /\ [][Next]_vars

-----------------------------------------------------------------------------
(* Queries.                                                                *)

zset_seek_ge(s, name) ==
    LET seek[m \in Linked] == [found \in Linked |->
          IF m = NULL THEN found
          ELSE IF Before(score, m, s, name) THEN seek[tree[m].right][found]
          ELSE seek[tree[m].left][m]]
    IN  seek[root][NULL]

znode_offset(n, offset) == IF n = NULL THEN NULL ELSE avl_offset(tree, n, offset)

\* exec_zquery(): the nodes whose names and scores are sent, a pair counting
\* as two items of the limit, of which `left` are left.
exec_zquery(s, name, offset, limit) ==
    LET list[left \in Nat] == [m \in Linked |->
          IF m = NULL \/ left = 0 THEN <<>>
          ELSE <<m>> \o list[IF left = 1 THEN 0 ELSE left - 2][znode_offset(m, 1)]]
    IN  IF limit <= 0 THEN <<>>
        ELSE list[limit][znode_offset(zset_seek_ge(s, name), offset)]

-----------------------------------------------------------------------------
(* Properties.                                                             *)

TypeOK ==
    /\ \A n \in Names : tree[n] = Free \/ tree[n] \in AVLNodes
    /\ \A n \in Names : tree[n] = Free <=> score[n] = Free
    /\ root \in Pointers /\ hmap \subseteq Names /\ cur \in Pointers
    /\ call \in Calls \cup {None}
    /\ root # NULL => tree[root] # Free

InOrder ==
    LET list[m \in Linked] ==
          IF m = NULL THEN <<>> ELSE list[tree[m].left] \o <<m>> \o list[tree[m].right]
    IN  list[root]

\* Between calls tree and hash map hold the same nodes, those that are
\* allocated; the tree has them in order, and parents and children agree.
IndexesAgree == call = None =>
    /\ Allocated = hmap
    /\ Range(InOrder) = hmap
    /\ \A i \in 1 .. Len(InOrder) - 1 : Less(score, InOrder[i], InOrder[i + 1])
    /\ root # NULL => tree[root].parent = NULL
    /\ \A n \in hmap : \A c \in {tree[n].left, tree[n].right} \ {NULL} : tree[c].parent = n

\* Between calls the cached heights and counts are right, and the heights of
\* siblings differ by one at most.
Balanced == call = None =>
    \A n \in hmap :
        LET l == avl_height(tree, tree[n].left)
            r == avl_height(tree, tree[n].right)
        IN  /\ l <= r + 1 /\ r <= l + 1
            /\ tree[n].height = 1 + max(l, r)
            /\ tree[n].cnt = 1 + avl_cnt(tree, tree[n].left) + avl_cnt(tree, tree[n].right)

\* Position i of a sequence, or NULL.
At(q, i) == IF i \in DOMAIN q THEN q[i] ELSE NULL

\* The answer of zquery on the sorted sequence q of pairs: nothing if no pair
\* is at or after the given one, else limit / 2 pairs, rounded up, from
\* `offset` places after the first of these on.
Answer(q, s, name, offset, limit) ==
    LET from == {i \in DOMAIN q : ~Before(score, q[i], s, name)}
        first == Len(q) - Cardinality(from) + 1 + offset
        pairs == (limit + 1) \div 2
    IN  IF from = {} \/ first < 1 \/ limit <= 0 THEN <<>>
        ELSE SubSeq(q, first, IF first + pairs - 1 < Len(q) THEN first + pairs - 1 ELSE Len(q))

\* zrank, znode_offset and zquery answer from the tree what the sorted
\* sequence of pairs says, from every node to every other and past both ends.
QueriesAgree == call = None =>
    LET q == InOrder
    IN  /\ \A i \in DOMAIN q : avl_rank(tree, q[i]) = i - 1
        /\ \A i \in DOMAIN q, j \in 0 .. Len(q) + 1 : znode_offset(q[i], j - i) = At(q, j)
        /\ \A p \in Pairs, k \in {-1, 1}, limit \in Limits :
              exec_zquery(p[2], p[1], k, limit) = Answer(q, p[2], p[1], k, limit)
=============================================================================
