------------------------------- MODULE AvlTree -------------------------------
(***************************************************************************)
(* The intrusive AVL tree of src/src/avl.cpp as operators on the memory t  *)
(* of its nodes: t[n] is the AVLNode at n.  An operator returns t as the   *)
(* function of that name leaves it, or the node that the function returns. *)
(***************************************************************************)
EXTENDS Integers

CONSTANTS
    Names,      \* the nodes
    NULL,
    Free        \* memory that is not allocated

ASSUME TreeAssumption == NULL \notin Names

Pointers == Names \cup {NULL}

AVLNodes == [parent : Pointers, left : Pointers, right : Pointers, height : Nat, cnt : Nat]

ASSUME FreeAssumption == Free \notin AVLNodes

Nodes(t) == {n \in Names : t[n] # Free}

avl_init == [parent |-> NULL, left |-> NULL, right |-> NULL, height |-> 1, cnt |-> 1]

avl_height(t, n) == IF n = NULL THEN 0 ELSE t[n].height
avl_cnt(t, n) == IF n = NULL THEN 0 ELSE t[n].cnt

max(a, b) == IF a < b THEN b ELSE a

avl_update(t, n) ==
    [t EXCEPT ![n].height = 1 + max(avl_height(t, t[n].left), avl_height(t, t[n].right)),
              ![n].cnt = 1 + avl_cnt(t, t[n].left) + avl_cnt(t, t[n].right)]

\* n, if there is one, is told its parent.
WithParent(t, n, p) == IF n = NULL THEN t ELSE [t EXCEPT ![n].parent = p]

\* *from = m, `from` being the pointer of p to its child n.
WithChild(t, p, n, m) ==
    IF t[p].left = n THEN [t EXCEPT ![p].left = m] ELSE [t EXCEPT ![p].right = m]

-----------------------------------------------------------------------------
(* Rotations.  The new root of the subtree is the new parent of n; the     *)
(* pointer to it is the caller's to set.                                   *)

rot_left(t, n) ==
    LET r == t[n].right
        c == t[r].left
        u == WithParent([t EXCEPT ![n].right = c], c, n)
        v == [u EXCEPT ![r].parent = t[n].parent, ![r].left = n, ![n].parent = r]
    IN  avl_update(avl_update(v, n), r)

rot_right(t, n) ==
    LET l == t[n].left
        c == t[l].right
        u == WithParent([t EXCEPT ![n].left = c], c, n)
        v == [u EXCEPT ![l].parent = t[n].parent, ![l].right = n, ![n].parent = l]
    IN  avl_update(avl_update(v, n), l)

\* Mutant of avl_fix_left: one rotation, whichever grandchild is the taller.
avl_fix_left_Single(t, n) == rot_right(t, n)

avl_fix_left(t, n) ==
    LET l == t[n].left
        bent == avl_height(t, t[l].left) < avl_height(t, t[l].right)
    IN  rot_right(IF bent THEN [rot_left(t, l) EXCEPT ![n].left = t[l].right] ELSE t, n)

avl_fix_right(t, n) ==
    LET r == t[n].right
        bent == avl_height(t, t[r].right) < avl_height(t, t[r].left)
    IN  rot_left(IF bent THEN [rot_right(t, r) EXCEPT ![n].right = t[r].left] ELSE t, n)

\* An iteration of avl_fix() at n: the tree, and the root of the subtree.
FixedAt(t, n) ==
    LET u == avl_update(t, n)
        p == u[n].parent
        l == avl_height(u, u[n].left)
        r == avl_height(u, u[n].right)
        v == IF l = r + 2 THEN avl_fix_left(u, n)
             ELSE IF r = l + 2 THEN avl_fix_right(u, n)
             ELSE u
        top == IF v = u THEN n ELSE v[n].parent
    IN  [tree |-> IF p = NULL THEN v ELSE WithChild(v, p, n, top), top |-> top]

-----------------------------------------------------------------------------
(* Deletion and insertion, but for the rebalancing.                        *)

\* The node that avl_del() detaches from the tree: n, or its successor.
Victim(t, n) ==
    LET leftmost[m \in Nodes(t)] == IF t[m].left = NULL THEN m ELSE leftmost[t[m].left]
    IN  IF t[n].left = NULL \/ t[n].right = NULL THEN n ELSE leftmost[t[n].right]

\* The only child of a node that is easy to delete, or NULL.
OnlyChild(t, n) == IF t[n].left # NULL THEN t[n].left ELSE t[n].right

\* avl_del_easy(), before the rebalancing.
Detached(t, n) ==
    LET c == OnlyChild(t, n)
        p == t[n].parent
        u == WithParent(t, c, p)
    IN  IF p = NULL THEN u ELSE WithChild(u, p, n, c)

\* Mutant of Replaced: the children are not told.
Replaced_Silently(t, n, s) ==
    LET v == [t EXCEPT ![s] = t[n]]
    IN  IF t[n].parent = NULL THEN v ELSE WithChild(v, t[n].parent, n, s)

\* The detached successor s takes the place of n.
Replaced(t, n, s) ==
    LET u == [t EXCEPT ![s] = t[n]]
        v == WithParent(WithParent(u, t[n].left, s), t[n].right, s)
    IN  IF t[n].parent = NULL THEN v ELSE WithChild(v, t[n].parent, n, s)

\* The new node n becomes a child of p, or the root: *from = node.
Attached(t, n, p, isLess) ==
    IF p = NULL THEN t
    ELSE IF isLess THEN [t EXCEPT ![p].left = n, ![n].parent = p]
    ELSE [t EXCEPT ![p].right = n, ![n].parent = p]

-----------------------------------------------------------------------------
(* Queries.                                                                *)

\* Mutant of avl_offset: the last node of a right subtree is looked for above.
avl_offset_NotTheLast(t, n, offset) ==
    LET find[m \in Nodes(t)] == [diff \in Int |->
          LET l == t[m].left
              r == t[m].right
              p == t[m].parent
          IN  IF diff = offset THEN m
              ELSE IF diff < offset /\ diff + avl_cnt(t, r) > offset
              THEN find[r][diff + avl_cnt(t, t[r].left) + 1]
              ELSE IF diff > offset /\ diff - avl_cnt(t, l) <= offset
              THEN find[l][diff - avl_cnt(t, t[l].right) - 1]
              ELSE IF p = NULL THEN NULL
              ELSE IF t[p].right = m THEN find[p][diff - avl_cnt(t, l) - 1]
              ELSE find[p][diff + avl_cnt(t, r) + 1]]
    IN  find[n][0]

\* From node m, diff places after n, to the one at offset, or NULL.
avl_offset(t, n, offset) ==
    LET find[m \in Nodes(t)] == [diff \in Int |->
          LET l == t[m].left
              r == t[m].right
              p == t[m].parent
          IN  IF diff = offset THEN m
              ELSE IF diff < offset /\ diff + avl_cnt(t, r) >= offset
              THEN find[r][diff + avl_cnt(t, t[r].left) + 1]
              ELSE IF diff > offset /\ diff - avl_cnt(t, l) <= offset
              THEN find[l][diff - avl_cnt(t, t[l].right) - 1]
              ELSE IF p = NULL THEN NULL
              ELSE IF t[p].right = m THEN find[p][diff - avl_cnt(t, l) - 1]
              ELSE find[p][diff + avl_cnt(t, r) + 1]]
    IN  find[n][0]

avl_rank(t, n) ==
    LET above[m \in Nodes(t)] ==
          LET p == t[m].parent
          IN  IF p = NULL THEN 0
              ELSE above[p] + (IF t[p].right = m THEN avl_cnt(t, t[p].left) + 1 ELSE 0)
    IN  avl_cnt(t, t[n].left) + above[n]
=============================================================================
