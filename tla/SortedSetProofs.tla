-------------------------- MODULE SortedSetProofs --------------------------
(* Proofs about SortedSet, for any names, scores, pairs and limits: the AVL  *)
(* tree of avl.cpp stays a search tree, settles from the bottom up and       *)
(* answers the queries of zset.cpp.                                          *)
EXTENDS SortedSet, FunctionTheorems, FiniteSetTheorems, WellFoundedInduction, TLAPS

-----------------------------------------------------------------------------
(* Search trees, whatever their memory: children, parents and subtrees.    *)

\* lc, rc and pa give the children and the parent of every node of L, and sub
\* the nodes of its subtree, in the tree of root r.
Tree(lc, rc, pa, r, L, sub) ==
    /\ NULL \notin L /\ r \in L \cup {NULL}
    /\ lc \in [L -> L \cup {NULL}] /\ rc \in [L -> L \cup {NULL}] /\ pa \in [L -> L \cup {NULL}]
    /\ \A n \in L : pa[n] = NULL <=> n = r
    /\ \A n \in L : pa[n] # NULL => lc[pa[n]] = n \/ rc[pa[n]] = n
    /\ \A n \in L : lc[n] # NULL => pa[lc[n]] = n
    /\ \A n \in L : rc[n] # NULL => pa[rc[n]] = n
    /\ sub \in [L \cup {NULL} -> SUBSET L]
    /\ sub[NULL] = {} /\ sub[r] = L
    /\ \A n \in L : sub[n] = {n} \cup sub[lc[n]] \cup sub[rc[n]]

\* lt is a strict total order of L.
Order(lt, L) ==
    /\ \A a, b, c \in L : <<a, b>> \in lt /\ <<b, c>> \in lt => <<a, c>> \in lt
    /\ \A a \in L : <<a, a>> \notin lt
    /\ \A a, b \in L : a = b \/ <<a, b>> \in lt \/ <<b, a>> \in lt

Sorted(lc, rc, L, sub, lt) ==
    /\ \A n \in L : \A m \in sub[lc[n]] : <<m, n>> \in lt
    /\ \A n \in L : \A m \in sub[rc[n]] : <<n, m>> \in lt

SearchTree(lc, rc, pa, r, L, sub, lt) ==
    Tree(lc, rc, pa, r, L, sub) /\ Order(lt, L) /\ Sorted(lc, rc, L, sub, lt)

\* What is on the other side in a mirror.
Mirror(lt) == {<<x[2], x[1]>> : x \in lt}

\* The mirror turns every pair of the order around.
LEMMA MirrorIs ==
    ASSUME NEW lt \in SUBSET (Names \X Names), NEW a, NEW b
    PROVE  <<a, b>> \in Mirror(lt) <=> <<b, a>> \in lt
BY DEF Mirror

\* The mirror image of a search tree is one, in the mirrored order: what is
\* proved of one side holds of the other.
LEMMA Mirrored ==
    ASSUME NEW lc, NEW rc, NEW pa, NEW r, NEW L, NEW sub, NEW lt \in SUBSET (Names \X Names),
           SearchTree(lc, rc, pa, r, L, sub, lt)
    PROVE  SearchTree(rc, lc, pa, r, L, sub, Mirror(lt))
<1>1. Tree(rc, lc, pa, r, L, sub)
  BY DEF SearchTree, Tree
<1>2. Order(Mirror(lt), L)
  BY MirrorIs DEF SearchTree, Order
<1>3. Sorted(rc, lc, L, sub, Mirror(lt))
  BY MirrorIs DEF SearchTree, Tree, Sorted
<1> QED BY <1>1, <1>2, <1>3 DEF SearchTree

\* A node is not in its own branches, its branches have no node in common,
\* and its parent is outside its subtree.
LEMMA Branches ==
    ASSUME NEW lc, NEW rc, NEW pa, NEW r, NEW L, NEW sub, NEW lt,
           SearchTree(lc, rc, pa, r, L, sub, lt), NEW n \in L
    PROVE  /\ n \notin sub[lc[n]] /\ n \notin sub[rc[n]]
           /\ sub[lc[n]] \cap sub[rc[n]] = {}
           /\ lc[n] # NULL => lc[n] \in sub[lc[n]] /\ lc[n] # n /\ lc[n] # rc[n]
           /\ rc[n] # NULL => rc[n] \in sub[rc[n]] /\ rc[n] # n
           /\ pa[n] # NULL => /\ pa[n] \in L /\ pa[n] \notin sub[n]
                              /\ lc[pa[n]] = n => rc[pa[n]] # n
<1> USE DEF SearchTree, Tree, Order, Sorted
<1>1. \A k \in L : k \notin sub[lc[k]] /\ k \notin sub[rc[k]]
  OBVIOUS
<1>2. \A k \in L : sub[lc[k]] \cap sub[rc[k]] = {}
  <2> SUFFICES ASSUME NEW k \in L, NEW m \in sub[lc[k]], m \in sub[rc[k]] PROVE FALSE
    OBVIOUS
  <2>1. m \in L /\ <<m, k>> \in lt /\ <<k, m>> \in lt
    OBVIOUS
  <2> QED BY <2>1
<1>3. \A k \in L : k \in sub[k]
  OBVIOUS
<1>4. \A k \in L : /\ lc[k] # NULL => lc[k] \in sub[lc[k]] /\ lc[k] # k /\ lc[k] # rc[k]
                   /\ rc[k] # NULL => rc[k] \in sub[rc[k]] /\ rc[k] # k
  BY <1>1, <1>2, <1>3
<1>5. ASSUME pa[n] # NULL
      PROVE  /\ pa[n] \in L /\ pa[n] \notin sub[n]
             /\ lc[pa[n]] = n => rc[pa[n]] # n
  BY <1>1, <1>4, <1>5
<1> QED BY <1>1, <1>2, <1>4, <1>5

\* The left child l of n takes the place of n, and n that of its right child.
Turned(lc, rc, pa, L, n, lc2, rc2, pa2) ==
    LET l == lc[n]
    IN  /\ lc2 = [m \in L |-> IF m = n THEN rc[l] ELSE IF lc[m] = n THEN l ELSE lc[m]]
        /\ rc2 = [m \in L |-> IF m = l THEN n ELSE IF rc[m] = n THEN l ELSE rc[m]]
        /\ pa2 = [m \in L |-> IF m = n THEN l ELSE IF m = l THEN pa[n]
                               ELSE IF m = rc[l] THEN n ELSE pa[m]]

\* A rotation keeps the tree a search tree; the subtrees change at n and l.
LEMMA TurnKeepsTree ==
    ASSUME NEW lc, NEW rc, NEW pa, NEW r, NEW L, NEW sub, NEW lt,
           SearchTree(lc, rc, pa, r, L, sub, lt), NEW n \in L, lc[n] # NULL,
           NEW lc2, NEW rc2, NEW pa2, Turned(lc, rc, pa, L, n, lc2, rc2, pa2)
    PROVE  \E sub2 : /\ SearchTree(lc2, rc2, pa2, IF pa[n] = NULL THEN lc[n] ELSE r, L, sub2, lt)
                     /\ \A m \in L \ {n, lc[n]} : sub2[m] = sub[m]
                     /\ sub2[lc[n]] = sub[n]
<1> DEFINE l == lc[n]
           c == rc[l]
           p == pa[n]
           r2 == IF p = NULL THEN l ELSE r
           low == {n} \cup sub[c] \cup sub[rc[n]]
           sub2 == [m \in L \cup {NULL} |-> IF m = n THEN low ELSE IF m = l THEN sub[n] ELSE sub[m]]
<1>0. /\ l \in L /\ l # NULL /\ l # n /\ c \in L \cup {NULL} /\ p \in L \cup {NULL} /\ n # NULL
      /\ NULL \notin L
  <2>1. /\ l \in L /\ p \in L \cup {NULL} /\ n # NULL /\ NULL \notin L
    BY DEF SearchTree, Tree
  <2>2. c \in L \cup {NULL}
    BY <2>1 DEF SearchTree, Tree
  <2>3. l # n
    BY Branches
  <2> QED BY <2>1, <2>2, <2>3
<1>a. /\ pa[l] = n
      /\ sub[n] = {n} \cup sub[l] \cup sub[rc[n]]
      /\ sub[l] = {l} \cup sub[lc[l]] \cup sub[c]
  BY <1>0 DEF SearchTree, Tree
<1>1. /\ c # n /\ c # l /\ (c # NULL => c # lc[l] /\ c # rc[n])
      /\ l # rc[n]
      /\ n \notin sub[l] /\ n \notin sub[c] /\ n \notin sub[rc[n]]
      /\ p # n /\ p # l /\ (p # NULL => p # c)
  <2>1. n \notin sub[l] /\ n \notin sub[rc[n]] /\ sub[l] \cap sub[rc[n]] = {} /\ l # rc[n]
    BY Branches, <1>0
  <2>2. c # NULL => c \in sub[c] /\ c # l /\ c # lc[l]
    BY Branches, <1>0
  <2>3. p # NULL => p \notin sub[n]
    BY Branches
  <2>4. c # NULL => c \in sub[l] /\ c # n
    BY <2>1, <2>2, <1>a
  <2>5. rc[n] # NULL => rc[n] \in sub[rc[n]]
    BY Branches
  <2> QED BY <2>1, <2>2, <2>3, <2>4, <2>5, <1>0, <1>a
<1>2. \A m \in L : lc[m] = n \/ rc[m] = n => m = p
  BY <1>0 DEF SearchTree, Tree
<1>3. \A m \in L : lc[m] = l \/ rc[m] = l => m = n
  BY <1>0, <1>a DEF SearchTree, Tree
<1>4. /\ lc2 \in [L -> L \cup {NULL}] /\ rc2 \in [L -> L \cup {NULL}] /\ pa2 \in [L -> L \cup {NULL}]
      /\ lc2[n] = c /\ rc2[n] = rc[n] /\ pa2[n] = l
      /\ lc2[l] = lc[l] /\ rc2[l] = n /\ pa2[l] = p
      /\ \A m \in L \ {n, l} : /\ lc2[m] = IF lc[m] = n THEN l ELSE lc[m]
                               /\ rc2[m] = IF rc[m] = n THEN l ELSE rc[m]
                               /\ pa2[m] = IF m = c THEN n ELSE pa[m]
  BY <1>0, <1>1, <1>2 DEF SearchTree, Tree, Turned
<1>5. /\ sub2 \in [L \cup {NULL} -> SUBSET L]
      /\ sub2[n] = low /\ sub2[l] = sub[n]
      /\ \A m \in L \cup {NULL} : m # n /\ m # l => sub2[m] = sub[m]
  BY <1>0 DEF SearchTree, Tree
<1> HIDE DEF sub2
<1>6. \A m \in L \ {n, l} : sub2[lc2[m]] = sub[lc[m]] /\ sub2[rc2[m]] = sub[rc[m]]
  <2> TAKE m \in L \ {n, l}
  <2>1. lc[m] \in L \cup {NULL} /\ rc[m] \in L \cup {NULL} /\ lc[m] # l /\ rc[m] # l
    BY <1>3 DEF SearchTree, Tree
  <2> QED BY <2>1, <1>4, <1>5
<1>7. sub2[c] = sub[c] /\ sub2[rc[n]] = sub[rc[n]] /\ sub2[lc[l]] = sub[lc[l]]
  <2>0. (rc[n] # NULL => rc[n] # n) /\ (lc[l] # NULL => lc[l] # l)
    BY Branches, <1>0
  <2>1. rc[n] # n /\ rc[n] \in L \cup {NULL} /\ lc[l] \in L \cup {NULL} /\ lc[l] # l
    BY <2>0, <1>0 DEF SearchTree, Tree
  <2>2. lc[l] # n
    BY <1>1, <1>2, <1>0
  <2> QED BY <1>5, <1>0, <1>1, <2>1, <2>2
<1>8. \A m \in L : sub2[m] = {m} \cup sub2[lc2[m]] \cup sub2[rc2[m]]
  <2> SUFFICES ASSUME NEW m \in L PROVE sub2[m] = {m} \cup sub2[lc2[m]] \cup sub2[rc2[m]]
    OBVIOUS
  <2>1. CASE m = n
    BY <2>1, <1>4, <1>5, <1>7
  <2>2. CASE m = l
    BY <2>2, <1>4, <1>5, <1>7, <1>a
  <2>3. CASE m # n /\ m # l
    BY <2>3, <1>5, <1>6 DEF SearchTree, Tree
  <2> QED BY <2>1, <2>2, <2>3
<1>9. \A m \in L : pa2[m] = NULL <=> m = r2
  <2>1. \A m \in L : pa[m] = NULL <=> m = r
    BY DEF SearchTree, Tree
  <2>2. c # NULL => pa[c] = l
    BY <1>0 DEF SearchTree, Tree
  <2> QED BY <2>1, <2>2, <1>0, <1>1, <1>4, <1>a
<1>10. \A m \in L : pa2[m] # NULL => lc2[pa2[m]] = m \/ rc2[pa2[m]] = m
  <2> SUFFICES ASSUME NEW m \in L, pa2[m] # NULL PROVE lc2[pa2[m]] = m \/ rc2[pa2[m]] = m
    OBVIOUS
  <2>1. CASE m = n
    BY <2>1, <1>4
  <2>2. CASE m = c
    BY <2>2, <1>4, <1>0, <1>1
  <2>3. CASE m = l
    BY <2>3, <1>4, <1>0, <1>1 DEF SearchTree, Tree
  <2>4. CASE m # n /\ m # c /\ m # l
    <3>1. pa2[m] = pa[m] /\ pa[m] \in L /\ (lc[pa[m]] = m \/ rc[pa[m]] = m)
      BY <2>4, <1>4 DEF SearchTree, Tree
    <3>2. CASE pa[m] = n
      BY <3>1, <3>2, <2>4, <1>4
    <3>3. CASE pa[m] = l
      BY <3>1, <3>3, <2>4, <1>4
    <3>4. CASE pa[m] # n /\ pa[m] # l
      BY <3>1, <3>4, <2>4, <1>4
    <3> QED BY <3>2, <3>3, <3>4
  <2> QED BY <2>1, <2>2, <2>3, <2>4
<1>11. \A m \in L : /\ lc2[m] # NULL => pa2[lc2[m]] = m
                    /\ rc2[m] # NULL => pa2[rc2[m]] = m
  <2> SUFFICES ASSUME NEW m \in L
               PROVE  /\ lc2[m] # NULL => pa2[lc2[m]] = m
                      /\ rc2[m] # NULL => pa2[rc2[m]] = m
    OBVIOUS
  <2>0. /\ lc[m] \in L \cup {NULL} /\ rc[m] \in L \cup {NULL}
        /\ lc[m] # NULL => pa[lc[m]] = m
        /\ rc[m] # NULL => pa[rc[m]] = m
        /\ lc[n] # NULL => pa[lc[n]] = n
        /\ rc[n] # NULL => pa[rc[n]] = n
        /\ lc[l] # NULL => pa[lc[l]] = l
        /\ c # NULL => pa[c] = l
        /\ rc[n] \in L \cup {NULL} /\ lc[l] \in L \cup {NULL}
    BY <1>0 DEF SearchTree, Tree
  <2>1. CASE m = n
    BY <2>1, <2>0, <1>4, <1>0, <1>1
  <2>2. CASE m = l
    BY <2>2, <2>0, <1>4, <1>0, <1>1
  <2>3. CASE m # n /\ m # l
    BY <2>3, <2>0, <1>4, <1>0, <1>1, <1>2
  <2> QED BY <2>1, <2>2, <2>3
<1>12. sub2[NULL] = {} /\ sub2[r2] = L /\ r2 \in L \cup {NULL}
  <2>1. sub[NULL] = {} /\ sub[r] = L /\ (p = NULL <=> n = r) /\ r \in L
    BY <1>0 DEF SearchTree, Tree
  <2>2. p # NULL => r # l
    BY <1>a, <1>0 DEF SearchTree, Tree
  <2> QED BY <2>1, <2>2, <1>0, <1>5
<1>13. Tree(lc2, rc2, pa2, r2, L, sub2)
  BY <1>0, <1>4, <1>5, <1>8, <1>9, <1>10, <1>11, <1>12 DEF Tree
<1>14. Sorted(lc2, rc2, L, sub2, lt)
  <2> SUFFICES ASSUME NEW m \in L
               PROVE  /\ \A k \in sub2[lc2[m]] : <<k, m>> \in lt
                      /\ \A k \in sub2[rc2[m]] : <<m, k>> \in lt
    BY DEF Sorted
  <2>0. /\ \A k \in sub[lc[m]] : <<k, m>> \in lt
        /\ \A k \in sub[rc[m]] : <<m, k>> \in lt
        /\ \A k \in sub[lc[n]] : <<k, n>> \in lt
        /\ \A k \in sub[rc[n]] : <<n, k>> \in lt
        /\ \A k \in sub[lc[l]] : <<k, l>> \in lt
        /\ \A k \in sub[rc[l]] : <<l, k>> \in lt
    BY <1>0 DEF SearchTree, Sorted
  <2>1. CASE m = n
    BY <2>1, <2>0, <1>4, <1>7, <1>a
  <2>2. CASE m = l
    <3>1. \A k \in sub2[lc2[m]] : <<k, m>> \in lt
      BY <2>2, <2>0, <1>4, <1>7
    <3>2. sub2[rc2[m]] = low /\ low \subseteq L
      BY <2>2, <1>4, <1>5
    <3>3. <<l, n>> \in lt
      BY <2>0, <1>a
    <3>4. \A k \in low : <<l, k>> \in lt
      BY <3>2, <3>3, <2>0, <1>0 DEF SearchTree, Order
    <3> QED BY <3>1, <3>2, <3>4, <2>2
  <2>3. CASE m # n /\ m # l
    BY <2>3, <2>0, <1>6
  <2> QED BY <2>1, <2>2, <2>3
<1>15. SearchTree(lc2, rc2, pa2, r2, L, sub2, lt)
  BY <1>13, <1>14 DEF SearchTree
<1> QED BY <1>15, <1>5

-----------------------------------------------------------------------------
(* Heights and counts.                                                     *)

\* ht and ct give a height and a count for every node, and zeros for NULL.
Measures(ht, ct, L) ==
    /\ ht \in [L \cup {NULL} -> Nat] /\ ct \in [L \cup {NULL} -> Nat]
    /\ ht[NULL] = 0 /\ ct[NULL] = 0

\* The height and the count of n are those of its children and one more.
CountedAt(lc, rc, ht, ct, n) ==
    /\ ht[n] = 1 + max(ht[lc[n]], ht[rc[n]])
    /\ ct[n] = 1 + ct[lc[n]] + ct[rc[n]]

\* Siblings of these heights are balanced.
Level(a, b) == a <= b + 1 /\ b <= a + 1

FitsAt(lc, rc, ht, ct, n) ==
    CountedAt(lc, rc, ht, ct, n) /\ Level(ht[lc[n]], ht[rc[n]])

\* What is left of this when the height of one of the children has changed by one.
Near(h, a, b) ==
    /\ a <= b + 2 /\ b <= a + 2
    /\ a = b + 2 => h \in {b + 2, b + 3}
    /\ b = a + 2 => h \in {a + 2, a + 3}
    /\ Level(a, b) => 1 + max(a, b) \in {h - 1, h, h + 1}

\* A child whose height changes by one leaves its parent near to fitting.
LEMMA NearAfter ==
    ASSUME NEW a \in Nat, NEW b \in Nat, NEW a2 \in Nat, Level(a, b), Level(a, a2),
           NEW h \in Nat, h = 1 + max(a, b)
    PROVE  Near(h, a2, b) /\ Near(h, b, a2)
BY DEF Near, Level, max

\* The nodes n and l are given their heights and counts after a rotation.
Recounted(lc, rc, ht, ct, L, n, l, ht2, ct2) ==
    LET h == 1 + max(ht[rc[l]], ht[rc[n]])
        k == 1 + ct[rc[l]] + ct[rc[n]]
    IN  /\ ht2 = [m \in L \cup {NULL} |-> IF m = n THEN h ELSE IF m = l THEN 1 + max(ht[lc[l]], h) ELSE ht[m]]
        /\ ct2 = [m \in L \cup {NULL} |-> IF m = n THEN k ELSE IF m = l THEN 1 + ct[lc[l]] + k ELSE ct[m]]

\* The heights and counts that the nodes and their children have after it.
TurnedMeasures(lc, rc, pa, ht, ct, L, n, lc2, rc2, ht2, ct2) ==
    /\ Measures(ht2, ct2, L)
    /\ \A m \in L \cup {NULL} : m # n /\ m # lc[n] => ht2[m] = ht[m] /\ ct2[m] = ct[m]
    /\ ht2[lc2[n]] = ht[rc[lc[n]]] /\ ht2[rc2[n]] = ht[rc[n]]
    /\ ht2[lc2[lc[n]]] = ht[lc[lc[n]]] /\ rc2[lc[n]] = n
    /\ CountedAt(lc2, rc2, ht2, ct2, n) /\ CountedAt(lc2, rc2, ht2, ct2, lc[n])
    /\ \A m \in L : m # n /\ m # lc[n] /\ m # pa[n] =>
          /\ lc2[m] = lc[m] /\ rc2[m] = rc[m]
          /\ ht2[lc2[m]] = ht[lc[m]] /\ ht2[rc2[m]] = ht[rc[m]]
          /\ ct2[lc2[m]] = ct[lc[m]] /\ ct2[rc2[m]] = ct[rc[m]]
    /\ pa[n] # NULL => LET p == pa[n] IN
          /\ lc2[p] = (IF lc[p] = n THEN lc[n] ELSE lc[p])
          /\ rc2[p] = (IF rc[p] = n THEN lc[n] ELSE rc[p])
          /\ lc[p] = n => ht2[rc2[p]] = ht[rc[p]]
          /\ rc[p] = n => ht2[lc2[p]] = ht[lc[p]]

\* A rotation counts its two nodes again, and no other measure changes.
LEMMA TurnMeasures ==
    ASSUME NEW lc, NEW rc, NEW pa, NEW r, NEW L, NEW sub, NEW lt,
           SearchTree(lc, rc, pa, r, L, sub, lt), NEW n \in L, lc[n] # NULL,
           NEW lc2, NEW rc2, NEW pa2, Turned(lc, rc, pa, L, n, lc2, rc2, pa2),
           NEW ht, NEW ct, Measures(ht, ct, L), NEW ht2, NEW ct2,
           Recounted(lc, rc, ht, ct, L, n, lc[n], ht2, ct2)
    PROVE  TurnedMeasures(lc, rc, pa, ht, ct, L, n, lc2, rc2, ht2, ct2)
<1> DEFINE l == lc[n]
           c == rc[l]
           p == pa[n]
<1>0. /\ l \in L /\ l # NULL /\ l # n /\ c \in L \cup {NULL} /\ p \in L \cup {NULL} /\ n # NULL
      /\ NULL \notin L /\ lc[l] \in L \cup {NULL} /\ rc[n] \in L \cup {NULL}
  <2>1. /\ l \in L /\ p \in L \cup {NULL} /\ n # NULL /\ NULL \notin L /\ rc[n] \in L \cup {NULL}
    BY DEF SearchTree, Tree
  <2>2. c \in L \cup {NULL} /\ lc[l] \in L \cup {NULL}
    BY <2>1 DEF SearchTree, Tree
  <2>3. l # n
    BY Branches
  <2> QED BY <2>1, <2>2, <2>3
<1>1. pa[l] = n
  BY <1>0 DEF SearchTree, Tree
<1>2. p # n /\ p # l /\ l # rc[n]
  <2>1. l \in sub[l] /\ l # rc[n] /\ (p # NULL => p \notin sub[n])
    BY Branches
  <2>2. n \in sub[n] /\ l \in sub[n]
    BY <2>1, <1>0 DEF SearchTree, Tree
  <2> QED BY <2>1, <2>2, <1>0
<1>3. \A m \in L : lc[m] = n \/ rc[m] = n => m = p
  BY <1>0 DEF SearchTree, Tree
<1>4. \A m \in L : lc[m] = l \/ rc[m] = l => m = n
  BY <1>0, <1>1 DEF SearchTree, Tree
<1>5. /\ lc2[n] = c /\ rc2[n] = rc[n]
      /\ lc2[l] = lc[l] /\ rc2[l] = n
      /\ \A m \in L : m # n /\ m # l => /\ lc2[m] = IF lc[m] = n THEN l ELSE lc[m]
                                        /\ rc2[m] = IF rc[m] = n THEN l ELSE rc[m]
  BY <1>0, <1>2, <1>3 DEF Turned
<1>6. /\ c # n /\ c # l /\ rc[n] # n /\ rc[n] # l /\ lc[l] # n /\ lc[l] # l
  <2>1. (c # NULL => c # l) /\ (lc[l] # NULL => lc[l] # l) /\ (rc[n] # NULL => rc[n] # n)
    BY Branches, <1>0
  <2> QED BY <2>1, <1>0, <1>2, <1>3, <1>4
<1>7. /\ ht2 \in [L \cup {NULL} -> Nat] /\ ct2 \in [L \cup {NULL} -> Nat]
      /\ \A m \in L \cup {NULL} : m # n /\ m # l => ht2[m] = ht[m] /\ ct2[m] = ct[m]
      /\ ht2[n] = 1 + max(ht[c], ht[rc[n]]) /\ ct2[n] = 1 + ct[c] + ct[rc[n]]
      /\ ht2[l] = 1 + max(ht[lc[l]], ht2[n]) /\ ct2[l] = 1 + ct[lc[l]] + ct2[n]
  <2>1. /\ ht[c] \in Nat /\ ht[rc[n]] \in Nat /\ ct[c] \in Nat /\ ct[rc[n]] \in Nat
        /\ ht[lc[l]] \in Nat /\ ct[lc[l]] \in Nat
    BY <1>0 DEF Measures
  <2>2. /\ 1 + max(ht[c], ht[rc[n]]) \in Nat /\ 1 + ct[c] + ct[rc[n]] \in Nat
        /\ 1 + max(ht[lc[l]], 1 + max(ht[c], ht[rc[n]])) \in Nat /\ 1 + ct[lc[l]] + (1 + ct[c] + ct[rc[n]]) \in Nat
    BY <2>1 DEF max
  <2> QED BY <2>2, <1>0, Zenon DEF Measures, Recounted
<1>8. Measures(ht2, ct2, L)
  BY <1>7, <1>0 DEF Measures
<1>9. /\ ht2[c] = ht[c] /\ ht2[rc[n]] = ht[rc[n]] /\ ht2[lc[l]] = ht[lc[l]]
      /\ ct2[c] = ct[c] /\ ct2[rc[n]] = ct[rc[n]] /\ ct2[lc[l]] = ct[lc[l]]
  BY <1>7, <1>0, <1>6
<1>10. CountedAt(lc2, rc2, ht2, ct2, n) /\ CountedAt(lc2, rc2, ht2, ct2, l)
  BY <1>5, <1>7, <1>9 DEF CountedAt
<1>11. ASSUME NEW m \in L, m # n, m # l, m # p
       PROVE  /\ lc2[m] = lc[m] /\ rc2[m] = rc[m]
              /\ ht2[lc2[m]] = ht[lc[m]] /\ ht2[rc2[m]] = ht[rc[m]]
              /\ ct2[lc2[m]] = ct[lc[m]] /\ ct2[rc2[m]] = ct[rc[m]]
  <2>1. lc[m] # n /\ rc[m] # n /\ lc[m] # l /\ rc[m] # l
    BY <1>11, <1>3, <1>4
  <2>2. lc[m] \in L \cup {NULL} /\ rc[m] \in L \cup {NULL}
    BY DEF SearchTree, Tree
  <2> QED BY <1>11, <2>1, <2>2, <1>5, <1>7
<1>12. ASSUME p # NULL
       PROVE  /\ lc2[p] = (IF lc[p] = n THEN l ELSE lc[p])
              /\ rc2[p] = (IF rc[p] = n THEN l ELSE rc[p])
              /\ lc[p] = n => ht2[rc2[p]] = ht[rc[p]]
              /\ rc[p] = n => ht2[lc2[p]] = ht[lc[p]]
  <2>1. p \in L /\ lc[p] # l /\ rc[p] # l
    BY <1>12, <1>0, <1>2, <1>4
  <2>2. lc[p] \in L \cup {NULL} /\ rc[p] \in L \cup {NULL}
    BY <2>1 DEF SearchTree, Tree
  <2>3. lc[p] = n => rc[p] # n
    BY <1>12, Branches
  <2> QED BY <2>1, <2>2, <2>3, <1>2, <1>5, <1>7
<1> QED BY <1>5, <1>7, <1>8, <1>9, <1>10, <1>11, <1>12 DEF TurnedMeasures

\* The parent of n fits, were h the height of n.
Expects(lc, rc, pa, ht, n, h) ==
    pa[n] # NULL => LET p == pa[n]
                    IN  /\ lc[p] = n => Level(h, ht[rc[p]]) /\ ht[p] = 1 + max(h, ht[rc[p]])
                        /\ rc[p] = n => Level(ht[lc[p]], h) /\ ht[p] = 1 + max(ht[lc[p]], h)

\* All nodes fit, but for x and its parent, which has yet to hear of a new
\* height of x.
Unsettled(lc, rc, pa, ht, ct, L, x) ==
    /\ Measures(ht, ct, L) /\ x \in L \cup {NULL}
    /\ \A m \in L : m # x /\ (x # NULL => m # pa[x]) => FitsAt(lc, rc, ht, ct, m)
    /\ x # NULL => \E h \in Nat : Expects(lc, rc, pa, ht, x, h) /\ Near(h, ht[lc[x]], ht[rc[x]])

\* The walk goes on at the parent of a subtree that fits.
LEMMA Passed ==
    ASSUME NEW lc, NEW rc, NEW pa, NEW r, NEW L, NEW sub, NEW lt,
           SearchTree(lc, rc, pa, r, L, sub, lt), NEW p \in L \cup {NULL},
           NEW ht, NEW ct, Measures(ht, ct, L),
           \A m \in L : m # p => FitsAt(lc, rc, ht, ct, m),
           p # NULL => Near(ht[p], ht[lc[p]], ht[rc[p]])
    PROVE  Unsettled(lc, rc, pa, ht, ct, L, p)
<1>1. SUFFICES ASSUME p # NULL
               PROVE  \E h \in Nat : Expects(lc, rc, pa, ht, p, h) /\ Near(h, ht[lc[p]], ht[rc[p]])
  BY DEF Unsettled
<1>2. p \in L /\ ht[p] \in Nat
  BY <1>1 DEF Measures
<1>3. pa[p] # NULL => pa[p] \in L /\ pa[p] # p
  <2>1. p \in sub[p]
    BY <1>2 DEF SearchTree, Tree
  <2> QED BY <2>1, <1>2, Branches
<1>4. pa[p] # NULL => FitsAt(lc, rc, ht, ct, pa[p])
  BY <1>3
<1>5. Expects(lc, rc, pa, ht, p, ht[p])
  BY <1>4 DEF Expects, FitsAt, CountedAt
<1> QED BY <1>1, <1>2, <1>5

\* The three cases of an iteration at n, whose parent is p.
LEMMA FixNothing ==
    ASSUME NEW lc, NEW rc, NEW pa, NEW r, NEW L, NEW sub, NEW lt,
           SearchTree(lc, rc, pa, r, L, sub, lt), NEW n \in L,
           NEW ht, NEW ct, Unsettled(lc, rc, pa, ht, ct, L, n),
           NEW ht2, ht2 = [ht EXCEPT ![n] = 1 + max(ht[lc[n]], ht[rc[n]])],
           NEW ct2, ct2 = [ct EXCEPT ![n] = 1 + ct[lc[n]] + ct[rc[n]]],
           Level(ht[lc[n]], ht[rc[n]])
    PROVE  Unsettled(lc, rc, pa, ht2, ct2, L, pa[n])
<1>0. /\ n # NULL /\ lc[n] \in L \cup {NULL} /\ rc[n] \in L \cup {NULL} /\ pa[n] \in L \cup {NULL}
      /\ NULL \notin L
  BY DEF SearchTree, Tree
<1>1. lc[n] # n /\ rc[n] # n /\ pa[n] # n
  <2>1. n \in sub[n]
    BY DEF SearchTree, Tree
  <2>2. /\ lc[n] # NULL => lc[n] # n
        /\ rc[n] # NULL => rc[n] # n
        /\ pa[n] # NULL => pa[n] \notin sub[n]
    BY Branches
  <2> QED BY <2>1, <2>2, <1>0
<1>2. \A m \in L : lc[m] = n \/ rc[m] = n => m = pa[n]
  BY <1>0 DEF SearchTree, Tree
<1>3. ht \in [L \cup {NULL} -> Nat] /\ ct \in [L \cup {NULL} -> Nat] /\ ht[NULL] = 0 /\ ct[NULL] = 0
  BY DEF Unsettled, Measures
<1>4. 1 + max(ht[lc[n]], ht[rc[n]]) \in Nat /\ 1 + ct[lc[n]] + ct[rc[n]] \in Nat
  BY <1>0, <1>3 DEF max
<1>5. /\ Measures(ht2, ct2, L)
      /\ \A m \in L \cup {NULL} : m # n => ht2[m] = ht[m] /\ ct2[m] = ct[m]
      /\ ht2[n] = 1 + max(ht[lc[n]], ht[rc[n]]) /\ ct2[n] = 1 + ct[lc[n]] + ct[rc[n]]
  BY <1>0, <1>3, <1>4 DEF Measures
<1>6. FitsAt(lc, rc, ht2, ct2, n)
  BY <1>0, <1>1, <1>5 DEF FitsAt, CountedAt
<1>7. ASSUME NEW m \in L, m # n, m # pa[n]
      PROVE  FitsAt(lc, rc, ht2, ct2, m)
  <2>1. FitsAt(lc, rc, ht, ct, m)
    BY <1>7, <1>0 DEF Unsettled
  <2>2. lc[m] \in L \cup {NULL} /\ rc[m] \in L \cup {NULL} /\ lc[m] # n /\ rc[m] # n
    BY <1>7, <1>2 DEF SearchTree, Tree
  <2> QED BY <2>1, <2>2, <1>7, <1>5 DEF FitsAt, CountedAt
<1>8. PICK h \in Nat : Expects(lc, rc, pa, ht, n, h) /\ Near(h, ht[lc[n]], ht[rc[n]])
  BY <1>0 DEF Unsettled
<1>9. Level(h, ht2[n])
  BY <1>8, <1>5, <1>0, <1>3 DEF Near, Level, max
<1>10. ASSUME pa[n] # NULL
       PROVE  Near(ht2[pa[n]], ht2[lc[pa[n]]], ht2[rc[pa[n]]])
  <2> DEFINE p == pa[n]
  <2>1. /\ p \in L /\ lc[p] \in L \cup {NULL} /\ rc[p] \in L \cup {NULL} /\ ht2[p] = ht[p]
    BY <1>10, <1>0, <1>1, <1>5 DEF SearchTree, Tree
  <2>2. (lc[p] = n /\ rc[p] # n) \/ (rc[p] = n /\ lc[p] # n)
    <3>1. lc[p] = n => rc[p] # n
      BY <1>10, Branches
    <3>2. lc[p] = n \/ rc[p] = n
      BY <1>10 DEF SearchTree, Tree
    <3> QED BY <3>1, <3>2
  <2>3. ht2[n] \in Nat /\ ht[lc[p]] \in Nat /\ ht[rc[p]] \in Nat /\ ht[p] \in Nat
    BY <2>1, <1>3, <1>5 DEF Measures
  <2>4. CASE lc[p] = n /\ rc[p] # n
    <3>1. Level(h, ht[rc[p]]) /\ ht[p] = 1 + max(h, ht[rc[p]])
      BY <1>8, <1>10, <2>4 DEF Expects
    <3>2. Near(ht[p], ht2[n], ht[rc[p]])
      BY <3>1, <2>3, <1>9, NearAfter
    <3> QED BY <3>2, <2>1, <2>4, <1>5
  <2>5. CASE rc[p] = n /\ lc[p] # n
    <3>1. Level(ht[lc[p]], h) /\ ht[p] = 1 + max(ht[lc[p]], h)
      BY <1>8, <1>10, <2>5 DEF Expects
    <3>2. Level(h, ht[lc[p]]) /\ ht[p] = 1 + max(h, ht[lc[p]])
      BY <3>1, <2>3 DEF Level, max
    <3>3. Near(ht[p], ht[lc[p]], ht2[n])
      BY <3>2, <2>3, <1>9, NearAfter
    <3> QED BY <3>3, <2>1, <2>5, <1>5
  <2> QED BY <2>2, <2>4, <2>5
<1>11. \A m \in L : m # pa[n] => FitsAt(lc, rc, ht2, ct2, m)
  BY <1>6, <1>7
<1> QED BY <1>0, <1>5, <1>10, <1>11, Passed

\* What p finds when its child n has been replaced by one of nearly the height
\* that it expects.
LEMMA AtParent ==
    ASSUME NEW lc, NEW rc, NEW pa, NEW r, NEW L, NEW sub, NEW lt,
           SearchTree(lc, rc, pa, r, L, sub, lt), NEW n \in L, pa[n] # NULL,
           NEW ht, NEW ct, Measures(ht, ct, L),
           NEW h \in Nat, Expects(lc, rc, pa, ht, n, h), NEW top \in Nat, Level(h, top),
           NEW a, NEW b,
           lc[pa[n]] = n => a = top /\ b = ht[rc[pa[n]]],
           rc[pa[n]] = n => a = ht[lc[pa[n]]] /\ b = top
    PROVE  Near(ht[pa[n]], a, b)
<1> DEFINE p == pa[n]
<1>1. /\ p \in L /\ lc[p] \in L \cup {NULL} /\ rc[p] \in L \cup {NULL} /\ (lc[p] = n \/ rc[p] = n)
  BY DEF SearchTree, Tree
<1>2. ht[lc[p]] \in Nat /\ ht[rc[p]] \in Nat /\ ht[p] \in Nat
  BY <1>1 DEF Measures
<1>3. CASE lc[p] = n
  <2>1. Level(h, ht[rc[p]]) /\ ht[p] = 1 + max(h, ht[rc[p]])
    BY <1>3 DEF Expects
  <2>2. Near(ht[p], top, ht[rc[p]])
    BY <2>1, <1>2, NearAfter
  <2> QED BY <2>2, <1>3
<1>4. CASE rc[p] = n
  <2>1. Level(ht[lc[p]], h) /\ ht[p] = 1 + max(ht[lc[p]], h)
    BY <1>4 DEF Expects
  <2>2. Level(h, ht[lc[p]]) /\ ht[p] = 1 + max(h, ht[lc[p]])
    BY <2>1, <1>2 DEF Level, max
  <2>3. Near(ht[p], ht[lc[p]], top)
    BY <2>2, <1>2, NearAfter
  <2> QED BY <2>3, <1>4
<1> QED BY <1>1, <1>3, <1>4

\* One rotation.  The height and the count of n do not matter.
LEMMA FixTurn ==
    ASSUME NEW lc, NEW rc, NEW pa, NEW r, NEW L, NEW sub, NEW lt,
           SearchTree(lc, rc, pa, r, L, sub, lt), NEW n \in L, lc[n] # NULL,
           NEW lc2, NEW rc2, NEW pa2, Turned(lc, rc, pa, L, n, lc2, rc2, pa2),
           NEW ht, NEW ct, Unsettled(lc, rc, pa, ht, ct, L, n), NEW ht2, NEW ct2,
           Recounted(lc, rc, ht, ct, L, n, lc[n], ht2, ct2),
           ht[lc[n]] = ht[rc[n]] + 2, ht[rc[lc[n]]] <= ht[lc[lc[n]]]
    PROVE  Unsettled(lc2, rc2, pa2, ht2, ct2, L, pa[n])
<1> DEFINE l == lc[n]
           c == rc[l]
           p == pa[n]
<1>0. /\ l \in L /\ l # n /\ p \in L \cup {NULL} /\ n # NULL /\ NULL \notin L
      /\ rc[n] \in L \cup {NULL} /\ c \in L \cup {NULL} /\ lc[l] \in L \cup {NULL}
  <2>1. /\ l \in L /\ p \in L \cup {NULL} /\ n # NULL /\ NULL \notin L /\ rc[n] \in L \cup {NULL}
    BY DEF SearchTree, Tree
  <2>2. c \in L \cup {NULL} /\ lc[l] \in L \cup {NULL}
    BY <2>1 DEF SearchTree, Tree
  <2>3. l # n
    BY Branches
  <2> QED BY <2>1, <2>2, <2>3
<1>1. Measures(ht, ct, L)
  BY DEF Unsettled
<1>2. p # n /\ p # l
  <2>1. l \in sub[l] /\ (p # NULL => p \notin sub[n])
    BY Branches
  <2>2. n \in sub[n] /\ l \in sub[n]
    BY <2>1, <1>0 DEF SearchTree, Tree
  <2> QED BY <2>1, <2>2, <1>0
<1>3. /\ ht[l] \in Nat /\ ht[c] \in Nat /\ ht[lc[l]] \in Nat /\ ht[rc[n]] \in Nat
  BY <1>0, <1>1 DEF Measures
<1>4. FitsAt(lc, rc, ht, ct, l)
  BY <1>0, <1>2 DEF Unsettled
<1>a. TurnedMeasures(lc, rc, pa, ht, ct, L, n, lc2, rc2, ht2, ct2)
  BY <1>1, TurnMeasures
<1>5. /\ Measures(ht2, ct2, L)
      /\ \A m \in L \cup {NULL} : m # n /\ m # l => ht2[m] = ht[m] /\ ct2[m] = ct[m]
      /\ ht2[lc2[n]] = ht[c] /\ ht2[rc2[n]] = ht[rc[n]]
      /\ ht2[lc2[l]] = ht[lc[l]] /\ rc2[l] = n
      /\ CountedAt(lc2, rc2, ht2, ct2, n) /\ CountedAt(lc2, rc2, ht2, ct2, l)
  BY <1>a DEF TurnedMeasures
<1>6. \A m \in L : m # n /\ m # l /\ m # p => FitsAt(lc2, rc2, ht2, ct2, m)
  <2> SUFFICES ASSUME NEW m \in L, m # n, m # l, m # p PROVE FitsAt(lc2, rc2, ht2, ct2, m)
    OBVIOUS
  <2>1. FitsAt(lc, rc, ht, ct, m)
    BY <1>0 DEF Unsettled
  <2>2. /\ ht2[lc2[m]] = ht[lc[m]] /\ ht2[rc2[m]] = ht[rc[m]]
        /\ ct2[lc2[m]] = ct[lc[m]] /\ ct2[rc2[m]] = ct[rc[m]]
    BY <1>a DEF TurnedMeasures
  <2>3. ht2[m] = ht[m] /\ ct2[m] = ct[m]
    BY <1>5
  <2> QED BY <2>1, <2>2, <2>3 DEF FitsAt, CountedAt
<1>7. /\ ht[lc[l]] = ht[rc[n]] + 1 /\ ht[c] \in {ht[rc[n]], ht[rc[n]] + 1}
  BY <1>3, <1>4 DEF FitsAt, CountedAt, Level, max
<1>8. ht2[n] = 1 + ht[c] /\ FitsAt(lc2, rc2, ht2, ct2, n)
  BY <1>7, <1>5, <1>3 DEF FitsAt, CountedAt, Level, max
<1>9. ht2[l] = 1 + max(ht[lc[l]], 1 + ht[c]) /\ FitsAt(lc2, rc2, ht2, ct2, l)
  BY <1>7, <1>8, <1>5, <1>3 DEF FitsAt, CountedAt, Level, max
<1>10. ht2[l] \in {ht[rc[n]] + 2, ht[rc[n]] + 3}
  BY <1>9, <1>7, <1>3 DEF max
<1>11. PICK h \in Nat : Expects(lc, rc, pa, ht, n, h) /\ Near(h, ht[lc[n]], ht[rc[n]])
  BY <1>0 DEF Unsettled
<1>12. Level(h, ht2[l]) /\ ht2[l] \in Nat
  BY <1>11, <1>10, <1>3 DEF Near, Level
<1>13. ASSUME p # NULL
       PROVE  Near(ht2[p], ht2[lc2[p]], ht2[rc2[p]])
  <2>1. /\ lc2[p] = (IF lc[p] = n THEN l ELSE lc[p])
        /\ rc2[p] = (IF rc[p] = n THEN l ELSE rc[p])
        /\ lc[p] = n => ht2[rc2[p]] = ht[rc[p]]
        /\ rc[p] = n => ht2[lc2[p]] = ht[lc[p]]
    BY <1>13, <1>a DEF TurnedMeasures
  <2>2. Near(ht[p], ht2[lc2[p]], ht2[rc2[p]])
    <3>1. lc[p] = n => ht2[lc2[p]] = ht2[l] /\ ht2[rc2[p]] = ht[rc[p]]
      BY <2>1
    <3>2. rc[p] = n => ht2[lc2[p]] = ht[lc[p]] /\ ht2[rc2[p]] = ht2[l]
      BY <2>1
    <3> QED BY <3>1, <3>2, <1>1, <1>11, <1>12, <1>13, AtParent
  <2> QED BY <2>2, <1>5, <1>2, <1>0
<1>14. \A m \in L : m # p => FitsAt(lc2, rc2, ht2, ct2, m)
  BY <1>6, <1>8, <1>9
<1>15. PICK sub2 : SearchTree(lc2, rc2, pa2, IF p = NULL THEN l ELSE r, L, sub2, lt)
  BY TurnKeepsTree
<1> QED BY <1>0, <1>5, <1>13, <1>14, <1>15, Passed

\* A mirror of a mirror is the original.
LEMMA MirrorTwice ==
    ASSUME NEW lt \in SUBSET (Names \X Names)
    PROVE  Mirror(lt) \in SUBSET (Names \X Names) /\ Mirror(Mirror(lt)) = lt
<1>1. Mirror(lt) \in SUBSET (Names \X Names)
  BY DEF Mirror
<1>2. \A a, b : <<a, b>> \in Mirror(Mirror(lt)) <=> <<a, b>> \in lt
  BY <1>1, MirrorIs
<1>3. Mirror(Mirror(lt)) \in SUBSET (Names \X Names)
  BY <1>1 DEF Mirror
<1>4. ASSUME NEW x \in Names \X Names PROVE x \in Mirror(Mirror(lt)) <=> x \in lt
  BY <1>2
<1>5. Mirror(Mirror(lt)) = lt
  BY <1>3, <1>4
<1> QED BY <1>1, <1>5

\* Two rotations, the first of them a turn to the left at the left child of n,
\* in the place of which comes its right child g.
TurnedTwice(lc, rc, pa, ht, ct, L, n, g, lc1, rc1, pa1, ht1, ct1, lc2, rc2, pa2, ht2, ct2) ==
    /\ lc[n] # NULL /\ g = rc[lc[n]] /\ g # NULL
    /\ Turned(rc, lc, pa, L, lc[n], rc1, lc1, pa1)
    /\ Turned(lc1, rc1, pa1, L, n, lc2, rc2, pa2)
    /\ Recounted(rc, lc, ht, ct, L, lc[n], g, ht1, ct1)
    /\ Recounted(lc1, rc1, ht1, ct1, L, n, g, ht2, ct2)
    /\ ht[lc[n]] = ht[rc[n]] + 2 /\ ht[lc[lc[n]]] < ht[g]

\* The double rotation, for a child that is taller on the inside, settles the
\* subtree and leaves at most the parent to look at.
LEMMA FixBentTurn ==
    ASSUME NEW lc, NEW rc, NEW pa, NEW r, NEW L, NEW sub, NEW lt \in SUBSET (Names \X Names),
           SearchTree(lc, rc, pa, r, L, sub, lt), NEW n \in L, NEW g,
           NEW lc1, NEW rc1, NEW pa1, NEW ht1, NEW ct1,
           NEW lc2, NEW rc2, NEW pa2, NEW ht2, NEW ct2,
           NEW ht, NEW ct, Unsettled(lc, rc, pa, ht, ct, L, n),
           TurnedTwice(lc, rc, pa, ht, ct, L, n, g, lc1, rc1, pa1, ht1, ct1, lc2, rc2, pa2, ht2, ct2)
    PROVE  /\ Unsettled(lc2, rc2, pa2, ht2, ct2, L, pa[n])
           /\ \E sub2 : SearchTree(lc2, rc2, pa2, IF pa[n] = NULL THEN g ELSE r, L, sub2, lt)
<1> DEFINE l == lc[n]
           p == pa[n]
<1>z. /\ lc[n] # NULL /\ g = rc[l] /\ g # NULL
      /\ Turned(rc, lc, pa, L, l, rc1, lc1, pa1) /\ Turned(lc1, rc1, pa1, L, n, lc2, rc2, pa2)
      /\ Recounted(rc, lc, ht, ct, L, l, g, ht1, ct1) /\ Recounted(lc1, rc1, ht1, ct1, L, n, g, ht2, ct2)
      /\ ht[l] = ht[rc[n]] + 2 /\ ht[lc[l]] < ht[g]
  BY DEF TurnedTwice
<1> USE <1>z
<1>0. /\ l \in L /\ l # n /\ p \in L \cup {NULL} /\ n # NULL /\ l # NULL /\ NULL \notin L
      /\ rc[n] \in L \cup {NULL} /\ g \in L /\ lc[l] \in L \cup {NULL}
      /\ lc[g] \in L \cup {NULL} /\ rc[g] \in L \cup {NULL}
  <2>1. /\ l \in L /\ p \in L \cup {NULL} /\ n # NULL /\ NULL \notin L /\ rc[n] \in L \cup {NULL}
    BY DEF SearchTree, Tree
  <2>2. g \in L /\ lc[l] \in L \cup {NULL}
    BY <2>1 DEF SearchTree, Tree
  <2>3. lc[g] \in L \cup {NULL} /\ rc[g] \in L \cup {NULL}
    BY <2>2 DEF SearchTree, Tree
  <2>4. l # n
    BY Branches
  <2> QED BY <2>1, <2>2, <2>3, <2>4
<1>1. pa[l] = n /\ pa[g] = l /\ (lc[g] # NULL => pa[lc[g]] = g)
  BY <1>0 DEF SearchTree, Tree
<1>2. g # n /\ g # l /\ lc[g] # n /\ p # n /\ p # l /\ p # g /\ rc[n] # l
  <2>1. l \in sub[l] /\ (p # NULL => p \notin sub[n]) /\ n \notin sub[l] /\ rc[n] # l
    BY Branches, <1>0
  <2>2. sub[n] = {n} \cup sub[l] \cup sub[rc[n]] /\ sub[l] = {l} \cup sub[lc[l]] \cup sub[g]
    BY <1>0 DEF SearchTree, Tree
  <2>3. g \in sub[g] /\ g # l
    BY Branches, <1>0
  <2>4. lc[g] # NULL => lc[g] \in sub[g]
    <3>1. lc[g] # NULL => lc[g] \in sub[lc[g]]
      BY Branches, <1>0
    <3> QED BY <3>1, <1>0 DEF SearchTree, Tree
  <2> QED BY <2>1, <2>2, <2>3, <2>4, <1>0
<1>3. Measures(ht, ct, L)
  BY DEF Unsettled
<1>4. SearchTree(rc, lc, pa, r, L, sub, Mirror(lt))
  BY Mirrored
<1>5. TurnedMeasures(rc, lc, pa, ht, ct, L, l, rc1, lc1, ht1, ct1)
  BY <1>0, <1>3, <1>4, TurnMeasures
<1>6. PICK sub1 : SearchTree(rc1, lc1, pa1, r, L, sub1, Mirror(lt))
  <2>1. PICK sub1 : SearchTree(rc1, lc1, pa1, IF pa[l] = NULL THEN rc[l] ELSE r, L, sub1, Mirror(lt))
    BY <1>0, <1>4, TurnKeepsTree
  <2> QED BY <2>1, <1>0, <1>1
<1>7. SearchTree(lc1, rc1, pa1, r, L, sub1, lt)
  <2>1. Mirror(lt) \in SUBSET (Names \X Names) /\ Mirror(Mirror(lt)) = lt
    BY MirrorTwice
  <2> QED BY <2>1, <1>6, Mirrored
<1>8. lc1[n] = g /\ pa1[n] = p
  <2>1. lc1[n] = IF n = g THEN l ELSE IF lc[n] = l THEN g ELSE lc[n]
    BY <1>0 DEF Turned
  <2>2. pa1[n] = IF n = l THEN g ELSE IF n = g THEN pa[l] ELSE IF n = lc[g] THEN l ELSE pa[n]
    BY <1>0 DEF Turned
  <2> QED BY <2>1, <2>2, <1>0, <1>2
<1>9. TurnedMeasures(lc1, rc1, pa1, ht1, ct1, L, n, lc2, rc2, ht2, ct2)
  <2>1. Measures(ht1, ct1, L)
    BY <1>5 DEF TurnedMeasures
  <2> QED BY <2>1, <1>0, <1>7, <1>8, TurnMeasures
<1>10. PICK sub2 : SearchTree(lc2, rc2, pa2, IF p = NULL THEN g ELSE r, L, sub2, lt)
  <2>1. lc1[n] # NULL
    BY <1>8, <1>0
  <2>2. PICK sub2 : SearchTree(lc2, rc2, pa2, IF pa1[n] = NULL THEN lc1[n] ELSE r, L, sub2, lt)
    BY <2>1, <1>7, TurnKeepsTree
  <2> QED BY <2>2, <1>8
<1>11. /\ \A m \in L \cup {NULL} : m # l /\ m # g => ht1[m] = ht[m] /\ ct1[m] = ct[m]
       /\ ht1[rc1[l]] = ht[lc[g]] /\ ht1[lc1[l]] = ht[lc[l]]
       /\ ht1[rc1[g]] = ht[rc[g]] /\ lc1[g] = l
       /\ CountedAt(rc1, lc1, ht1, ct1, l)
  BY <1>5 DEF TurnedMeasures
<1>12. ht1[rc1[n]] = ht[rc[n]]
  <2>1. ht1[rc1[pa[l]]] = ht[rc[pa[l]]]
    BY <1>5, <1>1, <1>0 DEF TurnedMeasures
  <2> QED BY <2>1, <1>1
<1>13. /\ Measures(ht2, ct2, L)
       /\ \A m \in L \cup {NULL} : m # n /\ m # g => ht2[m] = ht1[m] /\ ct2[m] = ct1[m]
       /\ ht2[lc2[n]] = ht1[rc1[g]] /\ ht2[rc2[n]] = ht1[rc1[n]]
       /\ ht2[lc2[g]] = ht1[lc1[g]] /\ rc2[g] = n
       /\ CountedAt(lc2, rc2, ht2, ct2, n) /\ CountedAt(lc2, rc2, ht2, ct2, g)
  BY <1>9, <1>8 DEF TurnedMeasures
<1>14. ASSUME NEW m \in L, m # n, m # l, m # g, m # p
       PROVE  FitsAt(lc2, rc2, ht2, ct2, m)
  <2>1. FitsAt(lc, rc, ht, ct, m)
    BY <1>0, <1>14 DEF Unsettled
  <2>2. /\ ht1[lc1[m]] = ht[lc[m]] /\ ht1[rc1[m]] = ht[rc[m]]
        /\ ct1[lc1[m]] = ct[lc[m]] /\ ct1[rc1[m]] = ct[rc[m]]
    BY <1>5, <1>14, <1>1 DEF TurnedMeasures
  <2>3. /\ ht2[lc2[m]] = ht1[lc1[m]] /\ ht2[rc2[m]] = ht1[rc1[m]]
        /\ ct2[lc2[m]] = ct1[lc1[m]] /\ ct2[rc2[m]] = ct1[rc1[m]]
    BY <1>9, <1>14, <1>8 DEF TurnedMeasures
  <2>4. ht2[m] = ht[m] /\ ct2[m] = ct[m]
    BY <1>11, <1>13, <1>14
  <2> QED BY <2>1, <2>2, <2>3, <2>4 DEF FitsAt, CountedAt
<1>15. /\ ht[l] \in Nat /\ ht[g] \in Nat /\ ht[lc[l]] \in Nat /\ ht[rc[n]] \in Nat
       /\ ht[lc[g]] \in Nat /\ ht[rc[g]] \in Nat
  BY <1>0, <1>3 DEF Measures
<1>16. FitsAt(lc, rc, ht, ct, l) /\ FitsAt(lc, rc, ht, ct, g)
  BY <1>0, <1>2 DEF Unsettled
<1>17. /\ ht[lc[l]] = ht[rc[n]] /\ ht[g] = ht[rc[n]] + 1
       /\ ht[lc[g]] <= ht[rc[n]] /\ ht[rc[n]] <= ht[lc[g]] + 1
       /\ ht[rc[g]] <= ht[rc[n]] /\ ht[rc[n]] <= ht[rc[g]] + 1
  <2>1. ht[lc[l]] = ht[rc[n]] /\ ht[g] = ht[rc[n]] + 1
    BY <1>15, <1>16 DEF FitsAt, CountedAt, Level, max
  <2> QED BY <2>1, <1>15, <1>16 DEF FitsAt, CountedAt, Level, max
<1>18. FitsAt(lc2, rc2, ht2, ct2, l) /\ ht2[l] = ht[rc[n]] + 1
  <2>1. /\ ht2[lc2[l]] = ht1[lc1[l]] /\ ht2[rc2[l]] = ht1[rc1[l]]
        /\ ct2[lc2[l]] = ct1[lc1[l]] /\ ct2[rc2[l]] = ct1[rc1[l]]
        /\ ht2[l] = ht1[l] /\ ct2[l] = ct1[l]
    <3>1. l # n /\ l # lc1[n] /\ l # pa1[n]
      BY <1>0, <1>2, <1>8
    <3> QED BY <1>9, <3>1, <1>0, <1>13, <1>2 DEF TurnedMeasures
  <2>2. /\ ht1[l] = 1 + max(ht1[rc1[l]], ht1[lc1[l]]) /\ ct1[l] = 1 + ct1[rc1[l]] + ct1[lc1[l]]
    BY <1>11 DEF CountedAt
  <2>3. ht1[l] = ht[rc[n]] + 1 /\ ht1[l] = 1 + max(ht1[lc1[l]], ht1[rc1[l]])
    BY <2>2, <1>11, <1>15, <1>17 DEF max
  <2>4. ct1[rc1[l]] \in Nat /\ ct1[lc1[l]] \in Nat
    <3>1. rc1[l] \in L \cup {NULL} /\ lc1[l] \in L \cup {NULL}
      BY <1>7, <1>0 DEF SearchTree, Tree
    <3> QED BY <3>1, <1>5 DEF TurnedMeasures, Measures
  <2>5. ct1[l] = 1 + ct1[lc1[l]] + ct1[rc1[l]]
    BY <2>2, <2>4
  <2>6. Level(ht1[lc1[l]], ht1[rc1[l]])
    BY <1>11, <1>15, <1>17 DEF Level
  <2> QED BY <2>1, <2>3, <2>5, <2>6 DEF FitsAt, CountedAt
<1>19. FitsAt(lc2, rc2, ht2, ct2, n) /\ ht2[n] = ht[rc[n]] + 1
  BY <1>13, <1>11, <1>12, <1>15, <1>17 DEF FitsAt, CountedAt, Level, max
<1>20. FitsAt(lc2, rc2, ht2, ct2, g) /\ ht2[g] = ht[rc[n]] + 2
  <2>1. ht2[lc2[g]] = ht[rc[n]] + 1 /\ ht2[rc2[g]] = ht[rc[n]] + 1
    BY <1>13, <1>11, <1>18, <1>19, <1>0, <1>2
  <2> QED BY <2>1, <1>13, <1>15 DEF FitsAt, CountedAt, Level, max
<1>21. PICK h \in Nat : Expects(lc, rc, pa, ht, n, h) /\ Near(h, ht[lc[n]], ht[rc[n]])
  BY <1>0 DEF Unsettled
<1>22. Level(h, ht2[g]) /\ ht2[g] \in Nat
  BY <1>21, <1>20, <1>15 DEF Near, Level
<1>23. ASSUME p # NULL
       PROVE  Near(ht2[p], ht2[lc2[p]], ht2[rc2[p]])
  <2>1. /\ lc2[p] = (IF lc1[p] = n THEN g ELSE lc1[p])
        /\ rc2[p] = (IF rc1[p] = n THEN g ELSE rc1[p])
        /\ lc1[p] = n => ht2[rc2[p]] = ht1[rc1[p]]
        /\ rc1[p] = n => ht2[lc2[p]] = ht1[lc1[p]]
    BY <1>23, <1>9, <1>8 DEF TurnedMeasures
  <2>2. /\ lc1[p] = lc[p] /\ rc1[p] = rc[p]
        /\ ht1[lc1[p]] = ht[lc[p]] /\ ht1[rc1[p]] = ht[rc[p]]
    BY <1>23, <1>5, <1>0, <1>1, <1>2 DEF TurnedMeasures
  <2>3. lc[p] = n => ht2[lc2[p]] = ht2[g] /\ ht2[rc2[p]] = ht[rc[p]]
    BY <2>1, <2>2
  <2>4. rc[p] = n => ht2[lc2[p]] = ht[lc[p]] /\ ht2[rc2[p]] = ht2[g]
    BY <2>1, <2>2
  <2>5. Near(ht[p], ht2[lc2[p]], ht2[rc2[p]])
    BY <2>3, <2>4, <1>3, <1>21, <1>22, <1>23, AtParent
  <2> QED BY <2>5, <1>11, <1>13, <1>2, <1>0
<1>24. \A m \in L : m # p => FitsAt(lc2, rc2, ht2, ct2, m)
  BY <1>14, <1>18, <1>19, <1>20
<1>25. Unsettled(lc2, rc2, pa2, ht2, ct2, L, p)
  BY <1>0, <1>10, <1>13, <1>23, <1>24, Passed
<1> QED BY <1>10, <1>25

-----------------------------------------------------------------------------
(* Insertion and deletion.                                                 *)

\* All the nodes fit.
Settled(lc, rc, ht, ct, L) ==
    /\ Measures(ht, ct, L)
    /\ \A m \in L : FitsAt(lc, rc, ht, ct, m)

\* The node p has room for n, which is not in the tree, at its left.
RoomAtLeft(lc, rc, L, sub, lt, p, n) ==
    /\ p \in L /\ lc[p] = NULL /\ <<n, p>> \in lt
    /\ \A m \in L : (p \in sub[lc[m]] => <<n, m>> \in lt) /\ (p \in sub[rc[m]] => <<m, n>> \in lt)

\* The leaf n becomes the left child of p.
Hung(lc, rc, pa, ht, ct, L, p, n, lc2, rc2, pa2, ht2, ct2) ==
    LET L2 == L \cup {n}
    IN  /\ lc2 = [m \in L2 |-> IF m = n THEN NULL ELSE IF m = p THEN n ELSE lc[m]]
        /\ rc2 = [m \in L2 |-> IF m = n THEN NULL ELSE rc[m]]
        /\ pa2 = [m \in L2 |-> IF m = n THEN p ELSE pa[m]]
        /\ ht2 = [m \in L2 \cup {NULL} |-> IF m = n THEN 1 ELSE ht[m]]
        /\ ct2 = [m \in L2 \cup {NULL} |-> IF m = n THEN 1 ELSE ct[m]]

\* A leaf that is hung where there is room for it leaves a search tree that
\* settles from it on.
LEMMA HangKeepsTree ==
    ASSUME NEW lc, NEW rc, NEW pa, NEW r, NEW L, NEW sub, NEW lt,
           SearchTree(lc, rc, pa, r, L, sub, lt),
           NEW n, n \notin L, n # NULL, NEW p, RoomAtLeft(lc, rc, L, sub, lt, p, n),
           Order(lt, L \cup {n}),
           NEW ht, NEW ct, Settled(lc, rc, ht, ct, L),
           NEW lc2, NEW rc2, NEW pa2, NEW ht2, NEW ct2,
           Hung(lc, rc, pa, ht, ct, L, p, n, lc2, rc2, pa2, ht2, ct2)
    PROVE  /\ \E sub2 : SearchTree(lc2, rc2, pa2, r, L \cup {n}, sub2, lt)
           /\ Unsettled(lc2, rc2, pa2, ht2, ct2, L \cup {n}, n)
<1> DEFINE L2 == L \cup {n}
           sub2 == [m \in L2 \cup {NULL} |->
                      IF m = n THEN {n} ELSE IF p \in sub[m] THEN sub[m] \cup {n} ELSE sub[m]]
<1>0. /\ p \in L /\ lc[p] = NULL /\ NULL \notin L /\ NULL \notin L2 /\ p # n /\ p # NULL /\ r \in L
      /\ sub[NULL] = {} /\ sub[r] = L
      /\ \A m \in L : m \in sub[m] /\ lc[m] \in L \cup {NULL} /\ rc[m] \in L \cup {NULL}
      /\ \A m \in L \cup {NULL} : sub[m] \subseteq L
  BY DEF SearchTree, Tree, RoomAtLeft
<1>1. /\ lc2 \in [L2 -> L2 \cup {NULL}] /\ rc2 \in [L2 -> L2 \cup {NULL}] /\ pa2 \in [L2 -> L2 \cup {NULL}]
      /\ lc2[n] = NULL /\ rc2[n] = NULL /\ pa2[n] = p
      /\ \A m \in L : /\ lc2[m] = IF m = p THEN n ELSE lc[m]
                      /\ rc2[m] = rc[m] /\ pa2[m] = pa[m]
  BY <1>0 DEF Hung, SearchTree, Tree
<1>2. /\ sub2 \in [L2 \cup {NULL} -> SUBSET L2]
      /\ sub2[n] = {n} /\ sub2[NULL] = {}
      /\ \A m \in L : sub2[m] = IF p \in sub[m] THEN sub[m] \cup {n} ELSE sub[m]
  BY <1>0
<1> HIDE DEF sub2
<1>3. \A m \in L : p \in sub[m] <=> m = p \/ p \in sub[lc[m]] \/ p \in sub[rc[m]]
  BY DEF SearchTree, Tree
<1>4. p \notin sub[rc[p]] /\ p \notin sub[lc[p]]
  BY <1>0, Branches
<1>5. \A m \in L : /\ sub2[lc2[m]] = IF m = p THEN {n}
                                     ELSE IF p \in sub[lc[m]] THEN sub[lc[m]] \cup {n} ELSE sub[lc[m]]
                   /\ sub2[rc2[m]] = IF p \in sub[rc[m]] THEN sub[rc[m]] \cup {n} ELSE sub[rc[m]]
  <2> SUFFICES ASSUME NEW m \in L
               PROVE  /\ sub2[lc2[m]] = IF m = p THEN {n}
                                        ELSE IF p \in sub[lc[m]] THEN sub[lc[m]] \cup {n} ELSE sub[lc[m]]
                      /\ sub2[rc2[m]] = IF p \in sub[rc[m]] THEN sub[rc[m]] \cup {n} ELSE sub[rc[m]]
    OBVIOUS
  <2>1. \A k \in L \cup {NULL} : sub2[k] = IF p \in sub[k] THEN sub[k] \cup {n} ELSE sub[k]
    BY <1>0, <1>2
  <2>2. /\ lc[m] \in L \cup {NULL} /\ rc[m] \in L \cup {NULL}
        /\ lc2[m] = (IF m = p THEN n ELSE lc[m]) /\ rc2[m] = rc[m]
    BY <1>0, <1>1
  <2>3. sub2[rc2[m]] = IF p \in sub[rc[m]] THEN sub[rc[m]] \cup {n} ELSE sub[rc[m]]
    BY <2>1, <2>2
  <2>4. sub2[lc2[m]] = IF m = p THEN {n}
                       ELSE IF p \in sub[lc[m]] THEN sub[lc[m]] \cup {n} ELSE sub[lc[m]]
    <3>1. CASE m = p
      BY <3>1, <2>2, <1>2
    <3>2. CASE m # p
      BY <3>2, <2>1, <2>2
    <3> QED BY <3>1, <3>2
  <2> QED BY <2>3, <2>4
<1>6. \A m \in L2 : sub2[m] = {m} \cup sub2[lc2[m]] \cup sub2[rc2[m]]
  <2>1. sub2[n] = {n} \cup sub2[lc2[n]] \cup sub2[rc2[n]]
    BY <1>1, <1>2
  <2>2. ASSUME NEW m \in L PROVE sub2[m] = {m} \cup sub2[lc2[m]] \cup sub2[rc2[m]]
    <3>1. sub[m] = {m} \cup sub[lc[m]] \cup sub[rc[m]]
      BY DEF SearchTree, Tree
    <3>2. CASE m = p
      BY <3>1, <3>2, <1>0, <1>2, <1>3, <1>4, <1>5
    <3>3. CASE m # p /\ p \in sub[lc[m]]
      <4>1. /\ sub2[m] = sub[m] \cup {n} /\ sub2[lc2[m]] = sub[lc[m]] \cup {n}
            /\ sub2[rc2[m]] \in {sub[rc[m]], sub[rc[m]] \cup {n}}
        BY <3>3, <1>2, <1>3, <1>5
      <4> QED BY <3>1, <4>1
    <3>4. CASE m # p /\ p \notin sub[lc[m]]
      <4>1. sub2[lc2[m]] = sub[lc[m]]
        BY <3>4, <1>5
      <4>2. p \in sub[m] <=> p \in sub[rc[m]]
        BY <3>4, <1>3
      <4> QED BY <3>1, <4>1, <4>2, <1>2, <1>5
    <3> QED BY <3>2, <3>3, <3>4
  <2> QED BY <2>1, <2>2
<1>7. /\ \A m \in L2 : pa2[m] = NULL <=> m = r
      /\ \A m \in L2 : pa2[m] # NULL => lc2[pa2[m]] = m \/ rc2[pa2[m]] = m
      /\ \A m \in L2 : lc2[m] # NULL => pa2[lc2[m]] = m
      /\ \A m \in L2 : rc2[m] # NULL => pa2[rc2[m]] = m
  <2>1. /\ \A m \in L : pa[m] = NULL <=> m = r
        /\ \A m \in L : pa[m] # NULL => pa[m] \in L /\ (lc[pa[m]] = m \/ rc[pa[m]] = m)
        /\ \A m \in L : lc[m] # NULL => pa[lc[m]] = m
        /\ \A m \in L : rc[m] # NULL => pa[rc[m]] = m
    BY DEF SearchTree, Tree
  <2> QED BY <2>1, <1>0, <1>1
<1>8. sub2[r] = L2
  BY <1>0, <1>2
<1>9. Tree(lc2, rc2, pa2, r, L2, sub2)
  BY <1>0, <1>1, <1>2, <1>6, <1>7, <1>8 DEF Tree
<1>10. Sorted(lc2, rc2, L2, sub2, lt)
  <2>1. /\ \A k \in sub2[lc2[n]] : <<k, n>> \in lt
        /\ \A k \in sub2[rc2[n]] : <<n, k>> \in lt
    BY <1>1, <1>2
  <2>2. ASSUME NEW m \in L
        PROVE  /\ \A k \in sub2[lc2[m]] : <<k, m>> \in lt
               /\ \A k \in sub2[rc2[m]] : <<m, k>> \in lt
    <3>1. /\ \A k \in sub[lc[m]] : <<k, m>> \in lt
          /\ \A k \in sub[rc[m]] : <<m, k>> \in lt
      BY DEF SearchTree, Sorted
    <3>2. <<n, p>> \in lt /\ (p \in sub[lc[m]] => <<n, m>> \in lt) /\ (p \in sub[rc[m]] => <<m, n>> \in lt)
      BY DEF RoomAtLeft
    <3>3. ASSUME NEW k \in sub2[lc2[m]] PROVE <<k, m>> \in lt
      <4>1. CASE k = n
        <5>1. m = p \/ p \in sub[lc[m]] \/ n \in sub[lc[m]]
          BY <3>3, <4>1, <1>5
        <5> QED BY <5>1, <4>1, <3>2, <3>1
      <4>2. CASE k # n
        BY <4>2, <3>3, <3>1, <1>5
      <4> QED BY <4>1, <4>2
    <3>4. ASSUME NEW k \in sub2[rc2[m]] PROVE <<m, k>> \in lt
      <4>1. CASE k = n
        <5>1. p \in sub[rc[m]] \/ n \in sub[rc[m]]
          BY <3>4, <4>1, <1>5
        <5> QED BY <5>1, <4>1, <3>2, <3>1
      <4>2. CASE k # n
        BY <4>2, <3>4, <3>1, <1>5
      <4> QED BY <4>1, <4>2
    <3> QED BY <3>3, <3>4
  <2> QED BY <2>1, <2>2 DEF Sorted
<1>11. SearchTree(lc2, rc2, pa2, r, L2, sub2, lt)
  BY <1>9, <1>10 DEF SearchTree
<1>12. /\ Measures(ht2, ct2, L2) /\ ht2[n] = 1 /\ ct2[n] = 1
       /\ \A m \in L \cup {NULL} : ht2[m] = ht[m] /\ ct2[m] = ct[m]
  BY <1>0 DEF Settled, Measures, Hung
<1>13. ASSUME NEW m \in L2, m # n, m # p
       PROVE  FitsAt(lc2, rc2, ht2, ct2, m)
  BY <1>13, <1>0, <1>1, <1>12 DEF Settled, FitsAt, CountedAt
<1>14. /\ pa2[n] = p /\ lc2[p] = n /\ rc2[p] = rc[p] /\ rc[p] # n
       /\ ht2[rc2[p]] = ht[rc[p]] /\ ht2[p] = ht[p]
  BY <1>0, <1>1, <1>12
<1>15. ht[p] = 1 + max(0, ht[rc[p]]) /\ Level(0, ht[rc[p]])
  BY <1>0 DEF Settled, Measures, FitsAt, CountedAt
<1>16. Expects(lc2, rc2, pa2, ht2, n, 0)
  BY <1>14, <1>15 DEF Expects
<1>17. Near(0, ht2[lc2[n]], ht2[rc2[n]])
  BY <1>1, <1>12 DEF Near, Level, max, Measures
<1>18. Unsettled(lc2, rc2, pa2, ht2, ct2, L2, n)
  BY <1>12, <1>13, <1>14, <1>16, <1>17 DEF Unsettled
<1> QED BY <1>11, <1>18

\* The node v, which has no right child, is cut out: its left child, or NULL,
\* comes in its place.
Cut(lc, rc, pa, ht, ct, L, v, lc2, rc2, pa2, ht2, ct2) ==
    LET L2 == L \ {v}
    IN  /\ lc2 = [m \in L2 |-> IF lc[m] = v THEN lc[v] ELSE lc[m]]
        /\ rc2 = [m \in L2 |-> IF rc[m] = v THEN lc[v] ELSE rc[m]]
        /\ pa2 = [m \in L2 |-> IF m = lc[v] THEN pa[v] ELSE pa[m]]
        /\ ht2 = [m \in L2 \cup {NULL} |-> ht[m]]
        /\ ct2 = [m \in L2 \cup {NULL} |-> ct[m]]

\* A node with one child at most that is cut out leaves a search tree that
\* settles from its parent on.
LEMMA CutKeepsTree ==
    ASSUME NEW lc, NEW rc, NEW pa, NEW r, NEW L, NEW sub, NEW lt,
           SearchTree(lc, rc, pa, r, L, sub, lt), NEW v \in L, rc[v] = NULL,
           NEW ht, NEW ct, Settled(lc, rc, ht, ct, L),
           NEW lc2, NEW rc2, NEW pa2, NEW ht2, NEW ct2,
           Cut(lc, rc, pa, ht, ct, L, v, lc2, rc2, pa2, ht2, ct2)
    PROVE  /\ \E sub2 : SearchTree(lc2, rc2, pa2, IF pa[v] = NULL THEN lc[v] ELSE r, L \ {v}, sub2, lt)
           /\ Unsettled(lc2, rc2, pa2, ht2, ct2, L \ {v}, pa[v])
<1> DEFINE L2 == L \ {v}
           c == lc[v]
           p == pa[v]
           r2 == IF p = NULL THEN c ELSE r
           sub2 == [m \in L2 \cup {NULL} |-> sub[m] \ {v}]
<1>0. /\ NULL \notin L /\ v # NULL /\ r \in L \cup {NULL}
      /\ c \in L \cup {NULL} /\ p \in L \cup {NULL}
      /\ sub[NULL] = {} /\ sub[r] = L
      /\ sub[v] = {v} \cup sub[c]
      /\ \A m \in L : m \in sub[m] /\ lc[m] \in L \cup {NULL} /\ rc[m] \in L \cup {NULL}
      /\ \A m \in L \cup {NULL} : sub[m] \subseteq L
  BY DEF SearchTree, Tree
<1>1. v \notin sub[c] /\ c # v /\ p # v /\ (p # NULL => p # c)
  <2>1. v \notin sub[c] /\ (c # NULL => c # v) /\ (p # NULL => p \notin sub[v])
    BY Branches
  <2>2. c # NULL => c \in sub[v]
    BY <1>0
  <2> QED BY <2>1, <2>2, <1>0
<1>2. \A m \in L : lc[m] = v \/ rc[m] = v => m = p
  BY <1>0 DEF SearchTree, Tree
<1>3. /\ \A m \in L : pa[m] = NULL <=> m = r
      /\ \A m \in L : pa[m] # NULL => pa[m] \in L /\ (lc[pa[m]] = m \/ rc[pa[m]] = m)
      /\ \A m \in L : lc[m] # NULL => pa[lc[m]] = m
      /\ \A m \in L : rc[m] # NULL => pa[rc[m]] = m
  BY DEF SearchTree, Tree
<1>4. /\ \A m \in L2 : /\ lc2[m] = IF lc[m] = v THEN c ELSE lc[m]
                       /\ rc2[m] = IF rc[m] = v THEN c ELSE rc[m]
                       /\ pa2[m] = IF m = c THEN p ELSE pa[m]
      /\ lc2 = [m \in L2 |-> lc2[m]] /\ rc2 = [m \in L2 |-> rc2[m]] /\ pa2 = [m \in L2 |-> pa2[m]]
  BY DEF Cut
<1>5. \A m \in L2 : pa[m] = v <=> m = c
  BY <1>0, <1>1, <1>3
<1>6. \A m \in L2 : lc2[m] \in L2 \cup {NULL} /\ rc2[m] \in L2 \cup {NULL} /\ pa2[m] \in L2 \cup {NULL}
  BY <1>0, <1>1, <1>3, <1>4, <1>5
<1>7. lc2 \in [L2 -> L2 \cup {NULL}] /\ rc2 \in [L2 -> L2 \cup {NULL}] /\ pa2 \in [L2 -> L2 \cup {NULL}]
  BY <1>4, <1>6
<1>8. sub2 \in [L2 \cup {NULL} -> SUBSET L2] /\ \A m \in L2 \cup {NULL} : sub2[m] = sub[m] \ {v}
  BY <1>0
<1> HIDE DEF sub2
<1>9. \A m \in L2 : sub2[lc2[m]] = sub[lc[m]] \ {v} /\ sub2[rc2[m]] = sub[rc[m]] \ {v}
  <2>1. sub2[c] = sub[v] \ {v}
    BY <1>0, <1>1, <1>8
  <2> QED BY <2>1, <1>4, <1>6, <1>8
<1>10. \A m \in L2 : sub2[m] = {m} \cup sub2[lc2[m]] \cup sub2[rc2[m]]
  <2> SUFFICES ASSUME NEW m \in L2 PROVE sub2[m] = {m} \cup sub2[lc2[m]] \cup sub2[rc2[m]]
    OBVIOUS
  <2>1. sub[m] = {m} \cup sub[lc[m]] \cup sub[rc[m]]
    BY DEF SearchTree, Tree
  <2> QED BY <2>1, <1>8, <1>9
<1>11. \A m \in L2 : pa2[m] = NULL <=> m = r2
  <2>1. p = NULL => v = r
    BY <1>3
  <2>2. p # NULL => v # r
    BY <1>3
  <2> QED BY <2>1, <2>2, <1>0, <1>1, <1>3, <1>4, <1>5
<1>12. \A m \in L2 : pa2[m] # NULL => lc2[pa2[m]] = m \/ rc2[pa2[m]] = m
  <2> SUFFICES ASSUME NEW m \in L2, pa2[m] # NULL PROVE lc2[pa2[m]] = m \/ rc2[pa2[m]] = m
    OBVIOUS
  <2>1. CASE m = c
    <3>1. pa2[m] = p /\ p \in L2 /\ (lc[p] = v \/ rc[p] = v)
      BY <2>1, <1>0, <1>1, <1>3, <1>4
    <3> QED BY <3>1, <2>1, <1>4
  <2>2. CASE m # c
    <3>1. pa2[m] = pa[m] /\ pa[m] \in L2 /\ (lc[pa[m]] = m \/ rc[pa[m]] = m)
      BY <2>2, <1>3, <1>4, <1>5
    <3> QED BY <3>1, <1>4
  <2> QED BY <2>1, <2>2
<1>13. \A m \in L2 : /\ lc2[m] # NULL => pa2[lc2[m]] = m
                     /\ rc2[m] # NULL => pa2[rc2[m]] = m
  <2> SUFFICES ASSUME NEW m \in L2
               PROVE  /\ lc2[m] # NULL => pa2[lc2[m]] = m
                      /\ rc2[m] # NULL => pa2[rc2[m]] = m
    OBVIOUS
  <2>1. /\ lc[m] # NULL => pa[lc[m]] = m
        /\ rc[m] # NULL => pa[rc[m]] = m
        /\ lc[m] = c /\ c # NULL => m = v
        /\ rc[m] = c /\ c # NULL => m = v
        /\ lc[m] = v => p = m
        /\ rc[m] = v => p = m
    BY <1>2, <1>3
  <2>2. lc2[m] \in L2 \cup {NULL} /\ rc2[m] \in L2 \cup {NULL}
    BY <1>6
  <2> QED BY <2>1, <2>2, <1>4
<1>14. r2 \in L2 \cup {NULL} /\ sub2[NULL] = {} /\ sub2[r2] = L2
  <2>1. CASE p = NULL
    <3>1. v = r
      BY <2>1, <1>3
    <3> QED BY <3>1, <2>1, <1>0, <1>1, <1>8
  <2>2. CASE p # NULL
    <3>1. r # v /\ r # NULL
      BY <2>2, <1>0, <1>3
    <3> QED BY <3>1, <2>2, <1>0, <1>8
  <2> QED BY <2>1, <2>2
<1>15. Tree(lc2, rc2, pa2, r2, L2, sub2)
  <2>1. NULL \notin L2
    BY <1>0
  <2> QED BY <2>1, <1>7, <1>8, <1>10, <1>11, <1>12, <1>13, <1>14 DEF Tree
<1>16. Sorted(lc2, rc2, L2, sub2, lt)
  <2>1. Sorted(lc, rc, L, sub, lt)
    BY DEF SearchTree
  <2> QED BY <2>1, <1>9 DEF Sorted
<1>17. SearchTree(lc2, rc2, pa2, r2, L2, sub2, lt)
  BY <1>15, <1>16 DEF SearchTree, Order
<1>18. Measures(ht, ct, L)
  BY DEF Settled
<1>19. /\ Measures(ht2, ct2, L2)
       /\ \A m \in L2 \cup {NULL} : ht2[m] = ht[m] /\ ct2[m] = ct[m]
  BY <1>18, <1>0 DEF Measures, Cut
<1>20. ASSUME NEW m \in L2, m # p PROVE FitsAt(lc2, rc2, ht2, ct2, m)
  <2>1. FitsAt(lc, rc, ht, ct, m)
    BY DEF Settled
  <2>2. lc2[m] = lc[m] /\ rc2[m] = rc[m]
    BY <1>20, <1>2, <1>4
  <2>3. lc2[m] \in L2 \cup {NULL} /\ rc2[m] \in L2 \cup {NULL}
    BY <1>6
  <2> QED BY <2>1, <2>2, <2>3, <1>19 DEF FitsAt, CountedAt
<1>21. ASSUME p # NULL PROVE Near(ht2[p], ht2[lc2[p]], ht2[rc2[p]])
  <2>1. p \in L2 /\ lc2[p] \in L2 \cup {NULL} /\ rc2[p] \in L2 \cup {NULL}
    BY <1>21, <1>0, <1>1, <1>6
  <2>2. (lc[p] = v /\ rc[p] # v) \/ (rc[p] = v /\ lc[p] # v)
    <3>1. lc[p] = v => rc[p] # v
      BY <1>21, Branches
    <3> QED BY <3>1, <1>21, <1>3
  <2>3. /\ lc[p] = v => ht2[lc2[p]] = ht[c] /\ ht2[rc2[p]] = ht[rc[p]]
        /\ rc[p] = v => ht2[lc2[p]] = ht[lc[p]] /\ ht2[rc2[p]] = ht[c]
    BY <2>1, <2>2, <1>4, <1>19
  <2>4. ht[v] \in Nat /\ ht[c] \in Nat /\ Level(ht[v], ht[c])
    <3>1. ht[v] \in Nat /\ ht[c] \in Nat /\ ht[NULL] = 0
      BY <1>18, <1>0 DEF Measures
    <3>2. ht[v] = 1 + max(ht[c], ht[NULL])
      BY DEF Settled, FitsAt, CountedAt
    <3> QED BY <3>1, <3>2 DEF max, Level
  <2>5. Expects(lc, rc, pa, ht, v, ht[v])
    <3>1. FitsAt(lc, rc, ht, ct, p)
      BY <2>1 DEF Settled
    <3> QED BY <3>1 DEF Expects, FitsAt, CountedAt
  <2>6. Near(ht[p], ht2[lc2[p]], ht2[rc2[p]])
    BY <2>3, <2>4, <2>5, <1>18, <1>21, AtParent
  <2> QED BY <2>6, <2>1, <1>19
<1>22. p \in L2 \cup {NULL}
  BY <1>0, <1>1
<1>23. Unsettled(lc2, rc2, pa2, ht2, ct2, L2, p)
  BY <1>17, <1>19, <1>20, <1>21, <1>22, Passed
<1> QED BY <1>17, <1>23

\* The node s takes the place of n.
Swapped(n, s, m) == IF m = n THEN s ELSE m

Renamed(lc, rc, pa, ht, ct, L, n, s, lc2, rc2, pa2, ht2, ct2) ==
    LET L2 == (L \ {n}) \cup {s}
    IN  /\ lc2 = [m \in L2 |-> Swapped(n, s, lc[Swapped(s, n, m)])]
        /\ rc2 = [m \in L2 |-> Swapped(n, s, rc[Swapped(s, n, m)])]
        /\ pa2 = [m \in L2 |-> Swapped(n, s, pa[Swapped(s, n, m)])]
        /\ ht2 = [m \in L2 \cup {NULL} |-> ht[Swapped(s, n, m)]]
        /\ ct2 = [m \in L2 \cup {NULL} |-> ct[Swapped(s, n, m)]]

\* A node that takes the place of its predecessor leaves a settled search tree.
LEMMA RenameKeepsTree ==
    ASSUME NEW lc, NEW rc, NEW pa, NEW r, NEW L, NEW sub, NEW lt,
           SearchTree(lc, rc, pa, r, L, sub, lt), NEW n \in L, NEW s, s \notin L, s # NULL,
           Order(lt, (L \ {n}) \cup {s}),
           \A m \in L \ {n} : /\ <<m, n>> \in lt <=> <<m, s>> \in lt
                              /\ <<n, m>> \in lt <=> <<s, m>> \in lt,
           NEW ht, NEW ct, Settled(lc, rc, ht, ct, L),
           NEW lc2, NEW rc2, NEW pa2, NEW ht2, NEW ct2,
           Renamed(lc, rc, pa, ht, ct, L, n, s, lc2, rc2, pa2, ht2, ct2)
    PROVE  /\ \E sub2 : SearchTree(lc2, rc2, pa2, Swapped(n, s, r), (L \ {n}) \cup {s}, sub2, lt)
           /\ Settled(lc2, rc2, ht2, ct2, (L \ {n}) \cup {s})
<1> DEFINE L2 == (L \ {n}) \cup {s}
           Old(m) == Swapped(s, n, m)
           New(m) == Swapped(n, s, m)
           New2(S) == IF n \in S THEN (S \ {n}) \cup {s} ELSE S
           sub2 == [m \in L2 \cup {NULL} |-> New2(sub[Old(m)])]
<1>0. /\ NULL \notin L /\ NULL \notin L2 /\ n # NULL /\ n # s
      /\ sub[NULL] = {} /\ sub[r] = L /\ r \in L \cup {NULL}
      /\ \A m \in L : lc[m] \in L \cup {NULL} /\ rc[m] \in L \cup {NULL} /\ pa[m] \in L \cup {NULL}
      /\ \A m \in L \cup {NULL} : sub[m] \subseteq L
  BY DEF SearchTree, Tree
<1>1. /\ \A m \in L2 : Old(m) \in L /\ New(Old(m)) = m
      /\ \A m \in L : New(m) \in L2 /\ Old(New(m)) = m
      /\ Old(NULL) = NULL /\ New(NULL) = NULL
  BY <1>0 DEF Swapped
<1>2. /\ \A m \in L2 : lc2[m] = New(lc[Old(m)]) /\ rc2[m] = New(rc[Old(m)]) /\ pa2[m] = New(pa[Old(m)])
      /\ lc2 = [m \in L2 |-> lc2[m]] /\ rc2 = [m \in L2 |-> rc2[m]] /\ pa2 = [m \in L2 |-> pa2[m]]
  BY DEF Renamed
<1>3. \A S \in SUBSET L : New2(S) \in SUBSET L2
  OBVIOUS
<1>4. sub2 \in [L2 \cup {NULL} -> SUBSET L2] /\ \A m \in L2 \cup {NULL} : sub2[m] = New2(sub[Old(m)])
  <2>1. \A m \in L2 \cup {NULL} : sub[Old(m)] \in SUBSET L
    BY <1>0, <1>1
  <2> HIDE DEF New2, Old
  <2> QED BY <2>1, <1>3
<1> HIDE DEF sub2, Old, New
<1>5. \A m \in L2 : /\ lc2[m] \in L2 \cup {NULL} /\ rc2[m] \in L2 \cup {NULL} /\ pa2[m] \in L2 \cup {NULL}
                    /\ Old(lc2[m]) = lc[Old(m)] /\ Old(rc2[m]) = rc[Old(m)] /\ Old(pa2[m]) = pa[Old(m)]
  <2>1. \A k \in L \cup {NULL} : New(k) \in L2 \cup {NULL} /\ Old(New(k)) = k
    BY <1>0, <1>1
  <2> SUFFICES ASSUME NEW m \in L2
               PROVE  /\ lc2[m] \in L2 \cup {NULL} /\ rc2[m] \in L2 \cup {NULL} /\ pa2[m] \in L2 \cup {NULL}
                      /\ Old(lc2[m]) = lc[Old(m)] /\ Old(rc2[m]) = rc[Old(m)] /\ Old(pa2[m]) = pa[Old(m)]
    OBVIOUS
  <2>2. Old(m) \in L
    BY <1>1
  <2>3. lc[Old(m)] \in L \cup {NULL} /\ rc[Old(m)] \in L \cup {NULL} /\ pa[Old(m)] \in L \cup {NULL}
    BY <2>2, <1>0
  <2> QED BY <2>1, <2>3, <1>2
<1>6. lc2 \in [L2 -> L2 \cup {NULL}] /\ rc2 \in [L2 -> L2 \cup {NULL}] /\ pa2 \in [L2 -> L2 \cup {NULL}]
  BY <1>2, <1>5
<1>7. \A m \in L2 : sub2[lc2[m]] = New2(sub[lc[Old(m)]]) /\ sub2[rc2[m]] = New2(sub[rc[Old(m)]])
  <2> HIDE DEF New2
  <2> QED BY <1>4, <1>5
<1>8. \A m \in L2 : sub2[m] = {m} \cup sub2[lc2[m]] \cup sub2[rc2[m]]
  <2> SUFFICES ASSUME NEW m \in L2 PROVE sub2[m] = {m} \cup sub2[lc2[m]] \cup sub2[rc2[m]]
    OBVIOUS
  <2> DEFINE k == Old(m)
             A == sub[lc[k]]
             B == sub[rc[k]]
  <2>1. k \in L /\ m = New(k)
    BY <1>1
  <2>2. sub[k] = {k} \cup A \cup B /\ A \subseteq L /\ B \subseteq L
    BY <2>1, <1>0 DEF SearchTree, Tree
  <2>3. sub2[m] = New2(sub[k]) /\ sub2[lc2[m]] = New2(A) /\ sub2[rc2[m]] = New2(B)
    BY <1>4, <1>7
  <2>4. m = IF k = n THEN s ELSE k
    BY <2>1 DEF New, Swapped
  <2> HIDE DEF A, B, k
  <2>5. New2({k} \cup A \cup B) = {m} \cup New2(A) \cup New2(B)
    <3>1. CASE k = n
      <4>1. m = s /\ n \in {k} \cup A \cup B
        BY <2>4, <3>1
      <4> QED BY <4>1, <3>1, <1>0
    <3>2. CASE k # n
      <4>1. m = k
        BY <2>4, <3>2
      <4>2. n \in {k} \cup A \cup B <=> n \in A \/ n \in B
        BY <3>2
      <4> QED BY <4>1, <4>2, <3>2
    <3> QED BY <3>1, <3>2
  <2> QED BY <2>2, <2>3, <2>5
<1>9. /\ \A m \in L2 : pa2[m] = NULL <=> m = New(r)
      /\ \A m \in L2 : pa2[m] # NULL => lc2[pa2[m]] = m \/ rc2[pa2[m]] = m
      /\ \A m \in L2 : lc2[m] # NULL => pa2[lc2[m]] = m
      /\ \A m \in L2 : rc2[m] # NULL => pa2[rc2[m]] = m
  <2> SUFFICES ASSUME NEW m \in L2
               PROVE  /\ pa2[m] = NULL <=> m = New(r)
                      /\ pa2[m] # NULL => lc2[pa2[m]] = m \/ rc2[pa2[m]] = m
                      /\ lc2[m] # NULL => pa2[lc2[m]] = m
                      /\ rc2[m] # NULL => pa2[rc2[m]] = m
    OBVIOUS
  <2>0. /\ \A k \in L : pa[k] = NULL <=> k = r
        /\ \A k \in L : pa[k] # NULL => lc[pa[k]] = k \/ rc[pa[k]] = k
        /\ \A k \in L : lc[k] # NULL => pa[lc[k]] = k
        /\ \A k \in L : rc[k] # NULL => pa[rc[k]] = k
    BY DEF SearchTree, Tree
  <2>1. Old(m) \in L /\ New(Old(m)) = m /\ (New(r) = m <=> r = Old(m))
    BY <1>0, <1>1
  <2>2. pa2[m] = NULL <=> m = New(r)
    <3>1. pa2[m] = NULL <=> pa[Old(m)] = NULL
      <4>1. pa2[m] = New(pa[Old(m)])
        BY <1>2
      <4>2. Old(pa2[m]) = pa[Old(m)]
        BY <1>5
      <4>3. Old(NULL) = NULL /\ New(NULL) = NULL
        BY <1>1
      <4>4. CASE pa2[m] = NULL
        BY <4>2, <4>3, <4>4
      <4>5. CASE pa[Old(m)] = NULL
        BY <4>1, <4>3, <4>5
      <4> QED BY <4>4, <4>5
    <3>2. pa[Old(m)] = NULL <=> Old(m) = r
      BY <2>0, <2>1
    <3> QED BY <3>1, <3>2, <2>1
  <2>3. ASSUME pa2[m] # NULL PROVE lc2[pa2[m]] = m \/ rc2[pa2[m]] = m
    <3>1. pa2[m] \in L2 /\ Old(pa2[m]) = pa[Old(m)] /\ pa[Old(m)] \in L
      BY <2>3, <1>1, <1>5
    <3>2. lc2[pa2[m]] = New(lc[pa[Old(m)]]) /\ rc2[pa2[m]] = New(rc[pa[Old(m)]])
      BY <3>1, <1>2
    <3>3. lc[pa[Old(m)]] = Old(m) \/ rc[pa[Old(m)]] = Old(m)
      BY <3>1, <2>0, <2>1, <1>0
    <3> QED BY <3>2, <3>3, <2>1
  <2>4. ASSUME lc2[m] # NULL PROVE pa2[lc2[m]] = m
    <3>1. lc2[m] \in L2 /\ Old(lc2[m]) = lc[Old(m)] /\ lc[Old(m)] \in L
      BY <2>4, <1>1, <1>5
    <3>2. pa2[lc2[m]] = New(pa[lc[Old(m)]])
      BY <3>1, <1>2
    <3>3. pa[lc[Old(m)]] = Old(m)
      BY <3>1, <2>0, <2>1, <1>0
    <3> QED BY <3>2, <3>3, <2>1
  <2>5. ASSUME rc2[m] # NULL PROVE pa2[rc2[m]] = m
    <3>1. rc2[m] \in L2 /\ Old(rc2[m]) = rc[Old(m)] /\ rc[Old(m)] \in L
      BY <2>5, <1>1, <1>5
    <3>2. pa2[rc2[m]] = New(pa[rc[Old(m)]])
      BY <3>1, <1>2
    <3>3. pa[rc[Old(m)]] = Old(m)
      BY <3>1, <2>0, <2>1, <1>0
    <3> QED BY <3>2, <3>3, <2>1
  <2> QED BY <2>2, <2>3, <2>4, <2>5
<1>10. New(r) \in L2 \cup {NULL} /\ sub2[New(r)] = L2 /\ sub2[NULL] = {}
  <2>1. New(r) \in L2 \cup {NULL} /\ Old(New(r)) = r
    BY <1>0, <1>1
  <2>2. sub2[New(r)] = New2(L) /\ sub2[NULL] = New2({})
    <3>1. sub[r] = L /\ sub[NULL] = {} /\ Old(NULL) = NULL
      BY <1>0, <1>1
    <3> HIDE DEF New2
    <3>2. sub2[New(r)] = New2(sub[Old(New(r))]) /\ sub2[NULL] = New2(sub[Old(NULL)])
      BY <2>1, <1>4
    <3> QED BY <2>1, <3>1, <3>2
  <2> QED BY <2>1, <2>2
<1>11. Tree(lc2, rc2, pa2, New(r), L2, sub2)
  BY <1>0, <1>4, <1>6, <1>8, <1>9, <1>10 DEF Tree
<1>12. \A a, b \in L : <<a, b>> \in lt => <<New(a), New(b)>> \in lt
  <2>1. \A a \in L : <<a, a>> \notin lt
    BY DEF SearchTree, Order
  <2> QED BY <2>1 DEF New, Swapped
<1>13. Sorted(lc2, rc2, L2, sub2, lt)
  <2>1. \A m \in L2 : \A k \in New2(sub[Old(m)]) : \E j \in sub[Old(m)] : k = New(j)
    BY DEF New, Swapped
  <2> SUFFICES ASSUME NEW m \in L2
               PROVE  /\ \A k \in sub2[lc2[m]] : <<k, m>> \in lt
                      /\ \A k \in sub2[rc2[m]] : <<m, k>> \in lt
    BY DEF Sorted
  <2>2. Old(m) \in L /\ New(Old(m)) = m
    BY <1>1
  <2>3. \A S \in SUBSET L : \A k \in New2(S) : \E j \in S : k = New(j)
    BY DEF New, Swapped
  <2>4. sub[lc[Old(m)]] \in SUBSET L /\ sub[rc[Old(m)]] \in SUBSET L
    BY <2>2, <1>0
  <2>5. /\ \A j \in sub[lc[Old(m)]] : <<j, Old(m)>> \in lt
        /\ \A j \in sub[rc[Old(m)]] : <<Old(m), j>> \in lt
    BY <2>2 DEF SearchTree, Sorted
  <2> HIDE DEF New2
  <2>6. ASSUME NEW k \in sub2[lc2[m]] PROVE <<k, m>> \in lt
    <3>1. PICK j \in sub[lc[Old(m)]] : k = New(j)
      BY <2>3, <2>4, <2>6, <1>7
    <3> QED BY <3>1, <2>2, <2>4, <2>5, <1>12
  <2>7. ASSUME NEW k \in sub2[rc2[m]] PROVE <<m, k>> \in lt
    <3>1. PICK j \in sub[rc[Old(m)]] : k = New(j)
      BY <2>3, <2>4, <2>7, <1>7
    <3> QED BY <3>1, <2>2, <2>4, <2>5, <1>12
  <2> QED BY <2>6, <2>7
<1>14. SearchTree(lc2, rc2, pa2, New(r), L2, sub2, lt)
  BY <1>11, <1>13 DEF SearchTree
<1>15. /\ Measures(ht2, ct2, L2)
       /\ \A m \in L2 \cup {NULL} : ht2[m] = ht[Old(m)] /\ ct2[m] = ct[Old(m)]
  <2>1. ht2 = [m \in L2 \cup {NULL} |-> ht[Old(m)]] /\ ct2 = [m \in L2 \cup {NULL} |-> ct[Old(m)]]
    BY DEF Renamed, Old
  <2> QED BY <2>1, <1>1 DEF Settled, Measures
<1>16. ASSUME NEW m \in L2 PROVE FitsAt(lc2, rc2, ht2, ct2, m)
  <2>1. Old(m) \in L
    BY <1>1
  <2>2. FitsAt(lc, rc, ht, ct, Old(m))
    BY <2>1 DEF Settled
  <2> QED BY <2>2, <1>5, <1>15 DEF FitsAt, CountedAt
<1>17. Settled(lc2, rc2, ht2, ct2, L2)
  BY <1>15, <1>16 DEF Settled
<1> QED BY <1>14, <1>17 DEF New

-----------------------------------------------------------------------------
(* Induction and recursion over a tree.                                    *)

\* A set of naturals has a least member.
LEMMA LeastNumber ==
    ASSUME NEW S, S \subseteq Nat, S # {}
    PROVE  \E x \in S : \A y \in S : x <= y
<1> DEFINE LessThan == {ss \in Nat \X Nat : ss[1] < ss[2]}
<1>1. IsWellFoundedOn(LessThan, Nat)
  BY NatLessThanWellFounded DEF OpToRel
<1>2. PICK x \in S : \A y \in S : <<y, x>> \notin LessThan
  BY <1>1, WFMin
<1>3. ASSUME NEW y \in S PROVE x <= y
  <2>1. <<y, x>> \in Nat \X Nat /\ <<y, x>>[1] = y /\ <<y, x>>[2] = x
    OBVIOUS
  <2> QED BY <1>2, <2>1
<1> QED BY <1>3

\* Some member of a set has the least number.
LEMMA LeastMember ==
    ASSUME NEW S, S # {}, NEW f \in [S -> Nat]
    PROVE  \E x \in S : \A y \in S : f[x] <= f[y]
<1> DEFINE V == {f[x] : x \in S}
<1>1. PICK v \in V : \A w \in V : v <= w
  <2>1. V \subseteq Nat /\ V # {}
    OBVIOUS
  <2> HIDE DEF V
  <2> QED BY <2>1, LeastNumber
<1> QED BY <1>1

\* A smaller subtree has fewer nodes.
LEMMA StrictlyFewer ==
    ASSUME NEW A, NEW B, A \subseteq B, A # B, IsFiniteSet(B)
    PROVE  Cardinality(A) \in Nat /\ Cardinality(B) \in Nat /\ Cardinality(A) < Cardinality(B)
<1>1. IsFiniteSet(A) /\ Cardinality(A) <= Cardinality(B) /\ (Cardinality(B) = Cardinality(A) => B = A)
  BY FS_Subset
<1> QED BY <1>1, FS_CardinalityType

\* What holds of a node when it holds of its children holds of all nodes.
LEMMA TreeInduction ==
    ASSUME NEW lc, NEW rc, NEW pa, NEW r, NEW L, NEW sub, NEW lt,
           SearchTree(lc, rc, pa, r, L, sub, lt), IsFiniteSet(L), NEW S,
           \A n \in L : (lc[n] # NULL => lc[n] \in S) /\ (rc[n] # NULL => rc[n] \in S) => n \in S
    PROVE  L \subseteq S
<1> SUFFICES ASSUME L \ S # {} PROVE FALSE
  OBVIOUS
<1> DEFINE f == [n \in L \ S |-> Cardinality(sub[n])]
<1>1. \A n \in L : /\ IsFiniteSet(sub[n]) /\ sub[n] \subseteq L /\ Cardinality(sub[n]) \in Nat
  <2> TAKE n \in L
  <2>1. sub[n] \subseteq L
    BY DEF SearchTree, Tree
  <2> QED BY <2>1, FS_Subset, FS_CardinalityType
<1>2. f \in [L \ S -> Nat]
  BY <1>1
<1>3. PICK n \in L \ S : \A m \in L \ S : f[n] <= f[m]
  <2> HIDE DEF f
  <2> QED BY <1>2, LeastMember
<1>4. PICK m \in L \ S : m \in {lc[n], rc[n]}
  BY DEF SearchTree, Tree
<1>5. sub[m] \subseteq sub[n] /\ sub[m] # sub[n]
  <2>1. n \notin sub[lc[n]] /\ n \notin sub[rc[n]]
    BY Branches
  <2>2. sub[n] = {n} \cup sub[lc[n]] \cup sub[rc[n]]
    BY DEF SearchTree, Tree
  <2> QED BY <2>1, <2>2, <1>4
<1>6. Cardinality(sub[m]) < Cardinality(sub[n]) /\ Cardinality(sub[m]) \in Nat /\ Cardinality(sub[n]) \in Nat
  BY <1>1, <1>5, StrictlyFewer
<1> QED BY <1>3, <1>4, <1>6

\* The nodes below a node of a subtree are in it.
LEMMA Closed ==
    ASSUME NEW lc, NEW rc, NEW pa, NEW r, NEW L, NEW sub, NEW lt,
           SearchTree(lc, rc, pa, r, L, sub, lt), IsFiniteSet(L),
           NEW n \in L \cup {NULL}, NEW m \in sub[n]
    PROVE  m \in L /\ m \in sub[m] /\ sub[m] \subseteq sub[n]
<1> DEFINE S == {k \in L : \A j \in sub[k] : j \in sub[j] /\ sub[j] \subseteq sub[k]}
<1>1. ASSUME NEW k \in L, lc[k] # NULL => lc[k] \in S, rc[k] # NULL => rc[k] \in S
      PROVE  k \in S
  <2>1. sub[k] = {k} \cup sub[lc[k]] \cup sub[rc[k]] /\ sub[NULL] = {}
    BY DEF SearchTree, Tree
  <2>2. ASSUME NEW j \in sub[k] PROVE j \in sub[j] /\ sub[j] \subseteq sub[k]
    <3>1. CASE j = k
      BY <2>1, <3>1
    <3>2. CASE j \in sub[lc[k]]
      BY <2>1, <3>2, <1>1
    <3>3. CASE j \in sub[rc[k]]
      BY <2>1, <3>3, <1>1
    <3> QED BY <2>1, <2>2, <3>1, <3>2, <3>3
  <2> QED BY <2>2
<1>2. L \subseteq S
  <2> HIDE DEF S
  <2> QED BY <1>1, TreeInduction
<1>3. n \in L /\ m \in L
  BY DEF SearchTree, Tree
<1> QED BY <1>2, <1>3

\* The same, towards the root.
LEMMA ClimbInduction ==
    ASSUME NEW lc, NEW rc, NEW pa, NEW r, NEW L, NEW sub, NEW lt,
           SearchTree(lc, rc, pa, r, L, sub, lt), IsFiniteSet(L), NEW S,
           \A n \in L : (pa[n] # NULL => pa[n] \in S) => n \in S
    PROVE  L \subseteq S
<1> DEFINE T == {n \in L : n \in S => sub[n] \subseteq S}
<1>1. ASSUME NEW n \in L, lc[n] # NULL => lc[n] \in T, rc[n] # NULL => rc[n] \in T
      PROVE  n \in T
  <2>1. /\ sub[n] = {n} \cup sub[lc[n]] \cup sub[rc[n]] /\ sub[NULL] = {}
        /\ lc[n] # NULL => pa[lc[n]] = n /\ lc[n] \in L
        /\ rc[n] # NULL => pa[rc[n]] = n /\ rc[n] \in L
    BY DEF SearchTree, Tree
  <2> SUFFICES ASSUME n \in S PROVE sub[n] \subseteq S
    OBVIOUS
  <2>2. lc[n] # NULL => lc[n] \in S
    BY <2>1
  <2>3. rc[n] # NULL => rc[n] \in S
    BY <2>1
  <2> QED BY <1>1, <2>1, <2>2, <2>3
<1>2. L \subseteq T
  <2> HIDE DEF T
  <2> QED BY <1>1, TreeInduction
<1>3. CASE r = NULL
  BY <1>3 DEF SearchTree, Tree
<1>4. CASE r # NULL
  <2>1. r \in L /\ pa[r] = NULL /\ sub[r] = L
    BY <1>4 DEF SearchTree, Tree
  <2> QED BY <2>1, <1>2
<1> QED BY <1>3, <1>4

\* f is defined by recursion over the tree.
Recursive(f, lc, rc, L, V, nil, g) ==
    /\ f \in [L \cup {NULL} -> V] /\ f[NULL] = nil
    /\ \A n \in L : f[n] = g[n][f[lc[n]]][f[rc[n]]]

\* There are such functions.
LEMMA TreeRecursion ==
    ASSUME NEW lc, NEW rc, NEW pa, NEW r, NEW L, NEW sub, NEW lt,
           SearchTree(lc, rc, pa, r, L, sub, lt), IsFiniteSet(L),
           NEW V, NEW nil \in V, NEW g \in [L -> [V -> [V -> V]]]
    PROVE  \E f : Recursive(f, lc, rc, L, V, nil, g)
<1> DEFINE Solves(f, A) == /\ f \in [A \cup {NULL} -> V] /\ f[NULL] = nil
                           /\ \A n \in A : f[n] = g[n][f[lc[n]]][f[rc[n]]]
           S == {n \in L : \E f : Solves(f, sub[n])}
<1>0. /\ NULL \notin L /\ sub[NULL] = {} /\ sub[r] = L /\ r \in L \cup {NULL}
      /\ \A n \in L : /\ sub[n] = {n} \cup sub[lc[n]] \cup sub[rc[n]]
                      /\ sub[n] \subseteq L
                      /\ lc[n] \in L \cup {NULL} /\ rc[n] \in L \cup {NULL}
  BY DEF SearchTree, Tree
<1>1. Solves([x \in {NULL} |-> nil], {})
  OBVIOUS
<1>2. ASSUME NEW n \in L, lc[n] # NULL => lc[n] \in S, rc[n] # NULL => rc[n] \in S
      PROVE  n \in S
  <2>1. PICK fl : Solves(fl, sub[lc[n]])
    <3>1. CASE lc[n] = NULL
      BY <1>1, <3>1, <1>0
    <3>2. CASE lc[n] # NULL
      BY <3>2, <1>2
    <3> QED BY <3>1, <3>2
  <2>2. PICK fr : Solves(fr, sub[rc[n]])
    <3>1. CASE rc[n] = NULL
      BY <1>1, <3>1, <1>0
    <3>2. CASE rc[n] # NULL
      BY <3>2, <1>2
    <3> QED BY <3>1, <3>2
  <2> DEFINE A == sub[lc[n]]
             B == sub[rc[n]]
             f == [x \in sub[n] \cup {NULL} |->
                     IF x \in A THEN fl[x] ELSE IF x \in B THEN fr[x]
                     ELSE IF x = n THEN g[n][fl[lc[n]]][fr[rc[n]]] ELSE nil]
  <2>3. /\ sub[n] = {n} \cup A \cup B /\ n \notin A /\ n \notin B /\ A \cap B = {}
        /\ NULL \notin A /\ NULL \notin B /\ NULL # n
        /\ A \subseteq L /\ B \subseteq L
        /\ lc[n] \in A \cup {NULL} /\ rc[n] \in B \cup {NULL}
    <3>1. n \notin A /\ n \notin B /\ A \cap B = {}
      BY Branches
    <3>2. (lc[n] # NULL => lc[n] \in A) /\ (rc[n] # NULL => rc[n] \in B)
      BY Branches
    <3> QED BY <3>1, <3>2, <1>0
  <2>4. \A x \in A : lc[x] \in A \cup {NULL} /\ rc[x] \in A \cup {NULL}
    <3> SUFFICES ASSUME NEW x \in A PROVE lc[x] \in A \cup {NULL} /\ rc[x] \in A \cup {NULL}
      OBVIOUS
    <3>1. x \in L /\ sub[x] \subseteq A
      BY <1>0, Closed
    <3>2. (lc[x] # NULL => lc[x] \in sub[lc[x]]) /\ (rc[x] # NULL => rc[x] \in sub[rc[x]])
      BY <3>1, Branches
    <3> QED BY <3>1, <3>2, <1>0
  <2>5. \A x \in B : lc[x] \in B \cup {NULL} /\ rc[x] \in B \cup {NULL}
    <3> SUFFICES ASSUME NEW x \in B PROVE lc[x] \in B \cup {NULL} /\ rc[x] \in B \cup {NULL}
      OBVIOUS
    <3>1. x \in L /\ sub[x] \subseteq B
      BY <1>0, Closed
    <3>2. (lc[x] # NULL => lc[x] \in sub[lc[x]]) /\ (rc[x] # NULL => rc[x] \in sub[rc[x]])
      BY <3>1, Branches
    <3> QED BY <3>1, <3>2, <1>0
  <2>6. /\ \A x \in A \cup {NULL} : f[x] = fl[x]
        /\ \A x \in B \cup {NULL} : f[x] = fr[x]
        /\ f[n] = g[n][fl[lc[n]]][fr[rc[n]]]
    BY <2>1, <2>2, <2>3
  <2>7. \A x \in A \cup {NULL} : fl[x] \in V
    BY <2>1
  <2>8. \A x \in B \cup {NULL} : fr[x] \in V
    BY <2>2
  <2>9. g[n][fl[lc[n]]][fr[rc[n]]] \in V
    BY <2>3, <2>7, <2>8
  <2>10. f \in [sub[n] \cup {NULL} -> V]
    BY <2>3, <2>7, <2>8, <2>9
  <2> HIDE DEF f
  <2>11. \A x \in sub[n] : f[x] = g[x][f[lc[x]]][f[rc[x]]]
    <3> SUFFICES ASSUME NEW x \in sub[n] PROVE f[x] = g[x][f[lc[x]]][f[rc[x]]]
      OBVIOUS
    <3>1. CASE x \in A
      BY <3>1, <2>1, <2>4, <2>6
    <3>2. CASE x \in B
      BY <3>2, <2>2, <2>5, <2>6
    <3>3. CASE x = n
      BY <3>3, <2>3, <2>6
    <3> QED BY <3>1, <3>2, <3>3, <2>3
  <2>12. Solves(f, sub[n])
    BY <2>1, <2>6, <2>10, <2>11
  <2> HIDE DEF Solves
  <2> QED BY <2>12
<1>3. L \subseteq S
  <2> HIDE DEF S
  <2> QED BY <1>2, TreeInduction
<1>4. PICK f : Solves(f, L)
  <2> HIDE DEF Solves
  <2>1. CASE r = NULL
    BY <1>0, <1>1, <2>1
  <2>2. CASE r # NULL
    BY <1>0, <1>3, <2>2
  <2> QED BY <2>1, <2>2
<1> QED BY <1>4 DEF Recursive

-----------------------------------------------------------------------------
(* Where avl_insert() puts a new node.                                     *)

\* The search for the place of n from node q on: to the left if n is before q.
Towards(lc, rc, lt, q, n) == IF <<n, q>> \in lt THEN lc[q] ELSE rc[q]

\* n belongs below p, as far as the nodes of the subtree of q can tell.
Belongs(lc, rc, sub, lt, p, q, n) ==
    /\ p \in sub[q] /\ Towards(lc, rc, lt, p, n) = NULL
    /\ \A m \in sub[q] : (p \in sub[lc[m]] => <<n, m>> \in lt) /\ (p \in sub[rc[m]] => <<n, m>> \notin lt)

\* It does if the rest of the search says so.
LEMMA BelongsAbove ==
    ASSUME NEW lc, NEW rc, NEW pa, NEW r, NEW L, NEW sub, NEW lt,
           SearchTree(lc, rc, pa, r, L, sub, lt), IsFiniteSet(L), NEW n, NEW q \in L,
           Towards(lc, rc, lt, q, n) # NULL, NEW p
    PROVE  Belongs(lc, rc, sub, lt, p, q, n) <=> Belongs(lc, rc, sub, lt, p, Towards(lc, rc, lt, q, n), n)
<1> DEFINE d == Towards(lc, rc, lt, q, n)
           o == IF <<n, q>> \in lt THEN rc[q] ELSE lc[q]
<1>1. /\ sub[q] = {q} \cup sub[d] \cup sub[o]
      /\ q \notin sub[d] /\ q \notin sub[o] /\ sub[d] \cap sub[o] = {}
      /\ d \in L /\ o \in L \cup {NULL} /\ q # NULL
  <2>1. q \notin sub[lc[q]] /\ q \notin sub[rc[q]] /\ sub[lc[q]] \cap sub[rc[q]] = {}
    BY Branches
  <2> QED BY <2>1 DEF SearchTree, Tree, Towards
<1>2. \A m \in sub[o] : m \in L /\ sub[lc[m]] \subseteq sub[o] /\ sub[rc[m]] \subseteq sub[o]
  <2> TAKE m \in sub[o]
  <2>1. m \in L /\ sub[m] \subseteq sub[o]
    BY <1>1, Closed
  <2> QED BY <2>1 DEF SearchTree, Tree
<1>3. ASSUME Belongs(lc, rc, sub, lt, p, q, n)
      PROVE  Belongs(lc, rc, sub, lt, p, d, n)
  <2>1. p # q
    BY <1>3 DEF Belongs
  <2>2. p \notin sub[o]
    BY <1>3, <1>1 DEF Belongs, Towards
  <2> QED BY <2>1, <2>2, <1>1, <1>3 DEF Belongs
<1>4. ASSUME Belongs(lc, rc, sub, lt, p, d, n)
      PROVE  Belongs(lc, rc, sub, lt, p, q, n)
  <2>1. p \in sub[d] /\ p \in sub[q] /\ p \notin sub[o]
    BY <1>1, <1>4 DEF Belongs
  <2>2. (p \in sub[lc[q]] => <<n, q>> \in lt) /\ (p \in sub[rc[q]] => <<n, q>> \notin lt)
    BY <2>1 DEF Towards
  <2>3. \A m \in sub[o] : p \notin sub[lc[m]] /\ p \notin sub[rc[m]]
    BY <2>1, <1>2
  <2> QED BY <2>1, <2>2, <2>3, <1>1, <1>4 DEF Belongs
<1> QED BY <1>3, <1>4

\* Where the search for the place of n ends, there is room for it.
LEMMA BelongsHere ==
    ASSUME NEW lc, NEW rc, NEW pa, NEW r, NEW L, NEW sub, NEW lt,
           SearchTree(lc, rc, pa, r, L, sub, lt), IsFiniteSet(L), NEW n, NEW q \in L,
           Towards(lc, rc, lt, q, n) = NULL
    PROVE  Belongs(lc, rc, sub, lt, q, q, n)
<1>1. q \in sub[q] /\ sub[NULL] = {}
  BY DEF SearchTree, Tree
<1>2. ASSUME NEW m \in sub[q], q \in sub[lc[m]] \/ q \in sub[rc[m]]
      PROVE  FALSE
  <2>1. m \in L /\ sub[m] \subseteq sub[q]
    BY Closed
  <2>2. lc[m] \in L \cup {NULL} /\ rc[m] \in L \cup {NULL}
    BY <2>1 DEF SearchTree, Tree
  <2>3. sub[q] \subseteq sub[lc[m]] \/ sub[q] \subseteq sub[rc[m]]
    BY <2>2, <1>2, Closed
  <2>4. m \notin sub[lc[m]] /\ m \notin sub[rc[m]]
    BY <2>1, Branches
  <2> QED BY <2>3, <2>4
<1> QED BY <1>1, <1>2 DEF Belongs

\* The search ends where n belongs.
LEMMA SearchEnds ==
    ASSUME NEW lc, NEW rc, NEW pa, NEW r, NEW L, NEW sub, NEW lt,
           SearchTree(lc, rc, pa, r, L, sub, lt), IsFiniteSet(L), NEW n,
           NEW under, under = CHOOSE f : f = [q \in L |->
              IF Towards(lc, rc, lt, q, n) = NULL THEN q ELSE f[Towards(lc, rc, lt, q, n)]],
           NEW q \in L
    PROVE  Belongs(lc, rc, sub, lt, under[q], q, n)
<1> DEFINE To(k) == Towards(lc, rc, lt, k, n)
           Is(p, k) == Belongs(lc, rc, sub, lt, p, k, n)
           Solves(f) == f = [k \in L |-> IF To(k) = NULL THEN k ELSE f[To(k)]]
           S == {k \in L : \E p : Is(p, k)}
           h == [k \in L |-> CHOOSE p : Is(p, k)]
<1>1. \A k \in L : To(k) = NULL \/ (To(k) \in L /\ To(k) \in {lc[k], rc[k]})
  BY DEF SearchTree, Tree, Towards
<1>2. \A k \in L : To(k) = NULL => Is(k, k)
  BY BelongsHere
<1>3. \A k \in L : To(k) # NULL => \A p : Is(p, k) <=> Is(p, To(k))
  BY BelongsAbove
<1>4. \A k \in L : To(k) = NULL => \A p : Is(p, k) => p = k
  <2> SUFFICES ASSUME NEW k \in L, To(k) = NULL, NEW p, Is(p, k), p # k PROVE FALSE
    OBVIOUS
  <2>1. k \in sub[k] /\ sub[k] = {k} \cup sub[lc[k]] \cup sub[rc[k]] /\ sub[NULL] = {}
    BY DEF SearchTree, Tree
  <2> QED BY <2>1 DEF Belongs, Towards
<1> HIDE DEF To, Is
<1>5. L \subseteq S
  <2>1. ASSUME NEW k \in L, lc[k] # NULL => lc[k] \in S, rc[k] # NULL => rc[k] \in S
        PROVE  k \in S
    BY <2>1, <1>1, <1>2, <1>3
  <2> HIDE DEF S
  <2> QED BY <2>1, TreeInduction
<1>6. Solves(h)
  <2>1. ASSUME NEW k \in L, To(k) = NULL PROVE h[k] = k
    BY <2>1, <1>2, <1>4
  <2>2. ASSUME NEW k \in L, To(k) # NULL PROVE h[k] = h[To(k)]
    <3>1. \A p : Is(p, k) <=> Is(p, To(k))
      BY <2>2, <1>3
    <3>2. (CHOOSE p : Is(p, k)) = (CHOOSE p : Is(p, To(k)))
      BY <3>1
    <3>3. To(k) \in L
      BY <2>2, <1>1
    <3>4. h[k] = (CHOOSE p : Is(p, k)) /\ h[To(k)] = (CHOOSE p : Is(p, To(k)))
      BY <3>3
    <3> QED BY <3>2, <3>4
  <2> QED BY <2>1, <2>2
<1>7. Solves(under)
  <2>1. under = CHOOSE f : Solves(f)
    BY DEF To
  <2> HIDE DEF Solves
  <2> QED BY <2>1, <1>6
<1> DEFINE T == {k \in L : Is(under[k], k)}
<1>8. ASSUME NEW k \in L, lc[k] # NULL => lc[k] \in T, rc[k] # NULL => rc[k] \in T
      PROVE  k \in T
  <2>1. CASE To(k) = NULL
    BY <2>1, <1>2, <1>7
  <2>2. CASE To(k) # NULL
    <3>1. under[k] = under[To(k)]
      BY <2>2, <1>7
    <3>2. Is(under[k], To(k))
      BY <3>1, <2>2, <1>1, <1>8
    <3> QED BY <3>2, <2>2, <1>3
  <2> QED BY <2>1, <2>2
<1>9. L \subseteq T
  <2> HIDE DEF T
  <2> QED BY <1>8, TreeInduction
<1> QED BY <1>9 DEF Is

\* What it means for the tree: there is room on one of the sides of p.
LEMMA RoomThere ==
    ASSUME NEW lc, NEW rc, NEW pa, NEW r, NEW L, NEW sub, NEW lt \in SUBSET (Names \X Names),
           SearchTree(lc, rc, pa, r, L, sub, lt), NEW n, n \notin L, Order(lt, L \cup {n}),
           NEW p, Belongs(lc, rc, sub, lt, p, r, n)
    PROVE  /\ p \in L
           /\ <<n, p>> \in lt => RoomAtLeft(lc, rc, L, sub, lt, p, n)
           /\ <<n, p>> \notin lt => RoomAtLeft(rc, lc, L, sub, Mirror(lt), p, n)
<1>1. sub[r] = L /\ p \in L
  BY DEF SearchTree, Tree, Belongs
<1>2. \A m \in L : <<n, m>> \notin lt => <<m, n>> \in lt
  BY DEF Order
<1>3. \A m \in L : /\ p \in sub[lc[m]] => <<n, m>> \in lt
                   /\ p \in sub[rc[m]] => <<m, n>> \in lt
  BY <1>1, <1>2 DEF Belongs
<1>4. ASSUME <<n, p>> \in lt PROVE RoomAtLeft(lc, rc, L, sub, lt, p, n)
  BY <1>1, <1>3, <1>4 DEF RoomAtLeft, Belongs, Towards
<1>5. ASSUME <<n, p>> \notin lt PROVE RoomAtLeft(rc, lc, L, sub, Mirror(lt), p, n)
  <2>1. \A a, b : <<a, b>> \in Mirror(lt) <=> <<b, a>> \in lt
    BY MirrorIs
  <2>2. rc[p] = NULL /\ <<p, n>> \in lt
    BY <1>1, <1>2, <1>5 DEF Belongs, Towards
  <2> QED BY <2>1, <2>2, <1>1, <1>3 DEF RoomAtLeft
<1> QED BY <1>1, <1>4, <1>5

-----------------------------------------------------------------------------
(* The successor of a node with two children.                              *)

\* The leftmost node of each subtree, as avl_del() looks for it.
Leftmost(lc, L) == CHOOSE f : f = [q \in L |-> IF lc[q] = NULL THEN q ELSE f[lc[q]]]

\* The leftmost node of a subtree is the first in the order.
LEMMA LeftmostIs ==
    ASSUME NEW lc, NEW rc, NEW pa, NEW r, NEW L, NEW sub, NEW lt,
           SearchTree(lc, rc, pa, r, L, sub, lt), IsFiniteSet(L),
           NEW first, first = Leftmost(lc, L),
           NEW q \in L
    PROVE  /\ first[q] \in sub[q] /\ lc[first[q]] = NULL
           /\ \A m \in sub[q] : m = first[q] \/ <<first[q], m>> \in lt
<1> DEFINE Solves(f) == f = [k \in L |-> IF lc[k] = NULL THEN k ELSE f[lc[k]]]
           Is(p, k) == /\ p \in sub[k] /\ lc[p] = NULL
                       /\ \A m \in sub[k] : m = p \/ <<p, m>> \in lt
           g == [k \in L |-> [a \in L \cup {NULL} |-> [b \in L \cup {NULL} |->
                   IF lc[k] = NULL THEN k ELSE a]]]
           T == {k \in L : Is(first[k], k)}
<1>1. NULL \notin L /\ \A k \in L : lc[k] \in L \cup {NULL}
  BY DEF SearchTree, Tree
<1>2. PICK f : Recursive(f, lc, rc, L, L \cup {NULL}, NULL, g)
  <2>1. g \in [L -> [L \cup {NULL} -> [L \cup {NULL} -> L \cup {NULL}]]]
    BY <1>1
  <2> HIDE DEF g
  <2>2. NULL \in L \cup {NULL}
    OBVIOUS
  <2> QED BY <2>1, <2>2, TreeRecursion
<1>3. Solves([k \in L |-> f[k]])
  <2> DEFINE h == [k \in L |-> f[k]]
  <2>1. ASSUME NEW k \in L PROVE h[k] = IF lc[k] = NULL THEN k ELSE h[lc[k]]
    <3>1. f[lc[k]] \in L \cup {NULL} /\ f[rc[k]] \in L \cup {NULL}
      BY <1>1, <1>2 DEF SearchTree, Tree, Recursive
    <3>2. f[k] = IF lc[k] = NULL THEN k ELSE f[lc[k]]
      BY <3>1, <1>2 DEF Recursive
    <3> QED BY <3>2, <1>1
  <2> QED BY <2>1
<1>4. Solves(first)
  <2> HIDE DEF Solves
  <2>1. first = CHOOSE f2 : Solves(f2)
    BY DEF Solves, Leftmost
  <2> QED BY <2>1, <1>3
<1>5. ASSUME NEW k \in L, lc[k] # NULL => lc[k] \in T, rc[k] # NULL => rc[k] \in T
      PROVE  k \in T
  <2>1. sub[k] = {k} \cup sub[lc[k]] \cup sub[rc[k]] /\ sub[NULL] = {} /\ sub[k] \subseteq L
    BY DEF SearchTree, Tree
  <2>2. /\ \A m \in sub[lc[k]] : <<m, k>> \in lt
        /\ \A m \in sub[rc[k]] : <<k, m>> \in lt
        /\ \A a, b, c \in L : <<a, b>> \in lt /\ <<b, c>> \in lt => <<a, c>> \in lt
    BY DEF SearchTree, Sorted, Order
  <2>3. CASE lc[k] = NULL
    BY <2>1, <2>2, <2>3, <1>4
  <2>4. CASE lc[k] # NULL
    <3>1. first[k] = first[lc[k]] /\ Is(first[k], lc[k])
      BY <2>4, <1>4, <1>5
    <3>2. first[k] \in sub[k] /\ lc[first[k]] = NULL /\ first[k] \in L /\ <<first[k], k>> \in lt
      BY <3>1, <2>1, <2>2
    <3>3. ASSUME NEW m \in sub[k] PROVE m = first[k] \/ <<first[k], m>> \in lt
      <4>1. CASE m \in sub[lc[k]]
        BY <4>1, <3>1
      <4>2. CASE m = k
        BY <4>2, <3>2
      <4>3. CASE m \in sub[rc[k]]
        BY <4>3, <3>2, <2>1, <2>2
      <4> QED BY <4>1, <4>2, <4>3, <2>1
    <3> QED BY <3>2, <3>3
  <2> QED BY <2>3, <2>4
<1>6. L \subseteq T
  <2> HIDE DEF T
  <2> QED BY <1>5, TreeInduction
<1> QED BY <1>6

-----------------------------------------------------------------------------
(* More about an iteration of avl_fix().                                   *)

\* The height and the count that n has do not matter to it.
LEMMA Unmoved ==
    ASSUME NEW lc, NEW rc, NEW pa, NEW r, NEW L, NEW sub, NEW lt,
           SearchTree(lc, rc, pa, r, L, sub, lt), NEW n \in L,
           NEW ht, NEW ct, Unsettled(lc, rc, pa, ht, ct, L, n),
           NEW ht2, NEW ct2, Measures(ht2, ct2, L),
           \A m \in L \cup {NULL} : m # n => ht2[m] = ht[m] /\ ct2[m] = ct[m]
    PROVE  Unsettled(lc, rc, pa, ht2, ct2, L, n)
<1>0. /\ n # NULL /\ lc[n] \in L \cup {NULL} /\ rc[n] \in L \cup {NULL} /\ pa[n] \in L \cup {NULL}
      /\ NULL \notin L
  BY DEF SearchTree, Tree
<1>1. lc[n] # n /\ rc[n] # n /\ pa[n] # n
  <2>1. n \in sub[n]
    BY DEF SearchTree, Tree
  <2>2. /\ lc[n] # NULL => lc[n] # n
        /\ rc[n] # NULL => rc[n] # n
        /\ pa[n] # NULL => pa[n] \notin sub[n]
    BY Branches
  <2> QED BY <2>1, <2>2, <1>0
<1>2. \A m \in L : lc[m] = n \/ rc[m] = n => m = pa[n]
  BY <1>0 DEF SearchTree, Tree
<1>3. ASSUME NEW m \in L, m # n, m # pa[n]
      PROVE  FitsAt(lc, rc, ht2, ct2, m)
  <2>1. FitsAt(lc, rc, ht, ct, m)
    BY <1>3, <1>0 DEF Unsettled
  <2>2. lc[m] \in L \cup {NULL} /\ rc[m] \in L \cup {NULL} /\ lc[m] # n /\ rc[m] # n
    BY <1>3, <1>2 DEF SearchTree, Tree
  <2> QED BY <2>1, <2>2, <1>3 DEF FitsAt, CountedAt
<1>4. PICK h \in Nat : Expects(lc, rc, pa, ht, n, h) /\ Near(h, ht[lc[n]], ht[rc[n]])
  BY <1>0 DEF Unsettled
<1>5. Expects(lc, rc, pa, ht2, n, h)
  <2> DEFINE p == pa[n]
  <2> SUFFICES ASSUME p # NULL
               PROVE  /\ lc[p] = n => Level(h, ht2[rc[p]]) /\ ht2[p] = 1 + max(h, ht2[rc[p]])
                      /\ rc[p] = n => Level(ht2[lc[p]], h) /\ ht2[p] = 1 + max(ht2[lc[p]], h)
    BY DEF Expects
  <2>1. p \in L /\ p # n /\ lc[p] \in L \cup {NULL} /\ rc[p] \in L \cup {NULL}
    BY <1>0, <1>1 DEF SearchTree, Tree
  <2>2. lc[p] = n => rc[p] # n
    BY Branches
  <2>3. /\ lc[p] = n => Level(h, ht[rc[p]]) /\ ht[p] = 1 + max(h, ht[rc[p]])
        /\ rc[p] = n => Level(ht[lc[p]], h) /\ ht[p] = 1 + max(ht[lc[p]], h)
    BY <1>4 DEF Expects
  <2> QED BY <2>1, <2>2, <2>3
<1>6. Near(h, ht2[lc[n]], ht2[rc[n]])
  BY <1>0, <1>1, <1>4
<1> QED BY <1>0, <1>3, <1>5, <1>6 DEF Unsettled

\* The mirror image of a tree that settles from x on settles from x on.
LEMMA UnsettledMirrored ==
    ASSUME NEW lc, NEW rc, NEW pa, NEW r, NEW L, NEW sub, NEW lt,
           SearchTree(lc, rc, pa, r, L, sub, lt), NEW n \in L \cup {NULL},
           NEW ht, NEW ct, Unsettled(lc, rc, pa, ht, ct, L, n)
    PROVE  Unsettled(rc, lc, pa, ht, ct, L, n)
<1>1. Measures(ht, ct, L)
  BY DEF Unsettled
<1>2. \A m \in L : /\ lc[m] \in L \cup {NULL} /\ rc[m] \in L \cup {NULL} /\ pa[m] \in L \cup {NULL}
                   /\ ht[lc[m]] \in Nat /\ ht[rc[m]] \in Nat /\ ct[lc[m]] \in Nat /\ ct[rc[m]] \in Nat
  BY <1>1 DEF SearchTree, Tree, Measures
<1>3. \A m \in L : FitsAt(lc, rc, ht, ct, m) => FitsAt(rc, lc, ht, ct, m)
  BY <1>2 DEF FitsAt, CountedAt, Level, max
<1>4. ASSUME n # NULL
      PROVE  \E h \in Nat : Expects(rc, lc, pa, ht, n, h) /\ Near(h, ht[rc[n]], ht[lc[n]])
  <2>1. PICK h \in Nat : Expects(lc, rc, pa, ht, n, h) /\ Near(h, ht[lc[n]], ht[rc[n]])
    BY <1>4 DEF Unsettled
  <2>2. Near(h, ht[rc[n]], ht[lc[n]])
    BY <2>1, <1>2, <1>4 DEF Near, Level, max
  <2>3. Expects(rc, lc, pa, ht, n, h)
    <3> DEFINE p == pa[n]
    <3> SUFFICES ASSUME p # NULL
                 PROVE  /\ rc[p] = n => Level(h, ht[lc[p]]) /\ ht[p] = 1 + max(h, ht[lc[p]])
                        /\ lc[p] = n => Level(ht[rc[p]], h) /\ ht[p] = 1 + max(ht[rc[p]], h)
      BY DEF Expects
    <3>1. /\ lc[p] = n => Level(h, ht[rc[p]]) /\ ht[p] = 1 + max(h, ht[rc[p]])
          /\ rc[p] = n => Level(ht[lc[p]], h) /\ ht[p] = 1 + max(ht[lc[p]], h)
      BY <2>1 DEF Expects
    <3>2. ht[lc[p]] \in Nat /\ ht[rc[p]] \in Nat
      BY <1>2, <1>4
    <3> QED BY <3>1, <3>2 DEF Level, max
  <2> QED BY <2>2, <2>3
<1> QED BY <1>1, <1>3, <1>4 DEF Unsettled

-----------------------------------------------------------------------------
(* Trees in the memory of avl.cpp.                                         *)

\* A memory of nodes in which those of L are.
Memory(t, L) ==
    /\ t = [n \in Names |-> t[n]]
    /\ L \subseteq Names
    /\ \A n \in L : t[n] \in AVLNodes

\* u is t but for the node n.
Elsewhere(t, u, L, n) == Memory(u, L) /\ \A m \in Names : m # n => u[m] = t[m]

PutLeft(t, n, c) == [t EXCEPT ![n].left = c]
PutRight(t, n, c) == [t EXCEPT ![n].right = c]
PutParent(t, n, c) == [t EXCEPT ![n].parent = c]
PutMeasures(t, n, h, k) == [t EXCEPT ![n].height = h, ![n].cnt = k]

\* What an assignment to one field of one node leaves alone.
LEMMA PutLeftIs ==
    ASSUME NEW t, NEW L, Memory(t, L), NEW n \in L, NEW c \in Pointers,
           NEW u, u = PutLeft(t, n, c)
    PROVE  /\ Elsewhere(t, u, L, n)
           /\ u[n].left = c /\ u[n].right = t[n].right /\ u[n].parent = t[n].parent
           /\ u[n].height = t[n].height /\ u[n].cnt = t[n].cnt
BY DEF Memory, Elsewhere, AVLNodes, PutLeft

\* The same for the right child.
LEMMA PutRightIs ==
    ASSUME NEW t, NEW L, Memory(t, L), NEW n \in L, NEW c \in Pointers,
           NEW u, u = PutRight(t, n, c)
    PROVE  /\ Elsewhere(t, u, L, n)
           /\ u[n].left = t[n].left /\ u[n].right = c /\ u[n].parent = t[n].parent
           /\ u[n].height = t[n].height /\ u[n].cnt = t[n].cnt
BY DEF Memory, Elsewhere, AVLNodes, PutRight

\* The same for the parent.
LEMMA PutParentIs ==
    ASSUME NEW t, NEW L, Memory(t, L), NEW n \in L, NEW c \in Pointers,
           NEW u, u = PutParent(t, n, c)
    PROVE  /\ Elsewhere(t, u, L, n)
           /\ u[n].left = t[n].left /\ u[n].right = t[n].right /\ u[n].parent = c
           /\ u[n].height = t[n].height /\ u[n].cnt = t[n].cnt
BY DEF Memory, Elsewhere, AVLNodes, PutParent

\* The same for the height and the count.
LEMMA PutMeasuresIs ==
    ASSUME NEW t, NEW L, Memory(t, L), NEW n \in L, NEW h \in Nat, NEW k \in Nat,
           NEW u, u = PutMeasures(t, n, h, k)
    PROVE  /\ Elsewhere(t, u, L, n)
           /\ u[n].left = t[n].left /\ u[n].right = t[n].right /\ u[n].parent = t[n].parent
           /\ u[n].height = h /\ u[n].cnt = k
<1> DEFINE v == [t EXCEPT ![n].height = h]
<1>1. /\ Memory(v, L) /\ \A m \in Names : m # n => v[m] = t[m]
      /\ v[n].left = t[n].left /\ v[n].right = t[n].right /\ v[n].parent = t[n].parent
      /\ v[n].height = h
  BY DEF Memory, AVLNodes
<1>2. u = [v EXCEPT ![n].cnt = k]
  BY DEF PutMeasures
<1>3. n \in Names /\ v = [m \in Names |-> v[m]] /\ v[n] \in AVLNodes
  BY <1>1 DEF Memory
<1> HIDE DEF v
<1>4. /\ u = [m \in Names |-> u[m]] /\ u[n] = [v[n] EXCEPT !.cnt = k]
      /\ \A m \in Names : m # n => u[m] = v[m]
  BY <1>2, <1>3
<1> DEFINE e == v[n]
<1>5. /\ u[n] \in AVLNodes /\ u[n].left = e.left /\ u[n].right = e.right /\ u[n].parent = e.parent
      /\ u[n].height = e.height /\ u[n].cnt = k
  <2>1. e \in AVLNodes /\ u[n] = [e EXCEPT !.cnt = k]
    BY <1>3, <1>4
  <2> HIDE DEF e
  <2> QED BY <2>1 DEF AVLNodes
<1>6. Memory(u, L)
  BY <1>1, <1>4, <1>5 DEF Memory
<1> QED BY <1>1, <1>4, <1>5, <1>6 DEF Elsewhere

\* A child, if there is one, is told its parent, and nothing else changes.
LEMMA WithParentIs ==
    ASSUME NEW t, NEW L, Memory(t, L), NEW n \in L \cup {NULL}, NEW c \in Pointers,
           NEW u, u = WithParent(t, n, c)
    PROVE  /\ Elsewhere(t, u, L, n)
           /\ n # NULL => /\ u[n].left = t[n].left /\ u[n].right = t[n].right /\ u[n].parent = c
                          /\ u[n].height = t[n].height /\ u[n].cnt = t[n].cnt
<1>1. CASE n = NULL
  BY <1>1 DEF WithParent, Elsewhere
<1>2. CASE n # NULL
  <2>1. u = PutParent(t, n, c) /\ n \in L
    BY <1>2 DEF WithParent, PutParent
  <2> QED BY <2>1, PutParentIs
<1> QED BY <1>1, <1>2

\* The fields of the nodes of a tree are nodes of the module, or numbers.
LEMMA NodeShape ==
    ASSUME NEW t, NEW L, Memory(t, L), NEW n \in L
    PROVE  /\ n \in Names /\ n # NULL /\ n \in Pointers /\ NULL \in Pointers
           /\ t[n].left \in Pointers /\ t[n].right \in Pointers /\ t[n].parent \in Pointers
           /\ t[n].height \in Nat /\ t[n].cnt \in Nat
BY TreeAssumption DEF Memory, AVLNodes, Pointers

\* avl_update() of a node whose children are in L.
LEMMA UpdateIs ==
    ASSUME NEW t, NEW L, Memory(t, L), NEW n \in L,
           t[n].left \in L \cup {NULL}, t[n].right \in L \cup {NULL},
           NEW u, u = avl_update(t, n)
    PROVE  /\ Elsewhere(t, u, L, n)
           /\ u[n].left = t[n].left /\ u[n].right = t[n].right /\ u[n].parent = t[n].parent
           /\ u[n].height = 1 + max(avl_height(t, t[n].left), avl_height(t, t[n].right))
           /\ u[n].cnt = 1 + avl_cnt(t, t[n].left) + avl_cnt(t, t[n].right)
<1> DEFINE h == 1 + max(avl_height(t, t[n].left), avl_height(t, t[n].right))
           k == 1 + avl_cnt(t, t[n].left) + avl_cnt(t, t[n].right)
<1>1. \A c \in L \cup {NULL} : avl_height(t, c) \in Nat /\ avl_cnt(t, c) \in Nat
  BY NodeShape DEF avl_height, avl_cnt
<1>2. h \in Nat /\ k \in Nat
  BY <1>1 DEF max
<1>3. u = PutMeasures(t, n, h, k)
  BY DEF avl_update, PutMeasures
<1> HIDE DEF h, k
<1>4. /\ Elsewhere(t, u, L, n)
      /\ u[n].left = t[n].left /\ u[n].right = t[n].right /\ u[n].parent = t[n].parent
      /\ u[n].height = h /\ u[n].cnt = k
  BY <1>2, <1>3, PutMeasuresIs
<1> QED BY <1>4 DEF h, k

\* The links and the measures of the nodes of L.
Lefts(t, L) == [n \in L |-> t[n].left]
Rights(t, L) == [n \in L |-> t[n].right]
Parents(t, L) == [n \in L |-> t[n].parent]
Heights(t, L) == [n \in L \cup {NULL} |-> avl_height(t, n)]
Counts(t, L) == [n \in L \cup {NULL} |-> avl_cnt(t, n)]

\* The functions on a tree are the fields of its nodes.
LEMMA FieldsAre ==
    ASSUME NEW t, NEW L, Memory(t, L)
    PROVE  /\ NULL \notin L
           /\ \A n \in L : /\ Lefts(t, L)[n] = t[n].left /\ Rights(t, L)[n] = t[n].right
                           /\ Parents(t, L)[n] = t[n].parent
                           /\ Heights(t, L)[n] = t[n].height /\ Counts(t, L)[n] = t[n].cnt
           /\ Heights(t, L)[NULL] = 0 /\ Counts(t, L)[NULL] = 0
           /\ \A n \in L \cup {NULL} : Heights(t, L)[n] = avl_height(t, n) /\ Counts(t, L)[n] = avl_cnt(t, n)
           /\ Measures(Heights(t, L), Counts(t, L), L)
<1>1. NULL \notin L
  BY NodeShape
<1>2. \A n \in L : t[n].height \in Nat /\ t[n].cnt \in Nat
  BY NodeShape
<1> QED BY <1>1, <1>2 DEF Lefts, Rights, Parents, Heights, Counts, avl_height, avl_cnt, Measures

\* The memory t holds a search tree of root r.
Links(t, r, L, sub, lt) ==
    Memory(t, L) /\ SearchTree(Lefts(t, L), Rights(t, L), Parents(t, L), r, L, sub, lt)

\* The nodes around n that a rotation deals with are different.
LEMMA Around ==
    ASSUME NEW lc, NEW rc, NEW pa, NEW r, NEW L, NEW sub, NEW lt,
           SearchTree(lc, rc, pa, r, L, sub, lt), NEW n \in L, NEW l, l = lc[n], l # NULL,
           NEW c, c = rc[l], NEW p, p = pa[n]
    PROVE  /\ l \in L /\ c \in L \cup {NULL} /\ p \in L \cup {NULL}
           /\ lc[l] \in L \cup {NULL} /\ rc[n] \in L \cup {NULL}
           /\ l # n /\ c # n /\ c # l /\ p # n /\ p # l /\ (p # NULL => p # c)
           /\ rc[n] # n /\ rc[n] # l /\ lc[l] # l /\ lc[l] # n
           /\ \A m \in L : lc[m] = n \/ rc[m] = n => m = p
           /\ p # NULL => (lc[p] = n \/ rc[p] = n) /\ ~(lc[p] = n /\ rc[p] = n)
<1>1. l \in L /\ p \in L \cup {NULL} /\ n # NULL /\ NULL \notin L /\ rc[n] \in L \cup {NULL}
  BY DEF SearchTree, Tree
<1>2. c \in L \cup {NULL} /\ lc[l] \in L \cup {NULL}
  BY <1>1 DEF SearchTree, Tree
<1>3. /\ sub[n] = {n} \cup sub[l] \cup sub[rc[n]] /\ sub[l] = {l} \cup sub[lc[l]] \cup sub[c]
  BY <1>1 DEF SearchTree, Tree
<1>4. /\ l \in sub[l] /\ l # n /\ l # rc[n] /\ n \notin sub[l] /\ (rc[n] # NULL => rc[n] # n)
      /\ p # NULL => p \notin sub[n] /\ (lc[p] = n => rc[p] # n)
  BY Branches
<1>5. /\ c # NULL => c \in sub[c] /\ c # l
      /\ lc[l] # NULL => lc[l] \in sub[lc[l]] /\ lc[l] # l
  BY <1>1, Branches
<1>6. \A m \in L : lc[m] = n \/ rc[m] = n => m = p
  BY <1>1 DEF SearchTree, Tree
<1>7. p # NULL => lc[p] = n \/ rc[p] = n
  BY DEF SearchTree, Tree
<1> QED BY <1>1, <1>2, <1>3, <1>4, <1>5, <1>6, <1>7

\* The heights and counts a turn leaves, node by node.
RecountedAt(lc, rc, t, u, L, n, l) ==
    LET ht == Heights(t, L)
        ct == Counts(t, L)
    IN  /\ u[n].height = 1 + max(ht[rc[l]], ht[rc[n]])
        /\ u[n].cnt = 1 + ct[rc[l]] + ct[rc[n]]
        /\ u[l].height = 1 + max(ht[lc[l]], u[n].height)
        /\ u[l].cnt = 1 + ct[lc[l]] + u[n].cnt
        /\ \A m \in L \cup {NULL} :
              /\ avl_height(u, m) = IF m = n THEN u[n].height ELSE IF m = l THEN u[l].height ELSE avl_height(t, m)
              /\ avl_cnt(u, m) = IF m = n THEN u[n].cnt ELSE IF m = l THEN u[l].cnt ELSE avl_cnt(t, m)

LEMMA RecountedIs ==
    ASSUME NEW lc, NEW rc, NEW t, NEW u, NEW L, NEW n, NEW l, RecountedAt(lc, rc, t, u, L, n, l)
    PROVE  Recounted(lc, rc, Heights(t, L), Counts(t, L), L, n, l, Heights(u, L), Counts(u, L))
<1> DEFINE ht == Heights(t, L)
           ct == Counts(t, L)
           h == 1 + max(ht[rc[l]], ht[rc[n]])
           k == 1 + ct[rc[l]] + ct[rc[n]]
           hs == [m \in L \cup {NULL} |-> IF m = n THEN h ELSE IF m = l THEN 1 + max(ht[lc[l]], h) ELSE ht[m]]
           cs == [m \in L \cup {NULL} |-> IF m = n THEN k ELSE IF m = l THEN 1 + ct[lc[l]] + k ELSE ct[m]]
<1>0. \A m \in L \cup {NULL} :
         /\ avl_height(u, m) = IF m = n THEN u[n].height ELSE IF m = l THEN u[l].height ELSE avl_height(t, m)
         /\ avl_cnt(u, m) = IF m = n THEN u[n].cnt ELSE IF m = l THEN u[l].cnt ELSE avl_cnt(t, m)
  BY DEF RecountedAt
<1>1. u[n].height = h /\ u[n].cnt = k /\ u[l].height = 1 + max(ht[lc[l]], h) /\ u[l].cnt = 1 + ct[lc[l]] + k
  BY DEF RecountedAt
<1>2. \A m \in L \cup {NULL} : ht[m] = avl_height(t, m) /\ ct[m] = avl_cnt(t, m)
  BY DEF Heights, Counts
<1>3. /\ Heights(u, L) = [m \in L \cup {NULL} |-> avl_height(u, m)]
      /\ Counts(u, L) = [m \in L \cup {NULL} |-> avl_cnt(u, m)]
  BY DEF Heights, Counts
<1> HIDE DEF ht, ct, h, k
<1>4. \A m \in L \cup {NULL} : avl_height(u, m) = hs[m]
  BY <1>0, <1>1, <1>2
<1>5. \A m \in L \cup {NULL} : avl_cnt(u, m) = cs[m]
  BY <1>0, <1>1, <1>2
<1>6. hs = [m \in L \cup {NULL} |-> hs[m]] /\ cs = [m \in L \cup {NULL} |-> cs[m]]
  OBVIOUS
<1> HIDE DEF hs, cs
<1>7. Heights(u, L) = hs
  BY <1>3, <1>4, <1>6
<1>8. Counts(u, L) = cs
  BY <1>3, <1>5, <1>6
<1>9. Recounted(lc, rc, ht, ct, L, n, l, hs, cs)
  BY DEF Recounted, h, k, hs, cs
<1> QED BY <1>7, <1>8, <1>9 DEF ht, ct

\* rot_right() turns the tree at n, and counts n and its new parent again.
LEMMA RotRightIs ==
    ASSUME NEW t, NEW r, NEW L, NEW sub, NEW lt, Links(t, r, L, sub, lt),
           NEW n \in L, NEW l, l = t[n].left, l # NULL,
           NEW w, w = rot_right(t, n),
           NEW u, u = IF t[n].parent = NULL THEN w ELSE WithChild(w, t[n].parent, n, l)
    PROVE  /\ Memory(u, L)
           /\ \A m \in Names \ L : u[m] = t[m]
           /\ w[n].parent = l
           /\ t[n].parent # NULL => w[t[n].parent].left = t[t[n].parent].left
           /\ Turned(Lefts(t, L), Rights(t, L), Parents(t, L), L, n, Lefts(u, L), Rights(u, L), Parents(u, L))
           /\ Recounted(Lefts(t, L), Rights(t, L), Heights(t, L), Counts(t, L), L, n, l, Heights(u, L), Counts(u, L))
<1> DEFINE c == t[l].right
           p == t[n].parent
           d == t[n].right
           a == t[l].left
           u1 == PutLeft(t, n, c)
           u2 == WithParent(u1, c, n)
           u3 == PutParent(u2, l, p)
           u4 == PutRight(u3, l, n)
           u5 == PutParent(u4, n, l)
           u6 == avl_update(u5, n)
<1>0. Memory(t, L) /\ SearchTree(Lefts(t, L), Rights(t, L), Parents(t, L), r, L, sub, lt)
  BY DEF Links
<1>1. /\ l \in L /\ c \in L \cup {NULL} /\ p \in L \cup {NULL} /\ a \in L \cup {NULL} /\ d \in L \cup {NULL}
      /\ l # n /\ c # n /\ c # l /\ p # n /\ p # l /\ (p # NULL => p # c)
      /\ d # n /\ d # l /\ a # l /\ a # n
      /\ \A m \in L : t[m].left = n \/ t[m].right = n => m = p
      /\ p # NULL => (t[p].left = n \/ t[p].right = n) /\ ~(t[p].left = n /\ t[p].right = n)
  <2>1. /\ Lefts(t, L)[n] = l /\ Parents(t, L)[n] = p /\ Rights(t, L)[n] = d
        /\ \A m \in L : Lefts(t, L)[m] = t[m].left /\ Rights(t, L)[m] = t[m].right
    BY <1>0, FieldsAre
  <2>2. l \in L
    BY <2>1, <1>0, Around
  <2>3. Rights(t, L)[l] = c /\ Lefts(t, L)[l] = a
    BY <2>1, <2>2
  <2> HIDE DEF c, p, d, a
  <2>4. /\ l \in L /\ c \in L \cup {NULL} /\ p \in L \cup {NULL}
        /\ Lefts(t, L)[l] \in L \cup {NULL} /\ Rights(t, L)[n] \in L \cup {NULL}
        /\ l # n /\ c # n /\ c # l /\ p # n /\ p # l /\ (p # NULL => p # c)
        /\ Rights(t, L)[n] # n /\ Rights(t, L)[n] # l /\ Lefts(t, L)[l] # l /\ Lefts(t, L)[l] # n
        /\ \A m \in L : Lefts(t, L)[m] = n \/ Rights(t, L)[m] = n => m = p
        /\ p # NULL => /\ Lefts(t, L)[p] = n \/ Rights(t, L)[p] = n
                       /\ ~(Lefts(t, L)[p] = n /\ Rights(t, L)[p] = n)
    BY <2>1, <2>3, <1>0, Around
  <2> QED BY <2>1, <2>3, <2>4
<1>2. /\ \A m \in L \cup {NULL} : m \in Pointers
      /\ NULL \notin L /\ L \subseteq Names
  BY <1>0, NodeShape DEF Pointers, Memory
<1> HIDE DEF c, p, d, a
<1>3. w = avl_update(u6, l)
  BY DEF rot_right, c, p, PutLeft, PutParent, PutRight
<1> HIDE DEF u1, u2, u3, u4, u5, u6
<1>4. /\ Elsewhere(t, u1, L, n)
      /\ u1[n].left = c /\ u1[n].right = d /\ u1[n].parent = p
      /\ u1[n].height = t[n].height /\ u1[n].cnt = t[n].cnt
  BY <1>0, <1>1, <1>2, PutLeftIs DEF u1, d, p
<1>5. /\ Elsewhere(u1, u2, L, c)
      /\ c # NULL => /\ u2[c].left = u1[c].left /\ u2[c].right = u1[c].right /\ u2[c].parent = n
                     /\ u2[c].height = u1[c].height /\ u2[c].cnt = u1[c].cnt
  <2>1. Memory(u1, L)
    BY <1>4 DEF Elsewhere
  <2> QED BY <2>1, <1>1, <1>2, WithParentIs DEF u2
<1>6. /\ Elsewhere(u2, u3, L, l)
      /\ u3[l].left = u2[l].left /\ u3[l].right = u2[l].right /\ u3[l].parent = p
      /\ u3[l].height = u2[l].height /\ u3[l].cnt = u2[l].cnt
  <2>1. Memory(u2, L)
    BY <1>5 DEF Elsewhere
  <2> QED BY <2>1, <1>1, <1>2, PutParentIs DEF u3
<1>7. /\ Elsewhere(u3, u4, L, l)
      /\ u4[l].left = u3[l].left /\ u4[l].right = n /\ u4[l].parent = u3[l].parent
      /\ u4[l].height = u3[l].height /\ u4[l].cnt = u3[l].cnt
  <2>1. Memory(u3, L)
    BY <1>6 DEF Elsewhere
  <2> QED BY <2>1, <1>1, <1>2, PutRightIs DEF u4
<1>8. /\ Elsewhere(u4, u5, L, n)
      /\ u5[n].left = u4[n].left /\ u5[n].right = u4[n].right /\ u5[n].parent = l
      /\ u5[n].height = u4[n].height /\ u5[n].cnt = u4[n].cnt
  <2>1. Memory(u4, L)
    BY <1>7 DEF Elsewhere
  <2> QED BY <2>1, <1>1, <1>2, PutParentIs DEF u5
<1>9. /\ Memory(u5, L)
      /\ u5[n].left = c /\ u5[n].right = d /\ u5[n].parent = l
      /\ u5[l].left = a /\ u5[l].right = n /\ u5[l].parent = p
      /\ c # NULL => u5[c].left = t[c].left /\ u5[c].right = t[c].right /\ u5[c].parent = n
      /\ \A m \in Names : m # n /\ m # l /\ m # c => u5[m] = t[m]
      /\ \A m \in L : u5[m].height = t[m].height /\ u5[m].cnt = t[m].cnt
  BY <1>1, <1>2, <1>4, <1>5, <1>6, <1>7, <1>8 DEF Elsewhere, a
<1>10. /\ Elsewhere(u5, u6, L, n)
       /\ u6[n].left = c /\ u6[n].right = d /\ u6[n].parent = l
       /\ u6[n].height = 1 + max(avl_height(t, c), avl_height(t, d))
       /\ u6[n].cnt = 1 + avl_cnt(t, c) + avl_cnt(t, d)
  <2>1. /\ Elsewhere(u5, u6, L, n)
        /\ u6[n].left = u5[n].left /\ u6[n].right = u5[n].right /\ u6[n].parent = u5[n].parent
        /\ u6[n].height = 1 + max(avl_height(u5, u5[n].left), avl_height(u5, u5[n].right))
        /\ u6[n].cnt = 1 + avl_cnt(u5, u5[n].left) + avl_cnt(u5, u5[n].right)
    BY <1>1, <1>9, UpdateIs DEF u6
  <2>2. \A m \in L \cup {NULL} : avl_height(u5, m) = avl_height(t, m) /\ avl_cnt(u5, m) = avl_cnt(t, m)
    BY <1>9 DEF avl_height, avl_cnt
  <2> QED BY <2>1, <2>2, <1>1, <1>9
<1>11. /\ Memory(u6, L) /\ u6[l].left = a /\ u6[l].right = n /\ u6[l].parent = p
       /\ avl_height(u6, a) = avl_height(t, a) /\ avl_cnt(u6, a) = avl_cnt(t, a)
       /\ avl_height(u6, n) = u6[n].height /\ avl_cnt(u6, n) = u6[n].cnt
  BY <1>1, <1>2, <1>9, <1>10 DEF Elsewhere, avl_height, avl_cnt
<1>12. /\ Elsewhere(u6, w, L, l)
       /\ w[l].left = a /\ w[l].right = n /\ w[l].parent = p
       /\ w[l].height = 1 + max(avl_height(t, a), u6[n].height)
       /\ w[l].cnt = 1 + avl_cnt(t, a) + u6[n].cnt
  <2>1. /\ Elsewhere(u6, w, L, l)
        /\ w[l].left = u6[l].left /\ w[l].right = u6[l].right /\ w[l].parent = u6[l].parent
        /\ w[l].height = 1 + max(avl_height(u6, u6[l].left), avl_height(u6, u6[l].right))
        /\ w[l].cnt = 1 + avl_cnt(u6, u6[l].left) + avl_cnt(u6, u6[l].right)
    BY <1>1, <1>3, <1>11, UpdateIs
  <2> QED BY <2>1, <1>11
<1>13. /\ Memory(w, L)
       /\ w[n].left = c /\ w[n].right = d /\ w[n].parent = l
       /\ w[n].height = 1 + max(avl_height(t, c), avl_height(t, d))
       /\ w[n].cnt = 1 + avl_cnt(t, c) + avl_cnt(t, d)
       /\ w[l].left = a /\ w[l].right = n /\ w[l].parent = p
       /\ w[l].height = 1 + max(avl_height(t, a), w[n].height)
       /\ w[l].cnt = 1 + avl_cnt(t, a) + w[n].cnt
       /\ c # NULL => /\ w[c].left = t[c].left /\ w[c].right = t[c].right /\ w[c].parent = n
                      /\ w[c].height = t[c].height /\ w[c].cnt = t[c].cnt
       /\ \A m \in Names : m # n /\ m # l /\ m # c => w[m] = t[m]
  BY <1>1, <1>2, <1>9, <1>10, <1>12 DEF Elsewhere
<1>14. /\ Memory(u, L)
       /\ \A m \in Names : m # p => u[m] = w[m]
       /\ p # NULL => /\ u[p].left = IF t[p].left = n THEN l ELSE t[p].left
                      /\ u[p].right = IF t[p].left = n THEN t[p].right ELSE l
                      /\ u[p].parent = t[p].parent /\ u[p].height = t[p].height /\ u[p].cnt = t[p].cnt
  <2>1. CASE p = NULL
    <3>1. u = w
      BY <2>1 DEF p
    <3> QED BY <3>1, <2>1, <1>13, <1>2
  <2>2. CASE p # NULL
    <3>1. p \in L /\ w[p] = t[p] /\ p \in Names
      BY <2>2, <1>1, <1>2, <1>13
    <3>2. u = IF t[p].left = n THEN PutLeft(w, p, l) ELSE PutRight(w, p, l)
      BY <2>2, <3>1 DEF p, WithChild, PutLeft, PutRight
    <3>3. CASE t[p].left = n
      <4>1. u = PutLeft(w, p, l)
        BY <3>2, <3>3
      <4>2. /\ Elsewhere(w, u, L, p)
            /\ u[p].left = l /\ u[p].right = w[p].right /\ u[p].parent = w[p].parent
            /\ u[p].height = w[p].height /\ u[p].cnt = w[p].cnt
        BY <4>1, <3>1, <1>1, <1>2, <1>13, PutLeftIs
      <4> QED BY <4>2, <3>1, <3>3 DEF Elsewhere
    <3>4. CASE t[p].left # n
      <4>1. u = PutRight(w, p, l)
        BY <3>2, <3>4
      <4>2. /\ Elsewhere(w, u, L, p)
            /\ u[p].left = w[p].left /\ u[p].right = l /\ u[p].parent = w[p].parent
            /\ u[p].height = w[p].height /\ u[p].cnt = w[p].cnt
        BY <4>1, <3>1, <1>1, <1>2, <1>13, PutRightIs
      <4> QED BY <4>2, <3>1, <3>4 DEF Elsewhere
    <3> QED BY <3>3, <3>4
  <2> QED BY <2>1, <2>2
<1>15. \A m \in Names \ L : u[m] = t[m]
  <2> SUFFICES ASSUME NEW m \in Names \ L PROVE u[m] = t[m]
    OBVIOUS
  <2>1. m # n /\ m # l /\ m # c /\ m # p
    BY <1>1, TreeAssumption
  <2> QED BY <2>1, <1>13, <1>14
<1>16. p # NULL => w[p].left = t[p].left
  BY <1>1, <1>2, <1>13
<1>17. \A m \in L :
          /\ u[m].left = IF m = n THEN c ELSE IF t[m].left = n THEN l ELSE t[m].left
          /\ u[m].right = IF m = l THEN n ELSE IF t[m].right = n THEN l ELSE t[m].right
          /\ u[m].parent = IF m = n THEN l ELSE IF m = l THEN p ELSE IF m = c THEN n ELSE t[m].parent
  <2> SUFFICES ASSUME NEW m \in L
               PROVE  /\ u[m].left = IF m = n THEN c ELSE IF t[m].left = n THEN l ELSE t[m].left
                      /\ u[m].right = IF m = l THEN n ELSE IF t[m].right = n THEN l ELSE t[m].right
                      /\ u[m].parent = IF m = n THEN l ELSE IF m = l THEN p ELSE IF m = c THEN n ELSE t[m].parent
    OBVIOUS
  <2>0. m \in Names /\ m # NULL /\ (t[m].left = n \/ t[m].right = n => m = p)
    BY <1>1, <1>2
  <2>1. CASE m = n
    BY <2>0, <2>1, <1>1, <1>13, <1>14 DEF d
  <2>2. CASE m = l
    BY <2>0, <2>2, <1>1, <1>13, <1>14 DEF a
  <2>3. CASE m = c
    BY <2>0, <2>3, <1>1, <1>13, <1>14
  <2>4. CASE m = p
    BY <2>0, <2>4, <1>1, <1>13, <1>14
  <2>5. CASE m # n /\ m # l /\ m # c /\ m # p
    BY <2>0, <2>5, <1>1, <1>13, <1>14
  <2> QED BY <2>1, <2>2, <2>3, <2>4, <2>5
<1>18. /\ u[n].height = 1 + max(avl_height(t, c), avl_height(t, d))
       /\ u[n].cnt = 1 + avl_cnt(t, c) + avl_cnt(t, d)
       /\ u[l].height = 1 + max(avl_height(t, a), u[n].height)
       /\ u[l].cnt = 1 + avl_cnt(t, a) + u[n].cnt
       /\ \A m \in L : m # n /\ m # l => u[m].height = t[m].height /\ u[m].cnt = t[m].cnt
  BY <1>1, <1>2, <1>13, <1>14
<1>19. Turned(Lefts(t, L), Rights(t, L), Parents(t, L), L, n, Lefts(u, L), Rights(u, L), Parents(u, L))
  BY <1>17, <1>1 DEF Turned, Lefts, Rights, Parents, c, p
<1>20. Recounted(Lefts(t, L), Rights(t, L), Heights(t, L), Counts(t, L), L, n, l, Heights(u, L), Counts(u, L))
  <2>1. /\ Lefts(t, L)[l] = a /\ Rights(t, L)[l] = c /\ Rights(t, L)[n] = d
        /\ Heights(t, L)[a] = avl_height(t, a) /\ Heights(t, L)[c] = avl_height(t, c)
        /\ Heights(t, L)[d] = avl_height(t, d)
        /\ Counts(t, L)[a] = avl_cnt(t, a) /\ Counts(t, L)[c] = avl_cnt(t, c)
        /\ Counts(t, L)[d] = avl_cnt(t, d)
    BY <1>1 DEF Lefts, Rights, Heights, Counts, a, c, d
  <2>2. \A m \in L \cup {NULL} :
           /\ avl_height(u, m) = IF m = n THEN u[n].height ELSE IF m = l THEN u[l].height ELSE avl_height(t, m)
           /\ avl_cnt(u, m) = IF m = n THEN u[n].cnt ELSE IF m = l THEN u[l].cnt ELSE avl_cnt(t, m)
    BY <1>1, <1>2, <1>18 DEF avl_height, avl_cnt
  <2>3. /\ u[n].height = 1 + max(Heights(t, L)[Rights(t, L)[l]], Heights(t, L)[Rights(t, L)[n]])
        /\ u[n].cnt = 1 + Counts(t, L)[Rights(t, L)[l]] + Counts(t, L)[Rights(t, L)[n]]
        /\ u[l].height = 1 + max(Heights(t, L)[Lefts(t, L)[l]], u[n].height)
        /\ u[l].cnt = 1 + Counts(t, L)[Lefts(t, L)[l]] + u[n].cnt
    BY <2>1, <1>18
  <2>4. RecountedAt(Lefts(t, L), Rights(t, L), t, u, L, n, l)
    BY <2>2, <2>3, Zenon DEF RecountedAt
  <2> QED BY <2>4, RecountedIs
<1> QED BY <1>13, <1>14, <1>15, <1>16, <1>19, <1>20 DEF p

\* rot_left() is the mirror image of this.
LEMMA RotLeftIs ==
    ASSUME NEW t, NEW r, NEW L, NEW sub, NEW lt \in SUBSET (Names \X Names), Links(t, r, L, sub, lt),
           NEW n \in L, NEW l, l = t[n].right, l # NULL,
           NEW w, w = rot_left(t, n),
           NEW u, u = IF t[n].parent = NULL THEN w ELSE WithChild(w, t[n].parent, n, l)
    PROVE  /\ Memory(u, L)
           /\ \A m \in Names \ L : u[m] = t[m]
           /\ w[n].parent = l
           /\ t[n].parent # NULL => w[t[n].parent].left = t[t[n].parent].left
           /\ Turned(Rights(t, L), Lefts(t, L), Parents(t, L), L, n, Rights(u, L), Lefts(u, L), Parents(u, L))
           /\ Recounted(Rights(t, L), Lefts(t, L), Heights(t, L), Counts(t, L), L, n, l, Heights(u, L), Counts(u, L))
<1> DEFINE c == t[l].left
           p == t[n].parent
           d == t[n].left
           a == t[l].right
           u1 == PutRight(t, n, c)
           u2 == WithParent(u1, c, n)
           u3 == PutParent(u2, l, p)
           u4 == PutLeft(u3, l, n)
           u5 == PutParent(u4, n, l)
           u6 == avl_update(u5, n)
<1>0. Memory(t, L) /\ SearchTree(Rights(t, L), Lefts(t, L), Parents(t, L), r, L, sub, Mirror(lt))
  BY Mirrored DEF Links
<1>1. /\ l \in L /\ c \in L \cup {NULL} /\ p \in L \cup {NULL} /\ a \in L \cup {NULL} /\ d \in L \cup {NULL}
      /\ l # n /\ c # n /\ c # l /\ p # n /\ p # l /\ (p # NULL => p # c)
      /\ d # n /\ d # l /\ a # l /\ a # n
      /\ \A m \in L : t[m].right = n \/ t[m].left = n => m = p
      /\ p # NULL => (t[p].right = n \/ t[p].left = n) /\ ~(t[p].right = n /\ t[p].left = n)
  <2>1. /\ Rights(t, L)[n] = l /\ Parents(t, L)[n] = p /\ Lefts(t, L)[n] = d
        /\ \A m \in L : Rights(t, L)[m] = t[m].right /\ Lefts(t, L)[m] = t[m].left
    BY <1>0, FieldsAre
  <2>2. l \in L
    BY <2>1, <1>0, Around
  <2>3. Lefts(t, L)[l] = c /\ Rights(t, L)[l] = a
    BY <2>1, <2>2
  <2> HIDE DEF c, p, d, a
  <2>4. /\ l \in L /\ c \in L \cup {NULL} /\ p \in L \cup {NULL}
        /\ Rights(t, L)[l] \in L \cup {NULL} /\ Lefts(t, L)[n] \in L \cup {NULL}
        /\ l # n /\ c # n /\ c # l /\ p # n /\ p # l /\ (p # NULL => p # c)
        /\ Lefts(t, L)[n] # n /\ Lefts(t, L)[n] # l /\ Rights(t, L)[l] # l /\ Rights(t, L)[l] # n
        /\ \A m \in L : Rights(t, L)[m] = n \/ Lefts(t, L)[m] = n => m = p
        /\ p # NULL => /\ Rights(t, L)[p] = n \/ Lefts(t, L)[p] = n
                       /\ ~(Rights(t, L)[p] = n /\ Lefts(t, L)[p] = n)
    BY <2>1, <2>3, <1>0, Around
  <2> QED BY <2>1, <2>3, <2>4
<1>2. /\ \A m \in L \cup {NULL} : m \in Pointers
      /\ NULL \notin L /\ L \subseteq Names
  BY <1>0, NodeShape DEF Pointers, Memory
<1> HIDE DEF c, p, d, a
<1>3. w = avl_update(u6, l)
  BY DEF rot_left, c, p, PutRight, PutParent, PutLeft
<1> HIDE DEF u1, u2, u3, u4, u5, u6
<1>4. /\ Elsewhere(t, u1, L, n)
      /\ u1[n].right = c /\ u1[n].left = d /\ u1[n].parent = p
      /\ u1[n].height = t[n].height /\ u1[n].cnt = t[n].cnt
  BY <1>0, <1>1, <1>2, PutRightIs DEF u1, d, p
<1>5. /\ Elsewhere(u1, u2, L, c)
      /\ c # NULL => /\ u2[c].right = u1[c].right /\ u2[c].left = u1[c].left /\ u2[c].parent = n
                     /\ u2[c].height = u1[c].height /\ u2[c].cnt = u1[c].cnt
  <2>1. Memory(u1, L)
    BY <1>4 DEF Elsewhere
  <2> QED BY <2>1, <1>1, <1>2, WithParentIs DEF u2
<1>6. /\ Elsewhere(u2, u3, L, l)
      /\ u3[l].right = u2[l].right /\ u3[l].left = u2[l].left /\ u3[l].parent = p
      /\ u3[l].height = u2[l].height /\ u3[l].cnt = u2[l].cnt
  <2>1. Memory(u2, L)
    BY <1>5 DEF Elsewhere
  <2> QED BY <2>1, <1>1, <1>2, PutParentIs DEF u3
<1>7. /\ Elsewhere(u3, u4, L, l)
      /\ u4[l].right = u3[l].right /\ u4[l].left = n /\ u4[l].parent = u3[l].parent
      /\ u4[l].height = u3[l].height /\ u4[l].cnt = u3[l].cnt
  <2>1. Memory(u3, L)
    BY <1>6 DEF Elsewhere
  <2> QED BY <2>1, <1>1, <1>2, PutLeftIs DEF u4
<1>8. /\ Elsewhere(u4, u5, L, n)
      /\ u5[n].right = u4[n].right /\ u5[n].left = u4[n].left /\ u5[n].parent = l
      /\ u5[n].height = u4[n].height /\ u5[n].cnt = u4[n].cnt
  <2>1. Memory(u4, L)
    BY <1>7 DEF Elsewhere
  <2> QED BY <2>1, <1>1, <1>2, PutParentIs DEF u5
<1>9. /\ Memory(u5, L)
      /\ u5[n].right = c /\ u5[n].left = d /\ u5[n].parent = l
      /\ u5[l].right = a /\ u5[l].left = n /\ u5[l].parent = p
      /\ c # NULL => u5[c].right = t[c].right /\ u5[c].left = t[c].left /\ u5[c].parent = n
      /\ \A m \in Names : m # n /\ m # l /\ m # c => u5[m] = t[m]
      /\ \A m \in L : u5[m].height = t[m].height /\ u5[m].cnt = t[m].cnt
  BY <1>1, <1>2, <1>4, <1>5, <1>6, <1>7, <1>8 DEF Elsewhere, a
<1>10. /\ Elsewhere(u5, u6, L, n)
       /\ u6[n].right = c /\ u6[n].left = d /\ u6[n].parent = l
       /\ u6[n].height = 1 + max(avl_height(t, d), avl_height(t, c))
       /\ u6[n].cnt = 1 + avl_cnt(t, d) + avl_cnt(t, c)
  <2>1. /\ Elsewhere(u5, u6, L, n)
        /\ u6[n].right = u5[n].right /\ u6[n].left = u5[n].left /\ u6[n].parent = u5[n].parent
        /\ u6[n].height = 1 + max(avl_height(u5, u5[n].left), avl_height(u5, u5[n].right))
        /\ u6[n].cnt = 1 + avl_cnt(u5, u5[n].left) + avl_cnt(u5, u5[n].right)
    BY <1>1, <1>9, UpdateIs DEF u6
  <2>2. \A m \in L \cup {NULL} : avl_height(u5, m) = avl_height(t, m) /\ avl_cnt(u5, m) = avl_cnt(t, m)
    BY <1>9 DEF avl_height, avl_cnt
  <2> QED BY <2>1, <2>2, <1>1, <1>9
<1>11. /\ Memory(u6, L) /\ u6[l].right = a /\ u6[l].left = n /\ u6[l].parent = p
       /\ avl_height(u6, a) = avl_height(t, a) /\ avl_cnt(u6, a) = avl_cnt(t, a)
       /\ avl_height(u6, n) = u6[n].height /\ avl_cnt(u6, n) = u6[n].cnt
  BY <1>1, <1>2, <1>9, <1>10 DEF Elsewhere, avl_height, avl_cnt
<1>12. /\ Elsewhere(u6, w, L, l)
       /\ w[l].right = a /\ w[l].left = n /\ w[l].parent = p
       /\ w[l].height = 1 + max(u6[n].height, avl_height(t, a))
       /\ w[l].cnt = 1 + u6[n].cnt + avl_cnt(t, a)
  <2>1. /\ Elsewhere(u6, w, L, l)
        /\ w[l].right = u6[l].right /\ w[l].left = u6[l].left /\ w[l].parent = u6[l].parent
        /\ w[l].height = 1 + max(avl_height(u6, u6[l].left), avl_height(u6, u6[l].right))
        /\ w[l].cnt = 1 + avl_cnt(u6, u6[l].left) + avl_cnt(u6, u6[l].right)
    BY <1>1, <1>3, <1>11, UpdateIs
  <2> QED BY <2>1, <1>11
<1>13. /\ Memory(w, L)
       /\ w[n].right = c /\ w[n].left = d /\ w[n].parent = l
       /\ w[n].height = 1 + max(avl_height(t, d), avl_height(t, c))
       /\ w[n].cnt = 1 + avl_cnt(t, d) + avl_cnt(t, c)
       /\ w[l].right = a /\ w[l].left = n /\ w[l].parent = p
       /\ w[l].height = 1 + max(w[n].height, avl_height(t, a))
       /\ w[l].cnt = 1 + w[n].cnt + avl_cnt(t, a)
       /\ c # NULL => /\ w[c].right = t[c].right /\ w[c].left = t[c].left /\ w[c].parent = n
                      /\ w[c].height = t[c].height /\ w[c].cnt = t[c].cnt
       /\ \A m \in Names : m # n /\ m # l /\ m # c => w[m] = t[m]
  BY <1>1, <1>2, <1>9, <1>10, <1>12 DEF Elsewhere
<1>14. /\ Memory(u, L)
       /\ \A m \in Names : m # p => u[m] = w[m]
       /\ p # NULL => /\ u[p].left = IF t[p].left = n THEN l ELSE t[p].left
                      /\ u[p].right = IF t[p].left = n THEN t[p].right ELSE l
                      /\ u[p].parent = t[p].parent /\ u[p].height = t[p].height /\ u[p].cnt = t[p].cnt
  <2>1. CASE p = NULL
    <3>1. u = w
      BY <2>1 DEF p
    <3> QED BY <3>1, <2>1, <1>13, <1>2
  <2>2. CASE p # NULL
    <3>1. p \in L /\ w[p] = t[p] /\ p \in Names
      BY <2>2, <1>1, <1>2, <1>13
    <3>2. u = IF t[p].left = n THEN PutLeft(w, p, l) ELSE PutRight(w, p, l)
      BY <2>2, <3>1 DEF p, WithChild, PutLeft, PutRight
    <3>3. CASE t[p].left = n
      <4>1. u = PutLeft(w, p, l)
        BY <3>2, <3>3
      <4>2. /\ Elsewhere(w, u, L, p)
            /\ u[p].left = l /\ u[p].right = w[p].right /\ u[p].parent = w[p].parent
            /\ u[p].height = w[p].height /\ u[p].cnt = w[p].cnt
        BY <4>1, <3>1, <1>1, <1>2, <1>13, PutLeftIs
      <4> QED BY <4>2, <3>1, <3>3 DEF Elsewhere
    <3>4. CASE t[p].left # n
      <4>1. u = PutRight(w, p, l)
        BY <3>2, <3>4
      <4>2. /\ Elsewhere(w, u, L, p)
            /\ u[p].left = w[p].left /\ u[p].right = l /\ u[p].parent = w[p].parent
            /\ u[p].height = w[p].height /\ u[p].cnt = w[p].cnt
        BY <4>1, <3>1, <1>1, <1>2, <1>13, PutRightIs
      <4> QED BY <4>2, <3>1, <3>4 DEF Elsewhere
    <3> QED BY <3>3, <3>4
  <2> QED BY <2>1, <2>2
<1>15. \A m \in Names \ L : u[m] = t[m]
  <2> SUFFICES ASSUME NEW m \in Names \ L PROVE u[m] = t[m]
    OBVIOUS
  <2>1. m # n /\ m # l /\ m # c /\ m # p
    BY <1>1, TreeAssumption
  <2> QED BY <2>1, <1>13, <1>14
<1>16. p # NULL => w[p].left = t[p].left
  BY <1>1, <1>2, <1>13
<1>17. \A m \in L :
          /\ u[m].right = IF m = n THEN c ELSE IF t[m].right = n THEN l ELSE t[m].right
          /\ u[m].left = IF m = l THEN n ELSE IF t[m].left = n THEN l ELSE t[m].left
          /\ u[m].parent = IF m = n THEN l ELSE IF m = l THEN p ELSE IF m = c THEN n ELSE t[m].parent
  <2> SUFFICES ASSUME NEW m \in L
               PROVE  /\ u[m].right = IF m = n THEN c ELSE IF t[m].right = n THEN l ELSE t[m].right
                      /\ u[m].left = IF m = l THEN n ELSE IF t[m].left = n THEN l ELSE t[m].left
                      /\ u[m].parent = IF m = n THEN l ELSE IF m = l THEN p ELSE IF m = c THEN n ELSE t[m].parent
    OBVIOUS
  <2>0. m \in Names /\ m # NULL /\ (t[m].right = n \/ t[m].left = n => m = p)
    BY <1>1, <1>2
  <2>1. CASE m = n
    BY <2>0, <2>1, <1>1, <1>13, <1>14 DEF d
  <2>2. CASE m = l
    BY <2>0, <2>2, <1>1, <1>13, <1>14 DEF a
  <2>3. CASE m = c
    BY <2>0, <2>3, <1>1, <1>13, <1>14
  <2>4. CASE m = p
    BY <2>0, <2>4, <1>1, <1>13, <1>14
  <2>5. CASE m # n /\ m # l /\ m # c /\ m # p
    BY <2>0, <2>5, <1>1, <1>13, <1>14
  <2> QED BY <2>1, <2>2, <2>3, <2>4, <2>5
<1>18. /\ u[n].height = 1 + max(avl_height(t, d), avl_height(t, c))
       /\ u[n].cnt = 1 + avl_cnt(t, d) + avl_cnt(t, c)
       /\ u[l].height = 1 + max(u[n].height, avl_height(t, a))
       /\ u[l].cnt = 1 + u[n].cnt + avl_cnt(t, a)
       /\ \A m \in L : m # n /\ m # l => u[m].height = t[m].height /\ u[m].cnt = t[m].cnt
  BY <1>1, <1>2, <1>13, <1>14
<1>19. Turned(Rights(t, L), Lefts(t, L), Parents(t, L), L, n, Rights(u, L), Lefts(u, L), Parents(u, L))
  BY <1>17, <1>1 DEF Turned, Rights, Lefts, Parents, c, p
<1>20. Recounted(Rights(t, L), Lefts(t, L), Heights(t, L), Counts(t, L), L, n, l, Heights(u, L), Counts(u, L))
  <2>1. /\ Rights(t, L)[l] = a /\ Lefts(t, L)[l] = c /\ Lefts(t, L)[n] = d
        /\ Heights(t, L)[a] = avl_height(t, a) /\ Heights(t, L)[c] = avl_height(t, c)
        /\ Heights(t, L)[d] = avl_height(t, d)
        /\ Counts(t, L)[a] = avl_cnt(t, a) /\ Counts(t, L)[c] = avl_cnt(t, c)
        /\ Counts(t, L)[d] = avl_cnt(t, d)
    BY <1>1 DEF Rights, Lefts, Heights, Counts, a, c, d
  <2>2. \A m \in L \cup {NULL} :
           /\ avl_height(u, m) = IF m = n THEN u[n].height ELSE IF m = l THEN u[l].height ELSE avl_height(t, m)
           /\ avl_cnt(u, m) = IF m = n THEN u[n].cnt ELSE IF m = l THEN u[l].cnt ELSE avl_cnt(t, m)
    BY <1>1, <1>2, <1>18 DEF avl_height, avl_cnt
  <2>3. /\ avl_height(t, a) \in Nat /\ avl_height(t, c) \in Nat /\ avl_height(t, d) \in Nat
        /\ avl_cnt(t, a) \in Nat /\ avl_cnt(t, c) \in Nat /\ avl_cnt(t, d) \in Nat
    BY <1>0, <1>1, NodeShape DEF avl_height, avl_cnt
  <2>4. /\ u[n].height = 1 + max(avl_height(t, c), avl_height(t, d))
        /\ u[n].cnt = 1 + avl_cnt(t, c) + avl_cnt(t, d)
        /\ u[l].height = 1 + max(avl_height(t, a), u[n].height)
        /\ u[l].cnt = 1 + avl_cnt(t, a) + u[n].cnt
    BY <2>3, <1>18 DEF max
  <2>5. /\ u[n].height = 1 + max(Heights(t, L)[Lefts(t, L)[l]], Heights(t, L)[Lefts(t, L)[n]])
        /\ u[n].cnt = 1 + Counts(t, L)[Lefts(t, L)[l]] + Counts(t, L)[Lefts(t, L)[n]]
        /\ u[l].height = 1 + max(Heights(t, L)[Rights(t, L)[l]], u[n].height)
        /\ u[l].cnt = 1 + Counts(t, L)[Rights(t, L)[l]] + u[n].cnt
    BY <2>1, <2>4
  <2>6. RecountedAt(Rights(t, L), Lefts(t, L), t, u, L, n, l)
    BY <2>2, <2>5, Zenon DEF RecountedAt
  <2> QED BY <2>6, RecountedIs
<1> QED BY <1>13, <1>14, <1>15, <1>16, <1>19, <1>20 DEF p

-----------------------------------------------------------------------------
(* An iteration of avl_fix().                                              *)

\* The nodes of the memory t settle from n on.
Settling(t, L, n) ==
    Unsettled(Lefts(t, L), Rights(t, L), Parents(t, L), Heights(t, L), Counts(t, L), L, n)

\* What *from = m amounts to.
LEMMA WithChildIs ==
    ASSUME NEW t, NEW L, Memory(t, L), NEW p \in L, NEW n, NEW m \in Pointers,
           NEW u, u = WithChild(t, p, n, m), t[p].left = n \/ t[p].right = n
    PROVE  /\ Elsewhere(t, u, L, p)
           /\ u[p].left = IF t[p].left = n THEN m ELSE t[p].left
           /\ u[p].right = IF t[p].left = n THEN t[p].right ELSE m
           /\ u[p].parent = t[p].parent /\ u[p].height = t[p].height /\ u[p].cnt = t[p].cnt
<1>1. CASE t[p].left = n
  <2>1. u = PutLeft(t, p, m)
    BY <1>1 DEF WithChild, PutLeft
  <2>2. /\ Elsewhere(t, u, L, p)
        /\ u[p].left = m /\ u[p].right = t[p].right /\ u[p].parent = t[p].parent
        /\ u[p].height = t[p].height /\ u[p].cnt = t[p].cnt
    BY <2>1, PutLeftIs
  <2> QED BY <2>2, <1>1
<1>2. CASE t[p].left # n
  <2>1. u = PutRight(t, p, m)
    BY <1>2 DEF WithChild, PutRight
  <2>2. /\ Elsewhere(t, u, L, p)
        /\ u[p].left = t[p].left /\ u[p].right = m /\ u[p].parent = t[p].parent
        /\ u[p].height = t[p].height /\ u[p].cnt = t[p].cnt
    BY <2>1, PutRightIs
  <2> QED BY <2>2, <1>2
<1> QED BY <1>1, <1>2

\* The node n has its height and its count, as at the beginning of an iteration.
LEMMA UpdatedLinks ==
    ASSUME NEW t, NEW r, NEW L, NEW sub, NEW lt, Links(t, r, L, sub, lt), NEW n \in L,
           NEW u, u = avl_update(t, n)
    PROVE  /\ Links(u, r, L, sub, lt) /\ \A m \in Names \ L : u[m] = t[m]
           /\ Lefts(u, L) = Lefts(t, L) /\ Rights(u, L) = Rights(t, L) /\ Parents(u, L) = Parents(t, L)
           /\ Heights(u, L) = [Heights(t, L) EXCEPT ![n] =
                 1 + max(Heights(t, L)[Lefts(t, L)[n]], Heights(t, L)[Rights(t, L)[n]])]
           /\ Counts(u, L) = [Counts(t, L) EXCEPT ![n] =
                 1 + Counts(t, L)[Lefts(t, L)[n]] + Counts(t, L)[Rights(t, L)[n]]]
           /\ u[n].left = t[n].left /\ u[n].right = t[n].right /\ u[n].parent = t[n].parent
<1>1. Memory(t, L) /\ SearchTree(Lefts(t, L), Rights(t, L), Parents(t, L), r, L, sub, lt)
  BY DEF Links
<1>2. /\ Lefts(t, L)[n] = t[n].left /\ Rights(t, L)[n] = t[n].right
      /\ t[n].left \in L \cup {NULL} /\ t[n].right \in L \cup {NULL}
      /\ Heights(t, L)[t[n].left] = avl_height(t, t[n].left)
      /\ Heights(t, L)[t[n].right] = avl_height(t, t[n].right)
      /\ Counts(t, L)[t[n].left] = avl_cnt(t, t[n].left)
      /\ Counts(t, L)[t[n].right] = avl_cnt(t, t[n].right)
  <2>1. Lefts(t, L)[n] = t[n].left /\ Rights(t, L)[n] = t[n].right
    BY DEF Lefts, Rights
  <2>2. t[n].left \in L \cup {NULL} /\ t[n].right \in L \cup {NULL}
    BY <2>1, <1>1 DEF SearchTree, Tree
  <2> QED BY <2>1, <2>2 DEF Heights, Counts
<1>3. /\ Elsewhere(t, u, L, n)
      /\ u[n].left = t[n].left /\ u[n].right = t[n].right /\ u[n].parent = t[n].parent
      /\ u[n].height = 1 + max(avl_height(t, t[n].left), avl_height(t, t[n].right))
      /\ u[n].cnt = 1 + avl_cnt(t, t[n].left) + avl_cnt(t, t[n].right)
  BY <1>1, <1>2, UpdateIs
<1>4. NULL \notin L /\ L \subseteq Names
  BY <1>1, NodeShape DEF Memory
<1>5. Lefts(u, L) = Lefts(t, L) /\ Rights(u, L) = Rights(t, L) /\ Parents(u, L) = Parents(t, L)
  BY <1>3, <1>4 DEF Lefts, Rights, Parents, Elsewhere
<1>6. \A m \in L \cup {NULL} : m # n => avl_height(u, m) = avl_height(t, m) /\ avl_cnt(u, m) = avl_cnt(t, m)
  BY <1>3, <1>4 DEF Elsewhere, avl_height, avl_cnt
<1>7. avl_height(u, n) = u[n].height /\ avl_cnt(u, n) = u[n].cnt
  BY <1>4 DEF avl_height, avl_cnt
<1>8. Heights(u, L) = [Heights(t, L) EXCEPT ![n] =
         1 + max(Heights(t, L)[Lefts(t, L)[n]], Heights(t, L)[Rights(t, L)[n]])]
  BY <1>2, <1>3, <1>6, <1>7 DEF Heights
<1>9. Counts(u, L) = [Counts(t, L) EXCEPT ![n] =
         1 + Counts(t, L)[Lefts(t, L)[n]] + Counts(t, L)[Rights(t, L)[n]]]
  BY <1>2, <1>3, <1>6, <1>7 DEF Counts
<1>10. \A m \in Names \ L : u[m] = t[m]
  BY <1>3 DEF Elsewhere
<1> QED BY <1>1, <1>3, <1>5, <1>8, <1>9, <1>10 DEF Links, Elsewhere

\* The left subtree of n is too high: one rotation, or two.
LEMMA FixLeftIs ==
    ASSUME NEW t, NEW r, NEW L, NEW sub, NEW lt \in SUBSET (Names \X Names),
           Links(t, r, L, sub, lt), NEW n \in L, Settling(t, L, n),
           NEW p, p = t[n].parent,
           avl_height(t, t[n].left) = avl_height(t, t[n].right) + 2,
           NEW v, v = avl_fix_left(t, n),
           NEW u, u = IF p = NULL THEN v ELSE WithChild(v, p, n, v[n].parent)
    PROVE  /\ \E sub2 : Links(u, IF p = NULL THEN v[n].parent ELSE r, L, sub2, lt)
           /\ Settling(u, L, p)
           /\ \A m \in Names \ L : u[m] = t[m]
           /\ v # t
<1> DEFINE l == t[n].left
           g == t[l].right
           z == [rot_left(t, l) EXCEPT ![n].left = g]
<1>1. Memory(t, L) /\ SearchTree(Lefts(t, L), Rights(t, L), Parents(t, L), r, L, sub, lt)
  BY DEF Links
<1>2. /\ NULL \notin L
      /\ \A m \in L : /\ Lefts(t, L)[m] = t[m].left /\ Rights(t, L)[m] = t[m].right
                      /\ Parents(t, L)[m] = t[m].parent
      /\ \A m \in L \cup {NULL} : Heights(t, L)[m] = avl_height(t, m)
      /\ Measures(Heights(t, L), Counts(t, L), L)
  BY <1>1, FieldsAre
<1>3. \A m \in L : t[m].left \in L \cup {NULL} /\ t[m].right \in L \cup {NULL} /\ t[m].parent \in L \cup {NULL}
  BY <1>1, <1>2 DEF SearchTree, Tree
<1>4. \A m \in L \cup {NULL} : avl_height(t, m) \in Nat /\ (m = NULL => avl_height(t, m) = 0)
  BY <1>2 DEF Measures
<1>5. l # NULL /\ l \in L
  BY <1>3, <1>4
<1>6. /\ Heights(t, L)[l] = avl_height(t, l) /\ Heights(t, L)[g] = avl_height(t, g)
      /\ Heights(t, L)[t[n].right] = avl_height(t, t[n].right)
      /\ Heights(t, L)[t[l].left] = avl_height(t, t[l].left)
  BY <1>2, <1>3, <1>5
<1>7. l # n /\ p # l /\ t[l].parent = n
  <2>1. l = Lefts(t, L)[n] /\ p = Parents(t, L)[n]
    BY <1>2
  <2>2. l # n /\ p # l
    <3> HIDE DEF l
    <3> QED BY <2>1, <1>1, <1>5, Around
  <2> QED BY <2>1, <2>2, <1>1, <1>2, <1>5 DEF SearchTree, Tree
<1>8. CASE ~(avl_height(t, t[l].left) < avl_height(t, t[l].right))
  <2>1. v = rot_right(t, n)
    BY <1>8 DEF avl_fix_left
  <2> DEFINE w == IF t[n].parent = NULL THEN v ELSE WithChild(v, t[n].parent, n, l)
  <2>2. w = IF t[n].parent = NULL THEN v ELSE WithChild(v, t[n].parent, n, l)
    OBVIOUS
  <2>3. /\ Memory(w, L)
        /\ \A m \in Names \ L : w[m] = t[m]
        /\ v[n].parent = l
        /\ Turned(Lefts(t, L), Rights(t, L), Parents(t, L), L, n, Lefts(w, L), Rights(w, L), Parents(w, L))
        /\ Recounted(Lefts(t, L), Rights(t, L), Heights(t, L), Counts(t, L), L, n, l, Heights(w, L), Counts(w, L))
    <3> HIDE DEF l, w
    <3>0. l = t[n].left
      BY DEF l
    <3> QED BY <2>1, <2>2, <1>5, <3>0, RotRightIs
  <2>4. w = u
    BY <2>3
  <2> HIDE DEF w
  <2>5. /\ Heights(t, L)[Lefts(t, L)[n]] = Heights(t, L)[Rights(t, L)[n]] + 2
        /\ Heights(t, L)[Rights(t, L)[Lefts(t, L)[n]]] <= Heights(t, L)[Lefts(t, L)[Lefts(t, L)[n]]]
        /\ Lefts(t, L)[n] # NULL /\ Lefts(t, L)[n] = l /\ Parents(t, L)[n] = p
    <3>1. /\ Lefts(t, L)[n] = l /\ Rights(t, L)[n] = t[n].right
          /\ Rights(t, L)[l] = g /\ Lefts(t, L)[l] = t[l].left
      BY <1>2, <1>5
    <3>2. avl_height(t, t[l].left) \in Nat /\ avl_height(t, g) \in Nat
      BY <1>3, <1>4, <1>5
    <3>3. avl_height(t, g) <= avl_height(t, t[l].left)
      BY <3>2, <1>8
    <3> QED BY <3>1, <3>3, <1>6, <1>5, <1>2
  <2>6. Unsettled(Lefts(w, L), Rights(w, L), Parents(w, L), Heights(w, L), Counts(w, L), L, p)
    <3> HIDE DEF l
    <3>1. Unsettled(Lefts(t, L), Rights(t, L), Parents(t, L), Heights(t, L), Counts(t, L), L, n)
      BY DEF Settling
    <3>2. Recounted(Lefts(t, L), Rights(t, L), Heights(t, L), Counts(t, L), L, n, Lefts(t, L)[n],
                    Heights(w, L), Counts(w, L))
      BY <2>3, <2>5
    <3>3. Unsettled(Lefts(w, L), Rights(w, L), Parents(w, L), Heights(w, L), Counts(w, L), L, Parents(t, L)[n])
      BY <1>1, <2>3, <2>5, <3>1, <3>2, FixTurn
    <3> QED BY <3>3, <2>5
  <2>7. PICK sub2 : SearchTree(Lefts(w, L), Rights(w, L), Parents(w, L), IF p = NULL THEN l ELSE r, L, sub2, lt)
    <3> HIDE DEF l
    <3>1. \E sub2 : SearchTree(Lefts(w, L), Rights(w, L), Parents(w, L),
                     IF Parents(t, L)[n] = NULL THEN Lefts(t, L)[n] ELSE r, L, sub2, lt)
      BY <1>1, <2>3, <2>5, TurnKeepsTree
    <3> QED BY <3>1, <2>5
  <2>8. v # t
    BY <2>3, <1>7
  <2> QED BY <2>3, <2>4, <2>6, <2>7, <2>8 DEF Links, Settling
<1>9. CASE avl_height(t, t[l].left) < avl_height(t, t[l].right)
  <2>1. v = rot_right(z, n)
    BY <1>9 DEF avl_fix_left
  <2>2. g # NULL /\ g \in L
    BY <1>3, <1>4, <1>5, <1>9
  <2>3. /\ Memory(z, L)
        /\ \A m \in Names \ L : z[m] = t[m]
        /\ Turned(Rights(t, L), Lefts(t, L), Parents(t, L), L, l, Rights(z, L), Lefts(z, L), Parents(z, L))
        /\ Recounted(Rights(t, L), Lefts(t, L), Heights(t, L), Counts(t, L), L, l, g, Heights(z, L), Counts(z, L))
    <3> DEFINE w == rot_left(t, l)
               u1 == IF t[l].parent = NULL THEN w ELSE WithChild(w, t[l].parent, l, g)
    <3>1. /\ Memory(u1, L)
          /\ \A m \in Names \ L : u1[m] = t[m]
          /\ w[l].parent = g
          /\ t[l].parent # NULL => w[t[l].parent].left = t[t[l].parent].left
          /\ Turned(Rights(t, L), Lefts(t, L), Parents(t, L), L, l, Rights(u1, L), Lefts(u1, L), Parents(u1, L))
          /\ Recounted(Rights(t, L), Lefts(t, L), Heights(t, L), Counts(t, L), L, l, g, Heights(u1, L), Counts(u1, L))
      <4>1. /\ g = t[l].right /\ w = rot_left(t, l)
            /\ u1 = IF t[l].parent = NULL THEN w ELSE WithChild(w, t[l].parent, l, g)
        OBVIOUS
      <4> HIDE DEF l, g, w, u1
      <4> QED BY <4>1, <2>2, <1>5, RotLeftIs
    <3>2. n # NULL
      BY <1>2
    <3>3. u1 = z
      <4>1. t[l].parent = n /\ w[n].left = l
        BY <3>1, <3>2, <1>7
      <4> QED BY <4>1, <3>2 DEF WithChild
    <3> HIDE DEF u1, z, w, l, g
    <3> QED BY <3>1, <3>3
  <2> HIDE DEF z
  <2>4. /\ Lefts(t, L)[n] = l /\ Rights(t, L)[l] = g /\ Lefts(t, L)[l] = t[l].left
        /\ Parents(t, L)[n] = p /\ Parents(t, L)[l] = n /\ Rights(t, L)[n] = t[n].right
    BY <1>2, <1>5, <1>7
  <2> HIDE DEF l, g
  <2>5. PICK sub1 : SearchTree(Lefts(z, L), Rights(z, L), Parents(z, L), r, L, sub1, lt)
    <3>1. SearchTree(Rights(t, L), Lefts(t, L), Parents(t, L), r, L, sub, Mirror(lt))
      BY <1>1, Mirrored
    <3>2. Rights(t, L)[l] # NULL
      BY <2>2, <2>4
    <3>3. PICK sub1 : SearchTree(Rights(z, L), Lefts(z, L), Parents(z, L),
                        IF Parents(t, L)[l] = NULL THEN Rights(t, L)[l] ELSE r, L, sub1, Mirror(lt))
      BY <3>1, <3>2, <2>3, <1>5, TurnKeepsTree
    <3>4. SearchTree(Rights(z, L), Lefts(z, L), Parents(z, L), r, L, sub1, Mirror(lt))
      BY <3>3, <2>4, <1>2
    <3>5. Mirror(lt) \in SUBSET (Names \X Names) /\ Mirror(Mirror(lt)) = lt
      BY MirrorTwice
    <3> QED BY <3>4, <3>5, Mirrored
  <2>6. z[n].left = g /\ z[n].parent = p
    <3>1. /\ Lefts(z, L)[n] = IF n = g THEN l ELSE IF Lefts(t, L)[n] = l THEN g ELSE Lefts(t, L)[n]
          /\ Parents(z, L)[n] = IF n = l THEN g ELSE IF n = g THEN Parents(t, L)[l]
                                ELSE IF n = Lefts(t, L)[g] THEN l ELSE Parents(t, L)[n]
      BY <2>3, <2>4 DEF Turned
    <3>2. g # n /\ n # Lefts(t, L)[g]
      <4>1. g # n
        BY <2>4, <1>1, <1>5, Around
      <4>2. n = Lefts(t, L)[g] => Parents(t, L)[n] = g
        BY <1>1, <1>2, <2>2 DEF SearchTree, Tree
      <4>3. p # g \/ p = NULL
        BY <2>4, <1>1, <1>5, Around
      <4> QED BY <4>1, <4>2, <4>3, <2>2, <2>4
    <3>3. Lefts(z, L)[n] = z[n].left /\ Parents(z, L)[n] = z[n].parent
      BY DEF Lefts, Parents
    <3> QED BY <3>1, <3>2, <3>3, <2>4, <1>7
  <2> DEFINE w == IF z[n].parent = NULL THEN v ELSE WithChild(v, z[n].parent, n, g)
  <2>7. /\ Memory(w, L)
        /\ \A m \in Names \ L : w[m] = z[m]
        /\ v[n].parent = g
        /\ Turned(Lefts(z, L), Rights(z, L), Parents(z, L), L, n, Lefts(w, L), Rights(w, L), Parents(w, L))
        /\ Recounted(Lefts(z, L), Rights(z, L), Heights(z, L), Counts(z, L), L, n, g, Heights(w, L), Counts(w, L))
    <3>1. Links(z, r, L, sub1, lt)
      BY <2>3, <2>5 DEF Links
    <3>2. w = IF z[n].parent = NULL THEN v ELSE WithChild(v, z[n].parent, n, g)
      OBVIOUS
    <3> HIDE DEF w
    <3> QED BY <3>1, <3>2, <2>1, <2>2, <2>6, RotRightIs
  <2>8. w = u
    BY <2>6, <2>7
  <2> HIDE DEF w
  <2>9. /\ Unsettled(Lefts(w, L), Rights(w, L), Parents(w, L), Heights(w, L), Counts(w, L), L, Parents(t, L)[n])
        /\ \E sub2 : SearchTree(Lefts(w, L), Rights(w, L), Parents(w, L),
                       IF Parents(t, L)[n] = NULL THEN g ELSE r, L, sub2, lt)
    <3>1. Unsettled(Lefts(t, L), Rights(t, L), Parents(t, L), Heights(t, L), Counts(t, L), L, n)
      BY DEF Settling
    <3>2. /\ Lefts(t, L)[n] # NULL /\ Rights(t, L)[Lefts(t, L)[n]] # NULL /\ g = Rights(t, L)[Lefts(t, L)[n]]
          /\ Turned(Rights(t, L), Lefts(t, L), Parents(t, L), L, Lefts(t, L)[n],
                    Rights(z, L), Lefts(z, L), Parents(z, L))
          /\ Recounted(Rights(t, L), Lefts(t, L), Heights(t, L), Counts(t, L), L, Lefts(t, L)[n], g,
                       Heights(z, L), Counts(z, L))
      BY <2>2, <2>3, <2>4, <1>5
    <3>3. /\ Heights(t, L)[Lefts(t, L)[n]] = Heights(t, L)[Rights(t, L)[n]] + 2
          /\ Heights(t, L)[Lefts(t, L)[Lefts(t, L)[n]]] < Heights(t, L)[g]
      BY <2>4, <1>6, <1>9 DEF l, g
    <3> DEFINE lc == Lefts(t, L)
               rc == Rights(t, L)
               pa == Parents(t, L)
    <3>4. /\ SearchTree(lc, rc, pa, r, L, sub, lt)
          /\ Unsettled(lc, rc, pa, Heights(t, L), Counts(t, L), L, n)
          /\ TurnedTwice(lc, rc, pa, Heights(t, L), Counts(t, L), L, n, g,
                         Lefts(z, L), Rights(z, L), Parents(z, L), Heights(z, L), Counts(z, L),
                         Lefts(w, L), Rights(w, L), Parents(w, L), Heights(w, L), Counts(w, L))
      BY <1>1, <2>7, <3>1, <3>2, <3>3 DEF TurnedTwice
    <3> HIDE DEF lc, rc, pa
    <3>5. /\ Unsettled(Lefts(w, L), Rights(w, L), Parents(w, L), Heights(w, L), Counts(w, L), L, pa[n])
          /\ \E sub2 : SearchTree(Lefts(w, L), Rights(w, L), Parents(w, L),
                         IF pa[n] = NULL THEN g ELSE r, L, sub2, lt)
      BY <3>4, FixBentTurn
    <3> QED BY <3>5 DEF pa
  <2>10. \A m \in Names \ L : u[m] = t[m]
    BY <2>3, <2>7, <2>8
  <2>11. v # t
    <3>1. p # g \/ p = NULL
      BY <2>4, <1>1, <1>5, Around
    <3> QED BY <2>2, <2>7, <3>1
  <2> QED BY <2>4, <2>7, <2>8, <2>9, <2>10, <2>11 DEF Links, Settling
<1> QED BY <1>8, <1>9
\* The right subtree of n is too high: one rotation, or two.
LEMMA FixRightIs ==
    ASSUME NEW t, NEW r, NEW L, NEW sub, NEW lt \in SUBSET (Names \X Names),
           Links(t, r, L, sub, lt), NEW n \in L, Settling(t, L, n),
           NEW p, p = t[n].parent,
           avl_height(t, t[n].right) = avl_height(t, t[n].left) + 2,
           NEW v, v = avl_fix_right(t, n),
           NEW u, u = IF p = NULL THEN v ELSE WithChild(v, p, n, v[n].parent)
    PROVE  /\ \E sub2 : Links(u, IF p = NULL THEN v[n].parent ELSE r, L, sub2, lt)
           /\ Settling(u, L, p)
           /\ \A m \in Names \ L : u[m] = t[m]
           /\ v # t
<1> DEFINE l == t[n].right
           g == t[l].left
           z == [rot_right(t, l) EXCEPT ![n].right = g]
           lt2 == Mirror(lt)
<1>0. lt2 \in SUBSET (Names \X Names) /\ Mirror(lt2) = lt
  BY MirrorTwice
<1>1. /\ Memory(t, L) /\ SearchTree(Lefts(t, L), Rights(t, L), Parents(t, L), r, L, sub, lt)
      /\ SearchTree(Rights(t, L), Lefts(t, L), Parents(t, L), r, L, sub, lt2)
  BY Mirrored DEF Links
<1> HIDE DEF lt2
<1>u. Unsettled(Rights(t, L), Lefts(t, L), Parents(t, L), Heights(t, L), Counts(t, L), L, n)
  BY <1>1, UnsettledMirrored DEF Settling
<1>2. /\ NULL \notin L
      /\ \A m \in L : /\ Rights(t, L)[m] = t[m].right /\ Lefts(t, L)[m] = t[m].left
                      /\ Parents(t, L)[m] = t[m].parent
      /\ \A m \in L \cup {NULL} : Heights(t, L)[m] = avl_height(t, m)
      /\ Measures(Heights(t, L), Counts(t, L), L)
  BY <1>1, FieldsAre
<1>3. \A m \in L : t[m].right \in L \cup {NULL} /\ t[m].left \in L \cup {NULL} /\ t[m].parent \in L \cup {NULL}
  BY <1>1, <1>2 DEF SearchTree, Tree
<1>4. \A m \in L \cup {NULL} : avl_height(t, m) \in Nat /\ (m = NULL => avl_height(t, m) = 0)
  BY <1>2 DEF Measures
<1>5. l # NULL /\ l \in L
  BY <1>3, <1>4
<1>6. /\ Heights(t, L)[l] = avl_height(t, l) /\ Heights(t, L)[g] = avl_height(t, g)
      /\ Heights(t, L)[t[n].left] = avl_height(t, t[n].left)
      /\ Heights(t, L)[t[l].right] = avl_height(t, t[l].right)
  BY <1>2, <1>3, <1>5
<1>7. l # n /\ p # l /\ t[l].parent = n /\ t[n].left # l
  <2>1. l = Rights(t, L)[n] /\ p = Parents(t, L)[n]
    BY <1>2
  <2>2. l # n /\ p # l
    <3> HIDE DEF l
    <3> QED BY <2>1, <1>1, <1>5, Around
  <2>3. t[n].left # l
    <3>1. Rights(t, L)[n] # NULL => Rights(t, L)[n] # Lefts(t, L)[n]
      BY <1>1, Branches
    <3> QED BY <3>1, <2>1, <1>2, <1>5
  <2> QED BY <2>1, <2>2, <2>3, <1>1, <1>2, <1>5 DEF SearchTree, Tree
<1>8. CASE ~(avl_height(t, t[l].right) < avl_height(t, t[l].left))
  <2>1. v = rot_left(t, n)
    BY <1>8 DEF avl_fix_right
  <2> DEFINE w == IF t[n].parent = NULL THEN v ELSE WithChild(v, t[n].parent, n, l)
  <2>2. w = IF t[n].parent = NULL THEN v ELSE WithChild(v, t[n].parent, n, l)
    OBVIOUS
  <2>3. /\ Memory(w, L)
        /\ \A m \in Names \ L : w[m] = t[m]
        /\ v[n].parent = l
        /\ Turned(Rights(t, L), Lefts(t, L), Parents(t, L), L, n, Rights(w, L), Lefts(w, L), Parents(w, L))
        /\ Recounted(Rights(t, L), Lefts(t, L), Heights(t, L), Counts(t, L), L, n, l, Heights(w, L), Counts(w, L))
    <3> HIDE DEF l, w
    <3>0. l = t[n].right
      BY DEF l
    <3> QED BY <2>1, <2>2, <1>5, <3>0, RotLeftIs
  <2>4. w = u
    BY <2>3
  <2> HIDE DEF w
  <2>5. /\ Heights(t, L)[Rights(t, L)[n]] = Heights(t, L)[Lefts(t, L)[n]] + 2
        /\ Heights(t, L)[Lefts(t, L)[Rights(t, L)[n]]] <= Heights(t, L)[Rights(t, L)[Rights(t, L)[n]]]
        /\ Rights(t, L)[n] # NULL /\ Rights(t, L)[n] = l /\ Parents(t, L)[n] = p
    <3>1. /\ Rights(t, L)[n] = l /\ Lefts(t, L)[n] = t[n].left
          /\ Lefts(t, L)[l] = g /\ Rights(t, L)[l] = t[l].right
      BY <1>2, <1>5
    <3>2. avl_height(t, t[l].right) \in Nat /\ avl_height(t, g) \in Nat
      BY <1>3, <1>4, <1>5
    <3>3. avl_height(t, g) <= avl_height(t, t[l].right)
      BY <3>2, <1>8
    <3> QED BY <3>1, <3>3, <1>6, <1>5, <1>2
  <2>6. Unsettled(Rights(w, L), Lefts(w, L), Parents(w, L), Heights(w, L), Counts(w, L), L, p)
    <3> HIDE DEF l
    <3>1. Unsettled(Rights(t, L), Lefts(t, L), Parents(t, L), Heights(t, L), Counts(t, L), L, n)
      BY <1>u
    <3>2. Recounted(Rights(t, L), Lefts(t, L), Heights(t, L), Counts(t, L), L, n, Rights(t, L)[n],
                    Heights(w, L), Counts(w, L))
      BY <2>3, <2>5
    <3>3. Unsettled(Rights(w, L), Lefts(w, L), Parents(w, L), Heights(w, L), Counts(w, L), L, Parents(t, L)[n])
      BY <1>1, <2>3, <2>5, <3>1, <3>2, FixTurn
    <3> QED BY <3>3, <2>5
  <2>7. PICK sub2 : SearchTree(Rights(w, L), Lefts(w, L), Parents(w, L), IF p = NULL THEN l ELSE r, L, sub2, lt2)
    <3> HIDE DEF l
    <3>1. \E sub2 : SearchTree(Rights(w, L), Lefts(w, L), Parents(w, L),
                     IF Parents(t, L)[n] = NULL THEN Rights(t, L)[n] ELSE r, L, sub2, lt2)
      BY <1>1, <2>3, <2>5, TurnKeepsTree
    <3> QED BY <3>1, <2>5
  <2>8. v # t
    BY <2>3, <1>7
  <2>9. /\ SearchTree(Lefts(w, L), Rights(w, L), Parents(w, L), IF p = NULL THEN l ELSE r, L, sub2, lt)
        /\ Unsettled(Lefts(w, L), Rights(w, L), Parents(w, L), Heights(w, L), Counts(w, L), L, p)
    <3>1. p \in L \cup {NULL}
      BY <1>3
    <3> QED BY <3>1, <1>0, <2>6, <2>7, Mirrored, UnsettledMirrored
  <2> QED BY <2>3, <2>4, <2>8, <2>9 DEF Links, Settling
<1>9. CASE avl_height(t, t[l].right) < avl_height(t, t[l].left)
  <2>1. v = rot_left(z, n)
    BY <1>9 DEF avl_fix_right
  <2>2. g # NULL /\ g \in L
    BY <1>3, <1>4, <1>5, <1>9
  <2>3. /\ Memory(z, L)
        /\ \A m \in Names \ L : z[m] = t[m]
        /\ Turned(Lefts(t, L), Rights(t, L), Parents(t, L), L, l, Lefts(z, L), Rights(z, L), Parents(z, L))
        /\ Recounted(Lefts(t, L), Rights(t, L), Heights(t, L), Counts(t, L), L, l, g, Heights(z, L), Counts(z, L))
    <3> DEFINE w == rot_right(t, l)
               u1 == IF t[l].parent = NULL THEN w ELSE WithChild(w, t[l].parent, l, g)
    <3>1. /\ Memory(u1, L)
          /\ \A m \in Names \ L : u1[m] = t[m]
          /\ w[l].parent = g
          /\ t[l].parent # NULL => w[t[l].parent].left = t[t[l].parent].left
          /\ Turned(Lefts(t, L), Rights(t, L), Parents(t, L), L, l, Lefts(u1, L), Rights(u1, L), Parents(u1, L))
          /\ Recounted(Lefts(t, L), Rights(t, L), Heights(t, L), Counts(t, L), L, l, g, Heights(u1, L), Counts(u1, L))
      <4>1. /\ g = t[l].left /\ w = rot_right(t, l)
            /\ u1 = IF t[l].parent = NULL THEN w ELSE WithChild(w, t[l].parent, l, g)
        OBVIOUS
      <4> HIDE DEF l, g, w, u1
      <4> QED BY <4>1, <2>2, <1>5, RotRightIs
    <3>2. n # NULL
      BY <1>2
    <3>3. u1 = z
      <4>1. t[l].parent = n /\ w[n].left # l
        BY <3>1, <3>2, <1>7
      <4> QED BY <4>1, <3>2 DEF WithChild
    <3> HIDE DEF u1, z, w, l, g
    <3> QED BY <3>1, <3>3
  <2> HIDE DEF z
  <2>4. /\ Rights(t, L)[n] = l /\ Lefts(t, L)[l] = g /\ Rights(t, L)[l] = t[l].right
        /\ Parents(t, L)[n] = p /\ Parents(t, L)[l] = n /\ Lefts(t, L)[n] = t[n].left
    BY <1>2, <1>5, <1>7
  <2> HIDE DEF l, g
  <2>5. PICK sub1 : SearchTree(Rights(z, L), Lefts(z, L), Parents(z, L), r, L, sub1, lt2)
    <3>1. SearchTree(Lefts(t, L), Rights(t, L), Parents(t, L), r, L, sub, Mirror(lt2))
      BY <1>0, <1>1
    <3>2. Lefts(t, L)[l] # NULL
      BY <2>2, <2>4
    <3>3. PICK sub1 : SearchTree(Lefts(z, L), Rights(z, L), Parents(z, L),
                        IF Parents(t, L)[l] = NULL THEN Lefts(t, L)[l] ELSE r, L, sub1, Mirror(lt2))
      BY <3>1, <3>2, <2>3, <1>5, TurnKeepsTree
    <3>4. SearchTree(Lefts(z, L), Rights(z, L), Parents(z, L), r, L, sub1, Mirror(lt2))
      BY <3>3, <2>4, <1>2
    <3>5. Mirror(lt2) \in SUBSET (Names \X Names) /\ Mirror(Mirror(lt2)) = lt2
      BY <1>0, MirrorTwice
    <3> QED BY <3>4, <3>5, Mirrored
  <2>6. z[n].right = g /\ z[n].parent = p
    <3>1. /\ Rights(z, L)[n] = IF n = g THEN l ELSE IF Rights(t, L)[n] = l THEN g ELSE Rights(t, L)[n]
          /\ Parents(z, L)[n] = IF n = l THEN g ELSE IF n = g THEN Parents(t, L)[l]
                                ELSE IF n = Rights(t, L)[g] THEN l ELSE Parents(t, L)[n]
      BY <2>3, <2>4 DEF Turned
    <3>2. g # n /\ n # Rights(t, L)[g]
      <4>1. g # n
        BY <2>4, <1>1, <1>5, Around
      <4>2. n = Rights(t, L)[g] => Parents(t, L)[n] = g
        BY <1>1, <1>2, <2>2 DEF SearchTree, Tree
      <4>3. p # g \/ p = NULL
        BY <2>4, <1>1, <1>5, Around
      <4> QED BY <4>1, <4>2, <4>3, <2>2, <2>4
    <3>3. Rights(z, L)[n] = z[n].right /\ Parents(z, L)[n] = z[n].parent
      BY DEF Rights, Parents
    <3> QED BY <3>1, <3>2, <3>3, <2>4, <1>7
  <2> DEFINE w == IF z[n].parent = NULL THEN v ELSE WithChild(v, z[n].parent, n, g)
  <2>7. /\ Memory(w, L)
        /\ \A m \in Names \ L : w[m] = z[m]
        /\ v[n].parent = g
        /\ Turned(Rights(z, L), Lefts(z, L), Parents(z, L), L, n, Rights(w, L), Lefts(w, L), Parents(w, L))
        /\ Recounted(Rights(z, L), Lefts(z, L), Heights(z, L), Counts(z, L), L, n, g, Heights(w, L), Counts(w, L))
    <3>1. Links(z, r, L, sub1, lt)
      BY <1>0, <2>3, <2>5, Mirrored DEF Links
    <3>2. w = IF z[n].parent = NULL THEN v ELSE WithChild(v, z[n].parent, n, g)
      OBVIOUS
    <3> HIDE DEF w
    <3> QED BY <3>1, <3>2, <2>1, <2>2, <2>6, RotLeftIs
  <2>8. w = u
    BY <2>6, <2>7
  <2> HIDE DEF w
  <2>9. /\ Unsettled(Rights(w, L), Lefts(w, L), Parents(w, L), Heights(w, L), Counts(w, L), L, Parents(t, L)[n])
        /\ \E sub2 : SearchTree(Rights(w, L), Lefts(w, L), Parents(w, L),
                       IF Parents(t, L)[n] = NULL THEN g ELSE r, L, sub2, lt2)
    <3>1. Unsettled(Rights(t, L), Lefts(t, L), Parents(t, L), Heights(t, L), Counts(t, L), L, n)
      BY <1>u
    <3>2. /\ Rights(t, L)[n] # NULL /\ Lefts(t, L)[Rights(t, L)[n]] # NULL /\ g = Lefts(t, L)[Rights(t, L)[n]]
          /\ Turned(Lefts(t, L), Rights(t, L), Parents(t, L), L, Rights(t, L)[n],
                    Lefts(z, L), Rights(z, L), Parents(z, L))
          /\ Recounted(Lefts(t, L), Rights(t, L), Heights(t, L), Counts(t, L), L, Rights(t, L)[n], g,
                       Heights(z, L), Counts(z, L))
      BY <2>2, <2>3, <2>4, <1>5
    <3>3. /\ Heights(t, L)[Rights(t, L)[n]] = Heights(t, L)[Lefts(t, L)[n]] + 2
          /\ Heights(t, L)[Rights(t, L)[Rights(t, L)[n]]] < Heights(t, L)[g]
      BY <2>4, <1>6, <1>9 DEF l, g
    <3> DEFINE lc == Rights(t, L)
               rc == Lefts(t, L)
               pa == Parents(t, L)
    <3>4. /\ SearchTree(lc, rc, pa, r, L, sub, lt2)
          /\ Unsettled(lc, rc, pa, Heights(t, L), Counts(t, L), L, n)
          /\ TurnedTwice(lc, rc, pa, Heights(t, L), Counts(t, L), L, n, g,
                         Rights(z, L), Lefts(z, L), Parents(z, L), Heights(z, L), Counts(z, L),
                         Rights(w, L), Lefts(w, L), Parents(w, L), Heights(w, L), Counts(w, L))
      BY <1>1, <2>7, <3>1, <3>2, <3>3 DEF TurnedTwice
    <3> HIDE DEF lc, rc, pa
    <3>5. /\ Unsettled(Rights(w, L), Lefts(w, L), Parents(w, L), Heights(w, L), Counts(w, L), L, pa[n])
          /\ \E sub2 : SearchTree(Rights(w, L), Lefts(w, L), Parents(w, L),
                         IF pa[n] = NULL THEN g ELSE r, L, sub2, lt2)
      BY <1>0, <3>4, FixBentTurn
    <3> QED BY <3>5 DEF pa
  <2>10. \A m \in Names \ L : u[m] = t[m]
    BY <2>3, <2>7, <2>8
  <2>11. v # t
    <3>1. p # g \/ p = NULL
      BY <2>4, <1>1, <1>5, Around
    <3> QED BY <2>2, <2>7, <3>1
  <2>12. /\ \E sub2 : SearchTree(Lefts(w, L), Rights(w, L), Parents(w, L), IF p = NULL THEN g ELSE r, L, sub2, lt)
         /\ Unsettled(Lefts(w, L), Rights(w, L), Parents(w, L), Heights(w, L), Counts(w, L), L, p)
    <3>1. p \in L \cup {NULL}
      BY <1>3
    <3>2. PICK sub2 : SearchTree(Rights(w, L), Lefts(w, L), Parents(w, L), IF p = NULL THEN g ELSE r, L, sub2, lt2)
      BY <2>4, <2>9
    <3>3. Unsettled(Rights(w, L), Lefts(w, L), Parents(w, L), Heights(w, L), Counts(w, L), L, p)
      BY <2>4, <2>9
    <3>4. SearchTree(Lefts(w, L), Rights(w, L), Parents(w, L), IF p = NULL THEN g ELSE r, L, sub2, lt)
      BY <3>2, <1>0, Mirrored
    <3>5. Unsettled(Lefts(w, L), Rights(w, L), Parents(w, L), Heights(w, L), Counts(w, L), L, p)
      BY <3>1, <3>2, <3>3, UnsettledMirrored
    <3> QED BY <3>4, <3>5
  <2> QED BY <2>7, <2>8, <2>10, <2>11, <2>12 DEF Links, Settling
<1> QED BY <1>8, <1>9

\* An iteration of avl_fix() at n.
LEMMA FixedAtIs ==
    ASSUME NEW t, NEW r, NEW L, NEW sub, NEW lt \in SUBSET (Names \X Names),
           Links(t, r, L, sub, lt), NEW n \in L, Settling(t, L, n),
           NEW f, f = FixedAt(t, n)
    PROVE  /\ \E sub2 : Links(f.tree, IF t[n].parent = NULL THEN f.top ELSE r, L, sub2, lt)
           /\ Settling(f.tree, L, t[n].parent)
           /\ \A m \in Names \ L : f.tree[m] = t[m]
<1> DEFINE u == avl_update(t, n)
           p == u[n].parent
           hl == avl_height(u, u[n].left)
           hr == avl_height(u, u[n].right)
           v == IF hl = hr + 2 THEN avl_fix_left(u, n)
                ELSE IF hr = hl + 2 THEN avl_fix_right(u, n)
                ELSE u
           top == IF v = u THEN n ELSE v[n].parent
           w == IF p = NULL THEN v ELSE WithChild(v, p, n, top)
<1>1. f.tree = w /\ f.top = top
  BY DEF FixedAt
<1>2. /\ Links(u, r, L, sub, lt) /\ \A m \in Names \ L : u[m] = t[m]
      /\ Lefts(u, L) = Lefts(t, L) /\ Rights(u, L) = Rights(t, L) /\ Parents(u, L) = Parents(t, L)
      /\ Heights(u, L) = [Heights(t, L) EXCEPT ![n] =
            1 + max(Heights(t, L)[Lefts(t, L)[n]], Heights(t, L)[Rights(t, L)[n]])]
      /\ Counts(u, L) = [Counts(t, L) EXCEPT ![n] =
            1 + Counts(t, L)[Lefts(t, L)[n]] + Counts(t, L)[Rights(t, L)[n]]]
      /\ u[n].left = t[n].left /\ u[n].right = t[n].right /\ u[n].parent = t[n].parent
  <2> HIDE DEF u
  <2>1. u = avl_update(t, n)
    BY DEF u
  <2> QED BY <2>1, UpdatedLinks
<1> HIDE DEF u
<1>3. /\ Memory(u, L) /\ SearchTree(Lefts(u, L), Rights(u, L), Parents(u, L), r, L, sub, lt)
      /\ Memory(t, L) /\ SearchTree(Lefts(t, L), Rights(t, L), Parents(t, L), r, L, sub, lt)
  BY <1>2 DEF Links
<1>4. Unsettled(Lefts(t, L), Rights(t, L), Parents(t, L), Heights(t, L), Counts(t, L), L, n)
  BY DEF Settling
<1>5. Settling(u, L, n)
  <2>1. Measures(Heights(u, L), Counts(u, L), L)
    BY <1>3, FieldsAre
  <2>2. \A m \in L \cup {NULL} : m # n => /\ Heights(u, L)[m] = Heights(t, L)[m]
                                          /\ Counts(u, L)[m] = Counts(t, L)[m]
    BY <1>2 DEF Heights, Counts
  <2>3. Unsettled(Lefts(t, L), Rights(t, L), Parents(t, L), Heights(u, L), Counts(u, L), L, n)
    BY <1>3, <1>4, <2>1, <2>2, Unmoved
  <2> QED BY <2>3, <1>2 DEF Settling
<1>6. CASE hl = hr + 2
  <2>1. v = avl_fix_left(u, n)
    BY <1>6
  <2> DEFINE x == IF p = NULL THEN v ELSE WithChild(v, p, n, v[n].parent)
  <2>2. /\ \E sub2 : Links(x, IF p = NULL THEN v[n].parent ELSE r, L, sub2, lt)
        /\ Settling(x, L, p)
        /\ \A m \in Names \ L : x[m] = u[m]
        /\ v # u
    <3>1. p = u[n].parent /\ x = IF p = NULL THEN v ELSE WithChild(v, p, n, v[n].parent)
      OBVIOUS
    <3>2. avl_height(u, u[n].left) = avl_height(u, u[n].right) + 2
      BY <1>6
    <3> HIDE DEF v, p, x
    <3> QED BY <3>1, <3>2, <2>1, <1>2, <1>5, FixLeftIs
  <2>3. top = v[n].parent /\ x = w
    BY <2>2
  <2> HIDE DEF v, top, w, x
  <2> QED BY <1>1, <1>2, <2>2, <2>3
<1>7. CASE hr = hl + 2
  <2>1. v = avl_fix_right(u, n)
    <3>1. hl \in Nat /\ hr \in Nat
      <4>1. /\ u[n].left \in L \cup {NULL} /\ u[n].right \in L \cup {NULL}
        BY <1>3, FieldsAre DEF SearchTree, Tree
      <4> QED BY <4>1, <1>3, NodeShape DEF avl_height
    <3> HIDE DEF hl, hr
    <3>2. hl # hr + 2
      BY <3>1, <1>7
    <3> QED BY <3>2, <1>7
  <2> DEFINE x == IF p = NULL THEN v ELSE WithChild(v, p, n, v[n].parent)
  <2>2. /\ \E sub2 : Links(x, IF p = NULL THEN v[n].parent ELSE r, L, sub2, lt)
        /\ Settling(x, L, p)
        /\ \A m \in Names \ L : x[m] = u[m]
        /\ v # u
    <3>1. p = u[n].parent /\ x = IF p = NULL THEN v ELSE WithChild(v, p, n, v[n].parent)
      OBVIOUS
    <3>2. avl_height(u, u[n].right) = avl_height(u, u[n].left) + 2
      BY <1>7
    <3> HIDE DEF v, p, x
    <3> QED BY <3>1, <3>2, <2>1, <1>2, <1>5, FixRightIs
  <2>3. top = v[n].parent /\ x = w
    BY <2>2
  <2> HIDE DEF v, top, w, x
  <2> QED BY <1>1, <1>2, <2>2, <2>3
<1>8. CASE hl # hr + 2 /\ hr # hl + 2
  <2>1. v = u /\ top = n
    BY <1>8
  <2>2. /\ p \in L \cup {NULL} /\ Parents(t, L)[n] = p /\ n \in Pointers /\ NULL \notin L
        /\ p # NULL => u[p].left = n \/ u[p].right = n
        /\ p = NULL => n = r
    <3>1. Parents(u, L)[n] = p /\ \A m \in L : Lefts(u, L)[m] = u[m].left /\ Rights(u, L)[m] = u[m].right
      BY <1>3, FieldsAre
    <3> HIDE DEF p
    <3>2. /\ p \in L \cup {NULL}
          /\ p # NULL => Lefts(u, L)[p] = n \/ Rights(u, L)[p] = n
          /\ p = NULL => n = r
      BY <3>1, <1>3 DEF SearchTree, Tree
    <3> QED BY <3>1, <3>2, <1>2, <1>3, NodeShape
  <2> HIDE DEF p
  <2>3. /\ Memory(w, L)
        /\ \A m \in Names \ L : w[m] = u[m]
        /\ \A m \in L : /\ w[m].left = u[m].left /\ w[m].right = u[m].right /\ w[m].parent = u[m].parent
                        /\ w[m].height = u[m].height /\ w[m].cnt = u[m].cnt
    <3>1. CASE p = NULL
      BY <3>1, <2>1, <1>3
    <3>2. CASE p # NULL
      <4>1. w = WithChild(u, p, n, n)
        BY <3>2, <2>1
      <4> HIDE DEF w
      <4>2. /\ Elsewhere(u, w, L, p)
            /\ w[p].left = IF u[p].left = n THEN n ELSE u[p].left
            /\ w[p].right = IF u[p].left = n THEN u[p].right ELSE n
            /\ w[p].parent = u[p].parent /\ w[p].height = u[p].height /\ w[p].cnt = u[p].cnt
        BY <4>1, <3>2, <2>2, <1>3, WithChildIs
      <4> QED BY <4>2, <3>2, <2>2, <1>3 DEF Elsewhere, Memory
    <3> QED BY <3>1, <3>2
  <2> HIDE DEF w
  <2>4. /\ Lefts(w, L) = Lefts(t, L) /\ Rights(w, L) = Rights(t, L) /\ Parents(w, L) = Parents(t, L)
        /\ Heights(w, L) = Heights(u, L) /\ Counts(w, L) = Counts(u, L)
    <3>1. \A m \in L \cup {NULL} : avl_height(w, m) = avl_height(u, m) /\ avl_cnt(w, m) = avl_cnt(u, m)
      BY <2>3, <2>2 DEF avl_height, avl_cnt
    <3>2. /\ Lefts(w, L) = Lefts(u, L) /\ Rights(w, L) = Rights(u, L) /\ Parents(w, L) = Parents(u, L)
      BY <2>3 DEF Lefts, Rights, Parents
    <3> QED BY <3>1, <3>2, <1>2 DEF Heights, Counts
  <2>5. Links(w, r, L, sub, lt)
    BY <2>3, <2>4, <1>3 DEF Links
  <2>6. Level(Heights(t, L)[Lefts(t, L)[n]], Heights(t, L)[Rights(t, L)[n]])
    <3> DEFINE a == Heights(t, L)[Lefts(t, L)[n]]
               b == Heights(t, L)[Rights(t, L)[n]]
    <3>1. /\ a \in Nat /\ b \in Nat /\ a <= b + 2 /\ b <= a + 2
      <4>1. Lefts(t, L)[n] \in L \cup {NULL} /\ Rights(t, L)[n] \in L \cup {NULL}
        BY <1>3 DEF SearchTree, Tree
      <4> QED BY <4>1, <1>4, <2>2 DEF Unsettled, Measures, Near
    <3>2. a = hl /\ b = hr
      <4>1. /\ Lefts(t, L)[n] = u[n].left /\ Rights(t, L)[n] = u[n].right
            /\ Lefts(t, L)[n] \in L \cup {NULL} /\ Rights(t, L)[n] \in L \cup {NULL}
            /\ Lefts(t, L)[n] # n /\ Rights(t, L)[n] # n
        <5>1. Lefts(t, L)[n] = t[n].left /\ Rights(t, L)[n] = t[n].right
          BY <1>3, FieldsAre
        <5>2. /\ Lefts(t, L)[n] # NULL => Lefts(t, L)[n] # n
              /\ Rights(t, L)[n] # NULL => Rights(t, L)[n] # n
          BY <1>3, Branches
        <5> QED BY <5>1, <5>2, <1>2, <1>3, <2>2 DEF SearchTree, Tree
      <4>2. a = Heights(u, L)[Lefts(t, L)[n]] /\ b = Heights(u, L)[Rights(t, L)[n]]
        BY <4>1, <1>2 DEF Heights
      <4> QED BY <4>1, <4>2, <1>3, FieldsAre
    <3> HIDE DEF a, b, hl, hr
    <3>3. a <= b + 1 /\ b <= a + 1
      BY <3>1, <3>2, <1>8
    <3> QED BY <3>3 DEF a, b, Level
  <2>7. Unsettled(Lefts(t, L), Rights(t, L), Parents(t, L), Heights(u, L), Counts(u, L), L, Parents(t, L)[n])
    BY <1>2, <1>3, <1>4, <2>6, FixNothing
  <2>8. Settling(w, L, p)
    BY <2>2, <2>4, <2>7 DEF Settling
  <2>9. t[n].parent = p
    BY <1>2 DEF p
  <2>10. \A m \in Names \ L : w[m] = t[m]
    BY <2>3, <1>2
  <2>11. top = n
    BY <2>1
  <2> HIDE DEF top
  <2>12. (IF t[n].parent = NULL THEN f.top ELSE r) = r
    BY <1>1, <2>2, <2>9, <2>11
  <2> QED BY <1>1, <2>5, <2>8, <2>9, <2>10, <2>12
<1> QED BY <1>6, <1>7, <1>8

-----------------------------------------------------------------------------
(* Insertion in the memory.                                                *)

\* The node at n is new.
PutNode(t, n, e) == [t EXCEPT ![n] = e]

\* A new node is put into the memory, and no other changes.
LEMMA PutNodeIs ==
    ASSUME NEW t, NEW L, Memory(t, L), NEW n \in Names, NEW e \in AVLNodes,
           NEW u, u = PutNode(t, n, e)
    PROVE  Elsewhere(t, u, L \cup {n}, n) /\ u[n] = e
BY DEF Memory, Elsewhere, PutNode

\* A node that avl_init() has set is one.
LEMMA InitIs ==
    /\ avl_init \in AVLNodes
    /\ avl_init.parent = NULL /\ avl_init.left = NULL /\ avl_init.right = NULL
    /\ avl_init.height = 1 /\ avl_init.cnt = 1
BY DEF avl_init, AVLNodes, Pointers

\* The mirror of an order is one.
LEMMA OrderMirrored ==
    ASSUME NEW lt \in SUBSET (Names \X Names), NEW L, Order(lt, L)
    PROVE  Order(Mirror(lt), L)
<1>1. \A a, b : <<a, b>> \in Mirror(lt) <=> <<b, a>> \in lt
  BY MirrorIs
<1> QED BY <1>1 DEF Order

\* Between calls every node fits.
LEMMA SettlingIs ==
    ASSUME NEW t, NEW L, Memory(t, L)
    PROVE  Settling(t, L, NULL) <=> Settled(Lefts(t, L), Rights(t, L), Heights(t, L), Counts(t, L), L)
BY NodeShape DEF Settling, Unsettled, Settled

\* The node n becomes the left child of p.
LEMMA HungLeftIs ==
    ASSUME NEW t, NEW r, NEW L, NEW sub, NEW lt \in SUBSET (Names \X Names),
           Links(t, r, L, sub, lt), Settling(t, L, NULL),
           NEW n \in Names \ L, Order(lt, L \cup {n}),
           NEW p, RoomAtLeft(Lefts(t, L), Rights(t, L), L, sub, lt, p, n),
           NEW t1, t1 = PutNode(t, n, avl_init),
           NEW u, u = PutParent(PutLeft(t1, p, n), n, p)
    PROVE  /\ \E sub2 : Links(u, r, L \cup {n}, sub2, lt)
           /\ Settling(u, L \cup {n}, n)
           /\ \A m \in Names \ (L \cup {n}) : u[m] = t[m]
<1> DEFINE L2 == L \cup {n}
           u1 == PutLeft(t1, p, n)
<1>1. /\ Memory(t, L) /\ SearchTree(Lefts(t, L), Rights(t, L), Parents(t, L), r, L, sub, lt)
      /\ p \in L /\ p # n /\ p \in Pointers /\ n \in Pointers
  BY NodeShape DEF Links, RoomAtLeft, Pointers
<1>2. n # NULL /\ NULL \notin L
  BY <1>1, NodeShape, TreeAssumption
<1> HIDE DEF u1
<1>3. Elsewhere(t, t1, L2, n) /\ t1[n] = avl_init
  BY <1>1, InitIs, PutNodeIs
<1> HIDE DEF L2
<1>4. /\ Elsewhere(t1, u1, L2, p)
      /\ u1[p].left = n /\ u1[p].right = t1[p].right /\ u1[p].parent = t1[p].parent
      /\ u1[p].height = t1[p].height /\ u1[p].cnt = t1[p].cnt
  <2>1. Memory(t1, L2) /\ p \in L2 /\ n \in Pointers
    BY <1>1, <1>3 DEF Elsewhere, L2
  <2> QED BY <2>1, <1>1, PutLeftIs DEF u1
<1>5. /\ Elsewhere(u1, u, L2, n)
      /\ u[n].left = u1[n].left /\ u[n].right = u1[n].right /\ u[n].parent = p
      /\ u[n].height = u1[n].height /\ u[n].cnt = u1[n].cnt
  <2>1. u = PutParent(u1, n, p)
    BY DEF u1
  <2>2. Memory(u1, L2) /\ n \in L2
    BY <1>4 DEF Elsewhere, L2
  <2> QED BY <2>1, <2>2, <1>1, PutParentIs
<1>6. /\ Memory(u, L2)
      /\ u[n].left = NULL /\ u[n].right = NULL /\ u[n].parent = p /\ u[n].height = 1 /\ u[n].cnt = 1
      /\ u[p].left = n /\ u[p].right = t[p].right /\ u[p].parent = t[p].parent
      /\ u[p].height = t[p].height /\ u[p].cnt = t[p].cnt
      /\ \A m \in Names : m # n /\ m # p => u[m] = t[m]
  <2>1. p \in Names
    BY <1>1 DEF Memory
  <2>2. u1[n] = avl_init /\ t1[p] = t[p] /\ u[p] = u1[p]
    BY <2>1, <1>1, <1>3, <1>4, <1>5 DEF Elsewhere
  <2> QED BY <2>2, <1>3, <1>4, <1>5, InitIs DEF Elsewhere
<1>7. \A m \in L : m \in Names /\ m # n
  BY <1>1 DEF Memory
<1>8. Hung(Lefts(t, L), Rights(t, L), Parents(t, L), Heights(t, L), Counts(t, L), L, p, n,
           Lefts(u, L2), Rights(u, L2), Parents(u, L2), Heights(u, L2), Counts(u, L2))
  <2>1. Lefts(u, L2) = [m \in L2 |-> IF m = n THEN NULL ELSE IF m = p THEN n ELSE Lefts(t, L)[m]]
    BY <1>1, <1>6, <1>7 DEF Lefts, L2
  <2>2. Rights(u, L2) = [m \in L2 |-> IF m = n THEN NULL ELSE Rights(t, L)[m]]
    BY <1>1, <1>6, <1>7 DEF Rights, L2
  <2>3. Parents(u, L2) = [m \in L2 |-> IF m = n THEN p ELSE Parents(t, L)[m]]
    BY <1>1, <1>6, <1>7 DEF Parents, L2
  <2>4. Heights(u, L2) = [m \in L2 \cup {NULL} |-> IF m = n THEN 1 ELSE Heights(t, L)[m]]
    BY <1>1, <1>2, <1>6, <1>7 DEF Heights, L2, avl_height
  <2>5. Counts(u, L2) = [m \in L2 \cup {NULL} |-> IF m = n THEN 1 ELSE Counts(t, L)[m]]
    BY <1>1, <1>2, <1>6, <1>7 DEF Counts, L2, avl_cnt
  <2> QED BY <2>1, <2>2, <2>3, <2>4, <2>5 DEF Hung, L2
<1>9. /\ \E sub2 : SearchTree(Lefts(u, L2), Rights(u, L2), Parents(u, L2), r, L2, sub2, lt)
      /\ Unsettled(Lefts(u, L2), Rights(u, L2), Parents(u, L2), Heights(u, L2), Counts(u, L2), L2, n)
  <2>1. Settled(Lefts(t, L), Rights(t, L), Heights(t, L), Counts(t, L), L)
    BY <1>1, SettlingIs
  <2>2. /\ \E sub2 : SearchTree(Lefts(u, L2), Rights(u, L2), Parents(u, L2), r, L \cup {n}, sub2, lt)
        /\ Unsettled(Lefts(u, L2), Rights(u, L2), Parents(u, L2), Heights(u, L2), Counts(u, L2), L \cup {n}, n)
    BY <2>1, <1>1, <1>2, <1>8, HangKeepsTree DEF L2
  <2> QED BY <2>2 DEF L2
<1>10. \A m \in Names \ L2 : u[m] = t[m]
  BY <1>1, <1>6 DEF L2
<1> QED BY <1>6, <1>9, <1>10 DEF Links, Settling, L2

\* The node n becomes the right child of p: the mirror image.
LEMMA HungRightIs ==
    ASSUME NEW t, NEW r, NEW L, NEW sub, NEW lt \in SUBSET (Names \X Names),
           Links(t, r, L, sub, lt), Settling(t, L, NULL),
           NEW n \in Names \ L, Order(lt, L \cup {n}),
           NEW p, RoomAtLeft(Rights(t, L), Lefts(t, L), L, sub, Mirror(lt), p, n),
           NEW t1, t1 = PutNode(t, n, avl_init),
           NEW u, u = PutParent(PutRight(t1, p, n), n, p)
    PROVE  /\ \E sub2 : Links(u, r, L \cup {n}, sub2, lt)
           /\ Settling(u, L \cup {n}, n)
           /\ \A m \in Names \ (L \cup {n}) : u[m] = t[m]
<1> DEFINE L2 == L \cup {n}
           lt2 == Mirror(lt)
           u1 == PutRight(t1, p, n)
<1>1. /\ Memory(t, L) /\ SearchTree(Rights(t, L), Lefts(t, L), Parents(t, L), r, L, sub, lt2)
      /\ p \in L /\ p # n /\ p \in Pointers /\ n \in Pointers
  BY NodeShape, Mirrored DEF Links, RoomAtLeft, Pointers
<1>a. SearchTree(Lefts(t, L), Rights(t, L), Parents(t, L), r, L, sub, lt)
  BY DEF Links
<1>b. lt2 \in SUBSET (Names \X Names) /\ Mirror(lt2) = lt /\ Order(lt2, L \cup {n})
  BY MirrorTwice, OrderMirrored
<1>c. RoomAtLeft(Rights(t, L), Lefts(t, L), L, sub, lt2, p, n)
  OBVIOUS
<1> HIDE DEF lt2
<1>2. n # NULL /\ NULL \notin L
  BY <1>1, NodeShape, TreeAssumption
<1> HIDE DEF u1
<1>3. Elsewhere(t, t1, L2, n) /\ t1[n] = avl_init
  BY <1>1, InitIs, PutNodeIs
<1> HIDE DEF L2
<1>4. /\ Elsewhere(t1, u1, L2, p)
      /\ u1[p].right = n /\ u1[p].left = t1[p].left /\ u1[p].parent = t1[p].parent
      /\ u1[p].height = t1[p].height /\ u1[p].cnt = t1[p].cnt
  <2>1. Memory(t1, L2) /\ p \in L2 /\ n \in Pointers
    BY <1>1, <1>3 DEF Elsewhere, L2
  <2> QED BY <2>1, <1>1, PutRightIs DEF u1
<1>5. /\ Elsewhere(u1, u, L2, n)
      /\ u[n].right = u1[n].right /\ u[n].left = u1[n].left /\ u[n].parent = p
      /\ u[n].height = u1[n].height /\ u[n].cnt = u1[n].cnt
  <2>1. u = PutParent(u1, n, p)
    BY DEF u1
  <2>2. Memory(u1, L2) /\ n \in L2
    BY <1>4 DEF Elsewhere, L2
  <2> QED BY <2>1, <2>2, <1>1, PutParentIs
<1>6. /\ Memory(u, L2)
      /\ u[n].right = NULL /\ u[n].left = NULL /\ u[n].parent = p /\ u[n].height = 1 /\ u[n].cnt = 1
      /\ u[p].right = n /\ u[p].left = t[p].left /\ u[p].parent = t[p].parent
      /\ u[p].height = t[p].height /\ u[p].cnt = t[p].cnt
      /\ \A m \in Names : m # n /\ m # p => u[m] = t[m]
  <2>1. p \in Names
    BY <1>1 DEF Memory
  <2>2. u1[n] = avl_init /\ t1[p] = t[p] /\ u[p] = u1[p]
    BY <2>1, <1>1, <1>3, <1>4, <1>5 DEF Elsewhere
  <2> QED BY <2>2, <1>3, <1>4, <1>5, InitIs DEF Elsewhere
<1>7. \A m \in L : m \in Names /\ m # n
  BY <1>1 DEF Memory
<1>8. Hung(Rights(t, L), Lefts(t, L), Parents(t, L), Heights(t, L), Counts(t, L), L, p, n,
           Rights(u, L2), Lefts(u, L2), Parents(u, L2), Heights(u, L2), Counts(u, L2))
  <2>1. Rights(u, L2) = [m \in L2 |-> IF m = n THEN NULL ELSE IF m = p THEN n ELSE Rights(t, L)[m]]
    BY <1>1, <1>6, <1>7 DEF Rights, L2
  <2>2. Lefts(u, L2) = [m \in L2 |-> IF m = n THEN NULL ELSE Lefts(t, L)[m]]
    BY <1>1, <1>6, <1>7 DEF Lefts, L2
  <2>3. Parents(u, L2) = [m \in L2 |-> IF m = n THEN p ELSE Parents(t, L)[m]]
    BY <1>1, <1>6, <1>7 DEF Parents, L2
  <2>4. Heights(u, L2) = [m \in L2 \cup {NULL} |-> IF m = n THEN 1 ELSE Heights(t, L)[m]]
    BY <1>1, <1>2, <1>6, <1>7 DEF Heights, L2, avl_height
  <2>5. Counts(u, L2) = [m \in L2 \cup {NULL} |-> IF m = n THEN 1 ELSE Counts(t, L)[m]]
    BY <1>1, <1>2, <1>6, <1>7 DEF Counts, L2, avl_cnt
  <2> QED BY <2>1, <2>2, <2>3, <2>4, <2>5 DEF Hung, L2
<1>9. /\ \E sub2 : SearchTree(Lefts(u, L2), Rights(u, L2), Parents(u, L2), r, L2, sub2, lt)
      /\ Unsettled(Lefts(u, L2), Rights(u, L2), Parents(u, L2), Heights(u, L2), Counts(u, L2), L2, n)
  <2>1. Settled(Rights(t, L), Lefts(t, L), Heights(t, L), Counts(t, L), L)
    <3>1. Unsettled(Rights(t, L), Lefts(t, L), Parents(t, L), Heights(t, L), Counts(t, L), L, NULL)
      BY <1>a, UnsettledMirrored DEF Settling
    <3> QED BY <3>1, <1>2 DEF Unsettled, Settled
  <2>2. /\ \E sub2 : SearchTree(Rights(u, L2), Lefts(u, L2), Parents(u, L2), r, L \cup {n}, sub2, lt2)
        /\ Unsettled(Rights(u, L2), Lefts(u, L2), Parents(u, L2), Heights(u, L2), Counts(u, L2), L \cup {n}, n)
    BY <2>1, <1>1, <1>2, <1>b, <1>c, <1>8, HangKeepsTree DEF L2
  <2>3. PICK sub2 : SearchTree(Rights(u, L2), Lefts(u, L2), Parents(u, L2), r, L2, sub2, lt2)
    BY <2>2 DEF L2
  <2>4. SearchTree(Lefts(u, L2), Rights(u, L2), Parents(u, L2), r, L2, sub2, lt)
    BY <2>3, <1>b, Mirrored
  <2>5. n \in L2 \cup {NULL}
    BY DEF L2
  <2>6. Unsettled(Lefts(u, L2), Rights(u, L2), Parents(u, L2), Heights(u, L2), Counts(u, L2), L2, n)
    BY <2>2, <2>3, <2>5, UnsettledMirrored DEF L2
  <2> QED BY <2>4, <2>6
<1>10. \A m \in Names \ L2 : u[m] = t[m]
  BY <1>1, <1>6 DEF L2
<1> QED BY <1>6, <1>9, <1>10 DEF Links, Settling, L2

\* The first node becomes the root.
LEMMA PlantedIs ==
    ASSUME NEW t, NEW L, L = {}, NEW lt, Memory(t, L), NEW n \in Names,
           NEW L2, L2 = {n}, Order(lt, L2), NEW u, u = PutNode(t, n, avl_init)
    PROVE  /\ \E sub2 : Links(u, n, L2, sub2, lt)
           /\ Settling(u, L2, n)
           /\ \A m \in Names \ L2 : u[m] = t[m]
<1> DEFINE sub2 == [m \in {n, NULL} |-> IF m = n THEN {n} ELSE {}]
<1>1. n # NULL
  BY TreeAssumption
<1>2. /\ Memory(u, L2) /\ u[n] = avl_init
      /\ \A m \in Names : m # n => u[m] = t[m]
  <2>1. L \cup {n} = L2
    OBVIOUS
  <2>2. Elsewhere(t, u, L \cup {n}, n) /\ u[n] = avl_init
    BY InitIs, PutNodeIs
  <2> QED BY <2>1, <2>2 DEF Elsewhere
<1>3. /\ Lefts(u, L2) = [m \in {n} |-> NULL] /\ Rights(u, L2) = [m \in {n} |-> NULL]
      /\ Parents(u, L2) = [m \in {n} |-> NULL]
      /\ Heights(u, L2) = [m \in {n, NULL} |-> IF m = n THEN 1 ELSE 0]
      /\ Counts(u, L2) = [m \in {n, NULL} |-> IF m = n THEN 1 ELSE 0]
  BY <1>1, <1>2, InitIs DEF Lefts, Rights, Parents, Heights, Counts, avl_height, avl_cnt
<1>4. SearchTree(Lefts(u, L2), Rights(u, L2), Parents(u, L2), n, L2, sub2, lt)
  <2>1. Tree(Lefts(u, L2), Rights(u, L2), Parents(u, L2), n, L2, sub2)
    BY <1>1, <1>3 DEF Tree
  <2>2. Sorted(Lefts(u, L2), Rights(u, L2), L2, sub2, lt)
    <3>1. sub2[NULL] = {} /\ Lefts(u, L2)[n] = NULL /\ Rights(u, L2)[n] = NULL
      BY <1>1, <1>3
    <3> HIDE DEF sub2
    <3> QED BY <3>1 DEF Sorted
  <2> QED BY <2>1, <2>2 DEF SearchTree
<1>5. Settling(u, L2, n)
  <2>1. Measures(Heights(u, L2), Counts(u, L2), L2)
    BY <1>1, <1>3 DEF Measures
  <2>2. Expects(Lefts(u, L2), Rights(u, L2), Parents(u, L2), Heights(u, L2), n, 1)
    BY <1>3 DEF Expects
  <2>3. Near(1, Heights(u, L2)[Lefts(u, L2)[n]], Heights(u, L2)[Rights(u, L2)[n]])
    BY <1>1, <1>3 DEF Near, Level, max
  <2> QED BY <2>1, <2>2, <2>3 DEF Settling, Unsettled
<1> QED BY <1>2, <1>4, <1>5 DEF Links

\* The search for the place of n under which avl_insert() puts it.
LEMMA PlaceIs ==
    ASSUME NEW t, NEW r \in Names, NEW L, NEW sub, NEW lt, Links(t, r, L, sub, lt), IsFiniteSet(L),
           NEW n, Nodes(t) \ {n} = L, NEW sc,
           \A q \in L : Less(sc, n, q) <=> <<n, q>> \in lt,
           NEW p, p = Place(t, r, n, sc)
    PROVE  Belongs(Lefts(t, L), Rights(t, L), sub, lt, p, r, n)
<1> DEFINE lc == Lefts(t, L)
           rc == Rights(t, L)
           Child(q) == IF Less(sc, n, q) THEN t[q].left ELSE t[q].right
           Body(f) == [q \in Nodes(t) \ {n} |-> IF Child(q) = NULL THEN q ELSE f[Child(q)]]
           Body2(f) == [q \in L |-> IF Towards(lc, rc, lt, q, n) = NULL THEN q ELSE f[Towards(lc, rc, lt, q, n)]]
           under == CHOOSE f : f = Body(f)
<1>1. SearchTree(lc, rc, Parents(t, L), r, L, sub, lt)
  BY DEF Links
<1>2. r # NULL /\ r \in L
  BY <1>1, TreeAssumption DEF SearchTree, Tree
<1>3. p = under[r]
  BY <1>2 DEF Place
<1>4. \A q \in L : Child(q) = Towards(lc, rc, lt, q, n)
  BY DEF Towards, Lefts, Rights
<1>5. \A f : Body(f) = Body2(f)
  BY <1>4
<1>6. under = CHOOSE f : f = Body2(f)
  <2> HIDE DEF Body, Body2
  <2> QED BY <1>5
<1> HIDE DEF under, Body, lc, rc, Child
<1>7. under = CHOOSE f : f = [q \in L |->
         IF Towards(lc, rc, lt, q, n) = NULL THEN q ELSE f[Towards(lc, rc, lt, q, n)]]
  BY <1>6
<1>8. Belongs(lc, rc, sub, lt, under[r], r, n)
  <2> HIDE DEF Body2
  <2> QED BY <1>1, <1>2, <1>7, SearchEnds
<1> QED BY <1>3, <1>8 DEF lc, rc

\* avl_insert() of n into the tree of root r, in the order of the scores sc.
Inserted(t, r, n, sc) ==
    LET p == Place(t, r, n, sc)
    IN  Attached([t EXCEPT ![n] = avl_init], n, p, p # NULL /\ Less(sc, n, p))

\* avl_insert(), before its avl_fix(): a search tree with one more node, which
\* settles from that node on.
LEMMA InsertedIs ==
    ASSUME NEW t, NEW r, NEW L, NEW sub, NEW lt \in SUBSET (Names \X Names),
           Links(t, r, L, sub, lt), IsFiniteSet(L), Settling(t, L, NULL),
           NEW n \in Names \ L, Nodes(t) \ {n} = L, Order(lt, L \cup {n}), NEW sc,
           \A q \in L : Less(sc, n, q) <=> <<n, q>> \in lt,
           NEW u, u = Inserted(t, r, n, sc)
    PROVE  /\ \E sub2 : Links(u, IF r = NULL THEN n ELSE r, L \cup {n}, sub2, lt)
           /\ Settling(u, L \cup {n}, n)
           /\ \A m \in Names \ (L \cup {n}) : u[m] = t[m]
<1> DEFINE p == Place(t, r, n, sc)
           t1 == PutNode(t, n, avl_init)
<1>1. u = Attached(t1, n, p, p # NULL /\ Less(sc, n, p))
  BY DEF Inserted, PutNode
<1>2. Memory(t, L) /\ SearchTree(Lefts(t, L), Rights(t, L), Parents(t, L), r, L, sub, lt)
  BY DEF Links
<1>3. CASE r = NULL
  <2>1. L = {} /\ p = NULL
    BY <1>2, <1>3 DEF SearchTree, Tree, Place
  <2>2. u = t1
    BY <1>1, <2>1 DEF Attached
  <2>3. L \cup {n} = {n}
    BY <2>1
  <2>4. Memory(t, L) /\ L = {} /\ n \in Names /\ u = PutNode(t, n, avl_init)
    BY <1>2, <2>1, <2>2
  <2>5. /\ \E sub2 : Links(u, n, L \cup {n}, sub2, lt)
        /\ Settling(u, L \cup {n}, n)
        /\ \A m \in Names \ (L \cup {n}) : u[m] = t[m]
    BY <2>3, <2>4, PlantedIs
  <2> QED BY <1>3, <2>3, <2>5
<1>4. CASE r # NULL
  <2>1. r \in Names
    BY <1>2, <1>4 DEF SearchTree, Tree, Memory
  <2>2. Belongs(Lefts(t, L), Rights(t, L), sub, lt, p, r, n)
    <3>1. p = Place(t, r, n, sc)
      OBVIOUS
    <3> HIDE DEF p
    <3> QED BY <2>1, <3>1, PlaceIs
  <2> HIDE DEF p
  <2>3. /\ p \in L
        /\ <<n, p>> \in lt => RoomAtLeft(Lefts(t, L), Rights(t, L), L, sub, lt, p, n)
        /\ <<n, p>> \notin lt => RoomAtLeft(Rights(t, L), Lefts(t, L), L, sub, Mirror(lt), p, n)
    <3>1. n \notin L
      OBVIOUS
    <3> QED BY <1>2, <2>2, <3>1, RoomThere
  <2>4. p # NULL
    BY <2>3, <1>2, NodeShape
  <2>5. CASE Less(sc, n, p)
    <3>1. u = PutParent(PutLeft(t1, p, n), n, p)
      BY <1>1, <2>4, <2>5 DEF Attached, PutParent, PutLeft
    <3>2. RoomAtLeft(Lefts(t, L), Rights(t, L), L, sub, lt, p, n)
      BY <2>3, <2>5
    <3>3. /\ \E sub2 : Links(u, r, L \cup {n}, sub2, lt)
          /\ Settling(u, L \cup {n}, n)
          /\ \A m \in Names \ (L \cup {n}) : u[m] = t[m]
      BY <3>1, <3>2, HungLeftIs
    <3> QED BY <3>3, <1>4
  <2>6. CASE ~Less(sc, n, p)
    <3>1. u = PutParent(PutRight(t1, p, n), n, p)
      BY <1>1, <2>4, <2>6 DEF Attached, PutParent, PutRight
    <3>2. RoomAtLeft(Rights(t, L), Lefts(t, L), L, sub, Mirror(lt), p, n)
      BY <2>3, <2>6
    <3>4. t1 = PutNode(t, n, avl_init)
      OBVIOUS
    <3> HIDE DEF t1
    <3>3. /\ \E sub2 : Links(u, r, L \cup {n}, sub2, lt)
          /\ Settling(u, L \cup {n}, n)
          /\ \A m \in Names \ (L \cup {n}) : u[m] = t[m]
      BY <3>1, <3>2, <3>4, HungRightIs, SMTT(20)
    <3> QED BY <3>3, <1>4
  <2> QED BY <2>5, <2>6
<1> QED BY <1>3, <1>4

\* avl_del_easy() of a node without a right child.
LEMMA CutLeftIs ==
    ASSUME NEW t, NEW r, NEW L, NEW sub, NEW lt \in SUBSET (Names \X Names),
           Links(t, r, L, sub, lt), Settling(t, L, NULL), NEW v \in L, t[v].right = NULL,
           NEW c, c = t[v].left, NEW p, p = t[v].parent, NEW u1, u1 = WithParent(t, c, p),
           NEW u, u = IF p = NULL THEN u1 ELSE WithChild(u1, p, v, c)
    PROVE  /\ \E sub2 : Links(u, IF p = NULL THEN c ELSE r, L \ {v}, sub2, lt)
           /\ Settling(u, L \ {v}, p)
           /\ \A m \in Names \ (L \ {v}) : u[m] = t[m]
<1> DEFINE lc == Lefts(t, L)
           rc == Rights(t, L)
           pa == Parents(t, L)
           L2 == L \ {v}
<1>1. Memory(t, L) /\ SearchTree(lc, rc, pa, r, L, sub, lt)
  BY DEF Links
<1>2. \A m \in L : lc[m] = t[m].left /\ rc[m] = t[m].right /\ pa[m] = t[m].parent
  BY <1>1, FieldsAre
<1>3. NULL \notin L /\ L \subseteq Names /\ v \in Names
  BY <1>1, NodeShape DEF Memory
<1>4. lc[v] = c /\ pa[v] = p /\ rc[v] = NULL
  BY <1>2
<1> HIDE DEF lc, rc, pa, L2
<1>5. /\ c \in L \cup {NULL} /\ p \in L \cup {NULL} /\ c # v /\ p # v /\ (p # NULL => p # c)
      /\ \A m \in L : lc[m] = v \/ rc[m] = v => m = p
      /\ p # NULL => (lc[p] = v \/ rc[p] = v) /\ ~(lc[p] = v /\ rc[p] = v)
  <2>1. /\ lc[v] \in L \cup {NULL} /\ pa[v] \in L \cup {NULL}
        /\ \A m \in L : lc[m] = v \/ rc[m] = v => m = pa[v]
        /\ pa[v] # NULL => lc[pa[v]] = v \/ rc[pa[v]] = v
        /\ sub[v] = {v} \cup sub[lc[v]] \cup sub[rc[v]]
    BY <1>1, <1>3 DEF SearchTree, Tree
  <2>2. /\ v \notin sub[lc[v]]
        /\ lc[v] # NULL => lc[v] \in sub[lc[v]] /\ lc[v] # v
        /\ pa[v] # NULL => pa[v] \notin sub[v] /\ (lc[pa[v]] = v => rc[pa[v]] # v)
    BY <1>1, Branches
  <2> QED BY <2>1, <2>2, <1>3, <1>4
<1>6. /\ Elsewhere(t, u1, L, c)
      /\ c # NULL => /\ u1[c].left = t[c].left /\ u1[c].right = t[c].right /\ u1[c].parent = p
                     /\ u1[c].height = t[c].height /\ u1[c].cnt = t[c].cnt
  <2>1. p \in Pointers
    BY <1>3, <1>5 DEF Pointers
  <2> QED BY <2>1, <1>1, <1>5, WithParentIs
<1>7. /\ Memory(u, L)
      /\ \A m \in Names : m # p /\ m # c => u[m] = t[m]
      /\ \A m \in L : u[m].height = t[m].height /\ u[m].cnt = t[m].cnt
      /\ c # NULL => u[c].left = t[c].left /\ u[c].right = t[c].right /\ u[c].parent = p
      /\ p # NULL => /\ u[p].left = IF t[p].left = v THEN c ELSE t[p].left
                     /\ u[p].right = IF t[p].right = v THEN c ELSE t[p].right
                     /\ u[p].parent = t[p].parent
  <2>1. CASE p = NULL
    BY <2>1, <1>3, <1>5, <1>6 DEF Elsewhere
  <2>2. CASE p # NULL
    <3>1. u = WithChild(u1, p, v, c) /\ p \in L /\ p \in Names
      BY <2>2, <1>3, <1>5
    <3>2. u1[p] = t[p] /\ Memory(u1, L) /\ c \in Pointers
      BY <2>2, <3>1, <1>3, <1>5, <1>6 DEF Elsewhere, Pointers
    <3>3. (u1[p].left = v \/ u1[p].right = v) /\ ~(u1[p].left = v /\ u1[p].right = v)
      BY <2>2, <3>1, <3>2, <1>2, <1>5
    <3>4. /\ Elsewhere(u1, u, L, p)
          /\ u[p].left = IF u1[p].left = v THEN c ELSE u1[p].left
          /\ u[p].right = IF u1[p].left = v THEN u1[p].right ELSE c
          /\ u[p].parent = u1[p].parent /\ u[p].height = u1[p].height /\ u[p].cnt = u1[p].cnt
      BY <3>1, <3>2, <3>3, WithChildIs
    <3>5. /\ Memory(u, L) /\ \A m \in Names : m # p => u[m] = u1[m]
          /\ u[p].left = IF t[p].left = v THEN c ELSE t[p].left
          /\ u[p].right = IF t[p].right = v THEN c ELSE t[p].right
          /\ u[p].parent = t[p].parent /\ u[p].height = t[p].height /\ u[p].cnt = t[p].cnt
      <4>1. Memory(u, L) /\ \A m \in Names : m # p => u[m] = u1[m]
        BY <3>4 DEF Elsewhere
      <4>2. /\ u[p].left = IF u1[p].left = v THEN c ELSE u1[p].left
            /\ u[p].right = IF u1[p].right = v THEN c ELSE u1[p].right
        BY <3>3, <3>4
      <4>3. u1[p].left = t[p].left /\ u1[p].right = t[p].right
        BY <3>2
      <4>4. /\ u[p].left = IF t[p].left = v THEN c ELSE t[p].left
            /\ u[p].right = IF t[p].right = v THEN c ELSE t[p].right
        BY <4>2, <4>3
      <4>5. u[p].parent = t[p].parent /\ u[p].height = t[p].height /\ u[p].cnt = t[p].cnt
        BY <3>2, <3>4
      <4> QED BY <4>1, <4>4, <4>5
    <3>6. \A m \in Names : m # c => u1[m] = t[m]
      BY <1>6 DEF Elsewhere
    <3>7. c # NULL => u[c] = u1[c] /\ c \in Names
      BY <3>5, <2>2, <1>3, <1>5
    <3>8. \A m \in Names : m # p /\ m # c => u[m] = t[m]
      BY <3>5, <3>6
    <3>9. \A m \in L : u[m].height = t[m].height /\ u[m].cnt = t[m].cnt
      <4> SUFFICES ASSUME NEW m \in L PROVE u[m].height = t[m].height /\ u[m].cnt = t[m].cnt
        OBVIOUS
      <4>1. m \in Names /\ m # NULL
        BY <1>3
      <4>2. CASE m = p
        BY <4>2, <3>5
      <4>3. CASE m # p /\ m = c
        BY <4>1, <4>3, <3>7, <1>6
      <4>4. CASE m # p /\ m # c
        BY <4>1, <4>4, <3>8
      <4> QED BY <4>2, <4>3, <4>4
    <3>10. c # NULL => u[c].left = t[c].left /\ u[c].right = t[c].right /\ u[c].parent = p
      BY <3>7, <1>6
    <3> QED BY <3>5, <3>8, <3>9, <3>10
  <2> QED BY <2>1, <2>2
<1>8. Memory(u, L2) /\ \A m \in Names \ L2 : u[m] = t[m]
  <2>1. p \notin Names \ L2 /\ c \notin Names \ L2
    BY <1>3, <1>5, TreeAssumption DEF L2
  <2> QED BY <2>1, <1>7 DEF Memory, L2
<1>9. Cut(lc, rc, pa, Heights(t, L), Counts(t, L), L, v,
          Lefts(u, L2), Rights(u, L2), Parents(u, L2), Heights(u, L2), Counts(u, L2))
  <2>1. Lefts(u, L2) = [m \in L2 |-> IF lc[m] = v THEN lc[v] ELSE lc[m]]
    <3>1. ASSUME NEW m \in L2
          PROVE  u[m].left = IF lc[m] = v THEN lc[v] ELSE lc[m]
      <4>1. m \in L /\ m \in Names /\ m # v /\ m # NULL /\ lc[m] = t[m].left
        BY <1>2, <1>3 DEF L2
      <4>2. CASE m = p
        BY <4>1, <4>2, <1>4, <1>7
      <4>3. CASE m = c
        BY <4>1, <4>3, <1>4, <1>5, <1>7
      <4>4. CASE m # p /\ m # c
        BY <4>1, <4>4, <1>4, <1>5, <1>7
      <4> QED BY <4>2, <4>3, <4>4
    <3> QED BY <3>1 DEF Lefts
  <2>2. Rights(u, L2) = [m \in L2 |-> IF rc[m] = v THEN lc[v] ELSE rc[m]]
    <3>1. ASSUME NEW m \in L2
          PROVE  u[m].right = IF rc[m] = v THEN lc[v] ELSE rc[m]
      <4>1. m \in L /\ m \in Names /\ m # v /\ m # NULL /\ rc[m] = t[m].right
        BY <1>2, <1>3 DEF L2
      <4>2. CASE m = p
        BY <4>1, <4>2, <1>4, <1>7
      <4>3. CASE m = c
        BY <4>1, <4>3, <1>4, <1>5, <1>7
      <4>4. CASE m # p /\ m # c
        BY <4>1, <4>4, <1>4, <1>5, <1>7
      <4> QED BY <4>2, <4>3, <4>4
    <3> QED BY <3>1 DEF Rights
  <2>3. Parents(u, L2) = [m \in L2 |-> IF m = lc[v] THEN pa[v] ELSE pa[m]]
    <3>1. ASSUME NEW m \in L2
          PROVE  u[m].parent = IF m = lc[v] THEN pa[v] ELSE pa[m]
      <4>1. m \in L /\ m \in Names /\ m # v /\ m # NULL /\ pa[m] = t[m].parent
        BY <1>2, <1>3 DEF L2
      <4>2. CASE m = p
        BY <4>1, <4>2, <1>4, <1>5, <1>7
      <4>3. CASE m = c
        BY <4>1, <4>3, <1>4, <1>5, <1>7
      <4>4. CASE m # p /\ m # c
        BY <4>1, <4>4, <1>4, <1>5, <1>7
      <4> QED BY <4>2, <4>3, <4>4
    <3> QED BY <3>1 DEF Parents
  <2>4. Heights(u, L2) = [m \in L2 \cup {NULL} |-> Heights(t, L)[m]]
    BY <1>7 DEF Heights, avl_height, L2
  <2>5. Counts(u, L2) = [m \in L2 \cup {NULL} |-> Counts(t, L)[m]]
    BY <1>7 DEF Counts, avl_cnt, L2
  <2> QED BY <2>1, <2>2, <2>3, <2>4, <2>5 DEF Cut, L2
<1>10. /\ \E sub2 : SearchTree(Lefts(u, L2), Rights(u, L2), Parents(u, L2),
                               IF p = NULL THEN c ELSE r, L2, sub2, lt)
       /\ Unsettled(Lefts(u, L2), Rights(u, L2), Parents(u, L2), Heights(u, L2), Counts(u, L2), L2, p)
  <2>1. Settled(lc, rc, Heights(t, L), Counts(t, L), L)
    BY <1>1, SettlingIs DEF lc, rc
  <2>2. /\ \E sub2 : SearchTree(Lefts(u, L2), Rights(u, L2), Parents(u, L2),
                                IF pa[v] = NULL THEN lc[v] ELSE r, L \ {v}, sub2, lt)
        /\ Unsettled(Lefts(u, L2), Rights(u, L2), Parents(u, L2), Heights(u, L2), Counts(u, L2), L \ {v}, pa[v])
    BY <1>1, <1>4, <1>9, <2>1, CutKeepsTree
  <2> QED BY <2>2, <1>4 DEF L2
<1> QED BY <1>8, <1>10 DEF Links, Settling, L2

\* avl_del_easy() of a node without a left child: the mirror image.
LEMMA CutRightIs ==
    ASSUME NEW t, NEW r, NEW L, NEW sub, NEW lt \in SUBSET (Names \X Names),
           Links(t, r, L, sub, lt), Settling(t, L, NULL), NEW v \in L, t[v].left = NULL,
           NEW c, c = t[v].right, NEW p, p = t[v].parent, NEW u1, u1 = WithParent(t, c, p),
           NEW u, u = IF p = NULL THEN u1 ELSE WithChild(u1, p, v, c)
    PROVE  /\ \E sub2 : Links(u, IF p = NULL THEN c ELSE r, L \ {v}, sub2, lt)
           /\ Settling(u, L \ {v}, p)
           /\ \A m \in Names \ (L \ {v}) : u[m] = t[m]
<1> DEFINE rc == Rights(t, L)
           lc == Lefts(t, L)
           pa == Parents(t, L)
           L2 == L \ {v}
           lt2 == Mirror(lt)
<1>a. Memory(t, L) /\ SearchTree(lc, rc, pa, r, L, sub, lt)
  BY DEF Links
<1>b. lt2 \in SUBSET (Names \X Names) /\ Mirror(lt2) = lt
  BY MirrorTwice
<1>1. Memory(t, L) /\ SearchTree(rc, lc, pa, r, L, sub, lt2)
  BY <1>a, Mirrored
<1> HIDE DEF lt2
<1>2. \A m \in L : rc[m] = t[m].right /\ lc[m] = t[m].left /\ pa[m] = t[m].parent
  BY <1>1, FieldsAre
<1>3. NULL \notin L /\ L \subseteq Names /\ v \in Names
  BY <1>1, NodeShape DEF Memory
<1>4. rc[v] = c /\ pa[v] = p /\ lc[v] = NULL
  BY <1>2
<1> HIDE DEF rc, lc, pa, L2
<1>5. /\ c \in L \cup {NULL} /\ p \in L \cup {NULL} /\ c # v /\ p # v /\ (p # NULL => p # c)
      /\ \A m \in L : rc[m] = v \/ lc[m] = v => m = p
      /\ p # NULL => (rc[p] = v \/ lc[p] = v) /\ ~(rc[p] = v /\ lc[p] = v)
  <2>1. /\ rc[v] \in L \cup {NULL} /\ pa[v] \in L \cup {NULL}
        /\ \A m \in L : rc[m] = v \/ lc[m] = v => m = pa[v]
        /\ pa[v] # NULL => rc[pa[v]] = v \/ lc[pa[v]] = v
        /\ sub[v] = {v} \cup sub[rc[v]] \cup sub[lc[v]]
    BY <1>1, <1>3 DEF SearchTree, Tree
  <2>2. /\ v \notin sub[rc[v]]
        /\ rc[v] # NULL => rc[v] \in sub[rc[v]] /\ rc[v] # v
        /\ pa[v] # NULL => pa[v] \notin sub[v] /\ (rc[pa[v]] = v => lc[pa[v]] # v)
    BY <1>1, Branches
  <2> QED BY <2>1, <2>2, <1>3, <1>4
<1>6. /\ Elsewhere(t, u1, L, c)
      /\ c # NULL => /\ u1[c].right = t[c].right /\ u1[c].left = t[c].left /\ u1[c].parent = p
                     /\ u1[c].height = t[c].height /\ u1[c].cnt = t[c].cnt
  <2>1. p \in Pointers
    BY <1>3, <1>5 DEF Pointers
  <2> QED BY <2>1, <1>1, <1>5, WithParentIs
<1>7. /\ Memory(u, L)
      /\ \A m \in Names : m # p /\ m # c => u[m] = t[m]
      /\ \A m \in L : u[m].height = t[m].height /\ u[m].cnt = t[m].cnt
      /\ c # NULL => u[c].right = t[c].right /\ u[c].left = t[c].left /\ u[c].parent = p
      /\ p # NULL => /\ u[p].right = IF t[p].right = v THEN c ELSE t[p].right
                     /\ u[p].left = IF t[p].left = v THEN c ELSE t[p].left
                     /\ u[p].parent = t[p].parent
  <2>1. CASE p = NULL
    BY <2>1, <1>3, <1>5, <1>6 DEF Elsewhere
  <2>2. CASE p # NULL
    <3>1. u = WithChild(u1, p, v, c) /\ p \in L /\ p \in Names
      BY <2>2, <1>3, <1>5
    <3>2. u1[p] = t[p] /\ Memory(u1, L) /\ c \in Pointers
      BY <2>2, <3>1, <1>3, <1>5, <1>6 DEF Elsewhere, Pointers
    <3>3. (u1[p].right = v \/ u1[p].left = v) /\ ~(u1[p].right = v /\ u1[p].left = v)
      BY <2>2, <3>1, <3>2, <1>2, <1>5
    <3>4. /\ Elsewhere(u1, u, L, p)
          /\ u[p].left = IF u1[p].left = v THEN c ELSE u1[p].left
          /\ u[p].right = IF u1[p].left = v THEN u1[p].right ELSE c
          /\ u[p].parent = u1[p].parent /\ u[p].height = u1[p].height /\ u[p].cnt = u1[p].cnt
      BY <3>1, <3>2, <3>3, WithChildIs
    <3>5. /\ Memory(u, L) /\ \A m \in Names : m # p => u[m] = u1[m]
          /\ u[p].right = IF t[p].right = v THEN c ELSE t[p].right
          /\ u[p].left = IF t[p].left = v THEN c ELSE t[p].left
          /\ u[p].parent = t[p].parent /\ u[p].height = t[p].height /\ u[p].cnt = t[p].cnt
      <4>1. Memory(u, L) /\ \A m \in Names : m # p => u[m] = u1[m]
        BY <3>4 DEF Elsewhere
      <4>2. /\ u[p].right = IF u1[p].right = v THEN c ELSE u1[p].right
            /\ u[p].left = IF u1[p].left = v THEN c ELSE u1[p].left
        BY <3>3, <3>4
      <4>3. u1[p].right = t[p].right /\ u1[p].left = t[p].left
        BY <3>2
      <4>4. /\ u[p].right = IF t[p].right = v THEN c ELSE t[p].right
            /\ u[p].left = IF t[p].left = v THEN c ELSE t[p].left
        BY <4>2, <4>3
      <4>5. u[p].parent = t[p].parent /\ u[p].height = t[p].height /\ u[p].cnt = t[p].cnt
        BY <3>2, <3>4
      <4> QED BY <4>1, <4>4, <4>5
    <3>6. \A m \in Names : m # c => u1[m] = t[m]
      BY <1>6 DEF Elsewhere
    <3>7. c # NULL => u[c] = u1[c] /\ c \in Names
      BY <3>5, <2>2, <1>3, <1>5
    <3>8. \A m \in Names : m # p /\ m # c => u[m] = t[m]
      BY <3>5, <3>6
    <3>9. \A m \in L : u[m].height = t[m].height /\ u[m].cnt = t[m].cnt
      <4> SUFFICES ASSUME NEW m \in L PROVE u[m].height = t[m].height /\ u[m].cnt = t[m].cnt
        OBVIOUS
      <4>1. m \in Names /\ m # NULL
        BY <1>3
      <4>2. CASE m = p
        BY <4>2, <3>5
      <4>3. CASE m # p /\ m = c
        BY <4>1, <4>3, <3>7, <1>6
      <4>4. CASE m # p /\ m # c
        BY <4>1, <4>4, <3>8
      <4> QED BY <4>2, <4>3, <4>4
    <3>10. c # NULL => u[c].right = t[c].right /\ u[c].left = t[c].left /\ u[c].parent = p
      BY <3>7, <1>6
    <3> QED BY <3>5, <3>8, <3>9, <3>10
  <2> QED BY <2>1, <2>2
<1>8. Memory(u, L2) /\ \A m \in Names \ L2 : u[m] = t[m]
  <2>1. p \notin Names \ L2 /\ c \notin Names \ L2
    BY <1>3, <1>5, TreeAssumption DEF L2
  <2> QED BY <2>1, <1>7 DEF Memory, L2
<1>9. Cut(rc, lc, pa, Heights(t, L), Counts(t, L), L, v,
          Rights(u, L2), Lefts(u, L2), Parents(u, L2), Heights(u, L2), Counts(u, L2))
  <2>1. Rights(u, L2) = [m \in L2 |-> IF rc[m] = v THEN rc[v] ELSE rc[m]]
    <3>1. ASSUME NEW m \in L2
          PROVE  u[m].right = IF rc[m] = v THEN rc[v] ELSE rc[m]
      <4>1. m \in L /\ m \in Names /\ m # v /\ m # NULL /\ rc[m] = t[m].right
        BY <1>2, <1>3 DEF L2
      <4>2. CASE m = p
        BY <4>1, <4>2, <1>4, <1>7
      <4>3. CASE m = c
        BY <4>1, <4>3, <1>4, <1>5, <1>7
      <4>4. CASE m # p /\ m # c
        BY <4>1, <4>4, <1>4, <1>5, <1>7
      <4> QED BY <4>2, <4>3, <4>4
    <3> QED BY <3>1 DEF Rights
  <2>2. Lefts(u, L2) = [m \in L2 |-> IF lc[m] = v THEN rc[v] ELSE lc[m]]
    <3>1. ASSUME NEW m \in L2
          PROVE  u[m].left = IF lc[m] = v THEN rc[v] ELSE lc[m]
      <4>1. m \in L /\ m \in Names /\ m # v /\ m # NULL /\ lc[m] = t[m].left
        BY <1>2, <1>3 DEF L2
      <4>2. CASE m = p
        BY <4>1, <4>2, <1>4, <1>7
      <4>3. CASE m = c
        BY <4>1, <4>3, <1>4, <1>5, <1>7
      <4>4. CASE m # p /\ m # c
        BY <4>1, <4>4, <1>4, <1>5, <1>7
      <4> QED BY <4>2, <4>3, <4>4
    <3> QED BY <3>1 DEF Lefts
  <2>3. Parents(u, L2) = [m \in L2 |-> IF m = rc[v] THEN pa[v] ELSE pa[m]]
    <3>1. ASSUME NEW m \in L2
          PROVE  u[m].parent = IF m = rc[v] THEN pa[v] ELSE pa[m]
      <4>1. m \in L /\ m \in Names /\ m # v /\ m # NULL /\ pa[m] = t[m].parent
        BY <1>2, <1>3 DEF L2
      <4>2. CASE m = p
        BY <4>1, <4>2, <1>4, <1>5, <1>7
      <4>3. CASE m = c
        BY <4>1, <4>3, <1>4, <1>5, <1>7
      <4>4. CASE m # p /\ m # c
        BY <4>1, <4>4, <1>4, <1>5, <1>7
      <4> QED BY <4>2, <4>3, <4>4
    <3> QED BY <3>1 DEF Parents
  <2>4. Heights(u, L2) = [m \in L2 \cup {NULL} |-> Heights(t, L)[m]]
    BY <1>7 DEF Heights, avl_height, L2
  <2>5. Counts(u, L2) = [m \in L2 \cup {NULL} |-> Counts(t, L)[m]]
    BY <1>7 DEF Counts, avl_cnt, L2
  <2> QED BY <2>1, <2>2, <2>3, <2>4, <2>5 DEF Cut, L2
<1>10. /\ \E sub2 : SearchTree(Lefts(u, L2), Rights(u, L2), Parents(u, L2),
                               IF p = NULL THEN c ELSE r, L2, sub2, lt)
       /\ Unsettled(Lefts(u, L2), Rights(u, L2), Parents(u, L2), Heights(u, L2), Counts(u, L2), L2, p)
  <2>1. Settled(rc, lc, Heights(t, L), Counts(t, L), L)
    <3>1. Unsettled(rc, lc, pa, Heights(t, L), Counts(t, L), L, NULL)
      BY <1>a, UnsettledMirrored DEF Settling, lc, rc, pa
    <3> QED BY <3>1, <1>3 DEF Unsettled, Settled
  <2>2. /\ \E sub2 : SearchTree(Rights(u, L2), Lefts(u, L2), Parents(u, L2),
                                IF pa[v] = NULL THEN rc[v] ELSE r, L \ {v}, sub2, lt2)
        /\ Unsettled(Rights(u, L2), Lefts(u, L2), Parents(u, L2), Heights(u, L2), Counts(u, L2), L \ {v}, pa[v])
    BY <1>1, <1>4, <1>9, <2>1, CutKeepsTree
  <2>3. PICK sub2 : SearchTree(Rights(u, L2), Lefts(u, L2), Parents(u, L2),
                               IF p = NULL THEN c ELSE r, L2, sub2, lt2)
    BY <2>2, <1>4 DEF L2
  <2>4. SearchTree(Lefts(u, L2), Rights(u, L2), Parents(u, L2), IF p = NULL THEN c ELSE r, L2, sub2, lt)
    BY <2>3, <1>b, Mirrored
  <2>5. p \in L2 \cup {NULL}
    BY <1>5 DEF L2
  <2>6. Unsettled(Lefts(u, L2), Rights(u, L2), Parents(u, L2), Heights(u, L2), Counts(u, L2), L2, p)
    BY <2>2, <2>3, <2>5, <1>4, UnsettledMirrored DEF L2
  <2> QED BY <2>4, <2>6
<1> QED BY <1>8, <1>10 DEF Links, Settling, L2

\* avl_del_easy(), before the rebalancing.
LEMMA DetachedIs ==
    ASSUME NEW t, NEW r, NEW L, NEW sub, NEW lt \in SUBSET (Names \X Names),
           Links(t, r, L, sub, lt), Settling(t, L, NULL),
           NEW v \in L, t[v].left = NULL \/ t[v].right = NULL, NEW u, u = Detached(t, v)
    PROVE  /\ \E sub2 : Links(u, IF t[v].parent = NULL THEN OnlyChild(t, v) ELSE r, L \ {v}, sub2, lt)
           /\ Settling(u, L \ {v}, t[v].parent)
           /\ \A m \in Names \ (L \ {v}) : u[m] = t[m]
<1> DEFINE c == OnlyChild(t, v)
           p == t[v].parent
           u1 == WithParent(t, c, p)
<1>1. u = IF p = NULL THEN u1 ELSE WithChild(u1, p, v, c)
  BY DEF Detached
<1>2. p = t[v].parent /\ u1 = WithParent(t, c, p)
  OBVIOUS
<1>3. (c = t[v].left /\ t[v].right = NULL) \/ (c = t[v].right /\ t[v].left = NULL)
  BY DEF OnlyChild
<1>4. c = OnlyChild(t, v)
  OBVIOUS
<1> HIDE DEF c, p, u1
<1>5. CASE c = t[v].left /\ t[v].right = NULL
  <2>1. /\ \E sub2 : Links(u, IF p = NULL THEN c ELSE r, L \ {v}, sub2, lt)
        /\ Settling(u, L \ {v}, p)
        /\ \A m \in Names \ (L \ {v}) : u[m] = t[m]
    BY <1>1, <1>2, <1>5, CutLeftIs
  <2> QED BY <2>1, <1>2, <1>4
<1>6. CASE c = t[v].right /\ t[v].left = NULL
  <2>1. /\ \E sub2 : Links(u, IF p = NULL THEN c ELSE r, L \ {v}, sub2, lt)
        /\ Settling(u, L \ {v}, p)
        /\ \A m \in Names \ (L \ {v}) : u[m] = t[m]
    BY <1>1, <1>2, <1>6, CutRightIs
  <2> QED BY <2>1, <1>2, <1>4
<1> QED BY <1>3, <1>5, <1>6

-----------------------------------------------------------------------------
(* The second half of avl_del().                                           *)

\* The detached successor s takes the place of n.
LEMMA ReplacedIs ==
    ASSUME NEW t, NEW r, NEW L, NEW sub, NEW lt,
           Links(t, r, L, sub, lt), Settling(t, L, NULL), NEW n \in L, NEW s \in Names \ L,
           Order(lt, (L \ {n}) \cup {s}),
           \A m \in L \ {n} : /\ <<m, n>> \in lt <=> <<m, s>> \in lt
                              /\ <<n, m>> \in lt <=> <<s, m>> \in lt,
           NEW u, u = Replaced(t, n, s)
    PROVE  /\ \E sub2 : Links(u, IF t[n].parent = NULL THEN s ELSE r, (L \ {n}) \cup {s}, sub2, lt)
           /\ Settling(u, (L \ {n}) \cup {s}, NULL)
           /\ \A m \in Names \ ((L \ {n}) \cup {s}) : u[m] = t[m]
<1> DEFINE lc == Lefts(t, L)
           rc == Rights(t, L)
           pa == Parents(t, L)
           l == t[n].left
           d == t[n].right
           p == t[n].parent
           e == t[n]
           u0 == PutNode(t, s, e)
           u1 == WithParent(u0, l, s)
           u2 == WithParent(u1, d, s)
           L2 == (L \ {n}) \cup {s}
           L3 == L \cup {s}
<1>1. u = IF p = NULL THEN u2 ELSE WithChild(u2, p, n, s)
  BY DEF Replaced, PutNode
<1>2. Memory(t, L) /\ SearchTree(lc, rc, pa, r, L, sub, lt)
  BY DEF Links
<1>3. \A m \in L : lc[m] = t[m].left /\ rc[m] = t[m].right /\ pa[m] = t[m].parent
  BY <1>2, FieldsAre
<1>4. /\ NULL \notin L /\ L \subseteq Names /\ n \in Names /\ e \in AVLNodes
      /\ s # NULL /\ s \in Pointers /\ NULL \notin L3 /\ n # s /\ s \notin L
  BY <1>2, NodeShape, TreeAssumption DEF Memory, Pointers
<1>5. lc[n] = l /\ rc[n] = d /\ pa[n] = p
  BY <1>3
<1>6. e.left = l /\ e.right = d /\ e.parent = p /\ e.height = t[n].height /\ e.cnt = t[n].cnt
  OBVIOUS
<1> HIDE DEF lc, rc, pa, l, d, p, e, L2, L3
<1>7. /\ l \in L \cup {NULL} /\ d \in L \cup {NULL} /\ p \in L \cup {NULL}
      /\ l # n /\ d # n /\ p # n /\ (l # NULL => l # d) /\ (p # NULL => p # l /\ p # d)
      /\ \A m \in L : lc[m] = n \/ rc[m] = n => m = p
      /\ p # NULL => (lc[p] = n \/ rc[p] = n) /\ ~(lc[p] = n /\ rc[p] = n)
      /\ \A m \in L : pa[m] = n <=> m = l \/ m = d
      /\ p = NULL <=> n = r
  <2>1. /\ lc[n] \in L \cup {NULL} /\ rc[n] \in L \cup {NULL} /\ pa[n] \in L \cup {NULL}
        /\ \A m \in L : lc[m] = n \/ rc[m] = n => m = pa[n]
        /\ pa[n] # NULL => lc[pa[n]] = n \/ rc[pa[n]] = n
        /\ \A m \in L : pa[m] = n <=> m = lc[n] \/ m = rc[n]
        /\ sub[n] = {n} \cup sub[lc[n]] \cup sub[rc[n]]
        /\ pa[n] = NULL <=> n = r
    BY <1>2, <1>4 DEF SearchTree, Tree
  <2>2. /\ n \notin sub[lc[n]]
        /\ lc[n] # NULL => lc[n] \in sub[lc[n]] /\ lc[n] # n /\ lc[n] # rc[n]
        /\ rc[n] # NULL => rc[n] \in sub[rc[n]] /\ rc[n] # n
        /\ pa[n] # NULL => pa[n] \notin sub[n] /\ (lc[pa[n]] = n => rc[pa[n]] # n)
    BY <1>2, Branches
  <2> QED BY <2>1, <2>2, <1>4, <1>5
<1>8. Elsewhere(t, u0, L3, s) /\ u0[s] = e
  <2>1. s \in Names
    OBVIOUS
  <2>2. u0 = PutNode(t, s, e)
    OBVIOUS
  <2> HIDE DEF u0
  <2> QED BY <2>1, <2>2, <1>2, <1>4, PutNodeIs DEF L3
<1> HIDE DEF u0, u1, u2
<1>9. /\ Elsewhere(u0, u1, L3, l)
      /\ l # NULL => /\ u1[l].left = u0[l].left /\ u1[l].right = u0[l].right /\ u1[l].parent = s
                     /\ u1[l].height = u0[l].height /\ u1[l].cnt = u0[l].cnt
  <2>1. Memory(u0, L3) /\ l \in L3 \cup {NULL} /\ u1 = WithParent(u0, l, s)
    BY <1>7, <1>8 DEF Elsewhere, L3, u1
  <2> QED BY <2>1, <1>4, WithParentIs
<1>10. /\ Elsewhere(u1, u2, L3, d)
       /\ d # NULL => /\ u2[d].left = u1[d].left /\ u2[d].right = u1[d].right /\ u2[d].parent = s
                      /\ u2[d].height = u1[d].height /\ u2[d].cnt = u1[d].cnt
  <2>1. Memory(u1, L3) /\ d \in L3 \cup {NULL} /\ u2 = WithParent(u1, d, s)
    BY <1>7, <1>9 DEF Elsewhere, L3, u2
  <2> QED BY <2>1, <1>4, WithParentIs
<1>11. /\ Memory(u2, L3) /\ u2[s] = e
       /\ \A m \in Names : m # s /\ m # l /\ m # d => u2[m] = t[m]
       /\ l # NULL => /\ u2[l].left = t[l].left /\ u2[l].right = t[l].right /\ u2[l].parent = s
                      /\ u2[l].height = t[l].height /\ u2[l].cnt = t[l].cnt
       /\ d # NULL => /\ u2[d].left = t[d].left /\ u2[d].right = t[d].right /\ u2[d].parent = s
                      /\ u2[d].height = t[d].height /\ u2[d].cnt = t[d].cnt
  <2>1. /\ \A m \in Names : m # s => u0[m] = t[m]
        /\ \A m \in Names : m # l => u1[m] = u0[m]
        /\ \A m \in Names : m # d => u2[m] = u1[m]
        /\ Memory(u2, L3)
    BY <1>8, <1>9, <1>10 DEF Elsewhere
  <2>2. /\ s \in Names /\ s # l /\ s # d /\ (l # NULL => l \in Names /\ l # s /\ l # d)
        /\ (d # NULL => d \in Names /\ d # s /\ d # l)
    BY <1>4, <1>7
  <2> QED BY <2>1, <2>2, <1>8, <1>9, <1>10
<1>12. /\ Memory(u, L3)
       /\ \A m \in Names : m # p => u[m] = u2[m]
       /\ p # NULL => /\ u[p].left = IF lc[p] = n THEN s ELSE lc[p]
                      /\ u[p].right = IF rc[p] = n THEN s ELSE rc[p]
                      /\ u[p].parent = t[p].parent /\ u[p].height = t[p].height /\ u[p].cnt = t[p].cnt
  <2>1. CASE p = NULL
    BY <2>1, <1>1, <1>4, <1>11
  <2>2. CASE p # NULL
    <3>1. /\ u = WithChild(u2, p, n, s) /\ p \in L /\ p \in L3 /\ u2[p] = t[p]
          /\ lc[p] = t[p].left /\ rc[p] = t[p].right
      BY <2>2, <1>1, <1>3, <1>4, <1>7, <1>11 DEF L3
    <3>2. u2[p].left = n \/ u2[p].right = n
      BY <2>2, <3>1, <1>7
    <3>3. /\ Elsewhere(u2, u, L3, p)
          /\ u[p].left = IF u2[p].left = n THEN s ELSE u2[p].left
          /\ u[p].right = IF u2[p].left = n THEN u2[p].right ELSE s
          /\ u[p].parent = u2[p].parent /\ u[p].height = u2[p].height /\ u[p].cnt = u2[p].cnt
      BY <3>1, <3>2, <1>4, <1>11, WithChildIs
    <3> QED BY <2>2, <3>1, <3>3, <1>7 DEF Elsewhere
  <2> QED BY <2>1, <2>2
<1>13. /\ Memory(u, L2) /\ \A m \in Names \ L2 : u[m] = t[m]
  <2>1. ASSUME NEW m \in Names \ L2 PROVE u[m] = t[m]
    <3>1. m # s /\ m # l /\ m # d /\ m # p
      BY <1>4, <1>7, TreeAssumption DEF L2
    <3> QED BY <3>1, <1>11, <1>12
  <2> QED BY <2>1, <1>12 DEF Memory, L2, L3
<1>14. /\ u[s].left = l /\ u[s].right = d /\ u[s].parent = p /\ u[s].height = t[n].height /\ u[s].cnt = t[n].cnt
  <2>1. s \in Names /\ s # p
    BY <1>4, <1>7
  <2> QED BY <2>1, <1>6, <1>11, <1>12
<1>15. ASSUME NEW m \in L, m # n
       PROVE  /\ u[m].left = IF lc[m] = n THEN s ELSE lc[m]
              /\ u[m].right = IF rc[m] = n THEN s ELSE rc[m]
              /\ u[m].parent = IF pa[m] = n THEN s ELSE pa[m]
              /\ u[m].height = t[m].height /\ u[m].cnt = t[m].cnt
  <2>1. /\ m \in Names /\ m # s /\ m # NULL
        /\ lc[m] = t[m].left /\ rc[m] = t[m].right /\ pa[m] = t[m].parent
    BY <1>3, <1>4
  <2>2. CASE m = p
    BY <2>1, <2>2, <1>7, <1>12
  <2>3. CASE m # p
    <3>1. u[m] = u2[m] /\ lc[m] # n /\ rc[m] # n
      BY <2>1, <2>3, <1>7, <1>12
    <3>2. CASE m = l \/ m = d
      BY <2>1, <3>1, <3>2, <1>7, <1>11
    <3>3. CASE m # l /\ m # d
      BY <2>1, <3>1, <3>3, <1>7, <1>11
    <3> QED BY <3>2, <3>3
  <2> QED BY <2>2, <2>3
<1>16. Renamed(lc, rc, pa, Heights(t, L), Counts(t, L), L, n, s,
               Lefts(u, L2), Rights(u, L2), Parents(u, L2), Heights(u, L2), Counts(u, L2))
  <2>0. \A m \in L2 : (m \in L /\ m # n /\ m # s) \/ m = s
    BY <1>4 DEF L2
  <2>1. Lefts(u, L2) = [m \in L2 |-> Swapped(n, s, lc[Swapped(s, n, m)])]
    BY <2>0, <1>5, <1>7, <1>14, <1>15 DEF Lefts, Swapped
  <2>2. Rights(u, L2) = [m \in L2 |-> Swapped(n, s, rc[Swapped(s, n, m)])]
    BY <2>0, <1>5, <1>7, <1>14, <1>15 DEF Rights, Swapped
  <2>3. Parents(u, L2) = [m \in L2 |-> Swapped(n, s, pa[Swapped(s, n, m)])]
    BY <2>0, <1>5, <1>7, <1>14, <1>15 DEF Parents, Swapped
  <2>4. Heights(u, L2) = [m \in L2 \cup {NULL} |-> Heights(t, L)[Swapped(s, n, m)]]
    <3>1. \A m \in L2 \cup {NULL} : avl_height(u, m) = Heights(t, L)[Swapped(s, n, m)]
      BY <2>0, <1>4, <1>14, <1>15 DEF Heights, Swapped, avl_height
    <3> QED BY <3>1 DEF Heights
  <2>5. Counts(u, L2) = [m \in L2 \cup {NULL} |-> Counts(t, L)[Swapped(s, n, m)]]
    <3>1. \A m \in L2 \cup {NULL} : avl_cnt(u, m) = Counts(t, L)[Swapped(s, n, m)]
      BY <2>0, <1>4, <1>14, <1>15 DEF Counts, Swapped, avl_cnt
    <3> QED BY <3>1 DEF Counts
  <2> QED BY <2>1, <2>2, <2>3, <2>4, <2>5 DEF Renamed, L2
<1>17. /\ \E sub2 : SearchTree(Lefts(u, L2), Rights(u, L2), Parents(u, L2), Swapped(n, s, r), L2, sub2, lt)
       /\ Settled(Lefts(u, L2), Rights(u, L2), Heights(u, L2), Counts(u, L2), L2)
  <2>1. Settled(lc, rc, Heights(t, L), Counts(t, L), L)
    BY <1>2, SettlingIs DEF lc, rc
  <2>2. /\ \E sub2 : SearchTree(Lefts(u, L2), Rights(u, L2), Parents(u, L2), Swapped(n, s, r),
                                (L \ {n}) \cup {s}, sub2, lt)
        /\ Settled(Lefts(u, L2), Rights(u, L2), Heights(u, L2), Counts(u, L2), (L \ {n}) \cup {s})
    BY <1>2, <1>4, <1>16, <2>1, RenameKeepsTree
  <2> QED BY <2>2 DEF L2
<1>18. Swapped(n, s, r) = IF p = NULL THEN s ELSE r
  BY <1>7 DEF Swapped
<1>19. Settling(u, L2, NULL)
  BY <1>13, <1>17, SettlingIs
<1> QED BY <1>13, <1>17, <1>18, <1>19 DEF Links, L2, p

\* The nodes of a subtree follow one another.
LEMMA Convex ==
    ASSUME NEW lc, NEW rc, NEW pa, NEW r, NEW L, NEW sub, NEW lt,
           SearchTree(lc, rc, pa, r, L, sub, lt), IsFiniteSet(L),
           NEW q \in L, NEW a \in sub[q], NEW b \in sub[q],
           NEW m \in L, <<a, m>> \in lt, <<m, b>> \in lt
    PROVE  m \in sub[q]
<1> DEFINE S == {k \in L : \A x, y \in sub[k] : \A z \in L : <<x, z>> \in lt /\ <<z, y>> \in lt => z \in sub[k]}
<1>1. ASSUME NEW k \in L, pa[k] # NULL => pa[k] \in S PROVE k \in S
  <2>1. CASE pa[k] = NULL
    BY <2>1 DEF SearchTree, Tree
  <2>2. CASE pa[k] # NULL
    <3>1. /\ pa[k] \in S /\ pa[k] \in L /\ sub[pa[k]] = {pa[k]} \cup sub[lc[pa[k]]] \cup sub[rc[pa[k]]]
          /\ lc[pa[k]] = k \/ rc[pa[k]] = k
          /\ sub[pa[k]] \subseteq L /\ sub[k] \subseteq L
      BY <2>2, <1>1 DEF SearchTree, Tree
    <3>2. /\ \A x \in sub[lc[pa[k]]] : <<x, pa[k]>> \in lt
          /\ \A x \in sub[rc[pa[k]]] : <<pa[k], x>> \in lt
          /\ \A x, y, z \in L : <<x, y>> \in lt /\ <<y, z>> \in lt => <<x, z>> \in lt
          /\ \A x \in L : <<x, x>> \notin lt
      BY <3>1 DEF SearchTree, Sorted, Order
    <3> SUFFICES ASSUME NEW x \in sub[k], NEW y \in sub[k], NEW z \in L, <<x, z>> \in lt, <<z, y>> \in lt
                 PROVE  z \in sub[k]
      OBVIOUS
    <3>3. z \in sub[pa[k]] /\ x \in L /\ y \in L
      BY <3>1
    <3>4. CASE lc[pa[k]] = k
      <4>1. <<z, pa[k]>> \in lt
        BY <3>1, <3>2, <3>3, <3>4
      <4>2. z \notin sub[rc[pa[k]]] /\ z # pa[k]
        BY <4>1, <3>1, <3>2
      <4> QED BY <4>2, <3>1, <3>3, <3>4
    <3>5. CASE rc[pa[k]] = k
      <4>1. <<pa[k], z>> \in lt
        BY <3>1, <3>2, <3>3, <3>5
      <4>2. z \notin sub[lc[pa[k]]] /\ z # pa[k]
        BY <4>1, <3>1, <3>2
      <4> QED BY <4>2, <3>1, <3>3, <3>5
    <3> QED BY <3>1, <3>4, <3>5
  <2> QED BY <2>1, <2>2
<1>2. L \subseteq S
  <2> HIDE DEF S
  <2> QED BY <1>1, ClimbInduction
<1> QED BY <1>2

\* b is n or follows n in L at once.
Next0(lt, L, n, b) ==
    \/ b = n
    \/ <<n, b>> \in lt /\ \A m \in L : ~(<<n, m>> \in lt /\ <<m, b>> \in lt)

\* The node that avl_del() detaches.
LEMMA VictimIs ==
    ASSUME NEW t, NEW r, NEW L, NEW sub, NEW lt, Links(t, r, L, sub, lt), IsFiniteSet(L),
           Nodes(t) = L, NEW n \in L, NEW v, v = Victim(t, n)
    PROVE  /\ v \in L /\ (t[v].left = NULL \/ t[v].right = NULL)
           /\ Next0(lt, L, n, v)
<1> DEFINE lc == Lefts(t, L)
           rc == Rights(t, L)
           pa == Parents(t, L)
           Body(f) == [m \in Nodes(t) |-> IF t[m].left = NULL THEN m ELSE f[t[m].left]]
           Body2(f) == [m \in L |-> IF lc[m] = NULL THEN m ELSE f[lc[m]]]
           first == CHOOSE f : f = Body(f)
<1>1. SearchTree(lc, rc, pa, r, L, sub, lt)
  BY DEF Links
<1>2. \A m \in L : lc[m] = t[m].left /\ rc[m] = t[m].right
  BY DEF Lefts, Rights
<1>3. v = IF t[n].left = NULL \/ t[n].right = NULL THEN n ELSE first[t[n].right]
  BY DEF Victim
<1>4. \A f : Body(f) = Body2(f)
  BY <1>2
<1>5. first = CHOOSE f : f = Body2(f)
  <2> HIDE DEF Body, Body2
  <2> QED BY <1>4
<1> HIDE DEF first, Body, lc, rc, pa
<1>6. CASE t[n].left = NULL \/ t[n].right = NULL
  <2>1. v = n
    BY <1>3, <1>6
  <2>2. Next0(lt, L, n, v)
    BY <2>1 DEF Next0
  <2> QED BY <2>1, <2>2, <1>6
<1>7. CASE ~(t[n].left = NULL \/ t[n].right = NULL)
  <2>1. v = first[rc[n]] /\ rc[n] \in L /\ sub[n] = {n} \cup sub[lc[n]] \cup sub[rc[n]]
    BY <1>1, <1>2, <1>3, <1>7 DEF SearchTree, Tree
  <2>2. /\ first[rc[n]] \in sub[rc[n]] /\ lc[first[rc[n]]] = NULL
        /\ \A m \in sub[rc[n]] : m = first[rc[n]] \/ <<first[rc[n]], m>> \in lt
    <3>1. first = Leftmost(lc, L)
      BY <1>5 DEF Leftmost
    <3> HIDE DEF Body2
    <3> DEFINE q0 == rc[n]
    <3>2. q0 \in L
      BY <2>1
    <3> HIDE DEF q0
    <3>3. /\ first[q0] \in sub[q0] /\ lc[first[q0]] = NULL
          /\ \A m \in sub[q0] : m = first[q0] \/ <<first[q0], m>> \in lt
      BY <1>1, <3>1, <3>2, LeftmostIs
    <3> QED BY <3>3 DEF q0
  <2>3. /\ v \in L /\ v \in sub[n] /\ n \in sub[n] /\ <<n, v>> \in lt
        /\ sub[rc[n]] \subseteq L
    BY <1>1, <2>1, <2>2 DEF SearchTree, Tree, Sorted
  <2>4. ASSUME NEW m \in L, <<n, m>> \in lt, <<m, v>> \in lt PROVE FALSE
    <3>1. m \in sub[n]
      BY <1>1, <2>3, <2>4, Convex
    <3>2. m \in sub[rc[n]]
      BY <1>1, <2>1, <2>4, <3>1 DEF SearchTree, Sorted, Order
    <3> QED BY <1>1, <2>1, <2>2, <2>3, <2>4, <3>2 DEF SearchTree, Order
  <2> QED BY <1>2, <2>1, <2>2, <2>3, <2>4 DEF Next0
<1> QED BY <1>6, <1>7

-----------------------------------------------------------------------------
(* The order of the pairs, and the tree as the sorted set sees it.         *)

\* The order of the tree under the scores sc.
Precedes(sc) == {x \in Names \X Names : Less(sc, x[1], x[2])}

\* The order of the tree is that of avl_cmp().
LEMMA PrecedesIs ==
    ASSUME NEW sc
    PROVE  /\ Precedes(sc) \in SUBSET (Names \X Names)
           /\ \A a, b \in Names : <<a, b>> \in Precedes(sc) <=> Less(sc, a, b)
BY DEF Precedes

\* It is a total order of nodes that have scores.
LEMMA PrecedesOrders ==
    ASSUME NEW sc, NEW L, L \subseteq Names, \A n \in L : sc[n] \in Int
    PROVE  Order(Precedes(sc), L)
<1>1. L \subseteq Int
  BY SortedSetAssumption
<1>2. \A a, b \in L : <<a, b>> \in Precedes(sc) <=> (sc[a] < sc[b] \/ (sc[a] = sc[b] /\ a < b))
  BY PrecedesIs DEF Less, Before
<1> QED BY <1>1, <1>2 DEF Order

\* The tree is a search tree by any order that is the same on its nodes.
LEMMA SameOrder ==
    ASSUME NEW t, NEW r, NEW L, NEW sub, NEW lt, Links(t, r, L, sub, lt), NEW lt2,
           \A a, b \in L : <<a, b>> \in lt <=> <<a, b>> \in lt2
    PROVE  Links(t, r, L, sub, lt2)
<1>1. SearchTree(Lefts(t, L), Rights(t, L), Parents(t, L), r, L, sub, lt)
  BY DEF Links
<1>2. Order(lt2, L)
  BY <1>1 DEF SearchTree, Order
<1>3. Sorted(Lefts(t, L), Rights(t, L), L, sub, lt2)
  <2>1. \A n \in L : sub[Lefts(t, L)[n]] \subseteq L /\ sub[Rights(t, L)[n]] \subseteq L
    BY <1>1 DEF SearchTree, Tree
  <2> QED BY <2>1, <1>1 DEF SearchTree, Sorted
<1> QED BY <1>1, <1>2, <1>3 DEF Links, SearchTree

\* The empty tree.
LEMMA EmptyIs ==
    ASSUME NEW t, t = [n \in Names |-> Free], NEW L, L = {}, NEW lt
    PROVE  (\E sub : Links(t, NULL, L, sub, lt)) /\ Settling(t, L, NULL)
<1> DEFINE sub == [m \in {NULL} |-> {}]
<1>1. Memory(t, L)
  BY DEF Memory
<1>2. SearchTree(Lefts(t, L), Rights(t, L), Parents(t, L), NULL, L, sub, lt)
  <2>1. Tree(Lefts(t, L), Rights(t, L), Parents(t, L), NULL, L, sub)
    BY DEF Tree, Lefts, Rights, Parents
  <2> QED BY <2>1 DEF SearchTree, Order, Sorted
<1>3. Settling(t, L, NULL)
  BY <1>1, SettlingIs, FieldsAre DEF Settled
<1> QED BY <1>1, <1>2, <1>3 DEF Links

\* tree_dispose() visits the nodes of the subtree.
LEMMA SubtreeIs ==
    ASSUME NEW L, NEW sub, NEW lt, Links(tree, root, L, sub, lt), IsFiniteSet(L), Allocated = L,
           NEW n \in L \cup {NULL}
    PROVE  Subtree(n) = sub[n]
<1> DEFINE lc == Lefts(tree, L)
           rc == Rights(tree, L)
           Body(f) == [m \in Linked |->
                         IF m = NULL THEN {} ELSE {m} \cup f[tree[m].left] \cup f[tree[m].right]]
           s == CHOOSE f : f = Body(f)
           S == {m \in L : s[m] = sub[m]}
<1>1. SearchTree(lc, rc, Parents(tree, L), root, L, sub, lt)
  BY DEF Links
<1>2. \A m \in L : lc[m] = tree[m].left /\ rc[m] = tree[m].right
  BY DEF Lefts, Rights
<1>3. /\ NULL \notin L /\ Linked = L \cup {NULL} /\ sub[NULL] = {}
      /\ sub = [m \in L \cup {NULL} |-> sub[m]]
      /\ \A m \in L : sub[m] = {m} \cup sub[lc[m]] \cup sub[rc[m]]
      /\ \A m \in L : lc[m] \in L \cup {NULL} /\ rc[m] \in L \cup {NULL}
  BY <1>1 DEF SearchTree, Tree, Linked
<1>4. sub = Body(sub)
  <2> DEFINE b == Body(sub)
  <2>1. \A m \in Linked : b[m] = sub[m]
    BY <1>2, <1>3
  <2>2. b = [m \in Linked |-> b[m]]
    OBVIOUS
  <2> HIDE DEF b, lc, rc
  <2>3. b = sub
    BY <2>1, <2>2, <1>3
  <2> QED BY <2>3 DEF b
<1>5. s = Body(s)
  <2> HIDE DEF Body
  <2> QED BY <1>4
<1> HIDE DEF s
<1>6. /\ s[NULL] = {}
      /\ \A m \in L : s[m] = {m} \cup s[lc[m]] \cup s[rc[m]]
  <2> DEFINE b == Body(s)
  <2>1. NULL \in Linked /\ NULL \notin L /\ L \subseteq Linked
    BY <1>3
  <2>2. b[NULL] = {} /\ \A m \in L : b[m] = {m} \cup s[tree[m].left] \cup s[tree[m].right]
    BY <2>1
  <2> HIDE DEF Body
  <2>3. b = s
    BY <1>5
  <2> HIDE DEF b, lc, rc
  <2> QED BY <1>2, <2>2, <2>3
<1> HIDE DEF Body, lc, rc
<1>7. ASSUME NEW m \in L, lc[m] # NULL => lc[m] \in S, rc[m] # NULL => rc[m] \in S
      PROVE  m \in S
  <2> DEFINE x == lc[m]
             y == rc[m]
  <2>1. /\ x = NULL \/ x \in S
        /\ y = NULL \/ y \in S
        /\ s[m] = {m} \cup s[x] \cup s[y] /\ sub[m] = {m} \cup sub[x] \cup sub[y]
    BY <1>3, <1>6, <1>7
  <2> HIDE DEF x, y
  <2>2. s[x] = sub[x] /\ s[y] = sub[y]
    BY <2>1, <1>3, <1>6
  <2> QED BY <2>1, <2>2
<1>8. L \subseteq S
  <2> HIDE DEF S
  <2> QED BY <1>1, <1>7, TreeInduction
<1>9. Subtree(n) = s[n]
  BY DEF Subtree, s, Body
<1> QED BY <1>3, <1>6, <1>8, <1>9

\* The memory t holds a tree of the nodes of L in the order of the scores sc,
\* which avl_fix() has yet to look at from node x on.
Shaped(t, r, L, sc, x) ==
    /\ \E sub : Links(t, r, L, sub, Precedes(sc))
    /\ Settling(t, L, x)

\* The nodes of a tree are in the memory.
LEMMA ShapedMemory ==
    ASSUME NEW t, NEW r, NEW L, NEW sc, NEW x, Shaped(t, r, L, sc, x)
    PROVE  Memory(t, L) /\ NULL \notin L /\ r \in L \cup {NULL} /\ x \in L \cup {NULL} /\ (r = NULL <=> L = {})
BY DEF Shaped, Links, SearchTree, Tree, Settling, Unsettled

\* Only the nodes of the tree and their scores matter to this.
LEMMA ShapedElsewhere ==
    ASSUME NEW t, NEW r, NEW L, NEW sc, NEW x, Shaped(t, r, L, sc, x),
           NEW u, u = [n \in Names |-> u[n]], \A n \in L : u[n] = t[n],
           NEW sc2, \A n \in L : sc2[n] = sc[n]
    PROVE  Shaped(u, r, L, sc2, x)
<1>1. PICK sub : Links(t, r, L, sub, Precedes(sc))
  BY DEF Shaped
<1>2. Memory(t, L) /\ Memory(u, L)
  BY <1>1 DEF Links, Memory
<1>3. /\ Lefts(u, L) = Lefts(t, L) /\ Rights(u, L) = Rights(t, L) /\ Parents(u, L) = Parents(t, L)
      /\ Heights(u, L) = Heights(t, L) /\ Counts(u, L) = Counts(t, L)
  BY DEF Lefts, Rights, Parents, Heights, Counts, avl_height, avl_cnt
<1>4. Links(u, r, L, sub, Precedes(sc))
  BY <1>1, <1>2, <1>3 DEF Links
<1>5. \A a, b \in L : <<a, b>> \in Precedes(sc) <=> <<a, b>> \in Precedes(sc2)
  <2>1. L \subseteq Names
    BY <1>2 DEF Memory
  <2>2. \A a, b \in L : Less(sc, a, b) <=> Less(sc2, a, b)
    BY DEF Less, Before
  <2> QED BY <2>1, <2>2, PrecedesIs
<1>6. Links(u, r, L, sub, Precedes(sc2))
  BY <1>4, <1>5, SameOrder
<1>7. Settling(u, L, x)
  BY <1>3 DEF Shaped, Settling
<1> QED BY <1>6, <1>7 DEF Shaped

\* The new node of an insertion is where the order wants it.
LEMMA ShapedInserted ==
    ASSUME NEW t, NEW r, NEW L, NEW sc, Shaped(t, r, L, sc, NULL), IsFiniteSet(L),
           NEW n \in Names \ L, Nodes(t) \ {n} = L,
           NEW sc2, \A m \in L : sc2[m] = sc[m], \A m \in L \cup {n} : sc2[m] \in Int,
           NEW u, u = Inserted(t, r, n, sc2)
    PROVE  /\ Shaped(u, IF r = NULL THEN n ELSE r, L \cup {n}, sc2, n)
           /\ \A m \in Names \ (L \cup {n}) : u[m] = t[m]
<1> DEFINE lt == Precedes(sc2)
<1>1. Memory(t, L) /\ t = [m \in Names |-> t[m]] /\ L \subseteq Names
  BY ShapedMemory DEF Memory
<1>2. Shaped(t, r, L, sc2, NULL)
  BY <1>1, ShapedElsewhere
<1>3. PICK sub : Links(t, r, L, sub, lt)
  BY <1>2 DEF Shaped
<1>4. Settling(t, L, NULL) /\ lt \in SUBSET (Names \X Names)
  BY PrecedesIs DEF Shaped
<1>5. Order(lt, L \cup {n})
  <2>1. L \cup {n} \subseteq Names
    BY <1>1
  <2> QED BY <2>1, PrecedesOrders
<1>6. \A q \in L : Less(sc2, n, q) <=> <<n, q>> \in lt
  BY <1>1, PrecedesIs
<1> HIDE DEF lt
<1>7. /\ \E sub2 : Links(u, IF r = NULL THEN n ELSE r, L \cup {n}, sub2, lt)
      /\ Settling(u, L \cup {n}, n)
      /\ \A m \in Names \ (L \cup {n}) : u[m] = t[m]
  BY <1>3, <1>4, <1>5, <1>6, InsertedIs
<1> QED BY <1>7 DEF Shaped, lt

\* avl_del() detaches a node with one child at most, n or its successor.
LEMMA ShapedDetached ==
    ASSUME NEW t, NEW r, NEW L, NEW sc, Shaped(t, r, L, sc, NULL), IsFiniteSet(L),
           Nodes(t) = L, NEW n \in L, NEW v, v = Victim(t, n), NEW u, u = Detached(t, v)
    PROVE  /\ Shaped(u, IF t[v].parent = NULL THEN OnlyChild(t, v) ELSE r, L \ {v}, sc, t[v].parent)
           /\ \A m \in Names \ (L \ {v}) : u[m] = t[m]
           /\ v \in L /\ Next0(Precedes(sc), L, n, v)
<1> DEFINE lt == Precedes(sc)
<1>1. PICK sub : Links(t, r, L, sub, lt)
  BY DEF Shaped
<1>2. Settling(t, L, NULL) /\ lt \in SUBSET (Names \X Names)
  BY PrecedesIs DEF Shaped
<1> HIDE DEF lt
<1>3. v \in L /\ (t[v].left = NULL \/ t[v].right = NULL) /\ Next0(lt, L, n, v)
  BY <1>1, VictimIs
<1>4. /\ \E sub2 : Links(u, IF t[v].parent = NULL THEN OnlyChild(t, v) ELSE r, L \ {v}, sub2, lt)
      /\ Settling(u, L \ {v}, t[v].parent)
      /\ \A m \in Names \ (L \ {v}) : u[m] = t[m]
  BY <1>1, <1>2, <1>3, DetachedIs
<1> QED BY <1>3, <1>4 DEF Shaped, lt

\* An iteration of avl_fix() goes on at the parent.
LEMMA ShapedFixed ==
    ASSUME NEW t, NEW r, NEW L, NEW sc, NEW n \in L, Shaped(t, r, L, sc, n), NEW f, f = FixedAt(t, n)
    PROVE  /\ Shaped(f.tree, IF t[n].parent = NULL THEN f.top ELSE r, L, sc, t[n].parent)
           /\ \A m \in Names \ L : f.tree[m] = t[m]
<1> DEFINE lt == Precedes(sc)
<1>1. PICK sub : Links(t, r, L, sub, lt)
  BY DEF Shaped
<1>2. Settling(t, L, n) /\ lt \in SUBSET (Names \X Names)
  BY PrecedesIs DEF Shaped
<1> HIDE DEF lt
<1>3. /\ \E sub2 : Links(f.tree, IF t[n].parent = NULL THEN f.top ELSE r, L, sub2, lt)
      /\ Settling(f.tree, L, t[n].parent)
      /\ \A m \in Names \ L : f.tree[m] = t[m]
  BY <1>1, <1>2, FixedAtIs
<1> QED BY <1>3 DEF Shaped, lt

\* So it does without the node s.
Lacking(t, r, L, s, sc) == Shaped(t, r, L \ {s}, sc, NULL)

\* u is t but for the nodes of L.
Unchanged(t, u, L) == \A m \in Names \ L : u[m] = t[m]

\* The successor takes the place of n.
LEMMA ShapedReplaced ==
    ASSUME NEW t, NEW r, NEW L, NEW sc, NEW n \in L, NEW s \in L, s # n,
           Lacking(t, r, L, s, sc), L \subseteq Names, \A m \in L : sc[m] \in Int,
           Next0(Precedes(sc), L, n, s), NEW u, u = Replaced(t, n, s)
    PROVE  /\ Shaped(u, IF t[n].parent = NULL THEN s ELSE r, L \ {n}, sc, NULL)
           /\ Unchanged(t, u, L \ {n})
<1> DEFINE lt == Precedes(sc)
           K == L \ {s}
<1>1. PICK sub : Links(t, r, K, sub, lt)
  BY DEF Shaped, Lacking
<1>2. /\ Settling(t, K, NULL) /\ n \in K /\ s \in Names \ K
      /\ (K \ {n}) \cup {s} = L \ {n}
  BY DEF Shaped, Lacking
<1>3. Order(lt, L) /\ Order(lt, (K \ {n}) \cup {s})
  <2>1. Order(lt, L)
    BY PrecedesOrders
  <2>2. L \ {n} \subseteq Names /\ \A m \in L \ {n} : sc[m] \in Int
    OBVIOUS
  <2>3. Order(lt, L \ {n})
    BY <2>2, PrecedesOrders
  <2> QED BY <2>1, <2>3, <1>2
<1> HIDE DEF lt
<1>4. \A m \in K \ {n} : /\ <<m, n>> \in lt <=> <<m, s>> \in lt
                         /\ <<n, m>> \in lt <=> <<s, m>> \in lt
  <2>1. <<n, s>> \in lt /\ \A m \in L : ~(<<n, m>> \in lt /\ <<m, s>> \in lt)
    BY DEF Next0, lt
  <2> TAKE m \in K \ {n}
  <2>2. m \in L /\ m # n /\ m # s
    OBVIOUS
  <2> HIDE DEF K
  <2> QED BY <2>1, <2>2, <1>3 DEF Order
<1> HIDE DEF K
<1>5. /\ \E sub2 : Links(u, IF t[n].parent = NULL THEN s ELSE r, (K \ {n}) \cup {s}, sub2, lt)
      /\ Settling(u, (K \ {n}) \cup {s}, NULL)
      /\ \A m \in Names \ ((K \ {n}) \cup {s}) : u[m] = t[m]
  BY <1>1, <1>2, <1>3, <1>4, ReplacedIs
<1> QED BY <1>2, <1>5 DEF Shaped, lt, Unchanged

-----------------------------------------------------------------------------
(* The inductive invariant.                                                *)

\* The nodes that are allocated, with their scores.
Stored(t, sc) ==
    /\ t = [n \in Names |-> t[n]]
    /\ \A n \in Names : t[n] = Free \/ t[n] \in AVLNodes
    /\ sc \in [Names -> Scores \cup {Free}]
    /\ \A n \in Names : t[n] = Free <=> sc[n] = Free
    /\ IsFiniteSet(Nodes(t))

\* avl_del() has detached a node that the call has yet to give back.
Detaching == call # None /\ call.fn \in {"delete", "update"}

\* The nodes of the tree.
InTree == IF Detaching THEN Allocated \ {call.victim} ELSE Allocated

TreeInv ==
    /\ Stored(tree, score)
    /\ call \in Calls \cup {None}
    /\ hmap = IF call # None /\ call.fn = "delete" THEN Allocated \ {call.node} ELSE Allocated
    /\ Shaped(tree, root, InTree, score, cur)
    /\ call = None => cur = NULL
    /\ Detaching => /\ call.node \in Allocated /\ call.victim \in Allocated
                    /\ Next0(Precedes(score), Allocated, call.node, call.victim)

\* What is allocated has a score.
LEMMA StoredIs ==
    ASSUME NEW t, NEW sc, Stored(t, sc)
    PROVE  /\ Nodes(t) \subseteq Names /\ IsFiniteSet(Nodes(t))
           /\ \A n \in Nodes(t) : sc[n] \in Scores /\ sc[n] \in Int
           /\ \A n \in Names : n \in Nodes(t) <=> t[n] # Free
           /\ \A n \in Names : n \in Nodes(t) <=> t[n] \in AVLNodes
BY SortedSetAssumption, FreeAssumption DEF Stored, Nodes

\* A step that puts nodes into the memory, or takes one out.
LEMMA StoredAfter ==
    ASSUME NEW t, NEW sc, Stored(t, sc), NEW L, L \subseteq Names, IsFiniteSet(L),
           NEW u, u = [n \in Names |-> u[n]],
           \A n \in L : u[n] \in AVLNodes, \A n \in Names \ L : u[n] = Free,
           NEW sc2, sc2 \in [Names -> Scores \cup {Free}], \A n \in Names : sc2[n] # Free <=> n \in L
    PROVE  Stored(u, sc2) /\ Nodes(u) = L
<1>1. Nodes(u) = L
  BY FreeAssumption DEF Nodes
<1> QED BY <1>1, FreeAssumption DEF Stored

\* The calls of the module, and None, which is none of them.
LEMMA CallsAre ==
    /\ \A n \in Names : LET c == [fn |-> "insert", node |-> n]
                        IN  c \in Calls /\ c # None /\ c.fn = "insert" /\ c.node = n
    /\ \A f \in {"delete", "update"}, n \in Names, s \in Scores, v \in Names :
          LET c == [fn |-> f, node |-> n, score |-> s, victim |-> v]
          IN  c \in Calls /\ c # None /\ c.fn = f /\ c.node = n /\ c.score = s /\ c.victim = v
    /\ \A c \in Calls : /\ c # None /\ c.fn \in {"insert", "delete", "update"} /\ c.node \in Names
                        /\ c.fn # "insert" => c.score \in Scores /\ c.victim \in Names
<1>1. \A n \in Names : [fn |-> "insert", node |-> n] \in Calls
  BY DEF Calls
<1>2. \A f \in {"delete", "update"}, n \in Names, s \in Scores, v \in Names :
         [fn |-> f, node |-> n, score |-> s, victim |-> v] \in Calls
  BY DEF Calls
<1>3. \A c \in Calls : /\ c.fn \in {"insert", "delete", "update"} /\ c.node \in Names
                       /\ c.fn # "insert" => c.score \in Scores /\ c.victim \in Names
  BY DEF Calls
<1> QED BY <1>1, <1>2, <1>3, SortedSetAssumption

\* The invariant holds of the empty set.
LEMMA TreeInit == Init => TreeInv
<1> SUFFICES ASSUME Init PROVE TreeInv
  OBVIOUS
<1>1. Allocated = {} /\ ~Detaching /\ InTree = {}
  BY DEF Init, Allocated, Nodes, Detaching, InTree
<1>2. Stored(tree, score)
  <2>1. IsFiniteSet({})
    BY FS_EmptySet
  <2> QED BY <1>1, <2>1 DEF Init, Stored, Allocated
<1>3. Shaped(tree, root, InTree, score, cur)
  <2> DEFINE lt == Precedes(score)
  <2>1. tree = [n \in Names |-> Free] /\ root = NULL /\ cur = NULL
    BY DEF Init
  <2> HIDE DEF lt
  <2>2. (\E sub : Links(tree, NULL, InTree, sub, lt)) /\ Settling(tree, InTree, NULL)
    BY <1>1, <2>1, EmptyIs
  <2> QED BY <2>1, <2>2 DEF Shaped, lt
<1> QED BY <1>1, <1>2, <1>3 DEF TreeInv, Init

\* Between calls all that is allocated is in the tree and in the hash map.
LEMMA Between ==
    ASSUME TreeInv, call = None
    PROVE  /\ Shaped(tree, root, Allocated, score, NULL)
           /\ hmap = Allocated /\ cur = NULL /\ Allocated = Nodes(tree)
           /\ Allocated \subseteq Names /\ IsFiniteSet(Allocated)
           /\ \A n : zset_lookup(n) <=> n \in Allocated
<1>1. /\ Shaped(tree, root, Allocated, score, NULL)
      /\ hmap = Allocated /\ cur = NULL /\ Allocated = Nodes(tree)
      /\ Allocated \subseteq Names /\ IsFiniteSet(Allocated)
  BY StoredIs DEF TreeInv, InTree, Detaching, Allocated
<1>2. root = NULL <=> Allocated = {}
  BY <1>1, ShapedMemory
<1> QED BY <1>1, <1>2 DEF zset_lookup

\* avl_insert() of n with the scores sc.
LEMMA InsertKeeps ==
    ASSUME NEW t, NEW r, NEW L, NEW sc0, Shaped(t, r, L, sc0, NULL), IsFiniteSet(L),
           NEW n \in Names \ L, Nodes(t) \ {n} = L, \A m \in Names : m \in Nodes(t) \/ t[m] = Free,
           NEW sc, sc \in [Names -> Scores \cup {Free}], \A m \in L : sc[m] = sc0[m],
           \A m \in Names : sc[m] # Free <=> m \in L \cup {n},
           Insert(t, r, n, sc), hmap' = L \cup {n}
    PROVE  TreeInv'
<1> DEFINE M == L \cup {n}
<1>1. /\ tree' = Inserted(t, r, n, sc) /\ score' = sc /\ cur' = n
      /\ root' = (IF r = NULL THEN n ELSE r)
      /\ call' = [fn |-> "insert", node |-> n]
  BY DEF Insert, Inserted
<1>2. call' \in Calls /\ call' # None /\ call'.fn = "insert"
  BY <1>1, CallsAre
<1>3. \A m \in M : sc[m] \in Int
  <2>1. \A m \in M : m \in Names /\ sc[m] \in Scores
    BY ShapedMemory DEF Memory
  <2> QED BY <2>1, SortedSetAssumption
<1>4. /\ Shaped(tree', root', M, score', cur')
      /\ \A m \in Names \ M : tree'[m] = t[m]
  <2>1. /\ Shaped(tree', IF r = NULL THEN n ELSE r, L \cup {n}, sc, n)
        /\ \A m \in Names \ (L \cup {n}) : tree'[m] = t[m]
    BY <1>1, <1>3, ShapedInserted
  <2> QED BY <1>1, <2>1
<1>5. Memory(tree', M) /\ IsFiniteSet(M) /\ M \subseteq Names
  BY <1>4, ShapedMemory, FS_AddElement DEF Memory
<1> HIDE DEF M
<1>6. \A m \in Names \ M : tree'[m] = Free
  BY <1>4 DEF M
<1>7. Stored(tree', score') /\ Nodes(tree') = M
  <2>1. tree' = [m \in Names |-> tree'[m]] /\ \A m \in M : tree'[m] \in AVLNodes
    BY <1>5 DEF Memory
  <2>2. \A m \in Names : sc[m] # Free <=> m \in M
    BY DEF M
  <2> DEFINE u == tree'
  <2>3. /\ u = [m \in Names |-> u[m]] /\ \A m \in M : u[m] \in AVLNodes
        /\ \A m \in Names \ M : u[m] = Free
    BY <2>1, <1>6
  <2> HIDE DEF u
  <2>4. Stored(u, sc) /\ Nodes(u) = M
    <3>1. \A m \in Names : (m \in M) => sc[m] # Free
      BY <2>2
    <3> DEFINE N == Nodes(u)
    <3>2. N = M
      BY <2>3, <1>5, FreeAssumption DEF Nodes
    <3> QED BY <2>2, <2>3, <3>2, <1>5, FreeAssumption DEF Stored
  <2> QED BY <2>4, <1>1 DEF u
<1>8. Allocated' = M /\ ~Detaching' /\ InTree' = M
  BY <1>2, <1>7 DEF Allocated, Detaching, InTree
<1> QED BY <1>2, <1>4, <1>7, <1>8 DEF TreeInv, M

\* zset_insert() of a name that is not found.
LEMMA AddKeeps ==
    ASSUME TreeInv, NEW n \in Names, NEW s \in Scores, Add(n, s)
    PROVE  TreeInv'
<1> DEFINE sc == [score EXCEPT ![n] = s]
<1>1. /\ Insert(tree, root, n, sc) /\ hmap' = hmap \cup {n} /\ call = None /\ ~zset_lookup(n)
  BY DEF Add
<1>2. /\ Shaped(tree, root, Allocated, score, NULL)
      /\ hmap = Allocated /\ Allocated = Nodes(tree) /\ IsFiniteSet(Allocated)
      /\ n \in Names \ Allocated
  BY <1>1, Between
<1>3. /\ sc \in [Names -> Scores \cup {Free}] /\ \A m \in Names : sc[m] = IF m = n THEN s ELSE score[m]
      /\ \A m \in Names : score[m] # Free <=> m \in Allocated
      /\ s # Free
  BY SortedSetAssumption, StoredIs DEF TreeInv, Stored, Allocated
<1>4. \A m \in Names : m \in Nodes(tree) \/ tree[m] = Free
  BY DEF Nodes
<1> HIDE DEF sc
<1>5. /\ Nodes(tree) \ {n} = Allocated
      /\ \A m \in Allocated : sc[m] = score[m]
      /\ \A m \in Names : sc[m] # Free <=> m \in Allocated \cup {n}
  <2>1. Allocated \subseteq Names
    BY DEF Allocated, Nodes
  <2> QED BY <2>1, <1>2, <1>3
<1>6. hmap' = Allocated \cup {n}
  BY <1>1, <1>2
<1> QED BY <1>1, <1>2, <1>3, <1>4, <1>5, <1>6, InsertKeeps

\* The first half of avl_del().
LEMMA DeleteKeeps ==
    ASSUME TreeInv, call = None, NEW n \in Allocated, NEW fn \in {"delete", "update"}, NEW s \in Scores,
           Delete(n, fn, s), hmap' = IF fn = "delete" THEN hmap \ {n} ELSE hmap
    PROVE  TreeInv'
<1> DEFINE v == Victim(tree, n)
           K == Allocated \ {v}
<1>1. /\ tree' = Detached(tree, v) /\ cur' = tree[v].parent
      /\ root' = (IF tree[v].parent = NULL THEN OnlyChild(tree, v) ELSE root)
      /\ call' = [fn |-> fn, node |-> n, score |-> s, victim |-> v]
      /\ score' = score
  BY DEF Delete
<1>2. /\ Shaped(tree, root, Allocated, score, NULL)
      /\ hmap = Allocated /\ Nodes(tree) = Allocated
      /\ Allocated \subseteq Names /\ IsFiniteSet(Allocated)
  BY Between
<1>3. /\ Shaped(tree', root', Allocated \ {v}, score', cur')
      /\ \A m \in Names \ (Allocated \ {v}) : tree'[m] = tree[m]
      /\ v \in Allocated /\ Next0(Precedes(score), Allocated, n, v)
  <2> DEFINE u == tree'
  <2>1. u = Detached(tree, v) /\ v = Victim(tree, n)
    BY <1>1
  <2> HIDE DEF u, v
  <2>2. /\ Shaped(u, IF tree[v].parent = NULL THEN OnlyChild(tree, v) ELSE root,
                  Allocated \ {v}, score, tree[v].parent)
        /\ \A m \in Names \ (Allocated \ {v}) : u[m] = tree[m]
        /\ v \in Allocated /\ Next0(Precedes(score), Allocated, n, v)
    BY <1>2, <2>1, ShapedDetached
  <2> QED BY <2>2, <1>1 DEF u
<1> HIDE DEF v
<1>4. call' \in Calls /\ call' # None /\ call'.fn = fn /\ call'.node = n /\ call'.victim = v
  BY <1>1, <1>2, <1>3, CallsAre
<1>5. Memory(tree', K)
  BY <1>3, ShapedMemory
<1>6. /\ tree' = [m \in Names |-> tree'[m]]
      /\ \A m \in Names : tree'[m] \in AVLNodes <=> m \in Allocated
      /\ \A m \in Names : tree'[m] = Free <=> m \notin Allocated
  <2>1. \A m \in K : tree'[m] \in AVLNodes
    BY <1>5 DEF Memory
  <2>2. Stored(tree, score)
    BY DEF TreeInv
  <2>3. \A m \in Names : m \in Allocated <=> tree[m] # Free
    BY <2>2, StoredIs DEF Allocated
  <2>4. \A m \in Names : m \in Allocated <=> tree[m] \in AVLNodes
    BY <2>2, StoredIs DEF Allocated
  <2>5. \A m \in Names : tree[m] = Free \/ tree[m] \in AVLNodes
    BY <2>2 DEF Stored
  <2> QED BY <1>3, <1>5, <2>1, <2>3, <2>4, <2>5, FreeAssumption DEF Memory
<1>7. Nodes(tree') = Allocated /\ Allocated' = Allocated
  BY <1>2, <1>6 DEF Nodes, Allocated
<1>8. Stored(tree', score')
  <2>1. Stored(tree, score)
    BY DEF TreeInv
  <2>2. \A m \in Names : m \in Allocated <=> score[m] # Free
    BY <2>1, StoredIs DEF Stored, Allocated
  <2>3. score \in [Names -> Scores \cup {Free}]
    BY <2>1 DEF Stored
  <2> DEFINE u == tree'
  <2>4. /\ u = [m \in Names |-> u[m]] /\ Nodes(u) = Allocated
        /\ \A m \in Names : u[m] \in AVLNodes <=> m \in Allocated
        /\ \A m \in Names : u[m] = Free <=> m \notin Allocated
    BY <1>6, <1>7
  <2> HIDE DEF u
  <2>5. Stored(u, score)
    BY <2>2, <2>3, <2>4, <1>2 DEF Stored
  <2> QED BY <2>5, <1>1 DEF u
<1>9. Detaching' /\ InTree' = K
  BY <1>4, <1>7 DEF Detaching, InTree
<1> QED BY <1>1, <1>2, <1>3, <1>4, <1>7, <1>8, <1>9 DEF TreeInv

\* An iteration of avl_fix().
LEMMA FixKeeps ==
    ASSUME TreeInv, avl_fix
    PROVE  TreeInv'
<1> DEFINE f == FixedAt(tree, cur)
           L == InTree
<1>1. /\ cur # NULL /\ tree' = f.tree
      /\ root' = (IF tree[cur].parent = NULL THEN f.top ELSE root)
      /\ cur' = tree[cur].parent
      /\ call' = (IF cur' = NULL /\ call.fn = "insert" THEN None ELSE call)
      /\ score' = score /\ hmap' = hmap
  BY DEF avl_fix, Climb
<1>2. Shaped(tree, root, L, score, cur) /\ Stored(tree, score) /\ call # None /\ call \in Calls
  BY <1>1 DEF TreeInv
<1>3. cur \in L /\ L \subseteq Allocated /\ Allocated = Nodes(tree) /\ L \subseteq Names
  BY <1>1, <1>2, ShapedMemory DEF InTree, Allocated, Memory
<1>4. /\ Shaped(tree', root', L, score', cur')
      /\ \A m \in Names \ L : tree'[m] = tree[m]
  <2>1. f = FixedAt(tree, cur)
    OBVIOUS
  <2> HIDE DEF f, L
  <2>2. /\ Shaped(f.tree, IF tree[cur].parent = NULL THEN f.top ELSE root, L, score, tree[cur].parent)
        /\ \A m \in Names \ L : f.tree[m] = tree[m]
    BY <2>1, <1>2, <1>3, ShapedFixed
  <2> QED BY <2>2, <1>1
<1> HIDE DEF f
<1>5. Nodes(tree') = Allocated /\ Allocated' = Allocated /\ Stored(tree', score')
  <2> DEFINE u == tree'
  <2>1. Memory(u, L)
    BY <1>4, ShapedMemory
  <2>2. /\ u = [m \in Names |-> u[m]] /\ \A m \in L : u[m] \in AVLNodes
        /\ \A m \in Names \ L : u[m] = tree[m]
    BY <2>1, <1>4 DEF Memory
  <2>3. /\ \A m \in Names : m \in Allocated <=> tree[m] # Free
        /\ \A m \in Names : m \in Allocated <=> tree[m] \in AVLNodes
    BY <1>2, StoredIs DEF Allocated
  <2>4. \A m \in Names : m \in Allocated <=> score[m] # Free
    BY <1>2, <2>3 DEF Stored
  <2> HIDE DEF u, L
  <2>5. /\ \A m \in Names : m \in Allocated <=> u[m] # Free
        /\ \A m \in Names : m \in Allocated <=> u[m] \in AVLNodes
    BY <2>2, <2>3, <1>3, FreeAssumption
  <2>6. Nodes(u) = Allocated
    BY <2>5, <1>3 DEF Nodes
  <2>7. score \in [Names -> Scores \cup {Free}] /\ IsFiniteSet(Allocated)
    BY <1>2, <1>3 DEF Stored
  <2>8. Stored(u, score)
    BY <2>2, <2>4, <2>5, <2>6, <2>7 DEF Stored
  <2> QED BY <2>6, <2>8, <1>1 DEF u, Allocated
<1>6. CASE cur' = NULL /\ call.fn = "insert"
  <2>1. /\ ~Detaching /\ L = Allocated /\ hmap = Allocated
    BY <1>6 DEF Detaching, InTree, TreeInv
  <2>2. call' = None /\ ~Detaching' /\ InTree' = Allocated
    BY <1>1, <1>5, <1>6 DEF Detaching, InTree
  <2> HIDE DEF L
  <2> QED BY <2>1, <2>2, <1>1, <1>4, <1>5, <1>6 DEF TreeInv
<1>7. CASE ~(cur' = NULL /\ call.fn = "insert")
  <2>1. call' = call
    BY <1>1, <1>7
  <2>2. InTree' = L /\ Detaching' = Detaching
    BY <2>1, <1>5 DEF InTree, Detaching
  <2> HIDE DEF L
  <2> QED BY <2>1, <2>2, <1>1, <1>2, <1>4, <1>5 DEF TreeInv
<1> QED BY <1>6, <1>7

\* The end of avl_del() leaves a tree of all the nodes but that of the call.
LEMMA WithoutIs ==
    ASSUME TreeInv, Detaching, cur = NULL, NEW n, n = call.node, NEW v, v = call.victim
    PROVE  /\ n \in Names /\ n \in Allocated
           /\ Shaped(Without(n, v), RootWithout(n, v), Allocated \ {n}, score, NULL)
           /\ \A m \in Names \ (Allocated \ {n}) : Without(n, v)[m] = tree[m]
<1>1. /\ n \in Allocated /\ v \in Allocated /\ Next0(Precedes(score), Allocated, n, v)
      /\ Shaped(tree, root, Allocated \ {v}, score, NULL)
      /\ Allocated \subseteq Names /\ \A m \in Allocated : score[m] \in Int
  BY StoredIs DEF TreeInv, InTree, Allocated
<1>2. CASE v = n
  BY <1>1, <1>2 DEF Without, RootWithout
<1>3. CASE v # n
  <2> DEFINE u == Replaced(tree, n, v)
  <2>1. Without(n, v) = u /\ RootWithout(n, v) = IF tree[n].parent = NULL THEN v ELSE root
    BY <1>3 DEF Without, RootWithout
  <2>2. u = Replaced(tree, n, v) /\ Lacking(tree, root, Allocated, v, score)
    BY <1>1 DEF Lacking
  <2> HIDE DEF u
  <2>3. /\ Shaped(u, IF tree[n].parent = NULL THEN v ELSE root, Allocated \ {n}, score, NULL)
        /\ Unchanged(tree, u, Allocated \ {n})
    BY <1>1, <1>3, <2>2, ShapedReplaced
  <2> QED BY <2>1, <2>3, <1>1 DEF Unchanged
<1> QED BY <1>2, <1>3

\* The end of zset_delete().
LEMMA DeletedKeeps ==
    ASSUME TreeInv, Deleted
    PROVE  TreeInv'
<1> DEFINE n == call.node
           v == call.victim
           w == Without(n, v)
           u == tree'
           L == Allocated \ {n}
<1>1. /\ call # None /\ cur = NULL /\ call.fn = "delete"
      /\ tree' = [w EXCEPT ![n] = Free] /\ root' = RootWithout(n, v)
      /\ score' = [score EXCEPT ![n] = Free]
      /\ call' = None /\ hmap' = hmap /\ cur' = NULL
  BY DEF Deleted
<1>2. Detaching /\ hmap = L /\ Stored(tree, score)
  BY <1>1 DEF Detaching, TreeInv
<1>3. /\ n \in Names /\ n \in Allocated
      /\ Shaped(w, root', L, score, NULL)
      /\ \A m \in Names \ L : w[m] = tree[m]
  <2>1. n = call.node /\ v = call.victim
    OBVIOUS
  <2> HIDE DEF n, v
  <2>2. /\ n \in Names /\ n \in Allocated
        /\ Shaped(Without(n, v), RootWithout(n, v), Allocated \ {n}, score, NULL)
        /\ \A m \in Names \ (Allocated \ {n}) : Without(n, v)[m] = tree[m]
    BY <1>1, <1>2, <2>1, WithoutIs
  <2> QED BY <2>2, <1>1
<1> HIDE DEF n, v, w, L
<1>4. Memory(w, L) /\ L \subseteq Names /\ n \notin L
  BY <1>3, ShapedMemory DEF Memory, L
<1>5. /\ u = [m \in Names |-> u[m]]
      /\ \A m \in Names : u[m] = IF m = n THEN Free ELSE w[m]
      /\ \A m \in Names : score'[m] = IF m = n THEN Free ELSE score[m]
      /\ score' \in [Names -> Scores \cup {Free}]
  <2>1. w = [m \in Names |-> w[m]]
    BY <1>4 DEF Memory
  <2>2. score \in [Names -> Scores \cup {Free}]
    BY <1>2 DEF Stored
  <2> QED BY <2>1, <2>2, <1>1, <1>3
<1> HIDE DEF u
<1>6. Shaped(u, root', L, score', NULL)
  <2> DEFINE sc == score'
             r == root'
  <2>1. Shaped(w, r, L, score, NULL) /\ u = [m \in Names |-> u[m]]
    BY <1>3, <1>5
  <2>2. \A m \in L : u[m] = w[m] /\ sc[m] = score[m]
    BY <1>4, <1>5
  <2> HIDE DEF sc, r
  <2>3. Shaped(u, r, L, sc, NULL)
    BY <2>1, <2>2, ShapedElsewhere
  <2> QED BY <2>3 DEF sc, r
<1>7. Stored(u, score') /\ Nodes(u) = L
  <2> DEFINE sc == score'
  <2>1. \A m \in L : u[m] \in AVLNodes
    BY <1>4, <1>5 DEF Memory
  <2>2. /\ Nodes(tree) = Allocated /\ IsFiniteSet(Allocated)
        /\ \A m \in Names : m \in Allocated <=> tree[m] # Free
    BY <1>2, StoredIs DEF Allocated
  <2>3. \A m \in Names : m \in Allocated <=> score[m] # Free
    BY <1>2, <2>2 DEF Stored
  <2>4. \A m \in Names \ L : u[m] = Free
    BY <1>3, <1>5, <2>2 DEF L
  <2>5. \A m \in Names : sc[m] # Free <=> m \in L
    BY <1>5, <2>3 DEF L
  <2>6. IsFiniteSet(L)
    BY <2>2, FS_RemoveElement DEF L
  <2>7. sc \in [Names -> Scores \cup {Free}]
    BY <1>5
  <2> HIDE DEF sc
  <2>8. Stored(u, sc) /\ Nodes(u) = L
    BY <1>2, <1>4, <1>5, <2>1, <2>4, <2>5, <2>6, <2>7, StoredAfter
  <2> QED BY <2>8 DEF sc
<1>8. Allocated' = L /\ ~Detaching' /\ InTree' = L
  BY <1>1, <1>7 DEF Allocated, Detaching, InTree, u
<1> QED BY <1>1, <1>2, <1>6, <1>7, <1>8 DEF TreeInv, u

\* The end of zset_update(): the node goes back into the tree with its new score.
LEMMA UpdatedKeeps ==
    ASSUME TreeInv, Updated
    PROVE  TreeInv'
<1> DEFINE n == call.node
           v == call.victim
           w == Without(n, v)
           r == RootWithout(n, v)
           L == Allocated \ {n}
           sc == [score EXCEPT ![n] = call.score]
<1>1. /\ call # None /\ cur = NULL /\ call.fn = "update"
      /\ Insert(w, r, n, sc) /\ hmap' = hmap
  BY DEF Updated
<1>2. Detaching /\ hmap = Allocated /\ Stored(tree, score) /\ call.score \in Scores
  BY <1>1, CallsAre DEF Detaching, TreeInv
<1>3. /\ n \in Names /\ n \in Allocated
      /\ Shaped(w, r, L, score, NULL)
      /\ \A m \in Names \ L : w[m] = tree[m]
  <2>1. n = call.node /\ v = call.victim
    OBVIOUS
  <2> HIDE DEF n, v
  <2>2. /\ n \in Names /\ n \in Allocated
        /\ Shaped(Without(n, v), RootWithout(n, v), Allocated \ {n}, score, NULL)
        /\ \A m \in Names \ (Allocated \ {n}) : Without(n, v)[m] = tree[m]
    BY <1>1, <1>2, <2>1, WithoutIs
  <2> QED BY <2>2, <1>1
<1> HIDE DEF n, v, w, r
<1>4. /\ Memory(w, L) /\ L \subseteq Names /\ n \in Names \ L
      /\ Allocated = L \cup {n} /\ IsFiniteSet(L)
      /\ Allocated \subseteq Names
  <2>1. IsFiniteSet(Allocated) /\ Allocated \subseteq Names
    BY <1>2, StoredIs DEF Allocated
  <2>2. IsFiniteSet(L)
    BY <2>1, FS_RemoveElement
  <2> QED BY <2>1, <2>2, <1>3, ShapedMemory
<1>5. /\ \A m \in Names : m \in Allocated <=> tree[m] # Free
      /\ \A m \in Names : m \in Allocated <=> score[m] # Free
  <2>1. \A m \in Names : m \in Allocated <=> tree[m] # Free
    BY <1>2, StoredIs DEF Allocated
  <2> QED BY <2>1, <1>2 DEF Stored
<1>6. \A m \in Names : m \in L => w[m] \in AVLNodes /\ w[m] # Free
  BY <1>4, FreeAssumption DEF Memory
<1> HIDE DEF L
<1>7. Nodes(w) \ {n} = L /\ \A m \in Names : m \in Nodes(w) \/ w[m] = Free
  <2>1. \A m \in Names \ {n} : m \in L <=> w[m] # Free
    BY <1>3, <1>4, <1>5, <1>6
  <2> QED BY <2>1, <1>4 DEF Nodes
<1>8. /\ sc \in [Names -> Scores \cup {Free}]
      /\ \A m \in Names : sc[m] = IF m = n THEN call.score ELSE score[m]
      /\ call.score # Free
  BY <1>2, SortedSetAssumption DEF Stored
<1> HIDE DEF sc
<1>9. /\ \A m \in L : sc[m] = score[m]
      /\ \A m \in Names : sc[m] # Free <=> m \in L \cup {n}
  BY <1>4, <1>5, <1>8
<1> QED BY <1>1, <1>2, <1>3, <1>4, <1>7, <1>8, <1>9, InsertKeeps

\* zset_clear() frees all that is allocated.
LEMMA ClearKeeps ==
    ASSUME TreeInv, zset_clear
    PROVE  TreeInv'
<1>1. /\ call = None /\ call' = call /\ cur' = cur /\ root' = NULL /\ hmap' = {}
      /\ tree' = [n \in Names |-> IF n \in Subtree(root) THEN Free ELSE tree[n]]
      /\ score' = [n \in Names |-> IF n \in Subtree(root) THEN Free ELSE score[n]]
  BY DEF zset_clear
<1>2. /\ Shaped(tree, root, Allocated, score, NULL) /\ cur = NULL /\ Stored(tree, score)
      /\ IsFiniteSet(Allocated)
  BY <1>1, Between DEF TreeInv
<1>3. Subtree(root) = Allocated
  <2> DEFINE lt == Precedes(score)
  <2>1. PICK sub : Links(tree, root, Allocated, sub, lt)
    BY <1>2 DEF Shaped
  <2> DEFINE A == Allocated
  <2>2. A = Allocated
    OBVIOUS
  <2> HIDE DEF lt, A
  <2>3. root \in A \cup {NULL} /\ sub[root] = A
    BY <2>1, <2>2 DEF Links, SearchTree, Tree
  <2>4. Subtree(root) = sub[root]
    BY <1>2, <2>1, <2>2, <2>3, SubtreeIs
  <2> QED BY <2>2, <2>3, <2>4
<1>4. \A m \in Names : m \notin Allocated => tree[m] = Free /\ score[m] = Free
  BY <1>2 DEF Allocated, Nodes, Stored
<1>5. /\ tree' = [n \in Names |-> Free] /\ score' = [n \in Names |-> Free]
  BY <1>1, <1>3, <1>4
<1>6. Stored(tree', score') /\ Nodes(tree') = {}
  <2>1. Nodes(tree') = {} /\ IsFiniteSet({})
    BY <1>5, FS_EmptySet DEF Nodes
  <2> QED BY <1>5, <2>1 DEF Stored
<1>7. Allocated' = {} /\ ~Detaching' /\ InTree' = {}
  BY <1>1, <1>6 DEF Allocated, Detaching, InTree
<1>8. Shaped(tree', root', {}, score', cur')
  <2> DEFINE lt == Precedes(score')
             u == tree'
  <2>1. u = [n \in Names |-> Free] /\ root' = NULL /\ cur' = NULL
    BY <1>1, <1>2, <1>5
  <2> HIDE DEF lt, u
  <2>2. (\E sub : Links(u, NULL, {}, sub, lt)) /\ Settling(u, {}, NULL)
    BY <2>1, EmptyIs
  <2> QED BY <2>1, <2>2 DEF Shaped, lt, u
<1> QED BY <1>1, <1>2, <1>6, <1>7, <1>8 DEF TreeInv

\* Every step keeps the invariant.
LEMMA NextKeeps ==
    ASSUME TreeInv, [Next]_vars
    PROVE  TreeInv'
<1>1. ASSUME NEW p \in Pairs, Add(p[1], p[2]) PROVE TreeInv'
  <2>1. p[1] \in Names /\ p[2] \in Scores
    BY SortedSetAssumption
  <2> QED BY <1>1, <2>1, AddKeeps
<1>2. ASSUME NEW p \in Pairs, zset_update(p[1], p[2]) PROVE TreeInv'
  <2> DEFINE n == p[1]
             s == p[2]
  <2>1. n \in Names /\ s \in Scores
    BY SortedSetAssumption
  <2>2. call = None /\ zset_lookup(n) /\ Delete(n, "update", s) /\ hmap' = hmap
    BY <1>2 DEF zset_update
  <2>3. n \in Allocated
    BY <2>2, Between
  <2> HIDE DEF n, s
  <2> DEFINE fn == "update"
  <2>4. fn \in {"delete", "update"} /\ fn # "delete" /\ Delete(n, fn, s)
    BY <2>2
  <2> HIDE DEF fn
  <2> QED BY <2>1, <2>2, <2>3, <2>4, DeleteKeeps
<1>3. ASSUME NEW n \in Names, zset_delete(n) PROVE TreeInv'
  <2>2. call = None /\ zset_lookup(n) /\ Delete(n, "delete", score[n]) /\ hmap' = hmap \ {n}
    BY <1>3 DEF zset_delete
  <2>3. n \in Allocated /\ score[n] \in Scores
    BY <2>2, Between, StoredIs DEF TreeInv
  <2> DEFINE fn == "delete"
  <2>4. fn \in {"delete", "update"} /\ fn = "delete" /\ Delete(n, fn, score[n])
    BY <2>2
  <2> HIDE DEF fn
  <2> QED BY <2>2, <2>3, <2>4, DeleteKeeps
<1>4. ASSUME UNCHANGED vars PROVE TreeInv'
  <2>1. /\ tree' = tree /\ score' = score /\ root' = root /\ hmap' = hmap
        /\ call' = call /\ cur' = cur
    BY <1>4 DEF vars
  <2>2. Allocated' = Allocated /\ InTree' = InTree /\ Detaching' = Detaching
    BY <2>1 DEF Allocated, InTree, Detaching
  <2> QED BY <2>1, <2>2 DEF TreeInv
<1> QED BY <1>1, <1>2, <1>3, <1>4, FixKeeps, DeletedKeeps, UpdatedKeeps, ClearKeeps DEF Next

\* In every reachable state the memory holds a search tree in the order of
\* (score, name), off balance only where avl_fix() is, of the nodes that are
\* allocated but for the one that a running avl_del() has detached.
THEOREM TreeInvHolds == Spec => []TreeInv
<1>1. TreeInv /\ [Next]_vars => TreeInv'
  BY NextKeeps
<1> QED BY TreeInit, <1>1, PTL DEF Spec

\* Whatever is stored, the fields hold what their types in avl.hpp and
\* zset.hpp say, and the running call is one that the module makes.
THEOREM SortedSetTypeCorrect == Spec => []TypeOK
<1>1. TreeInv => TypeOK
  <2> SUFFICES ASSUME TreeInv PROVE TypeOK
    OBVIOUS
  <2>1. Stored(tree, score) /\ call \in Calls \cup {None} /\ Shaped(tree, root, InTree, score, cur)
    BY DEF TreeInv
  <2>2. /\ InTree \subseteq Allocated /\ Allocated \subseteq Names
        /\ Allocated = Nodes(tree)
    BY DEF InTree, Allocated, Nodes
  <2>3. root \in InTree \cup {NULL} /\ cur \in InTree \cup {NULL}
    BY <2>1, ShapedMemory
  <2>4. hmap \subseteq Allocated
    BY DEF TreeInv
  <2> QED BY <2>1, <2>2, <2>3, <2>4 DEF Stored, TypeOK, Pointers, Nodes
<1> QED BY <1>1, TreeInvHolds, PTL

-----------------------------------------------------------------------------
(* The nodes in order.                                                     *)

\* q lists the members of A, in the order lt.
Lists(q, A, lt) ==
    /\ q \in Seq(A)
    /\ \A a \in A : \E i \in 1 .. Len(q) : q[i] = a
    /\ \A i, j \in 1 .. Len(q) : i < j => <<q[i], q[j]>> \in lt

\* The list of a node and its branches.
Joined(a, n, b) == a \o <<n>> \o b

\* q is first a, then n, then b.
Parts(q, a, n, b) ==
    /\ Len(q) = Len(a) + 1 + Len(b) /\ Len(a) \in Nat /\ Len(b) \in Nat
    /\ \A i \in 1 .. Len(a) : q[i] = a[i]
    /\ q[Len(a) + 1] = n
    /\ \A i \in 1 .. Len(b) : q[Len(a) + 1 + i] = b[i]

\* What is where in the list.
LEMMA JoinedIs ==
    ASSUME NEW S, NEW a \in Seq(S), NEW n \in S, NEW b \in Seq(S)
    PROVE  Joined(a, n, b) \in Seq(S) /\ Parts(Joined(a, n, b), a, n, b)
<1> DEFINE q == Joined(a, n, b)
<1>1. a \o <<n>> \in Seq(S) /\ Len(a \o <<n>>) = Len(a) + 1 /\ Len(a) \in Nat /\ Len(b) \in Nat
  OBVIOUS
<1>2. /\ \A i \in 1 .. Len(a) : (a \o <<n>>)[i] = a[i]
      /\ (a \o <<n>>)[Len(a) + 1] = n
  OBVIOUS
<1> DEFINE c == a \o <<n>>
<1>3. c \in Seq(S) /\ q = c \o b /\ Len(c) = Len(a) + 1
  BY <1>1 DEF Joined
<1>4. \A i \in 1 .. Len(a) : c[i] = a[i]
  BY <1>2
<1>5. c[Len(a) + 1] = n
  BY <1>2
<1> HIDE DEF c
<1>6. /\ q \in Seq(S) /\ Len(q) = Len(c) + Len(b)
      /\ \A i \in 1 .. Len(c) : q[i] = c[i]
      /\ \A i \in 1 .. Len(b) : q[Len(c) + i] = b[i]
  <2>1. q = c \o b /\ c \in Seq(S) /\ b \in Seq(S)
    BY <1>3
  <2>2. q \in Seq(S) /\ Len(q) = Len(c) + Len(b)
    BY <2>1
  <2>3. \A i \in 1 .. Len(c) : q[i] = c[i]
    BY <2>1
  <2>4. \A i \in 1 .. Len(b) : q[Len(c) + i] = b[i]
    BY <2>1
  <2> QED BY <2>2, <2>3, <2>4
<1> HIDE DEF q
<1>7. q \in Seq(S) /\ Parts(q, a, n, b)
  BY <1>1, <1>3, <1>4, <1>5, <1>6 DEF Parts
<1> QED BY <1>7 DEF q

\* The list of a node and its branches is in order if those of its branches are.
LEMMA JoinedLists ==
    ASSUME NEW A, NEW B, NEW n, NEW lt, NEW a, NEW b, Lists(a, A, lt), Lists(b, B, lt),
           \A x \in A : <<x, n>> \in lt, \A y \in B : <<n, y>> \in lt,
           \A x \in A, y \in B : <<x, y>> \in lt
    PROVE  Lists(Joined(a, n, b), {n} \cup A \cup B, lt)
<1> DEFINE S == {n} \cup A \cup B
           q == Joined(a, n, b)
<1>1. a \in Seq(S) /\ b \in Seq(S) /\ n \in S
  BY DEF Lists
<1>2. \A i \in 1 .. Len(a) : a[i] \in A
  BY DEF Lists
<1>3. \A i \in 1 .. Len(b) : b[i] \in B
  BY DEF Lists
<1>4. n \in S /\ \A x : x \in S <=> x = n \/ x \in A \/ x \in B
  OBVIOUS
<1>q. q = Joined(a, n, b)
  OBVIOUS
<1> HIDE DEF S, q
<1>5. /\ q \in Seq(S) /\ Len(q) = Len(a) + 1 + Len(b) /\ Len(a) \in Nat /\ Len(b) \in Nat
      /\ \A i \in 1 .. Len(a) : q[i] = a[i]
      /\ q[Len(a) + 1] = n
      /\ \A i \in 1 .. Len(b) : q[Len(a) + 1 + i] = b[i]
  <2>1. q \in Seq(S) /\ Parts(q, a, n, b)
    BY <1>1, <1>q, JoinedIs
  <2> QED BY <2>1 DEF Parts
<1>6. \A i \in 1 .. Len(q) : \/ i \in 1 .. Len(a) /\ q[i] = a[i]
                             \/ i = Len(a) + 1 /\ q[i] = n
                             \/ i - (Len(a) + 1) \in 1 .. Len(b) /\ q[i] = b[i - (Len(a) + 1)]
  <2> SUFFICES ASSUME NEW i \in 1 .. Len(q)
               PROVE  \/ i \in 1 .. Len(a) /\ q[i] = a[i]
                      \/ i = Len(a) + 1 /\ q[i] = n
                      \/ i - (Len(a) + 1) \in 1 .. Len(b) /\ q[i] = b[i - (Len(a) + 1)]
    OBVIOUS
  <2>1. CASE i - (Len(a) + 1) \in 1 .. Len(b)
    <3>1. Len(a) + 1 + (i - (Len(a) + 1)) = i
      BY <1>5
    <3> QED BY <2>1, <3>1, <1>5
  <2> QED BY <2>1, <1>5
<1>7. ASSUME NEW x \in S PROVE \E i \in 1 .. Len(q) : q[i] = x
  <2>1. CASE x = n
    <3>1. Len(a) + 1 \in 1 .. Len(q)
      BY <1>5
    <3> QED BY <3>1, <2>1, <1>5
  <2>2. CASE x \in A
    <3>1. PICK i \in 1 .. Len(a) : a[i] = x
      BY <2>2 DEF Lists
    <3>2. i \in 1 .. Len(q) /\ q[i] = x
      BY <3>1, <1>5
    <3> QED BY <3>2
  <2>3. CASE x \in B
    <3>1. PICK i \in 1 .. Len(b) : b[i] = x
      BY <2>3 DEF Lists
    <3>2. Len(a) + 1 + i \in 1 .. Len(q) /\ q[Len(a) + 1 + i] = x
      BY <3>1, <1>5
    <3> QED BY <3>2
  <2> QED BY <2>1, <2>2, <2>3, <1>4
<1>8. ASSUME NEW i \in 1 .. Len(q), NEW j \in 1 .. Len(q), i < j PROVE <<q[i], q[j]>> \in lt
  <2>1. CASE i \in 1 .. Len(a) /\ j \in 1 .. Len(a)
    BY <2>1, <1>5, <1>8 DEF Lists
  <2>2. CASE i \in 1 .. Len(a) /\ j = Len(a) + 1
    BY <2>2, <1>2, <1>5
  <2>3. CASE i \in 1 .. Len(a) /\ j > Len(a) + 1
    <3>1. q[j] \in B /\ q[i] \in A
      BY <2>3, <1>2, <1>3, <1>5, <1>6
    <3> QED BY <3>1
  <2>4. CASE i = Len(a) + 1
    <3>1. q[j] \in B /\ q[i] = n
      BY <2>4, <1>3, <1>5, <1>6, <1>8
    <3> QED BY <3>1
  <2>5. CASE i > Len(a) + 1
    <3> DEFINE k == i - (Len(a) + 1)
               l == j - (Len(a) + 1)
    <3>1. k \in 1 .. Len(b) /\ l \in 1 .. Len(b) /\ k < l /\ q[i] = b[k] /\ q[j] = b[l]
      BY <2>5, <1>5, <1>6, <1>8
    <3> HIDE DEF k, l
    <3> QED BY <3>1 DEF Lists
  <2>6. i \in Nat /\ j \in Nat /\ 1 <= i /\ Len(a) \in Nat
    BY <1>5
  <2>7. \/ i <= Len(a) /\ (j <= Len(a) \/ j = Len(a) + 1 \/ j > Len(a) + 1)
        \/ i = Len(a) + 1
        \/ i > Len(a) + 1
    BY <2>6
  <2>8. i <= Len(a) => i \in 1 .. Len(a)
    BY <2>6
  <2>9. j <= Len(a) => j \in 1 .. Len(a)
    BY <2>6
  <2> QED BY <2>1, <2>2, <2>3, <2>4, <2>5, <2>7, <2>8, <2>9
<1>9. Lists(q, S, lt)
  BY <1>5, <1>7, <1>8 DEF Lists
<1> QED BY <1>9 DEF q, S

\* f gives the nodes of every subtree from left to right.
Listing(f, lc, rc, L) ==
    /\ f = [n \in L \cup {NULL} |-> f[n]] /\ f[NULL] = <<>>
    /\ \A n \in L : f[n] = Joined(f[lc[n]], n, f[rc[n]])

\* There is such a function.
LEMMA ListingExists ==
    ASSUME NEW lc, NEW rc, NEW pa, NEW r, NEW L, NEW sub, NEW lt,
           SearchTree(lc, rc, pa, r, L, sub, lt), IsFiniteSet(L)
    PROVE  \E f : Listing(f, lc, rc, L)
<1> DEFINE V == Seq(L)
           g == [n \in L |-> [a \in V |-> [b \in V |-> Joined(a, n, b)]]]
           nil == <<>>
<1>1. nil \in V
  OBVIOUS
<1>2. \A n \in L : \A a, b \in V : Joined(a, n, b) \in V
  BY JoinedIs
<1> HIDE DEF V
<1>3. g \in [L -> [V -> [V -> V]]]
  BY <1>2
<1> HIDE DEF nil, g
<1>4. PICK f : Recursive(f, lc, rc, L, V, nil, g)
  BY <1>1, <1>3, TreeRecursion
<1>5. f \in [L \cup {NULL} -> V] /\ f[NULL] = nil
      /\ \A n \in L : f[n] = g[n][f[lc[n]]][f[rc[n]]]
  BY <1>4 DEF Recursive
<1>6. \A n \in L : lc[n] \in L \cup {NULL} /\ rc[n] \in L \cup {NULL}
  BY DEF SearchTree, Tree
<1>7. \A n \in L : f[n] = Joined(f[lc[n]], n, f[rc[n]])
  <2> SUFFICES ASSUME NEW n \in L PROVE f[n] = Joined(f[lc[n]], n, f[rc[n]])
    OBVIOUS
  <2>1. f[lc[n]] \in V /\ f[rc[n]] \in V
    BY <1>5, <1>6
  <2> QED BY <2>1, <1>5 DEF g
<1>8. Listing(f, lc, rc, L)
  BY <1>5, <1>7 DEF Listing, nil
<1> QED BY <1>8

\* It lists every subtree in order.
LEMMA ListingIs ==
    ASSUME NEW lc, NEW rc, NEW pa, NEW r, NEW L, NEW sub, NEW lt,
           SearchTree(lc, rc, pa, r, L, sub, lt), IsFiniteSet(L),
           NEW f, Listing(f, lc, rc, L), NEW n \in L \cup {NULL}
    PROVE  Lists(f[n], sub[n], lt)
<1> DEFINE S == {m \in L : Lists(f[m], sub[m], lt)}
<1>1. Lists(f[NULL], sub[NULL], lt)
  <2>1. f[NULL] = <<>> /\ sub[NULL] = {}
    BY DEF Listing, SearchTree, Tree
  <2> QED BY <2>1 DEF Lists
<1>2. ASSUME NEW m \in L, lc[m] # NULL => lc[m] \in S, rc[m] # NULL => rc[m] \in S
      PROVE  m \in S
  <2>1. Lists(f[lc[m]], sub[lc[m]], lt) /\ Lists(f[rc[m]], sub[rc[m]], lt)
    BY <1>1, <1>2
  <2>2. /\ sub[m] = {m} \cup sub[lc[m]] \cup sub[rc[m]]
        /\ sub[lc[m]] \subseteq L /\ sub[rc[m]] \subseteq L
        /\ \A x \in sub[lc[m]] : <<x, m>> \in lt
        /\ \A y \in sub[rc[m]] : <<m, y>> \in lt
    BY DEF SearchTree, Tree, Sorted
  <2>3. \A x \in sub[lc[m]], y \in sub[rc[m]] : <<x, y>> \in lt
    BY <2>2 DEF SearchTree, Order
  <2>4. f[m] = Joined(f[lc[m]], m, f[rc[m]])
    BY DEF Listing
  <2> DEFINE A == sub[lc[m]]
             B == sub[rc[m]]
             a == f[lc[m]]
             b == f[rc[m]]
  <2> HIDE DEF A, B, a, b
  <2>5. Lists(Joined(a, m, b), {m} \cup A \cup B, lt)
    BY <2>1, <2>2, <2>3, JoinedLists DEF A, B, a, b
  <2>6. Lists(f[m], sub[m], lt)
    BY <2>5, <2>2, <2>4 DEF A, B, a, b
  <2> QED BY <2>6
<1>3. L \subseteq S
  <2> HIDE DEF S
  <2> QED BY <1>2, TreeInduction
<1> QED BY <1>1, <1>3

\* InOrder is such a listing.
LEMMA InOrderIs ==
    ASSUME NEW L, NEW sub, NEW lt, Links(tree, root, L, sub, lt), IsFiniteSet(L), Allocated = L
    PROVE  \E f : Listing(f, Lefts(tree, L), Rights(tree, L), L) /\ InOrder = f[root]
<1> DEFINE lc == Lefts(tree, L)
           rc == Rights(tree, L)
           Body(f) == [m \in Linked |->
                         IF m = NULL THEN <<>> ELSE f[tree[m].left] \o <<m>> \o f[tree[m].right]]
           list == CHOOSE f : f = Body(f)
<1>1. SearchTree(lc, rc, Parents(tree, L), root, L, sub, lt)
  BY DEF Links
<1>2. \A m \in L : lc[m] = tree[m].left /\ rc[m] = tree[m].right
  BY DEF Lefts, Rights
<1>3. /\ NULL \notin L /\ Linked = L \cup {NULL}
  BY <1>1 DEF SearchTree, Tree, Linked
<1> HIDE DEF lc, rc
<1>4. PICK f : Listing(f, lc, rc, L)
  BY <1>1, ListingExists
<1>5. f = Body(f)
  <2> DEFINE b == Body(f)
  <2>1. \A m \in Linked : b[m] = f[m]
    BY <1>2, <1>3, <1>4 DEF Listing, Joined
  <2>2. b = [m \in Linked |-> b[m]] /\ f = [m \in Linked |-> f[m]]
    BY <1>3, <1>4 DEF Listing
  <2> HIDE DEF b
  <2>3. b = f
    BY <2>1, <2>2
  <2> QED BY <2>3 DEF b
<1>6. list = Body(list)
  <2> HIDE DEF Body
  <2> QED BY <1>5
<1> HIDE DEF list
<1>7. Listing(list, lc, rc, L)
  BY <1>2, <1>3, <1>6 DEF Listing, Joined
<1>8. InOrder = list[root]
  BY DEF InOrder, list, Body
<1> QED BY <1>7, <1>8 DEF lc, rc

\* Between calls every node fits.
LEMMA BalancedThen ==
    ASSUME TreeInv, call = None, NEW n \in hmap
    PROVE  LET l == avl_height(tree, tree[n].left)
               r == avl_height(tree, tree[n].right)
           IN  /\ l <= r + 1 /\ r <= l + 1
               /\ tree[n].height = 1 + max(l, r)
               /\ tree[n].cnt = 1 + avl_cnt(tree, tree[n].left) + avl_cnt(tree, tree[n].right)
<1> DEFINE L == Allocated
           lc == Lefts(tree, L)
           rc == Rights(tree, L)
           ht == Heights(tree, L)
           ct == Counts(tree, L)
<1>1. Shaped(tree, root, L, score, NULL) /\ hmap = L
  BY Between
<1>2. Memory(tree, L) /\ Settling(tree, L, NULL)
  BY <1>1, ShapedMemory DEF Shaped
<1>3. FitsAt(lc, rc, ht, ct, n)
  <2>1. Settled(lc, rc, ht, ct, L)
    BY <1>2, SettlingIs
  <2> QED BY <2>1, <1>1 DEF Settled
<1>4. lc[n] \in L \cup {NULL} /\ rc[n] \in L \cup {NULL}
  BY <1>1 DEF Shaped, Links, SearchTree, Tree
<1>5. /\ \A m \in L : /\ lc[m] = tree[m].left /\ rc[m] = tree[m].right
                      /\ ht[m] = tree[m].height /\ ct[m] = tree[m].cnt
      /\ \A m \in L \cup {NULL} : ht[m] = avl_height(tree, m) /\ ct[m] = avl_cnt(tree, m)
  BY <1>2, FieldsAre
<1> HIDE DEF L, lc, rc, ht, ct
<1> QED BY <1>1, <1>3, <1>4, <1>5 DEF FitsAt, CountedAt, Level

\* Between calls the tree lists what the hash map holds.
LEMMA IndexesAgreeThen ==
    ASSUME TreeInv, call = None
    PROVE  IndexesAgree
<1> DEFINE L == Allocated
           lc == Lefts(tree, L)
           rc == Rights(tree, L)
           lt == Precedes(score)
           q == InOrder
<1>1. Shaped(tree, root, L, score, NULL) /\ hmap = L /\ IsFiniteSet(L) /\ L \subseteq Names
  BY Between
<1>2. PICK sub : Links(tree, root, L, sub, lt)
  BY <1>1 DEF Shaped
<1>L. L = Allocated
  OBVIOUS
<1> HIDE DEF L
<1> SUFFICES /\ Range(q) = L
             /\ \A i \in 1 .. Len(q) - 1 : Less(score, q[i], q[i + 1])
             /\ root # NULL => tree[root].parent = NULL
             /\ \A n \in L : \A c \in {tree[n].left, tree[n].right} \ {NULL} : tree[c].parent = n
  BY <1>1, <1>L DEF IndexesAgree
<1> HIDE DEF lt, q
<1>3. SearchTree(lc, rc, Parents(tree, L), root, L, sub, lt) /\ Memory(tree, L)
  BY <1>2 DEF Links
<1>4. /\ root \in L \cup {NULL} /\ sub[root] = L /\ NULL \notin L
      /\ \A n \in L : lc[n] \in L \cup {NULL} /\ rc[n] \in L \cup {NULL}
      /\ \A n \in L : lc[n] # NULL => Parents(tree, L)[lc[n]] = n
      /\ \A n \in L : rc[n] # NULL => Parents(tree, L)[rc[n]] = n
      /\ root # NULL => Parents(tree, L)[root] = NULL
  BY <1>3 DEF SearchTree, Tree
<1>5. \A m \in L : /\ lc[m] = tree[m].left /\ rc[m] = tree[m].right
                   /\ Parents(tree, L)[m] = tree[m].parent
  BY <1>3, FieldsAre
<1> HIDE DEF lc, rc
<1>6. Lists(q, L, lt)
  <2>1. PICK f : Listing(f, lc, rc, L) /\ q = f[root]
    BY <1>1, <1>2, <1>L, InOrderIs DEF lc, rc, q
  <2> DEFINE g == f[root]
  <2>2. Lists(g, sub[root], lt)
    BY <1>1, <1>3, <1>4, <2>1, ListingIs
  <2> HIDE DEF g
  <2> QED BY <1>4, <2>2, <2>1 DEF g
<1>7. Range(q) = L
  BY <1>6 DEF Lists, Range
<1>8. \A i \in 1 .. Len(q) - 1 : Less(score, q[i], q[i + 1])
  <2> TAKE i \in 1 .. Len(q) - 1
  <2>1. i \in 1 .. Len(q) /\ i + 1 \in 1 .. Len(q) /\ i < i + 1
    BY <1>6 DEF Lists
  <2>2. <<q[i], q[i + 1]>> \in lt
    BY <2>1, <1>6 DEF Lists
  <2> QED BY <2>2, <1>1, PrecedesIs DEF lt, Precedes
<1> QED BY <1>4, <1>5, <1>7, <1>8

\* Between calls the cached heights and counts are right and the heights of
\* siblings differ by one at most, however many nodes avl_fix() went through.
THEOREM TreeStaysBalanced == Spec => []Balanced
<1>1. TreeInv => Balanced
  BY BalancedThen DEF Balanced
<1> QED BY <1>1, TreeInvHolds, PTL

\* Between calls the tree and the hash map hold the same nodes, those that
\* are allocated, and the tree has them in the order of avl_cmp(), whatever
\* rotations and replacements the calls made.
THEOREM SortedSetIndexesAgree == Spec => []IndexesAgree
<1>1. TreeInv => IndexesAgree
  BY IndexesAgreeThen DEF IndexesAgree
<1> QED BY <1>1, TreeInvHolds, PTL

-----------------------------------------------------------------------------
(* Positions in the order.                                                 *)

\* The heights and counts are those of a tree at rest.
Counted(lc, rc, ct, L) ==
    /\ ct \in [L \cup {NULL} -> Nat] /\ ct[NULL] = 0
    /\ \A n \in L : ct[n] = 1 + ct[lc[n]] + ct[rc[n]]

\* The cached count is the length of the list of the subtree.
LEMMA LengthIs ==
    ASSUME NEW lc, NEW rc, NEW pa, NEW r, NEW L, NEW sub, NEW lt,
           SearchTree(lc, rc, pa, r, L, sub, lt), IsFiniteSet(L),
           NEW ct, Counted(lc, rc, ct, L),
           NEW f, Listing(f, lc, rc, L), NEW n \in L \cup {NULL}
    PROVE  f[n] \in Seq(L) /\ Len(f[n]) = ct[n]
<1> DEFINE S == {m \in L : Len(f[m]) = ct[m]}
<1>1. ASSUME NEW m \in L \cup {NULL} PROVE f[m] \in Seq(L)
  <2>1. Lists(f[m], sub[m], lt)
    BY ListingIs
  <2>2. sub[m] \subseteq L
    BY DEF SearchTree, Tree
  <2> QED BY <2>1, <2>2 DEF Lists
<1>2. Len(f[NULL]) = ct[NULL]
  BY DEF Listing, Counted
<1>3. ASSUME NEW m \in L, lc[m] # NULL => lc[m] \in S, rc[m] # NULL => rc[m] \in S
      PROVE  m \in S
  <2>1. Len(f[lc[m]]) = ct[lc[m]] /\ Len(f[rc[m]]) = ct[rc[m]]
    BY <1>2, <1>3
  <2>2. f[lc[m]] \in Seq(L) /\ f[rc[m]] \in Seq(L)
    BY <1>1 DEF SearchTree, Tree
  <2>3. f[m] = Joined(f[lc[m]], m, f[rc[m]]) /\ ct[m] = 1 + ct[lc[m]] + ct[rc[m]]
    BY DEF Listing, Counted
  <2> DEFINE a == f[lc[m]]
             b == f[rc[m]]
  <2> HIDE DEF a, b
  <2>4. Parts(Joined(a, m, b), a, m, b)
    BY <2>2, JoinedIs DEF a, b
  <2>5. Len(f[m]) = Len(a) + 1 + Len(b) /\ Len(a) \in Nat /\ Len(b) \in Nat
    BY <2>3, <2>4 DEF Parts, a, b
  <2> QED BY <2>1, <2>3, <2>5 DEF a, b
<1>4. L \subseteq S
  <2> HIDE DEF S
  <2> QED BY <1>3, TreeInduction
<1> QED BY <1>1, <1>2, <1>4

\* The sequence a is that of q from place s + 1 on.
Span(s, a, q) ==
    /\ s \in Nat /\ s + Len(a) <= Len(q)
    /\ \A i \in 1 .. Len(a) : q[s + i] = a[i]

\* Where the branches of a subtree are in the list of the whole.
LEMMA SpanBelow ==
    ASSUME NEW L, NEW a \in Seq(L), NEW b \in Seq(L), NEW n \in L, NEW q \in Seq(L),
           NEW c, c = Joined(a, n, b), NEW s, Span(s, c, q)
    PROVE  /\ Span(s, a, q) /\ Span(s + Len(a) + 1, b, q)
           /\ s + Len(a) + 1 \in 1 .. Len(q) /\ q[s + Len(a) + 1] = n
<1>1. Parts(c, a, n, b)
  BY JoinedIs
<1>2. /\ Len(c) = Len(a) + 1 + Len(b) /\ Len(a) \in Nat /\ Len(b) \in Nat /\ Len(q) \in Nat
      /\ \A i \in 1 .. Len(a) : c[i] = a[i]
      /\ c[Len(a) + 1] = n
      /\ \A i \in 1 .. Len(b) : c[Len(a) + 1 + i] = b[i]
      /\ s \in Nat /\ s + Len(c) <= Len(q)
      /\ \A i \in 1 .. Len(c) : q[s + i] = c[i]
  BY <1>1 DEF Parts, Span
<1>3. Span(s, a, q)
  BY <1>2 DEF Span
<1>4. s + Len(a) + 1 \in 1 .. Len(q)
  BY <1>2
<1>5. q[s + Len(a) + 1] = n
  <2> DEFINE i == Len(a) + 1
  <2>1. i \in 1 .. Len(c) /\ c[i] = n /\ s + i = s + Len(a) + 1
    BY <1>2
  <2> HIDE DEF i
  <2> QED BY <2>1, <1>2
<1>6. \A k \in 1 .. Len(b) : q[s + Len(a) + 1 + k] = b[k]
  <2> TAKE k \in 1 .. Len(b)
  <2> DEFINE i == Len(a) + 1 + k
  <2>1. i \in 1 .. Len(c) /\ c[i] = b[k] /\ s + i = s + Len(a) + 1 + k
    BY <1>2
  <2> HIDE DEF i
  <2> QED BY <2>1, <1>2
<1>7. s + Len(a) + 1 \in Nat /\ (s + Len(a) + 1) + Len(b) <= Len(q)
  BY <1>2
<1>8. Span(s + Len(a) + 1, b, q)
  BY <1>6, <1>7 DEF Span
<1> QED BY <1>3, <1>4, <1>5, <1>8

\* pos gives the place of every node in the list q of them all.
Placed(pos, q, lc, rc, ct, r, L) ==
    /\ q \in Seq(L)
    /\ pos \in [L -> Nat]
    /\ \A n \in L : pos[n] \in 1 .. Len(q) /\ q[pos[n]] = n
    /\ \A i \in 1 .. Len(q) : pos[q[i]] = i
    /\ \A n \in L : lc[n] # NULL => pos[lc[n]] = pos[n] - ct[rc[lc[n]]] - 1
    /\ \A n \in L : rc[n] # NULL => pos[rc[n]] = pos[n] + ct[lc[rc[n]]] + 1
    /\ r # NULL => pos[r] = ct[lc[r]] + 1
    /\ Len(q) = ct[r]

\* There are such places.
LEMMA PlacesExist ==
    ASSUME NEW lc, NEW rc, NEW pa, NEW r, NEW L, NEW sub, NEW lt,
           SearchTree(lc, rc, pa, r, L, sub, lt), IsFiniteSet(L),
           NEW ct, Counted(lc, rc, ct, L),
           NEW f, Listing(f, lc, rc, L), NEW q, q = f[r]
    PROVE  \E pos : Placed(pos, q, lc, rc, ct, r, L)
<1> DEFINE pos == [n \in L |-> CHOOSE i \in 1 .. Len(q) : q[i] = n]
           start(n) == pos[n] - ct[lc[n]] - 1
           S == {n \in L : Span(start(n), f[n], q)}
<1>1. /\ NULL \notin L /\ r \in L \cup {NULL} /\ sub[r] = L
      /\ \A n \in L : lc[n] \in L \cup {NULL} /\ rc[n] \in L \cup {NULL} /\ pa[n] \in L \cup {NULL}
      /\ \A n \in L : pa[n] = NULL <=> n = r
      /\ \A n \in L : pa[n] # NULL => lc[pa[n]] = n \/ rc[pa[n]] = n
  BY DEF SearchTree, Tree
<1>2. /\ \A n \in L \cup {NULL} : f[n] \in Seq(L) /\ Len(f[n]) = ct[n]
      /\ \A n \in L \cup {NULL} : ct[n] \in Nat
      /\ \A n \in L : f[n] = Joined(f[lc[n]], n, f[rc[n]]) /\ ct[n] = 1 + ct[lc[n]] + ct[rc[n]]
  <2>1. \A n \in L \cup {NULL} : f[n] \in Seq(L) /\ Len(f[n]) = ct[n]
    BY LengthIs
  <2> QED BY <2>1 DEF Listing, Counted
<1>3. q \in Seq(L) /\ Len(q) = ct[r] /\ Lists(q, L, lt)
  <2>1. Lists(f[r], sub[r], lt)
    BY <1>1, ListingIs
  <2> QED BY <2>1, <1>1, <1>2
<1>4. \A i, j \in 1 .. Len(q) : q[i] = q[j] => i = j
  <2> SUFFICES ASSUME NEW i \in 1 .. Len(q), NEW j \in 1 .. Len(q), q[i] = q[j], i < j PROVE FALSE
    BY <1>3
  <2>1. q[i] \in L
    BY <1>3
  <2>2. <<q[i], q[j]>> \in lt
    BY <1>3 DEF Lists
  <2> QED BY <2>1, <2>2 DEF SearchTree, Order
<1>5. \A n \in L : pos[n] \in 1 .. Len(q) /\ q[pos[n]] = n
  BY <1>3 DEF Lists
<1>6. pos \in [L -> Nat]
  <2>1. \A n \in L : pos[n] \in Nat
    BY <1>5, <1>3
  <2>2. pos = [n \in L |-> pos[n]]
    OBVIOUS
  <2> HIDE DEF pos
  <2> QED BY <2>1, <2>2
<1> HIDE DEF pos
<1>7. \A i \in 1 .. Len(q) : pos[q[i]] = i
  <2> TAKE i \in 1 .. Len(q)
  <2>1. q[i] \in L
    BY <1>3
  <2>2. pos[q[i]] \in 1 .. Len(q) /\ q[pos[q[i]]] = q[i]
    BY <2>1, <1>5
  <2> QED BY <2>2, <1>4
<1>8. ASSUME NEW n \in L, NEW s, Span(s, f[n], q)
      PROVE  /\ s \in Nat /\ pos[n] = s + ct[lc[n]] + 1 /\ start(n) = s
             /\ Span(s, f[lc[n]], q) /\ Span(s + ct[lc[n]] + 1, f[rc[n]], q)
  <2> DEFINE a == f[lc[n]]
             b == f[rc[n]]
  <2>1. a \in Seq(L) /\ b \in Seq(L) /\ f[n] = Joined(a, n, b) /\ Len(a) = ct[lc[n]] /\ ct[lc[n]] \in Nat
    BY <1>1, <1>2
  <2> HIDE DEF a, b
  <2>2. /\ Span(s, a, q) /\ Span(s + Len(a) + 1, b, q)
        /\ s + Len(a) + 1 \in 1 .. Len(q) /\ q[s + Len(a) + 1] = n
    BY <2>1, <1>3, <1>8, SpanBelow
  <2>3. s \in Nat
    BY <2>2 DEF Span
  <2>4. pos[n] = s + ct[lc[n]] + 1
    BY <2>1, <2>2, <1>7
  <2> QED BY <2>1, <2>2, <2>3, <2>4 DEF a, b
<1>9. ASSUME NEW n \in L, pa[n] # NULL => pa[n] \in S PROVE n \in S
  <2>1. CASE pa[n] = NULL
    <3>1. n = r /\ q = f[n]
      BY <2>1, <1>1
    <3>2. Span(0, f[n], q)
      BY <3>1, <1>3 DEF Span
    <3> QED BY <3>2, <1>8
  <2>2. CASE pa[n] # NULL
    <3>1. pa[n] \in L /\ Span(start(pa[n]), f[pa[n]], q)
      BY <2>2, <1>9
    <3>2. PICK s : Span(s, f[n], q)
      BY <3>1, <1>1, <1>8, <2>2
    <3> QED BY <3>2, <1>8
  <2> QED BY <2>1, <2>2
<1>10. \A n \in L : Span(start(n), f[n], q)
  <2>1. L \subseteq S
    <3> HIDE DEF S
    <3> QED BY <1>9, ClimbInduction
  <2> QED BY <2>1
<1>11. \A n \in L : lc[n] # NULL => pos[lc[n]] = pos[n] - ct[rc[lc[n]]] - 1
  <2> SUFFICES ASSUME NEW n \in L, lc[n] # NULL PROVE pos[lc[n]] = pos[n] - ct[rc[lc[n]]] - 1
    OBVIOUS
  <2>1. Span(start(n), f[lc[n]], q) /\ lc[n] \in L
    BY <1>1, <1>8, <1>10
  <2> DEFINE m == lc[n]
             s == start(n)
  <2>2. pos[lc[n]] = start(n) + ct[lc[lc[n]]] + 1
    <3>1. m \in L /\ Span(s, f[m], q)
      BY <2>1
    <3> HIDE DEF m, s
    <3>2. pos[m] = s + ct[lc[m]] + 1
      BY <3>1, <1>8
    <3> QED BY <3>2 DEF m, s
  <2>3. ct[lc[n]] = 1 + ct[lc[lc[n]]] + ct[rc[lc[n]]]
    BY <2>1, <1>2
  <2>4. pos[n] \in Nat /\ ct[lc[lc[n]]] \in Nat /\ ct[rc[lc[n]]] \in Nat
    BY <2>1, <1>1, <1>2, <1>6
  <2> QED BY <2>2, <2>3, <2>4
<1>12. \A n \in L : rc[n] # NULL => pos[rc[n]] = pos[n] + ct[lc[rc[n]]] + 1
  <2> SUFFICES ASSUME NEW n \in L, rc[n] # NULL PROVE pos[rc[n]] = pos[n] + ct[lc[rc[n]]] + 1
    OBVIOUS
  <2>1. Span(start(n) + ct[lc[n]] + 1, f[rc[n]], q) /\ rc[n] \in L
    BY <1>1, <1>8, <1>10
  <2> DEFINE m == rc[n]
             s == start(n) + ct[lc[n]] + 1
  <2>2. pos[rc[n]] = start(n) + ct[lc[n]] + 1 + ct[lc[rc[n]]] + 1
    <3>1. m \in L /\ Span(s, f[m], q)
      BY <2>1
    <3> HIDE DEF m, s
    <3>2. pos[m] = s + ct[lc[m]] + 1
      BY <3>1, <1>8
    <3> QED BY <3>2 DEF m, s
  <2>4. pos[n] \in Nat /\ ct[lc[rc[n]]] \in Nat /\ ct[lc[n]] \in Nat
    BY <2>1, <1>1, <1>2, <1>6
  <2> QED BY <2>2, <2>4
<1>13. r # NULL => pos[r] = ct[lc[r]] + 1
  <2> SUFFICES ASSUME r # NULL PROVE pos[r] = ct[lc[r]] + 1
    OBVIOUS
  <2>1. Span(0, f[r], q)
    BY <1>3 DEF Span
  <2>2. r \in L /\ ct[lc[r]] \in Nat
    BY <1>1, <1>2
  <2>3. pos[r] = 0 + ct[lc[r]] + 1
    BY <2>1, <2>2, <1>8
  <2> QED BY <2>2, <2>3
<1>14. Placed(pos, q, lc, rc, ct, r, L)
  BY <1>3, <1>5, <1>6, <1>7, <1>11, <1>12, <1>13 DEF Placed
<1> QED BY <1>14

-----------------------------------------------------------------------------
(* Queries: avl_rank() and avl_offset().                                   *)

\* The memory t holds a tree at rest, whose nodes q lists and pos places.
Resting(t, r, q, pos, L, sub, lt) ==
    /\ Links(t, r, L, sub, lt) /\ IsFiniteSet(L) /\ Nodes(t) = L
    /\ Counted(Lefts(t, L), Rights(t, L), Counts(t, L), L)
    /\ Lists(q, L, lt)
    /\ Placed(pos, q, Lefts(t, L), Rights(t, L), Counts(t, L), r, L)

\* What this says of the fields.
LEMMA RestingIs ==
    ASSUME NEW t, NEW r, NEW q, NEW pos, NEW L, NEW sub, NEW lt, Resting(t, r, q, pos, L, sub, lt)
    PROVE  /\ NULL \notin L /\ r \in L \cup {NULL} /\ Nodes(t) = L
           /\ q \in Seq(L) /\ Len(q) = avl_cnt(t, r)
           /\ \A n \in L : pos[n] \in 1 .. Len(q) /\ q[pos[n]] = n /\ pos[n] \in Nat
           /\ \A i \in 1 .. Len(q) : pos[q[i]] = i
           /\ r # NULL => pos[r] = avl_cnt(t, t[r].left) + 1
           /\ \A n \in L :
                 /\ t[n].left \in L \cup {NULL} /\ t[n].right \in L \cup {NULL} /\ t[n].parent \in L \cup {NULL}
                 /\ avl_cnt(t, n) = 1 + avl_cnt(t, t[n].left) + avl_cnt(t, t[n].right)
                 /\ t[n].left # NULL => /\ pos[t[n].left] = pos[n] - avl_cnt(t, t[t[n].left].right) - 1
                                        /\ t[t[n].left].parent = n
                 /\ t[n].right # NULL => /\ pos[t[n].right] = pos[n] + avl_cnt(t, t[t[n].right].left) + 1
                                         /\ t[t[n].right].parent = n
                 /\ t[n].parent = NULL <=> n = r
                 /\ t[n].parent # NULL => /\ t[t[n].parent].left = n \/ t[t[n].parent].right = n
                                          /\ ~(t[t[n].parent].left = n /\ t[t[n].parent].right = n)
           /\ \A n \in L \cup {NULL} : avl_cnt(t, n) \in Nat
           /\ avl_cnt(t, NULL) = 0
<1> DEFINE lc == Lefts(t, L)
           rc == Rights(t, L)
           pa == Parents(t, L)
           ct == Counts(t, L)
<1>1. SearchTree(lc, rc, pa, r, L, sub, lt) /\ Memory(t, L) /\ Nodes(t) = L
  BY DEF Resting, Links
<1>2. /\ \A m \in L : lc[m] = t[m].left /\ rc[m] = t[m].right /\ pa[m] = t[m].parent
      /\ \A m \in L \cup {NULL} : ct[m] = avl_cnt(t, m)
  BY <1>1, FieldsAre
<1>3. Counted(lc, rc, ct, L) /\ Placed(pos, q, lc, rc, ct, r, L)
  BY DEF Resting
<1> HIDE DEF lc, rc, pa, ct
<1>4. /\ NULL \notin L /\ r \in L \cup {NULL}
      /\ \A n \in L : /\ lc[n] \in L \cup {NULL} /\ rc[n] \in L \cup {NULL} /\ pa[n] \in L \cup {NULL}
                      /\ pa[n] = NULL <=> n = r
                      /\ pa[n] # NULL => lc[pa[n]] = n \/ rc[pa[n]] = n
                      /\ lc[n] # NULL => pa[lc[n]] = n
                      /\ rc[n] # NULL => pa[rc[n]] = n
  BY <1>1 DEF SearchTree, Tree
<1>5. \A n \in L : pa[n] # NULL => ~(lc[pa[n]] = n /\ rc[pa[n]] = n)
  <2> SUFFICES ASSUME NEW n \in L, pa[n] # NULL PROVE ~(lc[pa[n]] = n /\ rc[pa[n]] = n)
    OBVIOUS
  <2>1. lc[pa[n]] = n => rc[pa[n]] # n
    BY <1>1, Branches
  <2> QED BY <2>1
<1>6. /\ q \in Seq(L) /\ Len(q) = ct[r]
      /\ \A n \in L : pos[n] \in 1 .. Len(q) /\ q[pos[n]] = n /\ pos[n] \in Nat
      /\ \A i \in 1 .. Len(q) : pos[q[i]] = i
      /\ \A n \in L : lc[n] # NULL => pos[lc[n]] = pos[n] - ct[rc[lc[n]]] - 1
      /\ \A n \in L : rc[n] # NULL => pos[rc[n]] = pos[n] + ct[lc[rc[n]]] + 1
      /\ r # NULL => pos[r] = ct[lc[r]] + 1
  BY <1>3 DEF Placed
<1>7. /\ \A n \in L \cup {NULL} : ct[n] \in Nat
      /\ ct[NULL] = 0
      /\ \A n \in L : ct[n] = 1 + ct[lc[n]] + ct[rc[n]]
  BY <1>3 DEF Counted
<1>8. \A n \in L \cup {NULL} : avl_cnt(t, n) \in Nat /\ avl_cnt(t, n) = ct[n]
  BY <1>2, <1>7
<1>9. Len(q) = avl_cnt(t, r) /\ (r # NULL => pos[r] = avl_cnt(t, t[r].left) + 1) /\ avl_cnt(t, NULL) = 0
  BY <1>2, <1>4, <1>6, <1>7
<1>10. ASSUME NEW n \in L
       PROVE  /\ t[n].left \in L \cup {NULL} /\ t[n].right \in L \cup {NULL} /\ t[n].parent \in L \cup {NULL}
              /\ avl_cnt(t, n) = 1 + avl_cnt(t, t[n].left) + avl_cnt(t, t[n].right)
              /\ t[n].left # NULL => /\ pos[t[n].left] = pos[n] - avl_cnt(t, t[t[n].left].right) - 1
                                     /\ t[t[n].left].parent = n
              /\ t[n].right # NULL => /\ pos[t[n].right] = pos[n] + avl_cnt(t, t[t[n].right].left) + 1
                                      /\ t[t[n].right].parent = n
              /\ t[n].parent = NULL <=> n = r
              /\ t[n].parent # NULL => /\ t[t[n].parent].left = n \/ t[t[n].parent].right = n
                                       /\ ~(t[t[n].parent].left = n /\ t[t[n].parent].right = n)
  <2>1. lc[n] = t[n].left /\ rc[n] = t[n].right /\ pa[n] = t[n].parent
    BY <1>2
  <2>2. lc[n] \in L \cup {NULL} /\ rc[n] \in L \cup {NULL} /\ pa[n] \in L \cup {NULL}
    BY <1>4
  <2>3. avl_cnt(t, n) = 1 + avl_cnt(t, lc[n]) + avl_cnt(t, rc[n])
    BY <1>7, <1>8, <2>2
  <2>4. lc[n] # NULL => pos[lc[n]] = pos[n] - avl_cnt(t, t[lc[n]].right) - 1 /\ t[lc[n]].parent = n
    <3> SUFFICES ASSUME NEW l, l = lc[n], l # NULL
                 PROVE  pos[l] = pos[n] - avl_cnt(t, t[l].right) - 1 /\ t[l].parent = n
      OBVIOUS
    <3>1. l \in L /\ pa[l] = n /\ rc[l] \in L \cup {NULL}
      BY <1>4, <2>2
    <3>2. avl_cnt(t, t[l].right) = ct[rc[l]] /\ t[l].parent = n
      BY <1>2, <3>1
    <3> QED BY <1>6, <3>2
  <2>5. rc[n] # NULL => pos[rc[n]] = pos[n] + avl_cnt(t, t[rc[n]].left) + 1 /\ t[rc[n]].parent = n
    <3> SUFFICES ASSUME NEW l, l = rc[n], l # NULL
                 PROVE  pos[l] = pos[n] + avl_cnt(t, t[l].left) + 1 /\ t[l].parent = n
      OBVIOUS
    <3>1. l \in L /\ pa[l] = n /\ lc[l] \in L \cup {NULL}
      BY <1>4, <2>2
    <3>2. avl_cnt(t, t[l].left) = ct[lc[l]] /\ t[l].parent = n
      BY <1>2, <3>1
    <3> QED BY <1>6, <3>2
  <2>6. /\ pa[n] = NULL <=> n = r
        /\ pa[n] # NULL => /\ t[pa[n]].left = n \/ t[pa[n]].right = n
                           /\ ~(t[pa[n]].left = n /\ t[pa[n]].right = n)
    BY <1>2, <1>4, <1>5, <2>2
  <2> QED BY <2>1, <2>2, <2>3, <2>4, <2>5, <2>6
<1> QED BY <1>1, <1>4, <1>6, <1>8, <1>9, <1>10

\* The places of the nodes around n.
LEMMA PlacesAround ==
    ASSUME NEW t, NEW r, NEW q, NEW pos, NEW L, NEW sub, NEW lt, Resting(t, r, q, pos, L, sub, lt),
           NEW n \in L, NEW p, p = t[n].parent
    PROVE  /\ p = NULL => pos[n] = avl_cnt(t, t[n].left) + 1
                          /\ Len(q) = pos[n] + avl_cnt(t, t[n].right)
           /\ p # NULL => /\ p \in L
                          /\ t[p].right = n => /\ pos[n] = pos[p] + avl_cnt(t, t[n].left) + 1
                                               /\ pos[p] = pos[n] - avl_cnt(t, t[n].left) - 1
                          /\ t[p].right # n => /\ t[p].left = n
                                               /\ pos[n] = pos[p] - avl_cnt(t, t[n].right) - 1
                                               /\ pos[p] = pos[n] + avl_cnt(t, t[n].right) + 1
<1>1. /\ p \in L \cup {NULL} /\ pos[n] \in Nat /\ NULL \notin L
      /\ avl_cnt(t, t[n].left) \in Nat /\ avl_cnt(t, t[n].right) \in Nat
      /\ p = NULL <=> n = r
      /\ p # NULL => t[p].left = n \/ t[p].right = n
      /\ avl_cnt(t, n) = 1 + avl_cnt(t, t[n].left) + avl_cnt(t, t[n].right)
      /\ r # NULL => pos[r] = avl_cnt(t, t[r].left) + 1
      /\ Len(q) = avl_cnt(t, r)
  BY RestingIs
<1>2. CASE p = NULL
  BY <1>1, <1>2
<1>3. CASE p # NULL
  <2>1. p \in L /\ pos[p] \in Nat /\ n # NULL
    BY <1>1, <1>3, RestingIs
  <2>2. /\ t[p].left # NULL => pos[t[p].left] = pos[p] - avl_cnt(t, t[t[p].left].right) - 1
        /\ t[p].right # NULL => pos[t[p].right] = pos[p] + avl_cnt(t, t[t[p].right].left) + 1
    <3>1. \A m \in L : /\ t[m].left # NULL => pos[t[m].left] = pos[m] - avl_cnt(t, t[t[m].left].right) - 1
                       /\ t[m].right # NULL => pos[t[m].right] = pos[m] + avl_cnt(t, t[t[m].right].left) + 1
      BY RestingIs
    <3> QED BY <2>1, <3>1
  <2> DEFINE x == avl_cnt(t, t[n].left)
             y == avl_cnt(t, t[n].right)
  <2>3. /\ t[p].left = n => pos[n] = pos[p] - y - 1
        /\ t[p].right = n => pos[n] = pos[p] + x + 1
    BY <2>1, <2>2
  <2>4. /\ x \in Nat /\ y \in Nat /\ pos[n] \in Nat /\ pos[p] \in Nat
        /\ t[p].left = n \/ t[p].right = n
    BY <1>1, <1>3, <2>1
  <2> HIDE DEF x, y
  <2>5. /\ t[p].right = n => pos[n] = pos[p] + x + 1 /\ pos[p] = pos[n] - x - 1
        /\ t[p].right # n => t[p].left = n /\ pos[n] = pos[p] - y - 1 /\ pos[p] = pos[n] + y + 1
    BY <2>3, <2>4
  <2> QED BY <1>3, <2>1, <2>5 DEF x, y
<1> QED BY <1>2, <1>3

\* avl_rank() counts the nodes before n.
LEMMA RankIs ==
    ASSUME NEW t, NEW r, NEW q, NEW pos, NEW L, NEW sub, NEW lt, Resting(t, r, q, pos, L, sub, lt),
           NEW n \in L
    PROVE  avl_rank(t, n) = pos[n] - 1
<1> DEFINE Body(f) == [m \in Nodes(t) |->
                  LET p == t[m].parent
                  IN  IF p = NULL THEN 0
                      ELSE f[p] + (IF t[p].right = m THEN avl_cnt(t, t[p].left) + 1 ELSE 0)]
           above == CHOOSE f : f = Body(f)
           start == [m \in L |-> pos[m] - avl_cnt(t, t[m].left) - 1]
           S == {m \in L : above[m] = start[m]}
<1>1. Nodes(t) = L
  BY RestingIs
<1>2. \A m \in L : /\ t[m].parent = NULL => start[m] = 0
                   /\ t[m].parent # NULL => LET p == t[m].parent IN
                         p \in L /\ start[m] = start[p] + (IF t[p].right = m THEN avl_cnt(t, t[p].left) + 1 ELSE 0)
  <2> SUFFICES ASSUME NEW m \in L, NEW p, p = t[m].parent
               PROVE  /\ p = NULL => start[m] = 0
                      /\ p # NULL =>
                         p \in L /\ start[m] = start[p] + (IF t[p].right = m THEN avl_cnt(t, t[p].left) + 1 ELSE 0)
    OBVIOUS
  <2>1. /\ pos[m] \in Nat /\ avl_cnt(t, t[m].left) \in Nat /\ avl_cnt(t, t[m].right) \in Nat
        /\ avl_cnt(t, m) = 1 + avl_cnt(t, t[m].left) + avl_cnt(t, t[m].right)
    BY RestingIs
  <2>2. /\ p = NULL => pos[m] = avl_cnt(t, t[m].left) + 1
        /\ p # NULL => /\ p \in L
                       /\ t[p].right = m => pos[m] = pos[p] + avl_cnt(t, t[m].left) + 1
                       /\ t[p].right # m => t[p].left = m /\ pos[m] = pos[p] - avl_cnt(t, t[m].right) - 1
    BY PlacesAround
  <2>3. p # NULL => p \in L /\ pos[p] \in Nat /\ avl_cnt(t, t[p].left) \in Nat
    BY <2>2, RestingIs
  <2> QED BY <2>1, <2>2, <2>3
<1>3. start = Body(start)
  <2> DEFINE b == Body(start)
  <2>1. \A m \in L : b[m] = start[m]
    <3> HIDE DEF start
    <3> QED BY <1>1, <1>2
  <2>2. b = [m \in L |-> b[m]] /\ start = [m \in L |-> start[m]]
    BY <1>1
  <2> HIDE DEF b, start
  <2>3. b = start
    BY <2>1, <2>2
  <2> QED BY <2>3 DEF b
<1>4. above = Body(above)
  <2> HIDE DEF Body
  <2> QED BY <1>3
<1> HIDE DEF above
<1>5. \A m \in L : above[m] = LET p == t[m].parent IN IF p = NULL THEN 0
                      ELSE above[p] + (IF t[p].right = m THEN avl_cnt(t, t[p].left) + 1 ELSE 0)
  BY <1>1, <1>4
<1> HIDE DEF Body, start
<1> DEFINE lc == Lefts(t, L)
           rc == Rights(t, L)
           pa == Parents(t, L)
<1>6. SearchTree(lc, rc, pa, r, L, sub, lt) /\ IsFiniteSet(L) /\ \A m \in L : pa[m] = t[m].parent
  BY DEF Resting, Links, Parents
<1> HIDE DEF lc, rc, pa
<1>7. ASSUME NEW m \in L, pa[m] # NULL => pa[m] \in S PROVE m \in S
  BY <1>2, <1>5, <1>6, <1>7
<1>8. L \subseteq S
  <2> HIDE DEF S
  <2> QED BY <1>6, <1>7, ClimbInduction
<1>9. avl_rank(t, n) = avl_cnt(t, t[n].left) + above[n]
  BY DEF avl_rank, above, Body
<1>10. pos[n] \in Nat /\ avl_cnt(t, t[n].left) \in Nat
  BY RestingIs
<1> QED BY <1>8, <1>9, <1>10 DEF start

\* The body of the recursion in avl_offset().
Find(t, offset, f) == [m \in Nodes(t) |-> [diff \in Int |->
    LET l == t[m].left
        r == t[m].right
        p == t[m].parent
    IN  IF diff = offset THEN m
        ELSE IF diff < offset /\ diff + avl_cnt(t, r) >= offset
        THEN f[r][diff + avl_cnt(t, t[r].left) + 1]
        ELSE IF diff > offset /\ diff - avl_cnt(t, l) <= offset
        THEN f[l][diff - avl_cnt(t, t[l].right) - 1]
        ELSE IF p = NULL THEN NULL
        ELSE IF t[p].right = m THEN f[p][diff - avl_cnt(t, l) - 1]
        ELSE f[p][diff + avl_cnt(t, r) + 1]]]

\* The search for place k from a node m, which is pos[m] - b places after the
\* node that it began at, in place b.
Seeks(t, pos, f, b, k, m, v) ==
    LET l == t[m].left
        r == t[m].right
        p == t[m].parent
    IN  /\ k = pos[m] => v = m
        /\ pos[m] < k /\ k <= pos[m] + avl_cnt(t, r) => r # NULL /\ v = f[r][pos[r] - b]
        /\ k < pos[m] /\ k >= pos[m] - avl_cnt(t, l) => l # NULL /\ v = f[l][pos[l] - b]
        /\ k > pos[m] + avl_cnt(t, r) \/ k < pos[m] - avl_cnt(t, l) =>
              /\ p = NULL => v = NULL
              /\ p # NULL => v = f[p][pos[p] - b]

\* Which way an iteration of avl_offset() goes.
LEMMA FindSeeks ==
    ASSUME NEW t, NEW r0, NEW q, NEW pos, NEW L, NEW sub, NEW lt, Resting(t, r0, q, pos, L, sub, lt),
           NEW f, NEW offset \in Int, NEW b \in Int, NEW m \in L
    PROVE  Seeks(t, pos, f, b, b + offset, m, Find(t, offset, f)[m][pos[m] - b])
<1> DEFINE diff == pos[m] - b
           l == t[m].left
           r == t[m].right
           p == t[m].parent
           k == b + offset
           v == Find(t, offset, f)[m][diff]
<1>1. /\ pos[m] \in Nat /\ avl_cnt(t, l) \in Nat /\ avl_cnt(t, r) \in Nat /\ Nodes(t) = L
      /\ avl_cnt(t, NULL) = 0
      /\ l \in L \cup {NULL} /\ r \in L \cup {NULL}
      /\ l # NULL => pos[l] = pos[m] - avl_cnt(t, t[l].right) - 1 /\ t[l].right \in L \cup {NULL}
      /\ r # NULL => pos[r] = pos[m] + avl_cnt(t, t[r].left) + 1 /\ t[r].left \in L \cup {NULL}
      /\ \A n \in L \cup {NULL} : avl_cnt(t, n) \in Nat
  BY RestingIs
<1>2. p # NULL => /\ p \in L
                  /\ t[p].right = m => pos[p] = pos[m] - avl_cnt(t, l) - 1
                  /\ t[p].right # m => pos[p] = pos[m] + avl_cnt(t, r) + 1
  BY PlacesAround
<1>3. diff \in Int /\ k \in Int
  BY <1>1
<1>4. v = IF diff = offset THEN m
        ELSE IF diff < offset /\ diff + avl_cnt(t, r) >= offset
        THEN f[r][diff + avl_cnt(t, t[r].left) + 1]
        ELSE IF diff > offset /\ diff - avl_cnt(t, l) <= offset
        THEN f[l][diff - avl_cnt(t, t[l].right) - 1]
        ELSE IF p = NULL THEN NULL
        ELSE IF t[p].right = m THEN f[p][diff - avl_cnt(t, l) - 1]
        ELSE f[p][diff + avl_cnt(t, r) + 1]
  BY <1>1, <1>3 DEF Find
<1> HIDE DEF v
<1>5. /\ diff = offset <=> k = pos[m]
      /\ diff < offset <=> pos[m] < k
      /\ diff + avl_cnt(t, r) >= offset <=> k <= pos[m] + avl_cnt(t, r)
      /\ diff > offset <=> k < pos[m]
      /\ diff - avl_cnt(t, l) <= offset <=> k >= pos[m] - avl_cnt(t, l)
  BY <1>1
<1>6. k = pos[m] => v = m
  BY <1>4, <1>5
<1>7. ASSUME pos[m] < k, k <= pos[m] + avl_cnt(t, r) PROVE r # NULL /\ v = f[r][pos[r] - b]
  <2>1. r # NULL
    BY <1>1, <1>3, <1>7
  <2>2. diff + avl_cnt(t, t[r].left) + 1 = pos[r] - b
    BY <2>1, <1>1
  <2>3. diff # offset /\ v = f[r][diff + avl_cnt(t, t[r].left) + 1]
    <3>1. diff # offset /\ diff < offset /\ diff + avl_cnt(t, r) >= offset
      BY <1>1, <1>3, <1>5, <1>7
    <3> HIDE DEF diff
    <3> QED BY <3>1, <1>4
  <2> QED BY <2>1, <2>2, <2>3
<1>8. ASSUME k < pos[m], k >= pos[m] - avl_cnt(t, l) PROVE l # NULL /\ v = f[l][pos[l] - b]
  <2>1. l # NULL
    BY <1>1, <1>3, <1>8
  <2>2. diff - avl_cnt(t, t[l].right) - 1 = pos[l] - b
    BY <2>1, <1>1
  <2>3. v = f[l][diff - avl_cnt(t, t[l].right) - 1]
    <3>1. diff # offset /\ ~(diff < offset) /\ diff > offset /\ diff - avl_cnt(t, l) <= offset
      BY <1>1, <1>3, <1>5, <1>8
    <3> HIDE DEF diff
    <3> QED BY <3>1, <1>4
  <2> QED BY <2>1, <2>2, <2>3
<1>9. ASSUME k > pos[m] + avl_cnt(t, r) \/ k < pos[m] - avl_cnt(t, l)
      PROVE  /\ p = NULL => v = NULL
             /\ p # NULL => v = f[p][pos[p] - b]
  <2>1. v = IF p = NULL THEN NULL
        ELSE IF t[p].right = m THEN f[p][diff - avl_cnt(t, l) - 1]
        ELSE f[p][diff + avl_cnt(t, r) + 1]
    <3>1. /\ diff # offset /\ ~(diff < offset /\ diff + avl_cnt(t, r) >= offset)
          /\ ~(diff > offset /\ diff - avl_cnt(t, l) <= offset)
      BY <1>1, <1>3, <1>5, <1>9
    <3> HIDE DEF diff
    <3> QED BY <3>1, <1>4
  <2>2. p # NULL => /\ t[p].right = m => diff - avl_cnt(t, l) - 1 = pos[p] - b
                    /\ t[p].right # m => diff + avl_cnt(t, r) + 1 = pos[p] - b
    BY <1>1, <1>2
  <2> HIDE DEF diff
  <2> QED BY <2>1, <2>2
<1> HIDE DEF diff
<1>10. Seeks(t, pos, f, b, k, m, v)
  BY <1>6, <1>7, <1>8, <1>9 DEF Seeks
<1> QED BY <1>10 DEF diff, v

\* What such a search finds.
Found(q, pos, offset, L) == [m \in L |-> [diff \in Int |-> At(q, pos[m] - diff + offset)]]

\* It solves the recursion.
LEMMA FoundIsFind ==
    ASSUME NEW t, NEW r, NEW q, NEW pos, NEW L, NEW sub, NEW lt, Resting(t, r, q, pos, L, sub, lt),
           NEW offset \in Int
    PROVE  Found(q, pos, offset, L) = Find(t, offset, Found(q, pos, offset, L))
<1> DEFINE h == Found(q, pos, offset, L)
           u == Find(t, offset, h)
<1>1. Nodes(t) = L /\ q \in Seq(L) /\ Len(q) \in Nat
      /\ \A m \in L : pos[m] \in 1 .. Len(q) /\ q[pos[m]] = m /\ pos[m] \in Nat
  BY RestingIs
<1>2. \A m \in L, b \in Int : h[m][pos[m] - b] = At(q, b + offset)
  <2> SUFFICES ASSUME NEW m \in L, NEW b \in Int PROVE h[m][pos[m] - b] = At(q, b + offset)
    OBVIOUS
  <2>1. pos[m] - b \in Int /\ pos[m] - (pos[m] - b) + offset = b + offset
    BY <1>1
  <2>2. h[m][pos[m] - b] = At(q, pos[m] - (pos[m] - b) + offset)
    BY <2>1 DEF Found
  <2> QED BY <2>1, <2>2
<1> HIDE DEF h
<1>3. ASSUME NEW m \in L, NEW b \in Int PROVE u[m][pos[m] - b] = At(q, b + offset)
  <2> DEFINE k == b + offset
             v == u[m][pos[m] - b]
  <2>1. Seeks(t, pos, h, b, k, m, v)
    BY FindSeeks
  <2> HIDE DEF u, v
  <2>2. /\ t[m].left \in L \cup {NULL} /\ t[m].right \in L \cup {NULL}
        /\ avl_cnt(t, t[m].left) \in Nat /\ avl_cnt(t, t[m].right) \in Nat /\ pos[m] \in Nat /\ k \in Int
    BY RestingIs
  <2>3. CASE k = pos[m]
    <3>1. v = m
      BY <2>1, <2>3 DEF Seeks
    <3>2. At(q, k) = m
      BY <2>3, <1>1 DEF At
    <3> QED BY <3>1, <3>2 DEF v
  <2>4. CASE pos[m] < k /\ k <= pos[m] + avl_cnt(t, t[m].right)
    BY <2>1, <2>2, <2>4, <1>2 DEF Seeks, v
  <2>5. CASE k < pos[m] /\ k >= pos[m] - avl_cnt(t, t[m].left)
    BY <2>1, <2>2, <2>5, <1>2 DEF Seeks, v
  <2>6. CASE k > pos[m] + avl_cnt(t, t[m].right) \/ k < pos[m] - avl_cnt(t, t[m].left)
    <3> DEFINE p == t[m].parent
    <3>1. /\ p = NULL => pos[m] = avl_cnt(t, t[m].left) + 1 /\ Len(q) = pos[m] + avl_cnt(t, t[m].right)
          /\ p # NULL => p \in L
      BY PlacesAround
    <3>2. (p = NULL => v = NULL) /\ (p # NULL => v = h[p][pos[p] - b])
      BY <2>1, <2>6 DEF Seeks
    <3>3. CASE p = NULL
      <4>1. k \notin 1 .. Len(q)
        BY <3>1, <3>3, <2>2, <2>6
      <4>2. At(q, k) = NULL
        BY <4>1, <1>1 DEF At
      <4> QED BY <4>2, <3>2, <3>3 DEF v
    <3>4. CASE p # NULL
      BY <3>1, <3>2, <3>4, <1>2 DEF v
    <3> QED BY <3>3, <3>4
  <2>7. \/ k = pos[m]
        \/ pos[m] < k /\ k <= pos[m] + avl_cnt(t, t[m].right)
        \/ k < pos[m] /\ k >= pos[m] - avl_cnt(t, t[m].left)
        \/ k > pos[m] + avl_cnt(t, t[m].right) \/ k < pos[m] - avl_cnt(t, t[m].left)
    BY <2>2
  <2> QED BY <2>3, <2>4, <2>5, <2>6, <2>7
<1>4. \A m \in L, d \in Int : u[m][d] = h[m][d]
  <2> SUFFICES ASSUME NEW m \in L, NEW d \in Int PROVE u[m][d] = h[m][d]
    OBVIOUS
  <2>1. pos[m] - d \in Int /\ pos[m] - (pos[m] - d) = d
    BY <1>1
  <2> HIDE DEF u
  <2> DEFINE b == pos[m] - d
  <2>2. b \in Int /\ pos[m] - b = d
    BY <2>1
  <2> HIDE DEF b
  <2>3. u[m][pos[m] - b] = h[m][pos[m] - b]
    BY <2>2, <1>2, <1>3
  <2> QED BY <2>2, <2>3
<1>5. /\ h = [m \in L |-> h[m]] /\ \A m \in L : h[m] = [d \in Int |-> h[m][d]]
  BY DEF h, Found
<1>6. /\ u = [m \in L |-> u[m]] /\ \A m \in L : u[m] = [d \in Int |-> u[m][d]]
  BY <1>1 DEF Find
<1> HIDE DEF u
<1>7. \A m \in L : u[m] = h[m]
  <2> SUFFICES ASSUME NEW m \in L PROVE u[m] = h[m]
    OBVIOUS
  <2> DEFINE x == u[m]
             y == h[m]
  <2>1. x = [d \in Int |-> x[d]] /\ y = [d \in Int |-> y[d]] /\ \A d \in Int : x[d] = y[d]
    BY <1>4, <1>5, <1>6
  <2> HIDE DEF x, y
  <2>2. x = y
    BY <2>1
  <2> QED BY <2>2 DEF x, y
<1>8. u = h
  BY <1>5, <1>6, <1>7
<1> QED BY <1>8 DEF u, h

\* avl_offset() goes to the node that is so many places away.
LEMMA OffsetIs ==
    ASSUME NEW t, NEW r, NEW q, NEW pos, NEW L, NEW sub, NEW lt, Resting(t, r, q, pos, L, sub, lt),
           NEW n \in L, NEW offset \in Int
    PROVE  avl_offset(t, n, offset) = At(q, pos[n] + offset)
<1> DEFINE find == CHOOSE f : f = Find(t, offset, f)
           b == pos[n]
           k == b + offset
           lc == Lefts(t, L)
           rc == Rights(t, L)
           pa == Parents(t, L)
           v(m) == find[m][pos[m] - b]
           In(m) == pos[m] - avl_cnt(t, t[m].left) <= k /\ k <= pos[m] + avl_cnt(t, t[m].right)
           S1 == {m \in L : In(m) => v(m) = At(q, k)}
           S2 == {m \in L : v(m) = At(q, k)}
<1>1. /\ Nodes(t) = L /\ NULL \notin L /\ q \in Seq(L) /\ Len(q) \in Nat
      /\ \A m \in L : pos[m] \in 1 .. Len(q) /\ q[pos[m]] = m /\ pos[m] \in Nat
      /\ \A m \in L \cup {NULL} : avl_cnt(t, m) \in Nat
      /\ \A m \in L : t[m].left \in L \cup {NULL} /\ t[m].right \in L \cup {NULL}
      /\ \A m \in L : avl_cnt(t, m) = 1 + avl_cnt(t, t[m].left) + avl_cnt(t, t[m].right)
  BY RestingIs
<1>2. find = Find(t, offset, find)
  <2> DEFINE h == Found(q, pos, offset, L)
  <2>1. h = Find(t, offset, h)
    BY FoundIsFind
  <2> HIDE DEF h
  <2> QED BY <2>1
<1>3. avl_offset(t, n, offset) = find[n][0]
  BY DEF avl_offset, Find
<1> HIDE DEF find
<1>4. b \in Int /\ k \in Int
  BY <1>1
<1>5. ASSUME NEW m \in L PROVE Seeks(t, pos, find, b, k, m, v(m))
  <2> DEFINE w == Find(t, offset, find)[m][pos[m] - b]
  <2>1. Seeks(t, pos, find, b, k, m, w)
    <3> HIDE DEF b
    <3> QED BY <1>4, FindSeeks
  <2>2. w = v(m)
    BY <1>2
  <2> HIDE DEF w
  <2> QED BY <2>1, <2>2
<1>6. /\ SearchTree(lc, rc, pa, r, L, sub, lt) /\ IsFiniteSet(L)
      /\ \A m \in L : lc[m] = t[m].left /\ rc[m] = t[m].right /\ pa[m] = t[m].parent
  BY DEF Resting, Links, Lefts, Rights, Parents
<1> HIDE DEF lc, rc, pa, b, k, v
<1>7. ASSUME NEW m \in L, lc[m] # NULL => lc[m] \in S1, rc[m] # NULL => rc[m] \in S1 PROVE m \in S1
  <2> SUFFICES ASSUME In(m) PROVE v(m) = At(q, k)
    OBVIOUS
  <2> DEFINE x == t[m].left
             y == t[m].right
  <2>1. /\ pos[m] \in Nat /\ avl_cnt(t, x) \in Nat /\ avl_cnt(t, y) \in Nat
        /\ x # NULL => x \in S1
        /\ y # NULL => y \in S1
    BY <1>1, <1>6, <1>7
  <2>2. /\ x # NULL => /\ x \in L /\ pos[x] = pos[m] - avl_cnt(t, t[x].right) - 1
                       /\ avl_cnt(t, x) = 1 + avl_cnt(t, t[x].left) + avl_cnt(t, t[x].right)
                       /\ avl_cnt(t, t[x].left) \in Nat /\ avl_cnt(t, t[x].right) \in Nat /\ pos[x] \in Nat
        /\ y # NULL => /\ y \in L /\ pos[y] = pos[m] + avl_cnt(t, t[y].left) + 1
                       /\ avl_cnt(t, y) = 1 + avl_cnt(t, t[y].left) + avl_cnt(t, t[y].right)
                       /\ avl_cnt(t, t[y].left) \in Nat /\ avl_cnt(t, t[y].right) \in Nat /\ pos[y] \in Nat
    <3>1. x \in L \cup {NULL} /\ y \in L \cup {NULL}
      BY <1>1
    <3>2. (x # NULL => pos[x] = pos[m] - avl_cnt(t, t[x].right) - 1) /\ (y # NULL => pos[y] = pos[m] + avl_cnt(t, t[y].left) + 1)
      BY RestingIs
    <3>3. \A z \in L : /\ avl_cnt(t, z) = 1 + avl_cnt(t, t[z].left) + avl_cnt(t, t[z].right)
                       /\ avl_cnt(t, t[z].left) \in Nat /\ avl_cnt(t, t[z].right) \in Nat /\ pos[z] \in Nat
      BY <1>1
    <3> HIDE DEF x, y
    <3> QED BY <3>1, <3>2, <3>3
  <2>3. CASE k = pos[m]
    <3>1. v(m) = m
      BY <1>5, <2>3 DEF Seeks
    <3>2. At(q, k) = m
      BY <2>3, <1>1 DEF At
    <3> QED BY <3>1, <3>2
  <2>4. CASE pos[m] < k
    <3>1. y # NULL /\ v(m) = find[y][pos[y] - b]
      BY <1>5, <2>4 DEF Seeks
    <3>2. In(y)
      BY <3>1, <2>1, <2>2, <2>4, <1>4
    <3> QED BY <3>1, <3>2, <2>1 DEF v
  <2>5. CASE k < pos[m]
    <3>1. x # NULL /\ v(m) = find[x][pos[x] - b]
      <4>1. k < pos[m] /\ k >= pos[m] - avl_cnt(t, x)
        BY <2>1, <2>5, <1>4
      <4> QED BY <1>5, <4>1 DEF Seeks
    <3>2. In(x)
      BY <3>1, <2>1, <2>2, <2>5, <1>4
    <3> QED BY <3>1, <3>2, <2>1 DEF v
  <2> QED BY <2>1, <2>3, <2>4, <2>5, <1>4
<1>8. L \subseteq S1
  <2> HIDE DEF S1
  <2> QED BY <1>6, <1>7, TreeInduction
<1>9. ASSUME NEW m \in L, pa[m] # NULL => pa[m] \in S2 PROVE m \in S2
  <2> SUFFICES v(m) = At(q, k)
    OBVIOUS
  <2>1. CASE In(m)
    BY <2>1, <1>8
  <2>2. CASE ~In(m)
    <3> DEFINE p == t[m].parent
    <3>1. /\ p = NULL => pos[m] = avl_cnt(t, t[m].left) + 1 /\ Len(q) = pos[m] + avl_cnt(t, t[m].right)
          /\ p # NULL => p \in L
      BY PlacesAround
    <3>2. (p = NULL => v(m) = NULL) /\ (p # NULL => v(m) = find[p][pos[p] - b])
      <4>1. k > pos[m] + avl_cnt(t, t[m].right) \/ k < pos[m] - avl_cnt(t, t[m].left)
        <5> DEFINE x == avl_cnt(t, t[m].left)
                   y == avl_cnt(t, t[m].right)
                   z == pos[m]
        <5>1. x \in Nat /\ y \in Nat /\ z \in Nat
          BY <1>1
        <5>2. ~(z - x <= k /\ k <= z + y)
          BY <2>2
        <5> HIDE DEF x, y, z
        <5>3. k > z + y \/ k < z - x
          BY <5>1, <5>2, <1>4
        <5> QED BY <5>3 DEF x, y, z
      <4> QED BY <1>5, <4>1 DEF Seeks
    <3>3. CASE p = NULL
      <4>1. k \notin 1 .. Len(q)
        BY <3>1, <3>3, <2>2, <1>1, <1>4
      <4>2. At(q, k) = NULL
        BY <4>1, <1>1 DEF At
      <4> QED BY <4>2, <3>2, <3>3
    <3>4. CASE p # NULL
      BY <3>1, <3>2, <3>4, <1>6, <1>9 DEF v
    <3> QED BY <3>3, <3>4
  <2> QED BY <2>1, <2>2
<1>10. L \subseteq S2
  <2> HIDE DEF S2
  <2> QED BY <1>6, <1>9, ClimbInduction
<1>11. v(n) = find[n][0]
  <2>1. pos[n] - b = 0
    BY <1>1 DEF b
  <2> QED BY <2>1 DEF v
<1> QED BY <1>3, <1>10, <1>11 DEF k, b

-----------------------------------------------------------------------------
(* Queries: zset_seek_ge() and exec_zquery().                              *)

\* The first k pairs of the list q are those before (s, name).
CutAt(q, sc, s, name, k) ==
    /\ k \in 0 .. Len(q)
    /\ \A i \in 1 .. k : Before(sc, q[i], s, name)
    /\ \A i \in k + 1 .. Len(q) : ~Before(sc, q[i], s, name)

\* There is such a k.
LEMMA CutExists ==
    ASSUME NEW L, L \subseteq Names, NEW sc, \A n \in L : sc[n] \in Int,
           NEW q \in Seq(L), Lists(q, L, Precedes(sc)), NEW s \in Int, NEW name \in Nat
    PROVE  \E k : CutAt(q, sc, s, name, k)
<1> DEFINE S == {i \in 1 .. Len(q) + 1 : i <= Len(q) => ~Before(sc, q[i], s, name)}
<1>1. Len(q) \in Nat /\ \A i \in 1 .. Len(q) : q[i] \in L /\ q[i] \in Int /\ sc[q[i]] \in Int
  <2>1. \A i \in 1 .. Len(q) : q[i] \in L
    OBVIOUS
  <2>2. L \subseteq Int
    BY SortedSetAssumption
  <2>3. \A i \in 1 .. Len(q) : q[i] \in Int /\ sc[q[i]] \in Int
    BY <2>1, <2>2
  <2>4. Len(q) \in Nat
    OBVIOUS
  <2> QED BY <2>1, <2>3, <2>4
<1>2. PICK x \in S : \A y \in S : x <= y
  <2>1. S \subseteq Nat /\ Len(q) + 1 \in S
    BY <1>1
  <2> HIDE DEF S
  <2>2. S # {}
    BY <2>1
  <2> QED BY <2>1, <2>2, LeastNumber
<1>3. ASSUME NEW i \in 1 .. x - 1 PROVE Before(sc, q[i], s, name)
  <2>1. i \in 1 .. Len(q) /\ ~(x <= i)
    BY <1>1, <1>2, <1>3
  <2> QED BY <2>1, <1>1, <1>2
<1>4. ASSUME NEW i \in x .. Len(q) PROVE ~Before(sc, q[i], s, name)
  <2>1. x \in 1 .. Len(q) /\ i \in 1 .. Len(q) /\ x <= i /\ ~Before(sc, q[x], s, name)
    BY <1>1, <1>2, <1>4
  <2>2. CASE x = i
    BY <2>1, <2>2
  <2>3. CASE x < i
    <3>1. <<q[x], q[i]>> \in Precedes(sc)
      BY <2>1, <2>3 DEF Lists
    <3>2. Less(sc, q[x], q[i])
      BY <3>1 DEF Precedes
    <3>3. /\ q[x] \in Int /\ q[i] \in Int /\ sc[q[x]] \in Int /\ sc[q[i]] \in Int
      BY <2>1, <1>1
    <3> QED BY <2>1, <3>2, <3>3 DEF Less, Before
  <2> QED BY <2>1, <2>2, <2>3
<1>5. CutAt(q, sc, s, name, x - 1)
  <2>1. x - 1 \in 0 .. Len(q) /\ (x - 1) + 1 = x
    BY <1>1, <1>2
  <2> QED BY <2>1, <1>3, <1>4 DEF CutAt
<1> QED BY <1>5

\* The places of the first and the last node of the subtree of m.
Low(t, pos, m) == pos[m] - avl_cnt(t, t[m].left)
High(t, pos, m) == pos[m] + avl_cnt(t, t[m].right)

\* What the search for the first pair after the first k finds below m.
FirstAfter(t, q, pos, k, m, found) ==
    IF m = NULL \/ k >= High(t, pos, m) THEN found
    ELSE IF k + 1 >= Low(t, pos, m) THEN q[k + 1] ELSE q[Low(t, pos, m)]

\* The search goes to the right past the pairs before the given one, else to
\* the left.
LEMMA FirstAfterIs ==
    ASSUME NEW t, NEW r, NEW q, NEW pos, NEW L, NEW sub, NEW lt, Resting(t, r, q, pos, L, sub, lt),
           NEW k \in Nat, NEW m \in L, NEW found
    PROVE  FirstAfter(t, q, pos, k, m, found) =
              IF pos[m] <= k THEN FirstAfter(t, q, pos, k, t[m].right, found)
              ELSE FirstAfter(t, q, pos, k, t[m].left, m)
<1> DEFINE x == t[m].left
           y == t[m].right
<1>1. /\ pos[m] \in Nat /\ avl_cnt(t, x) \in Nat /\ avl_cnt(t, y) \in Nat /\ avl_cnt(t, NULL) = 0
      /\ q[pos[m]] = m /\ m # NULL
      /\ x \in L \cup {NULL} /\ y \in L \cup {NULL}
      /\ x # NULL => pos[x] = pos[m] - avl_cnt(t, t[x].right) - 1
      /\ y # NULL => pos[y] = pos[m] + avl_cnt(t, t[y].left) + 1
  BY RestingIs
<1>2. \A z \in L : /\ avl_cnt(t, z) = 1 + avl_cnt(t, t[z].left) + avl_cnt(t, t[z].right)
                   /\ avl_cnt(t, t[z].left) \in Nat /\ avl_cnt(t, t[z].right) \in Nat /\ pos[z] \in Nat
  <2> TAKE z \in L
  <2> QED BY RestingIs
<1>3. /\ x # NULL => /\ Low(t, pos, x) = Low(t, pos, m) /\ High(t, pos, x) = pos[m] - 1
      /\ y # NULL => /\ Low(t, pos, y) = pos[m] + 1 /\ High(t, pos, y) = High(t, pos, m)
      /\ x = NULL => Low(t, pos, m) = pos[m]
      /\ y = NULL => High(t, pos, m) = pos[m]
      /\ Low(t, pos, m) \in Int /\ High(t, pos, m) \in Int
      /\ Low(t, pos, m) <= pos[m] /\ High(t, pos, m) >= pos[m]
  <2> HIDE DEF x, y
  <2>1. Low(t, pos, m) = pos[m] - avl_cnt(t, x) /\ High(t, pos, m) = pos[m] + avl_cnt(t, y)
    BY DEF Low, High, x, y
  <2>2. x # NULL => /\ Low(t, pos, x) = Low(t, pos, m) /\ High(t, pos, x) = pos[m] - 1
    BY <1>1, <1>2, <2>1 DEF Low, High
  <2>3. y # NULL => /\ Low(t, pos, y) = pos[m] + 1 /\ High(t, pos, y) = High(t, pos, m)
    BY <1>1, <1>2, <2>1 DEF Low, High
  <2>4. /\ x = NULL => Low(t, pos, m) = pos[m]
        /\ y = NULL => High(t, pos, m) = pos[m]
    BY <1>1, <2>1
  <2> QED BY <1>1, <2>1, <2>2, <2>3, <2>4
<1> HIDE DEF x, y
<1>4. CASE pos[m] <= k
  <2>1. FirstAfter(t, q, pos, k, m, found) = FirstAfter(t, q, pos, k, y, found)
    BY <1>1, <1>3, <1>4 DEF FirstAfter
  <2> QED BY <2>1, <1>4 DEF y
<1>5. CASE ~(pos[m] <= k)
  <2>1. FirstAfter(t, q, pos, k, m, found) = FirstAfter(t, q, pos, k, x, m)
    <3>1. CASE x = NULL
      <4>1. q[k + 1] = m \/ k + 1 < pos[m]
        BY <1>1, <1>5
      <4> QED BY <1>1, <1>3, <1>5, <3>1, <4>1 DEF FirstAfter
    <3>2. CASE x # NULL /\ k >= pos[m] - 1
      <4>1. k + 1 = pos[m]
        BY <1>1, <1>5, <3>2
      <4> QED BY <1>1, <1>3, <1>5, <3>2, <4>1 DEF FirstAfter
    <3>3. CASE x # NULL /\ ~(k >= pos[m] - 1)
      BY <1>1, <1>3, <1>5, <3>3 DEF FirstAfter
    <3> QED BY <3>1, <3>2, <3>3
  <2> QED BY <2>1, <1>5 DEF x
<1> QED BY <1>4, <1>5

\* zset_seek_ge() finds the first pair that is not before the given one.
LEMMA SeekIs ==
    ASSUME NEW pos, NEW L, NEW sub, NEW lt, NEW q, Resting(tree, root, q, pos, L, sub, lt),
           NEW s, NEW name, NEW k, CutAt(q, score, s, name, k)
    PROVE  zset_seek_ge(s, name) = At(q, k + 1)
<1> DEFINE Body(f) == [m \in Linked |-> [found \in Linked |->
                  IF m = NULL THEN found
                  ELSE IF Before(score, m, s, name) THEN f[tree[m].right][found]
                  ELSE f[tree[m].left][m]]]
           seek == CHOOSE f : f = Body(f)
           h == [m \in Linked |-> [found \in Linked |-> FirstAfter(tree, q, pos, k, m, found)]]
           lc == Lefts(tree, L)
           rc == Rights(tree, L)
           S == {m \in L : \A found \in Linked : seek[m][found] = FirstAfter(tree, q, pos, k, m, found)}
<1>1. /\ Linked = L \cup {NULL} /\ NULL \notin L /\ k \in Nat /\ root \in L \cup {NULL}
      /\ \A m \in L : tree[m].left \in Linked /\ tree[m].right \in Linked
      /\ Len(q) \in Nat
  BY RestingIs DEF Linked, Allocated, CutAt
<1>2. \A m \in L : Before(score, m, s, name) <=> pos[m] <= k
  <2> TAKE m \in L
  <2>1. pos[m] \in 1 .. Len(q) /\ q[pos[m]] = m
    BY RestingIs
  <2>2. CASE pos[m] <= k
    <3>1. pos[m] \in 1 .. k
      BY <2>1, <2>2, <1>1
    <3> QED BY <2>1, <2>2, <3>1 DEF CutAt
  <2>3. CASE ~(pos[m] <= k)
    <3>1. pos[m] \in k + 1 .. Len(q)
      BY <2>1, <2>3, <1>1
    <3> QED BY <2>1, <2>3, <3>1 DEF CutAt
  <2> QED BY <2>2, <2>3
<1>3. /\ \A found \in Linked : FirstAfter(tree, q, pos, k, NULL, found) = found
      /\ \A m \in L, found \in Linked : FirstAfter(tree, q, pos, k, m, found) =
           IF Before(score, m, s, name) THEN FirstAfter(tree, q, pos, k, tree[m].right, found)
           ELSE FirstAfter(tree, q, pos, k, tree[m].left, m)
  <2>1. \A found \in Linked : FirstAfter(tree, q, pos, k, NULL, found) = found
    BY DEF FirstAfter
  <2>2. \A m \in L, found \in Linked : FirstAfter(tree, q, pos, k, m, found) =
           IF pos[m] <= k THEN FirstAfter(tree, q, pos, k, tree[m].right, found)
           ELSE FirstAfter(tree, q, pos, k, tree[m].left, m)
    BY <1>1, FirstAfterIs
  <2> QED BY <2>1, <2>2, <1>2
<1>4. h = Body(h)
  <2> DEFINE u == Body(h)
  <2>1. \A m \in Linked, found \in Linked : h[m][found] = FirstAfter(tree, q, pos, k, m, found)
    OBVIOUS
  <2>2. h = [m \in Linked |-> h[m]] /\ \A m \in Linked : h[m] = [found \in Linked |-> h[m][found]]
    OBVIOUS
  <2> HIDE DEF h
  <2>3. \A m \in Linked, found \in Linked : u[m][found] = FirstAfter(tree, q, pos, k, m, found)
    BY <1>1, <1>3, <2>1
  <2>4. u = [m \in Linked |-> u[m]] /\ \A m \in Linked : u[m] = [found \in Linked |-> u[m][found]]
    OBVIOUS
  <2> HIDE DEF u
  <2>5. \A m \in Linked : u[m] = h[m]
    <3> SUFFICES ASSUME NEW m \in Linked PROVE u[m] = h[m]
      OBVIOUS
    <3> DEFINE x == u[m]
               y == h[m]
    <3>1. /\ x = [d \in Linked |-> x[d]] /\ y = [d \in Linked |-> y[d]]
          /\ \A d \in Linked : x[d] = y[d]
      BY <2>1, <2>2, <2>3, <2>4
    <3> HIDE DEF x, y
    <3>2. x = y
      BY <3>1
    <3> QED BY <3>2 DEF x, y
  <2>6. u = h
    BY <2>2, <2>4, <2>5
  <2> QED BY <2>6 DEF u
<1>5. seek = Body(seek)
  <2> HIDE DEF Body, h
  <2> QED BY <1>4
<1>6. zset_seek_ge(s, name) = seek[root][NULL]
  BY DEF zset_seek_ge
<1> HIDE DEF seek, h
<1>7. /\ \A found \in Linked : seek[NULL][found] = found
      /\ \A m \in L, found \in Linked : seek[m][found] =
           IF Before(score, m, s, name) THEN seek[tree[m].right][found]
           ELSE seek[tree[m].left][m]
  <2> DEFINE b == Body(seek)
  <2>1. NULL \in Linked /\ NULL \notin L /\ L \subseteq Linked
    BY <1>1
  <2>2. /\ \A found \in Linked : b[NULL][found] = found
        /\ \A m \in L, found \in Linked : b[m][found] =
             IF Before(score, m, s, name) THEN seek[tree[m].right][found]
             ELSE seek[tree[m].left][m]
    BY <2>1
  <2> HIDE DEF Body
  <2>3. b = seek
    BY <1>5
  <2> HIDE DEF b
  <2> QED BY <2>2, <2>3
<1> HIDE DEF Body
<1>8. /\ SearchTree(lc, rc, Parents(tree, L), root, L, sub, lt) /\ IsFiniteSet(L)
      /\ \A m \in L : lc[m] = tree[m].left /\ rc[m] = tree[m].right
  BY DEF Resting, Links, Lefts, Rights
<1> HIDE DEF lc, rc
<1>9. ASSUME NEW m \in L, lc[m] # NULL => lc[m] \in S, rc[m] # NULL => rc[m] \in S PROVE m \in S
  <2> SUFFICES ASSUME NEW found \in Linked
               PROVE  seek[m][found] = FirstAfter(tree, q, pos, k, m, found)
    OBVIOUS
  <2>1. m \in Linked
    BY <1>1
  <2>2. \A d \in Linked : /\ seek[lc[m]][d] = FirstAfter(tree, q, pos, k, lc[m], d)
                          /\ seek[rc[m]][d] = FirstAfter(tree, q, pos, k, rc[m], d)
    BY <1>3, <1>7, <1>9
  <2> QED BY <1>3, <1>7, <1>8, <2>1, <2>2
<1>10. L \subseteq S
  <2> HIDE DEF S
  <2> QED BY <1>8, <1>9, TreeInduction
<1>11. seek[root][NULL] = FirstAfter(tree, q, pos, k, root, NULL)
  BY <1>1, <1>3, <1>7, <1>10
<1>12. FirstAfter(tree, q, pos, k, root, NULL) = At(q, k + 1)
  <2>1. CASE root = NULL
    <3>1. Len(q) = 0
      BY <2>1, RestingIs
    <3>2. q \in Seq(L)
      BY RestingIs
    <3> QED BY <2>1, <3>1, <3>2, <1>1 DEF FirstAfter, At
  <2>2. CASE root # NULL
    <3>1. /\ root \in L /\ q \in Seq(L) /\ Len(q) = avl_cnt(tree, root)
          /\ pos[root] = avl_cnt(tree, tree[root].left) + 1
          /\ avl_cnt(tree, tree[root].left) \in Nat /\ avl_cnt(tree, tree[root].right) \in Nat
          /\ avl_cnt(tree, root) = 1 + avl_cnt(tree, tree[root].left) + avl_cnt(tree, tree[root].right)
      BY <2>2, RestingIs
    <3>2. Low(tree, pos, root) = 1 /\ High(tree, pos, root) = Len(q)
      BY <3>1 DEF Low, High
    <3>3. k + 1 \in DOMAIN q <=> k < Len(q)
      BY <3>1, <1>1
    <3> QED BY <2>2, <3>1, <3>2, <3>3, <1>1 DEF FirstAfter, At
  <2> QED BY <2>1, <2>2
<1> QED BY <1>6, <1>11, <1>12

\* n members of q from place i on, or those that there are.
Piece(q, i, n) == SubSeq(q, i, IF i + n - 1 < Len(q) THEN i + n - 1 ELSE Len(q))

\* Pieces that are empty, and the first of the others.
LEMMA PieceIs ==
    ASSUME NEW S, NEW q \in Seq(S), NEW i \in Nat \ {0}, NEW n \in Nat
    PROVE  /\ n = 0 => Piece(q, i, n) = <<>>
           /\ i > Len(q) => Piece(q, i, n) = <<>>
           /\ n > 0 /\ i <= Len(q) => Piece(q, i, n) = <<q[i]>> \o Piece(q, i + 1, n - 1)
<1>1. Len(q) \in Nat
  OBVIOUS
<1> DEFINE e == IF i + n - 1 < Len(q) THEN i + n - 1 ELSE Len(q)
<1>2. e \in Int /\ e <= Len(q) /\ e <= i + n - 1 /\ (e = Len(q) \/ e = i + n - 1)
  BY <1>1
<1>3. Piece(q, i, n) = SubSeq(q, i, e)
  BY DEF Piece
<1> HIDE DEF e
<1>4. e < i => Piece(q, i, n) = <<>>
  BY <1>1, <1>2, <1>3
<1>5. ASSUME n > 0, i <= Len(q) PROVE Piece(q, i, n) = <<q[i]>> \o Piece(q, i + 1, n - 1)
  <2>1. Piece(q, i + 1, n - 1) = SubSeq(q, i + 1, e)
    <3>1. (i + 1) + (n - 1) - 1 = i + n - 1
      OBVIOUS
    <3> QED BY <3>1 DEF Piece, e
  <2>2. i <= e /\ e <= Len(q) /\ i \in 1 .. Len(q) /\ e \in 1 .. Len(q)
    BY <1>1, <1>2, <1>5
  <2> DEFINE x == SubSeq(q, i, e)
             y == SubSeq(q, i + 1, e)
  <2>3. x \in Seq(S) /\ Len(x) = e - i + 1 /\ \A j \in 1 .. e - i + 1 : x[j] = q[i + j - 1]
    BY <1>1, <2>2
  <2>4. y \in Seq(S) /\ Len(y) = e - i /\ \A j \in 1 .. e - i : y[j] = q[i + j]
    BY <1>1, <2>2
  <2> DEFINE z == <<q[i]>> \o y
  <2>5. q[i] \in S
    BY <2>2
  <2> HIDE DEF x, y
  <2>6. z \in Seq(S) /\ Len(z) = e - i + 1 /\ z[1] = q[i] /\ \A j \in 1 .. e - i : z[j + 1] = y[j]
    BY <2>2, <2>4, <2>5
  <2> HIDE DEF z
  <2>7. \A j \in 1 .. e - i + 1 : z[j] = x[j]
    <3> TAKE j \in 1 .. e - i + 1
    <3>1. CASE j = 1
      <4>1. i + 1 - 1 = i /\ 1 \in 1 .. e - i + 1
        BY <2>2
      <4>2. x[1] = q[i + 1 - 1]
        BY <4>1, <2>3
      <4> QED BY <3>1, <4>1, <4>2, <2>6
    <3>2. CASE j # 1
      <4>1. j - 1 \in 1 .. e - i /\ (j - 1) + 1 = j /\ i + (j - 1) = i + j - 1
        BY <2>2, <3>2
      <4>2. z[(j - 1) + 1] = y[j - 1] /\ y[j - 1] = q[i + (j - 1)]
        BY <4>1, <2>4, <2>6
      <4> QED BY <4>1, <4>2, <2>3
    <3> QED BY <3>1, <3>2
  <2>8. z = x
    BY <2>3, <2>6, <2>7
  <2> QED BY <2>1, <2>8, <1>3 DEF x, y, z
<1> QED BY <1>1, <1>2, <1>4, <1>5

\* A piece is its first and the rest.
LEMMA PieceNext ==
    ASSUME NEW S, NEW q, q \in Seq(S), NEW i, i \in 1 .. Len(q), NEW n, n \in Nat \ {0}
    PROVE  Piece(q, i, n) = <<q[i]>> \o Piece(q, i + 1, n - 1)
<1>1. i \in Nat \ {0} /\ n \in Nat /\ n > 0 /\ i <= Len(q)
  OBVIOUS
<1>2. n > 0 /\ i <= Len(q) => Piece(q, i, n) = <<q[i]>> \o Piece(q, i + 1, n - 1)
  BY <1>1, PieceIs
<1> QED BY <1>1, <1>2

\* exec_zquery() lists the pairs from a node on.
LEMMA ListIs ==
    ASSUME NEW pos, NEW L, NEW sub, NEW lt, NEW q, Resting(tree, root, q, pos, L, sub, lt),
           NEW s, NEW name, NEW offset, NEW limit \in Nat, limit > 0,
           NEW m0, m0 = znode_offset(zset_seek_ge(s, name), offset), m0 \in L \cup {NULL}
    PROVE  exec_zquery(s, name, offset, limit) =
              IF m0 = NULL THEN <<>> ELSE Piece(q, pos[m0], (limit + 1) \div 2)
<1> DEFINE Body(f) == [left \in Nat |-> [m \in Linked |->
                  IF m = NULL \/ left = 0 THEN <<>>
                  ELSE <<m>> \o f[IF left = 1 THEN 0 ELSE left - 2][znode_offset(m, 1)]]]
           list == CHOOSE f : f = Body(f)
           Is(left, m) == IF m = NULL THEN <<>> ELSE Piece(q, pos[m], (left + 1) \div 2)
           h == [left \in Nat |-> [m \in Linked |-> Is(left, m)]]
           S == {left \in Nat : \E m \in Linked : list[left][m] # Is(left, m)}
<1>1. /\ Linked = L \cup {NULL} /\ NULL \notin L /\ q \in Seq(L) /\ Len(q) \in Nat
      /\ \A m \in L : pos[m] \in 1 .. Len(q) /\ q[pos[m]] = m /\ pos[m] \in Nat
      /\ \A i \in 1 .. Len(q) : pos[q[i]] = i
  BY RestingIs DEF Linked, Allocated
<1>2. \A m \in L : znode_offset(m, 1) = At(q, pos[m] + 1) /\ znode_offset(m, 1) \in Linked
  <2> SUFFICES ASSUME NEW m \in L PROVE znode_offset(m, 1) = At(q, pos[m] + 1) /\ znode_offset(m, 1) \in Linked
    OBVIOUS
  <2> DEFINE one == 1
  <2>1. one \in Int
    OBVIOUS
  <2> HIDE DEF one
  <2>2. avl_offset(tree, m, one) = At(q, pos[m] + one)
    BY <2>1, OffsetIs
  <2>3. znode_offset(m, 1) = At(q, pos[m] + 1)
    BY <2>2, <1>1 DEF znode_offset, one
  <2>4. At(q, pos[m] + 1) \in Linked
    BY <1>1 DEF At
  <2> QED BY <2>3, <2>4
<1>3. ASSUME NEW left \in Nat, NEW m \in Linked
      PROVE  Is(left, m) = IF m = NULL \/ left = 0 THEN <<>>
                  ELSE <<m>> \o Is(IF left = 1 THEN 0 ELSE left - 2, znode_offset(m, 1))
  <2> DEFINE n == (left + 1) \div 2
             rest == IF left = 1 THEN 0 ELSE left - 2
             next == znode_offset(m, 1)
  <2>1. CASE m = NULL
    BY <2>1
  <2>2. CASE m # NULL /\ left = 0
    <3>1. n = 0 /\ 0 \in Nat /\ pos[m] \in Nat \ {0}
      BY <2>2, <1>1
    <3>2. Piece(q, pos[m], 0) = <<>>
      BY <3>1, <1>1, PieceIs
    <3> QED BY <2>2, <3>1, <3>2
  <2>3. CASE m # NULL /\ left # 0
    <3>1. m \in L /\ pos[m] \in Nat \ {0} /\ pos[m] <= Len(q) /\ q[pos[m]] = m
      BY <2>3, <1>1
    <3>2. rest \in Nat /\ n \in Nat /\ n > 0 /\ (rest + 1) \div 2 = n - 1
      BY <2>3
    <3> HIDE DEF n, rest
    <3>3. Piece(q, pos[m], n) = <<m>> \o Piece(q, pos[m] + 1, n - 1)
      <4> DEFINE i == pos[m]
      <4>1. i \in 1 .. Len(q) /\ q[i] = m /\ q \in Seq(L) /\ n \in Nat \ {0}
        BY <3>1, <3>2, <1>1
      <4> HIDE DEF i
      <4>2. Piece(q, i, n) = <<q[i]>> \o Piece(q, i + 1, n - 1)
        BY <4>1, PieceNext, SMTT(20)
      <4> QED BY <4>1, <4>2 DEF i
    <3>4. Is(rest, next) = Piece(q, pos[m] + 1, n - 1)
      <4>0. next = At(q, pos[m] + 1) /\ n - 1 \in Nat /\ pos[m] + 1 \in Nat \ {0}
        BY <3>1, <3>2, <1>2
      <4>1. CASE pos[m] + 1 <= Len(q)
        <5>1. next = q[pos[m] + 1] /\ pos[m] + 1 \in 1 .. Len(q)
          BY <4>0, <4>1, <3>1, <1>1 DEF At
        <5>2. next \in L /\ pos[next] = pos[m] + 1 /\ next # NULL
          BY <5>1, <1>1
        <5> QED BY <5>2, <3>2
      <4>2. CASE pos[m] + 1 > Len(q)
        <5>1. next = NULL
          BY <4>0, <4>2, <3>1, <1>1 DEF At
        <5>2. Piece(q, pos[m] + 1, n - 1) = <<>>
          BY <4>0, <4>2, <1>1, PieceIs
        <5> QED BY <5>1, <5>2
      <4> QED BY <4>1, <4>2, <3>1, <1>1
    <3> QED BY <2>3, <3>3, <3>4 DEF n, rest
  <2> QED BY <2>1, <2>2, <2>3
<1> HIDE DEF Is
<1>4. h = Body(h)
  <2> DEFINE u == Body(h)
  <2>1. \A left \in Nat, m \in Linked : h[left][m] = Is(left, m)
    OBVIOUS
  <2>2. h = [left \in Nat |-> h[left]] /\ \A left \in Nat : h[left] = [m \in Linked |-> h[left][m]]
    OBVIOUS
  <2> HIDE DEF h
  <2>3. \A left \in Nat, m \in Linked : u[left][m] = Is(left, m)
    <3> SUFFICES ASSUME NEW left \in Nat, NEW m \in Linked PROVE u[left][m] = Is(left, m)
      OBVIOUS
    <3> DEFINE rest == IF left = 1 THEN 0 ELSE left - 2
    <3>1. u[left][m] = IF m = NULL \/ left = 0 THEN <<>> ELSE <<m>> \o h[rest][znode_offset(m, 1)]
      OBVIOUS
    <3>2. left # 0 => rest \in Nat
      OBVIOUS
    <3>3. Is(left, m) = IF m = NULL \/ left = 0 THEN <<>> ELSE <<m>> \o Is(rest, znode_offset(m, 1))
      BY <1>3
    <3> HIDE DEF u, rest
    <3> QED BY <3>1, <3>2, <3>3, <2>1, <1>1, <1>2
  <2>4. u = [left \in Nat |-> u[left]] /\ \A left \in Nat : u[left] = [m \in Linked |-> u[left][m]]
    OBVIOUS
  <2> HIDE DEF u
  <2>5. \A left \in Nat : u[left] = h[left]
    <3> SUFFICES ASSUME NEW left \in Nat PROVE u[left] = h[left]
      OBVIOUS
    <3> DEFINE x == u[left]
               y == h[left]
    <3>1. /\ x = [d \in Linked |-> x[d]] /\ y = [d \in Linked |-> y[d]]
          /\ \A d \in Linked : x[d] = y[d]
      BY <2>1, <2>2, <2>3, <2>4
    <3> HIDE DEF x, y
    <3>2. x = y
      BY <3>1
    <3> QED BY <3>2 DEF x, y
  <2>6. u = h
    BY <2>2, <2>4, <2>5
  <2> QED BY <2>6 DEF u
<1>5. list = Body(list)
  <2> HIDE DEF Body, h
  <2> QED BY <1>4
<1>6. exec_zquery(s, name, offset, limit) = list[limit][m0]
  BY DEF exec_zquery
<1> HIDE DEF list, h
<1>7. ASSUME NEW left \in Nat, NEW m \in Linked
      PROVE  list[left][m] = IF m = NULL \/ left = 0 THEN <<>>
                  ELSE <<m>> \o list[IF left = 1 THEN 0 ELSE left - 2][znode_offset(m, 1)]
  <2> DEFINE b == Body(list)
  <2>1. b[left][m] = IF m = NULL \/ left = 0 THEN <<>>
                  ELSE <<m>> \o list[IF left = 1 THEN 0 ELSE left - 2][znode_offset(m, 1)]
    OBVIOUS
  <2>2. b = list
    BY <1>5
  <2> HIDE DEF b
  <2> QED BY <2>1, <2>2
<1> HIDE DEF Body
<1>8. S = {}
  <2> SUFFICES ASSUME S # {} PROVE FALSE
    OBVIOUS
  <2>1. PICK left \in S : \A y \in S : left <= y
    <3>1. S \subseteq Nat
      OBVIOUS
    <3> HIDE DEF S
    <3> QED BY <3>1, LeastNumber
  <2>2. PICK m \in Linked : list[left][m] # Is(left, m)
    BY <2>1
  <2> DEFINE rest == IF left = 1 THEN 0 ELSE left - 2
  <2>3. left \in Nat /\ (left # 0 => rest \in Nat /\ rest < left)
    OBVIOUS
  <2>4. /\ list[left][m] = IF m = NULL \/ left = 0 THEN <<>> ELSE <<m>> \o list[rest][znode_offset(m, 1)]
        /\ Is(left, m) = IF m = NULL \/ left = 0 THEN <<>> ELSE <<m>> \o Is(rest, znode_offset(m, 1))
    BY <1>3, <1>7, <2>3
  <2>5. m # NULL /\ left # 0
    BY <2>2, <2>4
  <2>6. znode_offset(m, 1) \in Linked
    BY <2>5, <1>1, <1>2
  <2>7. rest \notin S
    BY <2>1, <2>3, <2>5
  <2>8. list[rest][znode_offset(m, 1)] = Is(rest, znode_offset(m, 1))
    BY <2>3, <2>5, <2>6, <2>7
  <2> QED BY <2>2, <2>4, <2>8
<1>9. list[limit][m0] = Is(limit, m0)
  BY <1>1, <1>8
<1> QED BY <1>6, <1>9 DEF Is

\* Between calls the tree is at rest.
LEMMA RestsBetween ==
    ASSUME TreeInv, call = None
    PROVE  \E pos, sub : Resting(tree, root, InOrder, pos, Allocated, sub, Precedes(score))
<1> DEFINE L == Allocated
           lc == Lefts(tree, L)
           rc == Rights(tree, L)
           pa == Parents(tree, L)
           ct == Counts(tree, L)
           lt == Precedes(score)
           q == InOrder
<1>1. /\ Shaped(tree, root, L, score, NULL) /\ IsFiniteSet(L) /\ L \subseteq Names
      /\ Nodes(tree) = L /\ L = Allocated
  BY Between
<1>2. PICK sub : Links(tree, root, L, sub, lt)
  BY <1>1 DEF Shaped
<1>3. Memory(tree, L) /\ Settling(tree, L, NULL)
  BY <1>1, ShapedMemory DEF Shaped
<1> HIDE DEF L, lt, q
<1>4. SearchTree(lc, rc, pa, root, L, sub, lt)
  BY <1>2 DEF Links
<1>5. Counted(lc, rc, ct, L)
  <2>1. Settled(lc, rc, Heights(tree, L), ct, L)
    BY <1>3, SettlingIs
  <2>2. Measures(Heights(tree, L), ct, L)
    BY <1>3, FieldsAre
  <2> QED BY <2>1, <2>2 DEF Settled, FitsAt, CountedAt, Counted, Measures
<1> HIDE DEF lc, rc, pa, ct
<1>6. PICK f : Listing(f, lc, rc, L) /\ q = f[root]
  BY <1>1, <1>2, InOrderIs DEF lc, rc, q
<1>7. root \in L \cup {NULL} /\ sub[root] = L
  BY <1>4 DEF SearchTree, Tree
<1>8. Lists(q, L, lt)
  <2>1. Lists(f[root], sub[root], lt)
    BY <1>1, <1>4, <1>6, <1>7, ListingIs
  <2> QED BY <2>1, <1>6, <1>7
<1>9. PICK pos : Placed(pos, q, lc, rc, ct, root, L)
  BY <1>1, <1>4, <1>5, <1>6, PlacesExist
<1>10. Resting(tree, root, q, pos, L, sub, lt)
  BY <1>1, <1>2, <1>5, <1>8, <1>9 DEF Resting, lc, rc, ct
<1> QED BY <1>10 DEF L, lt, q

\* exec_zquery() answers from the list of the pairs.
LEMMA AnswerIs ==
    ASSUME TreeInv, call = None, NEW pos, NEW sub, NEW q, q = InOrder,
           Resting(tree, root, q, pos, Allocated, sub, Precedes(score)),
           NEW s \in Int, NEW name \in Nat, NEW offset \in Int, NEW limit \in Int
    PROVE  exec_zquery(s, name, offset, limit) = Answer(q, s, name, offset, limit)
<1> DEFINE L == Allocated
           lt == Precedes(score)
           from == {i \in DOMAIN q : ~Before(score, q[i], s, name)}
           first == Len(q) - Cardinality(from) + 1 + offset
           pairs == (limit + 1) \div 2
           m == zset_seek_ge(s, name)
           m0 == znode_offset(m, offset)
<1>1. /\ L \subseteq Names /\ \A n \in L : score[n] \in Int
  <2>1. Stored(tree, score)
    BY DEF TreeInv
  <2> QED BY <2>1, StoredIs DEF Allocated
<1>2. /\ q \in Seq(L) /\ Len(q) \in Nat /\ NULL \notin L
      /\ \A n \in L : pos[n] \in 1 .. Len(q) /\ q[pos[n]] = n /\ pos[n] \in Nat
      /\ \A i \in 1 .. Len(q) : pos[q[i]] = i
  BY RestingIs
<1>3. PICK k : CutAt(q, score, s, name, k)
  <2>1. Lists(q, L, lt)
    BY DEF Resting
  <2> HIDE DEF L
  <2> QED BY <1>1, <1>2, <2>1, CutExists
<1>4. m = At(q, k + 1)
  BY <1>3, SeekIs
<1> HIDE DEF L
<1>5. k \in Nat /\ k <= Len(q) /\ DOMAIN q = 1 .. Len(q)
  BY <1>2, <1>3 DEF CutAt
<1>n. k \in Nat /\ k <= Len(q) /\ Len(q) \in Nat
  BY <1>2, <1>5
<1>d. \A i \in Int : i \in DOMAIN q <=> 1 <= i /\ i <= Len(q)
  BY <1>2
<1>6. from = k + 1 .. Len(q)
  BY <1>2, <1>3, <1>5 DEF CutAt
<1> HIDE DEF from
<1>7. Cardinality(from) = Len(q) - k
  <2>1. k + 1 \in Int /\ Len(q) \in Int
    BY <1>2, <1>5
  <2>2. Cardinality(k + 1 .. Len(q)) = IF k + 1 > Len(q) THEN 0 ELSE Len(q) - (k + 1) + 1
    BY <2>1, FS_Interval
  <2>3. Cardinality(from) = IF k + 1 > Len(q) THEN 0 ELSE Len(q) - (k + 1) + 1
    BY <2>2, <1>6
  <2> QED BY <2>3, <1>n
<1>8. first = k + 1 + offset
  BY <1>n, <1>7
<1>9. from = {} <=> k = Len(q)
  <2>1. k = Len(q) => k + 1 .. Len(q) = {}
    BY <1>n
  <2>2. k # Len(q) => k + 1 \in k + 1 .. Len(q)
    BY <1>n
  <2>3. k + 1 .. Len(q) = {} <=> k = Len(q)
    BY <2>1, <2>2
  <2> QED BY <2>3, <1>6
<1> DEFINE a == exec_zquery(s, name, offset, limit)
<1> SUFFICES a = IF from = {} \/ first < 1 \/ limit <= 0 THEN <<>> ELSE Piece(q, first, pairs)
  BY DEF Answer, Piece, from
<1> HIDE DEF first
<1>10. CASE limit <= 0
  BY <1>10 DEF exec_zquery
<1>11. CASE limit > 0
  <2>1. m0 = IF k = Len(q) THEN NULL ELSE At(q, k + 1 + offset)
    <3>1. CASE k = Len(q)
      <4>1. m = NULL
        BY <1>2, <1>4, <1>5, <3>1 DEF At
      <4> QED BY <3>1, <4>1 DEF znode_offset
    <3>2. CASE k # Len(q)
      <4>1. k + 1 \in 1 .. Len(q) /\ m = q[k + 1]
        <5>1. k + 1 \in 1 .. Len(q) /\ k + 1 \in DOMAIN q
          BY <1>n, <1>d, <3>2
        <5> QED BY <5>1, <1>4 DEF At
      <4>2. m \in L /\ pos[m] = k + 1 /\ m # NULL
        BY <1>2, <4>1
      <4> HIDE DEF m
      <4>3. avl_offset(tree, m, offset) = At(q, pos[m] + offset)
        BY <4>2, OffsetIs DEF L
      <4> QED BY <3>2, <4>2, <4>3 DEF znode_offset
    <3> QED BY <3>1, <3>2
  <2>2. m0 \in L \cup {NULL}
    BY <2>1, <1>2 DEF At
  <2>3. limit \in Nat
    BY <1>11
  <2>4. a = IF m0 = NULL THEN <<>> ELSE Piece(q, pos[m0], pairs)
    <3> HIDE DEF m0
    <3>1. m0 = znode_offset(zset_seek_ge(s, name), offset)
      BY DEF m0
    <3> QED BY <3>1, <1>11, <2>2, <2>3, ListIs DEF L
  <2> HIDE DEF m0, a
  <2>5. CASE k = Len(q)
    BY <2>1, <2>4, <2>5, <1>9
  <2>6. CASE k # Len(q) /\ first < 1
    <3>1. k + 1 + offset \notin DOMAIN q
      <4>1. k + 1 + offset \in Int /\ ~(1 <= k + 1 + offset)
        BY <2>6, <1>n, <1>8
      <4> QED BY <4>1, <1>d
    <3> QED BY <3>1, <2>1, <2>4, <2>6 DEF At
  <2>7. CASE k # Len(q) /\ first > Len(q)
    <3>1. k + 1 + offset \notin DOMAIN q
      <4>1. k + 1 + offset \in Int /\ ~(k + 1 + offset <= Len(q))
        BY <2>7, <1>n, <1>8
      <4> QED BY <4>1, <1>d
    <3>2. a = <<>>
      BY <3>1, <2>1, <2>4, <2>7 DEF At
    <3>3. first \in Nat \ {0} /\ pairs \in Nat
      <4>1. first \in Int
        BY <1>n, <1>8
      <4> HIDE DEF first
      <4> QED BY <4>1, <2>3, <2>7, <1>n
    <3> HIDE DEF pairs
    <3>4. Piece(q, first, pairs) = <<>>
      <4>1. q \in Seq(L) /\ first > Len(q)
        BY <1>2, <2>7
      <4> QED BY <4>1, <3>3, PieceIs
    <3> QED BY <3>2, <3>4
  <2>8. CASE k # Len(q) /\ first \in 1 .. Len(q)
    <3>1. m0 = q[first]
      BY <2>1, <2>8, <1>5, <1>8 DEF At
    <3>2. m0 # NULL /\ pos[m0] = first
      BY <3>1, <2>8, <1>2
    <3>3. ~(first < 1) /\ ~(limit <= 0)
      BY <2>8, <1>11
    <3> QED BY <3>2, <3>3, <2>4, <2>8, <1>9
  <2>9. first \in Int
    BY <1>5, <1>8
  <2> QED BY <2>5, <2>6, <2>7, <2>8, <2>9, <1>2
<1> QED BY <1>10, <1>11

\* Between calls the queries answer so.
LEMMA QueriesAgreeThen ==
    ASSUME TreeInv, call = None
    PROVE  QueriesAgree
<1> DEFINE q == InOrder
           L == Allocated
<1>1. PICK pos, sub : Resting(tree, root, q, pos, L, sub, Precedes(score))
  BY RestsBetween
<1>2. q = InOrder
  OBVIOUS
<1> SUFFICES /\ \A i \in DOMAIN q : avl_rank(tree, q[i]) = i - 1
             /\ \A i \in DOMAIN q, j \in 0 .. Len(q) + 1 : znode_offset(q[i], j - i) = At(q, j)
             /\ \A p \in Pairs, k \in {-1, 1}, limit \in Limits :
                   exec_zquery(p[2], p[1], k, limit) = Answer(q, p[2], p[1], k, limit)
  BY DEF QueriesAgree
<1> HIDE DEF q
<1>3. /\ q \in Seq(L) /\ NULL \notin L
      /\ \A i \in 1 .. Len(q) : pos[q[i]] = i
  BY <1>1, RestingIs
<1>4. ASSUME NEW i \in DOMAIN q
      PROVE  q[i] \in L /\ pos[q[i]] = i /\ i \in Int /\ q[i] # NULL
  BY <1>3
<1>5. ASSUME NEW i \in DOMAIN q PROVE avl_rank(tree, q[i]) = i - 1
  <2> DEFINE n == q[i]
  <2>1. n \in L /\ pos[n] = i
    BY <1>4
  <2> HIDE DEF n, L
  <2>2. avl_rank(tree, n) = pos[n] - 1
    BY <1>1, <2>1, RankIs
  <2> QED BY <2>1, <2>2 DEF n
<1>6. ASSUME NEW i \in DOMAIN q, NEW j \in 0 .. Len(q) + 1 PROVE znode_offset(q[i], j - i) = At(q, j)
  <2> DEFINE n == q[i]
             d == j - i
  <2>1. n \in L /\ pos[n] = i /\ n # NULL /\ d \in Int /\ pos[n] + d = j
    BY <1>4
  <2> HIDE DEF n, L, d
  <2>2. avl_offset(tree, n, d) = At(q, pos[n] + d)
    BY <1>1, <2>1, OffsetIs
  <2>3. znode_offset(n, d) = At(q, j)
    BY <2>1, <2>2 DEF znode_offset
  <2> QED BY <2>3 DEF n, d
<1>8. ASSUME NEW s \in Int, NEW name \in Nat, NEW k \in Int, NEW limit \in Int
      PROVE  exec_zquery(s, name, k, limit) = Answer(q, s, name, k, limit)
  <2>1. \E o : o = InOrder /\ Resting(tree, root, o, pos, Allocated, sub, Precedes(score)) /\ o = q
    BY <1>1, <1>2
  <2> HIDE DEF L
  <2> QED BY <2>1, AnswerIs
<1>7. ASSUME NEW p \in Pairs, NEW k \in {-1, 1}, NEW limit \in Limits
      PROVE  exec_zquery(p[2], p[1], k, limit) = Answer(q, p[2], p[1], k, limit)
  <2>1. p[2] \in Int /\ p[1] \in Nat
    <3>1. p \in Names \X Scores
      BY SortedSetAssumption
    <3> QED BY <3>1, SortedSetAssumption
  <2>3. k \in Int /\ limit \in Int
    BY SortedSetAssumption
  <2> DEFINE s == p[2]
             name == p[1]
  <2> HIDE DEF s, name
  <2>2. exec_zquery(s, name, k, limit) = Answer(q, s, name, k, limit)
    <3>1. s \in Int /\ name \in Nat
      BY <2>1 DEF s, name
    <3> QED BY <1>8, <2>3, <3>1
  <2> QED BY <2>2 DEF s, name
<1> QED BY <1>5, <1>6, <1>7

\* Between calls zrank, znode_offset and zquery answer from the tree what the
\* sorted sequence of the pairs says: the rank by the cached counts, the steps
\* of avl_offset() up and down the tree, and the list of exec_zquery().
THEOREM SortedSetQueriesAgree == Spec => []QueriesAgree
<1>1. TreeInv => QueriesAgree
  BY QueriesAgreeThen DEF QueriesAgree
<1> QED BY <1>1, TreeInvHolds, PTL
=============================================================================
