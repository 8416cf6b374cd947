---------------------------- MODULE TtlHeapProofs ----------------------------
(***************************************************************************)
(* Theorems about TtlHeap, for all sets of entries and deadlines.          *)
(*                                                                         *)
(* While an item is sifted, its slot is a hole: what the array holds there *)
(* is out of date.  The inductive invariant therefore speaks of the        *)
(* deadlines with the one in hand put into the hole.  On the way up every  *)
(* item but that one is at least its parent; on the way down every item    *)
(* but its children is; and in both cases the children of the hole are at  *)
(* least its parent, so that the hole can move.                            *)
(***************************************************************************)
EXTENDS TtlHeap, WellFoundedInduction, TLAPS

(* Trees of n deadlines.                                                   *)

Trees(n) == [0 .. n - 1 -> Nat]

Edge(b, i) == b[Parent(i)] <= b[i]

\* The children of slot p are at least its parent.
Bridge(b, n, p) == p > 0 => \A i \in 1 .. n - 1 : Parent(i) = p => b[Parent(p)] <= b[i]

Ordered(b, n) == \A i \in 1 .. n - 1 : Edge(b, i)
OrderedAbove(b, n, p) == Bridge(b, n, p) /\ \A i \in 1 .. n - 1 : i # p => Edge(b, i)
OrderedBelow(b, n, p) == Bridge(b, n, p) /\ \A i \in 1 .. n - 1 : Parent(i) # p => Edge(b, i)

\* In order but for the edges of slot p.
OrderedAround(b, n, p) ==
    Bridge(b, n, p) /\ \A i \in 1 .. n - 1 : i # p /\ Parent(i) # p => Edge(b, i)

Swap(b, p, q) == [b EXCEPT ![p] = b[q], ![q] = b[p]]

-----------------------------------------------------------------------------

LEMMA ParentFacts ==
    ASSUME NEW i \in Nat \ {0}
    PROVE  Parent(i) \in Nat /\ Parent(i) < i
BY DEF Parent

LEMMA ChildFacts ==
    ASSUME NEW p \in Nat
    PROVE  /\ Left(p) \in Nat /\ Left(p) > p /\ Parent(Left(p)) = p
           /\ Right(p) \in Nat /\ Right(p) > p /\ Parent(Right(p)) = p
           /\ \A i \in Nat \ {0} : Parent(i) = p => i = Left(p) \/ i = Right(p)
BY DEF Left, Right, Parent

LEMMA InTree ==
    ASSUME NEW n \in Nat, NEW b \in Trees(n), NEW i \in 1 .. n - 1
    PROVE  /\ i \in 0 .. n - 1 /\ b[i] \in Nat /\ i # 0
           /\ Parent(i) \in 0 .. n - 1 /\ b[Parent(i)] \in Nat /\ Parent(i) < i
<1>1. Parent(i) \in Nat /\ Parent(i) < i
  BY ParentFacts
<1> QED
  BY <1>1 DEF Trees

\* sift() chooses the direction.
LEMMA SiftStarts ==
    ASSUME NEW n \in Nat, NEW b \in Trees(n), NEW p \in 0 .. n - 1, OrderedAround(b, n, p)
    PROVE  IF p > 0 /\ b[Parent(p)] > b[p] THEN OrderedAbove(b, n, p)
                                           ELSE OrderedBelow(b, n, p)
<1>1. CASE p > 0 /\ b[Parent(p)] > b[p]
  <2>1. ASSUME NEW i \in 1 .. n - 1, Parent(i) = p
        PROVE  Edge(b, i)
    <3>1. b[Parent(p)] <= b[i]
      BY <1>1, <2>1 DEF OrderedAround, Bridge
    <3>2. p \in 1 .. n - 1
      BY <1>1
    <3> QED
      BY <1>1, <2>1, <3>1, <3>2, InTree DEF Edge
  <2> QED
    BY <1>1, <2>1 DEF OrderedAround, OrderedAbove
<1>2. CASE ~(p > 0 /\ b[Parent(p)] > b[p])
  <2>1. ASSUME p \in 1 .. n - 1
        PROVE  Edge(b, p)
    BY <1>2, <2>1, InTree DEF Edge
  <2> QED
    BY <1>2, <2>1 DEF OrderedAround, OrderedBelow
<1> QED
  BY <1>1, <1>2

\* An iteration of sift_up().
LEMMA UpStep ==
    ASSUME NEW n \in Nat, NEW b \in Trees(n), NEW p \in 1 .. n - 1, OrderedAbove(b, n, p),
           b[Parent(p)] > b[p]
    PROVE  OrderedAbove(Swap(b, p, Parent(p)), n, Parent(p))
<1> DEFINE q == Parent(p)
           c == Swap(b, p, q)
<1>1. q \in 0 .. n - 1 /\ q < p /\ b[q] \in Nat /\ b[p] \in Nat
  BY InTree
<1>2. \A i \in 0 .. n - 1 : c[i] = IF i = p THEN b[q] ELSE IF i = q THEN b[p] ELSE b[i]
  BY <1>1 DEF Swap, Trees
<1>3. \A i \in 1 .. n - 1 : i # p => b[Parent(i)] <= b[i]
  BY DEF OrderedAbove, Edge
<1> HIDE DEF c
<1>4. ASSUME NEW i \in 1 .. n - 1, i # q
      PROVE  c[Parent(i)] <= c[i]
  <2>1. i \in 0 .. n - 1 /\ Parent(i) \in 0 .. n - 1 /\ b[i] \in Nat /\ b[Parent(i)] \in Nat
        /\ Parent(i) < i
    BY InTree
  <2>2. CASE i = p
    BY <1>1, <1>2, <2>1, <2>2
  <2>3. CASE Parent(i) = p
    <3>1. b[q] <= b[i] /\ i # p
      BY <2>1, <2>3 DEF OrderedAbove, Bridge
    <3> QED
      BY <1>1, <1>2, <1>4, <2>1, <2>3, <3>1
  <2>4. CASE i # p /\ Parent(i) # p
    <3>1. b[Parent(i)] <= b[i]
      BY <1>3, <2>4
    <3> QED
      BY <1>1, <1>2, <1>4, <2>1, <2>4, <3>1
  <2> QED
    BY <2>2, <2>3, <2>4
<1>5. ASSUME q > 0, NEW i \in 1 .. n - 1, Parent(i) = q
      PROVE  c[Parent(q)] <= c[i]
  <2>1. q \in 1 .. n - 1
    BY <1>1, <1>5
  <2>2. /\ Parent(q) \in 0 .. n - 1 /\ Parent(q) < q /\ b[Parent(q)] \in Nat
        /\ i \in 0 .. n - 1 /\ b[i] \in Nat /\ q < i
    BY <1>5, <2>1, InTree
  <2>3. b[Parent(q)] <= b[q]
    BY <1>1, <1>3, <2>1
  <2>4. i # p => b[q] <= b[i]
    BY <1>3, <1>5
  <2> QED
    BY <1>1, <1>2, <2>2, <2>3, <2>4
<1>6. OrderedAbove(c, n, q)
  BY <1>4, <1>5 DEF OrderedAbove, Bridge, Edge
<1> QED
  BY <1>6 DEF c

LEMMA UpDone ==
    ASSUME NEW n \in Nat, NEW b \in Trees(n), NEW p \in 0 .. n - 1, OrderedAbove(b, n, p),
           ~(p > 0 /\ b[Parent(p)] > b[p])
    PROVE  Ordered(b, n)
<1>1. ASSUME p \in 1 .. n - 1
      PROVE  Edge(b, p)
  BY <1>1, InTree DEF Edge
<1> QED
  BY <1>1 DEF OrderedAbove, Ordered

\* An iteration of sift_down(): q is the smaller child of p.
LEMMA DownStep ==
    ASSUME NEW n \in Nat, NEW b \in Trees(n), NEW p \in 0 .. n - 1, OrderedBelow(b, n, p),
           NEW q \in 1 .. n - 1, Parent(q) = p, b[q] < b[p],
           \A i \in 1 .. n - 1 : Parent(i) = p => b[q] <= b[i]
    PROVE  OrderedBelow(Swap(b, p, q), n, q)
<1> DEFINE c == Swap(b, p, q)
<1>1. q \in 0 .. n - 1 /\ p < q /\ b[q] \in Nat /\ b[p] \in Nat
  BY InTree DEF Trees
<1>2. \A i \in 0 .. n - 1 : c[i] = IF i = p THEN b[q] ELSE IF i = q THEN b[p] ELSE b[i]
  BY <1>1 DEF Swap, Trees
<1>3. \A i \in 1 .. n - 1 : Parent(i) # p => b[Parent(i)] <= b[i]
  BY DEF OrderedBelow, Edge
<1> HIDE DEF c
<1>4. ASSUME NEW i \in 1 .. n - 1, Parent(i) # q
      PROVE  c[Parent(i)] <= c[i]
  <2>1. i \in 0 .. n - 1 /\ Parent(i) \in 0 .. n - 1 /\ b[i] \in Nat /\ b[Parent(i)] \in Nat
        /\ Parent(i) < i
    BY InTree
  <2>2. CASE i = p
    <3>1. p > 0 /\ b[Parent(p)] <= b[q]
      BY <2>1, <2>2 DEF OrderedBelow, Bridge
    <3> QED
      BY <1>1, <1>2, <1>4, <2>1, <2>2, <3>1
  <2>3. CASE Parent(i) = p
    BY <1>1, <1>2, <2>1, <2>3
  <2>4. CASE i # p /\ Parent(i) # p
    <3>1. b[Parent(i)] <= b[i]
      BY <1>3, <2>4
    <3>2. i # q
      BY <2>4
    <3> QED
      BY <1>1, <1>2, <1>4, <2>1, <2>4, <3>1, <3>2
  <2> QED
    BY <2>2, <2>3, <2>4
<1>5. ASSUME NEW i \in 1 .. n - 1, Parent(i) = q
      PROVE  c[Parent(q)] <= c[i]
  <2>1. i \in 0 .. n - 1 /\ q < i /\ b[i] \in Nat
    BY <1>5, InTree
  <2>2. b[q] <= b[i]
    BY <1>1, <1>3, <1>5
  <2> QED
    BY <1>1, <1>2, <2>1, <2>2
<1>6. OrderedBelow(c, n, q)
  BY <1>4, <1>5 DEF OrderedBelow, Bridge, Edge
<1> QED
  BY <1>6 DEF c

LEMMA DownDone ==
    ASSUME NEW n \in Nat, NEW b \in Trees(n), NEW p \in 0 .. n - 1, OrderedBelow(b, n, p),
           \A i \in 1 .. n - 1 : Parent(i) = p => b[p] <= b[i]
    PROVE  Ordered(b, n)
BY DEF OrderedBelow, Ordered, Edge

\* heap_upsert() of an item that is there.
LEMMA Replaced ==
    ASSUME NEW n \in Nat, NEW b \in Trees(n), NEW p \in 0 .. n - 1, Ordered(b, n),
           NEW v \in Nat
    PROVE  /\ [b EXCEPT ![p] = v] \in Trees(n)
           /\ OrderedAround([b EXCEPT ![p] = v], n, p)
<1> DEFINE c == [b EXCEPT ![p] = v]
<1>1. \A i \in 0 .. n - 1 : i # p => c[i] = b[i]
  BY DEF Trees
<1>2. c \in Trees(n)
  BY DEF Trees
<1> HIDE DEF c
<1>3. ASSUME NEW i \in 1 .. n - 1, i # p, Parent(i) # p
      PROVE  Edge(c, i)
  BY <1>1, <1>3, InTree DEF Edge, Ordered
<1>4. ASSUME p > 0, NEW i \in 1 .. n - 1, Parent(i) = p
      PROVE  c[Parent(p)] <= c[i]
  <2>1. p \in 1 .. n - 1
    BY <1>4
  <2>2. b[Parent(p)] <= b[p] /\ b[p] <= b[i]
    BY <1>4, <2>1 DEF Ordered, Edge
  <2>3. b[Parent(p)] \in Nat /\ b[p] \in Nat /\ b[i] \in Nat /\ Parent(p) < p /\ p < i
        /\ Parent(p) \in 0 .. n - 1 /\ i \in 0 .. n - 1
    BY <1>4, <2>1, InTree
  <2> QED
    BY <1>1, <2>2, <2>3
<1> QED
  BY <1>2, <1>3, <1>4 DEF c, OrderedAround, Bridge

\* heap_upsert() of a new item.
LEMMA Appended ==
    ASSUME NEW n \in Nat, NEW b \in Trees(n), Ordered(b, n), NEW c \in Trees(n + 1),
           \A i \in 0 .. n - 1 : c[i] = b[i]
    PROVE  OrderedAround(c, n + 1, n)
<1>1. ASSUME NEW i \in 1 .. n, i # n
      PROVE  Edge(c, i)
  <2>1. i \in 1 .. n - 1
    BY <1>1
  <2> QED
    BY <2>1, InTree DEF Ordered, Edge
<1>2. ASSUME NEW i \in 1 .. n
      PROVE  Parent(i) # n
  BY ParentFacts
<1> QED
  BY <1>1, <1>2 DEF OrderedAround, Bridge

\* The pop of heap_delete().
LEMMA Popped ==
    ASSUME NEW n \in Nat \ {0}, NEW b \in Trees(n), Ordered(b, n), NEW c \in Trees(n - 1),
           \A i \in 0 .. n - 2 : c[i] = b[i]
    PROVE  Ordered(c, n - 1)
<1>1. ASSUME NEW i \in 1 .. n - 2
      PROVE  Edge(c, i)
  <2>1. i \in 1 .. n - 1 /\ Parent(i) \in 0 .. n - 2
    BY ParentFacts
  <2> QED
    BY <2>1 DEF Ordered, Edge
<1> QED
  BY <1>1 DEF Ordered
-----------------------------------------------------------------------------
(* The invariant.                                                          *)

Hole(i) == Sifting /\ i = pos
InHand(e) == Sifting /\ e = item.ref

\* The deadlines of the array, with the item in hand in the hole.
Tree == [i \in 0 .. size - 1 |-> IF Hole(i) THEN item.val ELSE arr[i].val]

Order ==
    /\ pc = "idle" => Ordered(Tree, size)
    /\ pc = "up" => OrderedAbove(Tree, size, pos)
    /\ pc = "down" => OrderedBelow(Tree, size, pos)

\* Slots and entries know each other, but for the hole and for the entries
\* whose heap_idx is still to be written.
SlotsKnown == \A i \in 0 .. size - 1 : ~Hole(i) =>
    arr[i].ref # dropped /\ ~InHand(arr[i].ref) /\ heap_idx[arr[i].ref] = i

EntriesKnown == \A e \in Ents : e # dropped /\ ~InHand(e) /\ heap_idx[e] # NoIdx =>
    heap_idx[e] \in 0 .. size - 1 /\ ~Hole(heap_idx[e]) /\ arr[heap_idx[e]].ref = e

Refs ==
    /\ SlotsKnown /\ EntriesKnown
    /\ pc # "assert"
    /\ pc = "idle" => dropped = None
    /\ Sifting => item.ref # dropped

Inv == TypeOK /\ Refs /\ Order

\* An item of the array, and the item in hand.
LEMMA ItemShape ==
    ASSUME TypeOK
    PROVE  /\ \A i \in 0 .. size - 1 : arr[i] \in Items
           /\ \A x \in Items : x.val \in Nat /\ x.val \in Vals /\ x.ref \in Ents
           /\ Sifting => pos \in 0 .. size - 1 /\ item \in Items
           /\ size \in Nat
           /\ Tree \in Trees(size)
           /\ None \notin Ents
<1>1. \A x \in Items : x.val \in Nat /\ x.val \in Vals /\ x.ref \in Ents
  BY HeapAssumption DEF Items
<1>2. \A i \in 0 .. size - 1 : arr[i] \in Items
  BY DEF TypeOK
<1>3. Sifting => pos \in 0 .. size - 1 /\ item \in Items
  BY DEF TypeOK, Sifting
<1>4. Tree \in Trees(size)
  BY <1>1, <1>2, <1>3 DEF Tree, Trees, Hole
<1> QED
  BY <1>1, <1>2, <1>3, <1>4, HeapAssumption DEF TypeOK

LEMMA ItemShapeNext ==
    ASSUME TypeOK'
    PROVE  /\ Sifting' => pos' \in 0 .. size' - 1 /\ item' \in Items
           /\ size' \in Nat
           /\ Tree' \in Trees(size')
<1>1. \A x \in Items : x.val \in Nat
  BY HeapAssumption DEF Items
<1>2. \A i \in 0 .. size' - 1 : arr'[i] \in Items
  BY DEF TypeOK
<1>3. Sifting' => pos' \in 0 .. size' - 1 /\ item' \in Items
  BY DEF TypeOK, Sifting
<1>4. Tree' \in Trees(size')
  BY <1>1, <1>2, <1>3 DEF Tree, Trees, Hole
<1> QED
  BY <1>3, <1>4 DEF TypeOK

LEMMA InitHolds == Init => Inv
BY HeapAssumption DEF Init, Inv, TypeOK, Refs, Order, SlotsKnown, EntriesKnown, Ordered,
   InHand, Hole, Sifting, NoIdx
-----------------------------------------------------------------------------
(* The calls.                                                              *)

\* Between calls the entries with an index and the slots are in bijection.
LEMMA IdleRefs ==
    ASSUME Inv, pc = "idle"
    PROVE  /\ ~Sifting /\ dropped = None
           /\ \A i \in 0 .. size - 1 : arr[i].ref \in Ents /\ heap_idx[arr[i].ref] = i
           /\ \A e \in Ents : heap_idx[e] # NoIdx =>
                  heap_idx[e] \in 0 .. size - 1 /\ arr[heap_idx[e]].ref = e
           /\ \A i \in 0 .. size - 1 : Tree[i] = arr[i].val
           /\ Ordered(Tree, size)
<1>1. ~Sifting /\ dropped = None
  BY DEF Inv, Refs, Sifting
<1>2. \A i \in 0 .. size - 1 : arr[i].ref \in Ents /\ heap_idx[arr[i].ref] = i
  BY <1>1, ItemShape DEF Inv, Refs, SlotsKnown, Hole
<1>3. \A e \in Ents : heap_idx[e] # NoIdx =>
         heap_idx[e] \in 0 .. size - 1 /\ arr[heap_idx[e]].ref = e
  BY <1>1, ItemShape DEF Inv, Refs, EntriesKnown, InHand
<1>4. \A i \in 0 .. size - 1 : Tree[i] = arr[i].val
  BY <1>1 DEF Tree, Hole
<1> QED
  BY <1>1, <1>2, <1>3, <1>4 DEF Inv, Order

\* The direction that sift() takes is the one in which order can be restored.
LEMMA SiftOrder ==
    ASSUME TypeOK', NEW n \in Nat, size' = n, NEW p \in Nat, NEW x \in Items, sift(p, x),
           OrderedAround(Tree', n, p)
    PROVE  Order'
<1>1. pos' = p /\ item' = x /\ pc' \in {"up", "down"} /\ Sifting'
  BY DEF sift, Sifting
<1>2. p \in 0 .. n - 1 /\ Tree' \in Trees(n)
  BY <1>1, ItemShapeNext
<1>3. \A i \in 0 .. n - 1 : Tree'[i] = IF i = p THEN x.val ELSE arr'[i].val
  BY <1>1 DEF Tree, Hole
<1>4. pc' = "up" <=> p > 0 /\ Tree'[Parent(p)] > Tree'[p]
  <2>1. CASE p > 0
    <3>1. Parent(p) \in 0 .. n - 1 /\ Parent(p) # p
      <4>1. Parent(p) \in Nat /\ Parent(p) < p
        BY <2>1, ParentFacts
      <4> QED
        BY <1>2, <4>1
    <3> QED
      BY <1>2, <1>3, <2>1, <3>1 DEF sift
  <2>2. CASE p = 0
    BY <2>2 DEF sift
  <2> QED
    BY <2>1, <2>2
<1>5. IF p > 0 /\ Tree'[Parent(p)] > Tree'[p] THEN OrderedAbove(Tree', n, p)
                                               ELSE OrderedBelow(Tree', n, p)
  BY <1>2, SiftStarts
<1> QED
  BY <1>1, <1>4, <1>5 DEF Order

LEMMA SetKeeps ==
    ASSUME Inv, NEW e \in Ents, NEW v \in Vals, entry_set_ttl(e, v)
    PROVE  Inv'
<1> DEFINE x == [val |-> v, ref |-> e]
<1>1. pc = "idle" /\ heap_upsert(e, x)
  BY DEF entry_set_ttl
<1>2. x \in Items /\ x.val = v /\ x.ref = e /\ v \in Nat
  BY HeapAssumption DEF Items
<1> HIDE DEF x
<1>3. CASE heap_idx[e] \in 0 .. size - 1
  <2> DEFINE p == heap_idx[e]
  <2>1. /\ p \in 0 .. size - 1 /\ arr' = [arr EXCEPT ![p] = x] /\ sift(p, x)
        /\ size' = size /\ heap_idx' = heap_idx /\ dropped' = dropped
    BY <1>1, <1>3 DEF heap_upsert
  <2>2. pos' = p /\ item' = x /\ pc' \in {"up", "down"} /\ Sifting'
    BY <2>1 DEF sift, Sifting
  <2>3. \A i \in 0 .. size - 1 : arr'[i] = IF i = p THEN x ELSE arr[i]
    BY <2>1 DEF Inv, TypeOK
  <2>4. TypeOK'
    BY <1>2, <2>1, <2>2 DEF Inv, TypeOK
  <2>5. arr[p].ref = e /\ heap_idx[e] = p
    BY <1>1, <2>1, IdleRefs DEF NoIdx
  <2> HIDE DEF p
  <2>6. Refs'
    <3>1. SlotsKnown'
      <4> SUFFICES ASSUME NEW i \in 0 .. size - 1, i # p
                   PROVE  arr'[i].ref # dropped /\ arr'[i].ref # e
                          /\ heap_idx[arr'[i].ref] = i
        BY <1>2, <2>1, <2>2 DEF SlotsKnown, Hole, InHand
      <4> QED
        BY <1>1, <2>3, <2>5, IdleRefs, HeapAssumption
    <3>2. EntriesKnown'
      <4> SUFFICES ASSUME NEW y \in Ents, y # e, heap_idx[y] # NoIdx
                   PROVE  heap_idx[y] \in 0 .. size - 1 /\ heap_idx[y] # p
                          /\ arr'[heap_idx[y]].ref = y
        BY <1>2, <2>1, <2>2 DEF EntriesKnown, Hole, InHand
      <4> QED
        BY <1>1, <2>3, <2>5, IdleRefs
    <3>3. e # dropped
      BY <1>1, IdleRefs, HeapAssumption
    <3> QED
      BY <1>2, <2>1, <2>2, <3>1, <3>2, <3>3 DEF Refs
  <2>7. Order'
    <3>1. Tree' = [Tree EXCEPT ![p] = v]
      <4>1. \A i \in 0 .. size - 1 : Tree[i] = arr[i].val
        BY <1>1, IdleRefs
      <4>2. Tree' = [i \in 0 .. size - 1 |-> IF i = p THEN v ELSE arr'[i].val]
        BY <1>2, <2>1, <2>2 DEF Tree, Hole
      <4>3. Tree = [i \in 0 .. size - 1 |-> arr[i].val]
        BY <1>1, IdleRefs DEF Tree, Hole
      <4> QED
        BY <2>3, <4>2, <4>3
    <3>2. OrderedAround([Tree EXCEPT ![p] = v], size, p)
      BY <1>1, <1>2, <2>1, IdleRefs, ItemShape, Replaced DEF Inv
    <3>3. p \in Nat /\ size' = size /\ size \in Nat
      BY <2>1 DEF Inv, TypeOK
    <3> QED
      BY <1>2, <2>1, <2>4, <3>1, <3>2, <3>3, SiftOrder
  <2> QED
    BY <2>4, <2>6, <2>7 DEF Inv
<1>4. CASE heap_idx[e] = NoIdx
  <2>1. /\ arr' = [i \in 0 .. size |-> IF i = size THEN x ELSE arr[i]]
        /\ size' = size + 1 /\ sift(size, x)
        /\ heap_idx' = heap_idx /\ dropped' = dropped
    BY <1>1, <1>4 DEF heap_upsert, NoIdx
  <2>2. /\ pos' = size /\ item' = x /\ pc' \in {"up", "down"} /\ Sifting'
        /\ size \in Nat /\ size' - 1 = size
    BY <2>1 DEF sift, Sifting, Inv, TypeOK
  <2>3. TypeOK'
    <3>1. arr' \in [0 .. size' - 1 -> Items]
      BY <1>2, <2>1, <2>2 DEF Inv, TypeOK
    <3> QED
      BY <1>2, <2>1, <2>2, <3>1 DEF Inv, TypeOK
  <2>4. Refs'
    <3>1. SlotsKnown'
      <4> SUFFICES ASSUME NEW i \in 0 .. size - 1
                   PROVE  arr[i].ref # dropped /\ arr[i].ref # e
                          /\ heap_idx[arr[i].ref] = i
        BY <1>2, <2>1, <2>2 DEF SlotsKnown, Hole, InHand
      <4> QED
        BY <1>1, <1>4, IdleRefs, HeapAssumption DEF NoIdx
    <3>2. EntriesKnown'
      <4> SUFFICES ASSUME NEW y \in Ents, y # e, heap_idx[y] # NoIdx
                   PROVE  heap_idx[y] \in 0 .. size /\ heap_idx[y] # size
                          /\ arr'[heap_idx[y]].ref = y
        BY <1>2, <2>1, <2>2 DEF EntriesKnown, Hole, InHand
      <4>1. heap_idx[y] \in 0 .. size - 1 /\ arr[heap_idx[y]].ref = y
        BY <1>1, IdleRefs
      <4> QED
        BY <2>1, <2>2, <4>1
    <3>3. e # dropped
      BY <1>1, IdleRefs, HeapAssumption
    <3> QED
      BY <1>2, <2>1, <2>2, <3>1, <3>2, <3>3 DEF Refs
  <2>5. Order'
    <3>1. Tree' \in Trees(size + 1)
      BY <2>1, <2>3, ItemShapeNext
    <3>2. \A i \in 0 .. size - 1 : Tree'[i] = Tree[i]
      <4>1. \A i \in 0 .. size - 1 : Tree'[i] = arr'[i].val
        <5>1. Tree' = [i \in 0 .. size |-> IF i = size THEN item'.val ELSE arr'[i].val]
          BY <2>2 DEF Tree, Hole
        <5> QED
          BY <2>2, <5>1
      <4>2. \A i \in 0 .. size - 1 : arr'[i] = arr[i]
        BY <2>1, <2>2
      <4> QED
        BY <1>1, <4>1, <4>2, IdleRefs
    <3>3. OrderedAround(Tree', size + 1, size)
      BY <1>1, <2>2, <3>1, <3>2, IdleRefs, ItemShape, Appended DEF Inv
    <3> QED
      BY <1>2, <2>1, <2>2, <2>3, <3>3, SiftOrder
  <2> QED
    BY <2>3, <2>4, <2>5 DEF Inv
<1> QED
  BY <1>1, <1>3, <1>4, IdleRefs
LEMMA RemoveKeeps ==
    ASSUME Inv, NEW e \in Ents, entry_remove_ttl(e)
    PROVE  Inv'
<1> DEFINE p == heap_idx[e]
           x == arr[size - 1]
<1>1. pc = "idle" /\ p \in 0 .. size - 1 /\ arr[p].ref = e /\ heap_idx[e] = p
  BY IdleRefs DEF entry_remove_ttl
<1>2. /\ arr' = [i \in 0 .. size - 2 |-> IF i = p THEN x ELSE arr[i]]
      /\ size' = size - 1
      /\ IF p = size - 1
         THEN /\ heap_idx' = [heap_idx EXCEPT ![e] = NoIdx]
              /\ UNCHANGED <<pc, pos, item, dropped>>
         ELSE /\ sift(p, x)
              /\ dropped' = e
              /\ UNCHANGED heap_idx
  BY <1>1 DEF entry_remove_ttl, WasLast
<1>3. /\ size \in Nat \ {0} /\ size' \in Nat /\ size' - 1 = size - 2
      /\ size - 1 \in 0 .. size - 1
      /\ x \in Items /\ x.ref \in Ents /\ x.val \in Nat
      /\ heap_idx[x.ref] = size - 1
  BY <1>1, <1>2, ItemShape, IdleRefs DEF Inv
<1> HIDE DEF p, x
<1>4. \A i \in 0 .. size - 2 : i \in 0 .. size - 1
                               /\ arr'[i] = IF i = p THEN x ELSE arr[i]
  BY <1>2, <1>3
<1>5. arr' \in [0 .. size' - 1 -> Items]
  BY <1>2, <1>3 DEF Inv, TypeOK
<1>6. Tree \in Trees(size) /\ Ordered(Tree, size)
  BY <1>1, ItemShape, IdleRefs DEF Inv
<1>7. CASE p = size - 1
  <2>1. /\ heap_idx' = [heap_idx EXCEPT ![e] = NoIdx]
        /\ pc' = "idle" /\ pos' = pos /\ item' = item /\ dropped' = dropped
        /\ ~Sifting' /\ dropped = None
    BY <1>1, <1>2, <1>7, IdleRefs DEF Sifting
  <2>2. TypeOK'
    BY <1>3, <1>5, <2>1 DEF Inv, TypeOK
  <2>3. Refs'
    <3>1. SlotsKnown'
      <4> SUFFICES ASSUME NEW i \in 0 .. size - 2
                   PROVE  arr'[i].ref # None /\ heap_idx'[arr'[i].ref] = i
        BY <1>3, <2>1 DEF SlotsKnown, Hole, InHand
      <4>1. arr'[i] = arr[i] /\ i \in 0 .. size - 1 /\ i # p
        BY <1>3, <1>4, <1>7
      <4>2. arr[i].ref \in Ents /\ heap_idx[arr[i].ref] = i /\ arr[i].ref # e
        BY <1>1, <4>1, IdleRefs
      <4> QED
        BY <2>1, <4>1, <4>2, HeapAssumption DEF Inv, TypeOK
    <3>2. EntriesKnown'
      <4> SUFFICES ASSUME NEW y \in Ents, heap_idx'[y] # NoIdx
                   PROVE  heap_idx'[y] \in 0 .. size - 2
                          /\ arr'[heap_idx'[y]].ref = y
        BY <1>3, <2>1 DEF EntriesKnown, Hole, InHand
      <4>1. y # e /\ heap_idx'[y] = heap_idx[y]
        BY <2>1 DEF Inv, TypeOK
      <4>2. heap_idx[y] \in 0 .. size - 1 /\ arr[heap_idx[y]].ref = y
        BY <1>1, <4>1, IdleRefs
      <4>3. heap_idx[y] # p
        BY <1>1, <4>1, <4>2
      <4>4. heap_idx[y] \in 0 .. size - 2
        BY <1>3, <1>7, <4>2, <4>3
      <4> QED
        BY <1>4, <4>1, <4>2, <4>3, <4>4
    <3> QED
      BY <2>1, <3>1, <3>2 DEF Refs
  <2>4. Order'
    <3>1. Tree' \in Trees(size - 1)
      BY <1>2, <2>2, ItemShapeNext
    <3>2. \A i \in 0 .. size - 2 : Tree'[i] = Tree[i]
      <4>1. Tree' = [i \in 0 .. size - 2 |-> arr'[i].val]
        BY <1>3, <2>1 DEF Tree, Hole
      <4>2. \A i \in 0 .. size - 2 : arr'[i] = arr[i] /\ i \in 0 .. size - 1
        BY <1>3, <1>4, <1>7
      <4> QED
        BY <1>1, <4>1, <4>2, IdleRefs
    <3>3. Ordered(Tree', size - 1)
      BY <1>3, <1>6, <3>1, <3>2, Popped
    <3> QED
      BY <1>2, <2>1, <3>3 DEF Order
  <2> QED
    BY <2>2, <2>3, <2>4 DEF Inv
<1>8. CASE p # size - 1
  <2>1. /\ sift(p, x) /\ heap_idx' = heap_idx /\ dropped' = e
        /\ pos' = p /\ item' = x /\ pc' \in {"up", "down"} /\ Sifting'
    BY <1>2, <1>8 DEF sift, Sifting
  <2>2. p \in 0 .. size - 2 /\ p \in Nat
    BY <1>1, <1>3, <1>8
  <2>3. TypeOK'
    BY <1>3, <1>5, <2>1, <2>2 DEF Inv, TypeOK
  <2>4. x.ref # e
    BY <1>1, <1>3, <1>8
  <2>5. Refs'
    <3>1. SlotsKnown'
      <4> SUFFICES ASSUME NEW i \in 0 .. size - 2, i # p
                   PROVE  arr'[i].ref # e /\ arr'[i].ref # x.ref
                          /\ heap_idx[arr'[i].ref] = i
        BY <1>3, <2>1 DEF SlotsKnown, Hole, InHand
      <4>1. arr'[i] = arr[i] /\ heap_idx[arr[i].ref] = i /\ i # size - 1
        BY <1>1, <1>3, <1>4, IdleRefs
      <4> QED
        BY <1>1, <1>3, <4>1
    <3>2. EntriesKnown'
      <4> SUFFICES ASSUME NEW y \in Ents, y # e, y # x.ref, heap_idx[y] # NoIdx
                   PROVE  heap_idx[y] \in 0 .. size - 2 /\ heap_idx[y] # p
                          /\ arr'[heap_idx[y]].ref = y
        BY <1>3, <2>1 DEF EntriesKnown, Hole, InHand
      <4>1. heap_idx[y] \in 0 .. size - 1 /\ arr[heap_idx[y]].ref = y
        BY <1>1, IdleRefs
      <4>2. heap_idx[y] # p /\ heap_idx[y] # size - 1
        BY <1>1, <4>1 DEF x
      <4>3. heap_idx[y] \in 0 .. size - 2
        BY <1>3, <4>1, <4>2
      <4> QED
        BY <1>4, <4>1, <4>2, <4>3
    <3> QED
      BY <2>1, <2>4, <3>1, <3>2 DEF Refs
  <2>6. Order'
    <3> DEFINE c == [i \in 0 .. size - 2 |-> Tree[i]]
    <3>1. c \in Trees(size - 1) /\ \A i \in 0 .. size - 2 : c[i] = Tree[i]
      BY <1>3, <1>6 DEF Trees
    <3> HIDE DEF c
    <3>2. Ordered(c, size - 1)
      BY <1>3, <1>6, <3>1, Popped
    <3>3. OrderedAround([c EXCEPT ![p] = x.val], size - 1, p)
      BY <1>2, <1>3, <2>2, <3>1, <3>2, Replaced
    <3>4. Tree' = [c EXCEPT ![p] = x.val]
      <4>1. Tree' = [i \in 0 .. size - 2 |-> IF i = p THEN x.val ELSE arr'[i].val]
        BY <1>3, <2>1 DEF Tree, Hole
      <4>2. \A i \in 0 .. size - 2 : i # p => arr'[i].val = c[i]
        BY <1>1, <1>4, <3>1, IdleRefs
      <4>3. c = [i \in 0 .. size - 2 |-> c[i]]
        BY <3>1 DEF c
      <4> QED
        BY <4>1, <4>2, <4>3
    <3> QED
      BY <1>2, <1>3, <2>1, <2>2, <2>3, <3>3, <3>4, SiftOrder
  <2> QED
    BY <2>3, <2>5, <2>6 DEF Inv
<1> QED
  BY <1>7, <1>8
-----------------------------------------------------------------------------
(* The loops.                                                              *)

\* The item of slot q moves into the hole, and the hole to q.
LEMMA ShiftKeeps ==
    ASSUME Inv, Sifting, NEW q \in 0 .. size - 1, q # pos, Shift(q)
    PROVE  TypeOK' /\ Refs' /\ Tree' = Swap(Tree, pos, q)
<1>1. /\ arr' = [arr EXCEPT ![pos] = arr[q]]
      /\ heap_idx' = [heap_idx EXCEPT ![arr[q].ref] = pos]
      /\ pos' = q /\ size' = size /\ pc' = pc /\ item' = item /\ dropped' = dropped
      /\ Sifting'
  BY DEF Shift, Sifting
<1>2. /\ pos \in 0 .. size - 1 /\ pos \in Nat /\ item \in Items /\ item.ref \in Ents
      /\ size \in Nat
      /\ arr[q] \in Items /\ arr[q].ref \in Ents
  BY ItemShape DEF Inv
<1>3. \A i \in 0 .. size - 1 : arr'[i] = IF i = pos THEN arr[q] ELSE arr[i]
  BY <1>1 DEF Inv, TypeOK
<1>4. \A e \in Ents : heap_idx'[e] = IF e = arr[q].ref THEN pos ELSE heap_idx[e]
  BY <1>1 DEF Inv, TypeOK
<1>5. arr[q].ref # dropped /\ arr[q].ref # item.ref /\ heap_idx[arr[q].ref] = q
  BY DEF Inv, Refs, SlotsKnown, Hole, InHand
<1>6. TypeOK'
  BY <1>1, <1>2 DEF Inv, TypeOK
<1>7. SlotsKnown'
  <2> SUFFICES ASSUME NEW i \in 0 .. size - 1, i # q
               PROVE  arr'[i].ref # dropped /\ arr'[i].ref # item.ref
                      /\ heap_idx'[arr'[i].ref] = i
    BY <1>1 DEF SlotsKnown, Hole, InHand
  <2>1. CASE i = pos
    BY <1>2, <1>3, <1>4, <1>5, <2>1
  <2>2. CASE i # pos
    <3>1. arr[i].ref # dropped /\ arr[i].ref # item.ref /\ heap_idx[arr[i].ref] = i
          /\ arr[i].ref \in Ents
      BY <2>2, ItemShape DEF Inv, Refs, SlotsKnown, Hole, InHand
    <3> QED
      BY <1>3, <1>4, <1>5, <2>2, <3>1
  <2> QED
    BY <2>1, <2>2
<1>8. EntriesKnown'
  <2> SUFFICES ASSUME NEW e \in Ents, e # dropped, e # item.ref, heap_idx'[e] # NoIdx
               PROVE  heap_idx'[e] \in 0 .. size - 1 /\ heap_idx'[e] # q
                      /\ arr'[heap_idx'[e]].ref = e
    BY <1>1 DEF EntriesKnown, Hole, InHand
  <2>1. CASE e = arr[q].ref
    BY <1>2, <1>3, <1>4, <2>1
  <2>2. CASE e # arr[q].ref
    <3>1. heap_idx[e] \in 0 .. size - 1 /\ heap_idx[e] # pos /\ arr[heap_idx[e]].ref = e
          /\ heap_idx'[e] = heap_idx[e]
      BY <1>4, <2>2 DEF Inv, Refs, EntriesKnown, Hole, InHand
    <3> QED
      BY <1>3, <2>2, <3>1
  <2> QED
    BY <2>1, <2>2
<1>9. Refs'
  BY <1>1, <1>7, <1>8 DEF Inv, Refs, Sifting
<1>10. Tree' = Swap(Tree, pos, q)
  <2>1. Tree' = [i \in 0 .. size - 1 |-> IF i = q THEN item.val ELSE arr'[i].val]
    BY <1>1 DEF Tree, Hole
  <2>2. Tree = [i \in 0 .. size - 1 |-> IF i = pos THEN item.val ELSE arr[i].val]
    BY DEF Tree, Hole
  <2> QED
    BY <1>2, <1>3, <2>1, <2>2 DEF Swap
<1> QED
  BY <1>6, <1>9, <1>10

\* The item in hand is put into the hole.
LEMMA PlaceKeeps ==
    ASSUME Inv, Sifting, Place
    PROVE  TypeOK' /\ Refs' /\ Tree' = Tree /\ size' = size /\ pc' = "idle"
<1>1. /\ arr' = [arr EXCEPT ![pos] = item]
      /\ heap_idx' = [e \in Ents |-> IF e = dropped THEN NoIdx
                                     ELSE IF e = item.ref THEN pos ELSE heap_idx[e]]
      /\ pc' = "idle" /\ pos' = 0 /\ item' = None /\ dropped' = None
      /\ size' = size /\ ~Sifting'
  BY DEF Place, Sifting
<1>2. /\ pos \in 0 .. size - 1 /\ pos \in Nat /\ item \in Items /\ item.ref \in Ents
      /\ size \in Nat
  BY ItemShape DEF Inv
<1>3. \A i \in 0 .. size - 1 : arr'[i] = IF i = pos THEN item ELSE arr[i]
  BY <1>1 DEF Inv, TypeOK
<1>4. item.ref # dropped
  BY DEF Inv, Refs
<1>5. TypeOK'
  <2>1. heap_idx' \in [Ents -> Nat \cup {NoIdx}]
    BY <1>1, <1>2 DEF Inv, TypeOK
  <2> QED
    BY <1>1, <1>2, <2>1 DEF Inv, TypeOK
<1>6. SlotsKnown'
  <2> SUFFICES ASSUME NEW i \in 0 .. size - 1
               PROVE  arr'[i].ref # None /\ heap_idx'[arr'[i].ref] = i
    BY <1>1 DEF SlotsKnown, Hole, InHand
  <2>1. CASE i = pos
    BY <1>1, <1>2, <1>3, <1>4, <2>1, HeapAssumption
  <2>2. CASE i # pos
    <3>1. arr[i].ref # dropped /\ arr[i].ref # item.ref /\ heap_idx[arr[i].ref] = i
          /\ arr[i].ref \in Ents
      BY <2>2, ItemShape DEF Inv, Refs, SlotsKnown, Hole, InHand
    <3> QED
      BY <1>1, <1>3, <2>2, <3>1, HeapAssumption
  <2> QED
    BY <2>1, <2>2
<1>7. EntriesKnown'
  <2> SUFFICES ASSUME NEW e \in Ents, heap_idx'[e] # NoIdx
               PROVE  heap_idx'[e] \in 0 .. size - 1 /\ arr'[heap_idx'[e]].ref = e
    BY <1>1 DEF EntriesKnown, Hole, InHand
  <2>1. CASE e = item.ref
    BY <1>1, <1>2, <1>3, <1>4, <2>1
  <2>2. CASE e # item.ref
    <3>1. e # dropped /\ heap_idx'[e] = heap_idx[e]
      BY <1>1, <2>2
    <3>2. heap_idx[e] \in 0 .. size - 1 /\ heap_idx[e] # pos /\ arr[heap_idx[e]].ref = e
      BY <2>2, <3>1 DEF Inv, Refs, EntriesKnown, Hole, InHand
    <3> QED
      BY <1>3, <3>1, <3>2
  <2> QED
    BY <2>1, <2>2
<1>8. Refs'
  BY <1>1, <1>6, <1>7 DEF Refs
<1>9. Tree' = Tree
  <2>1. Tree' = [i \in 0 .. size - 1 |-> arr'[i].val]
    BY <1>1 DEF Tree, Hole
  <2>2. Tree = [i \in 0 .. size - 1 |-> IF i = pos THEN item.val ELSE arr[i].val]
    BY DEF Tree, Hole
  <2> QED
    BY <1>3, <2>1, <2>2
<1> QED
  BY <1>1, <1>5, <1>8, <1>9
LEMMA UpKeeps ==
    ASSUME Inv, sift_up
    PROVE  Inv'
<1>1. pc = "up" /\ Sifting
  BY DEF sift_up, Sifting
<1>2. size \in Nat /\ Tree \in Trees(size) /\ pos \in 0 .. size - 1
      /\ OrderedAbove(Tree, size, pos)
  BY <1>1, ItemShape DEF Inv, Order
<1>3. Tree[pos] = item.val
  BY <1>1, <1>2 DEF Tree, Hole
<1>4. pos > 0 => /\ pos \in 1 .. size - 1
                 /\ Parent(pos) \in 0 .. size - 1 /\ Parent(pos) # pos
                 /\ Tree[Parent(pos)] = arr[Parent(pos)].val
  <2> SUFFICES ASSUME pos > 0
               PROVE  /\ pos \in 1 .. size - 1
                      /\ Parent(pos) \in 0 .. size - 1 /\ Parent(pos) # pos
                      /\ Tree[Parent(pos)] = arr[Parent(pos)].val
    OBVIOUS
  <2>1. pos \in 1 .. size - 1
    BY <1>2
  <2>2. Parent(pos) \in 0 .. size - 1 /\ Parent(pos) < pos
    BY <1>2, <2>1, InTree
  <2> QED
    BY <1>2, <2>1, <2>2 DEF Tree, Hole
<1>5. CASE pos > 0 /\ arr[Parent(pos)].val > item.val
  <2>1. Shift(Parent(pos)) /\ pos' = Parent(pos) /\ size' = size /\ pc' = "up"
    BY <1>1, <1>5 DEF sift_up, Shift
  <2>2. TypeOK' /\ Refs' /\ Tree' = Swap(Tree, pos, Parent(pos))
    BY <1>1, <1>4, <1>5, <2>1, ShiftKeeps
  <2>3. OrderedAbove(Swap(Tree, pos, Parent(pos)), size, Parent(pos))
    BY <1>2, <1>3, <1>4, <1>5, UpStep
  <2> QED
    BY <2>1, <2>2, <2>3 DEF Inv, Order
<1>6. CASE ~(pos > 0 /\ arr[Parent(pos)].val > item.val)
  <2>1. Place
    BY <1>1, <1>6 DEF sift_up
  <2>2. TypeOK' /\ Refs' /\ Tree' = Tree /\ size' = size /\ pc' = "idle"
    BY <1>1, <2>1, PlaceKeeps
  <2>3. Ordered(Tree, size)
    BY <1>2, <1>3, <1>4, <1>6, UpDone
  <2> QED
    BY <2>2, <2>3 DEF Inv, Order
<1> QED
  BY <1>5, <1>6

\* MinPos is the smaller child, if one is smaller than the item.
LEMMA MinPosFacts ==
    ASSUME Inv, pc = "down"
    PROVE  /\ MinPos # pos =>
                /\ MinPos \in 1 .. size - 1 /\ Parent(MinPos) = pos
                /\ Tree[MinPos] < Tree[pos]
                /\ \A i \in 1 .. size - 1 : Parent(i) = pos => Tree[MinPos] <= Tree[i]
           /\ MinPos = pos => \A i \in 1 .. size - 1 : Parent(i) = pos => Tree[pos] <= Tree[i]
<1> DEFINE l == Left(pos)
           r == Right(pos)
<1>1. Sifting
  BY DEF Sifting
<1>2. /\ size \in Nat /\ pos \in 0 .. size - 1 /\ pos \in Nat
      /\ item.val \in Nat /\ Tree[pos] = item.val
      /\ \A i \in 0 .. size - 1 : arr[i].val \in Nat
      /\ \A i \in 0 .. size - 1 : i # pos => Tree[i] = arr[i].val
  BY <1>1, ItemShape DEF Inv, Tree, Hole
<1>3. /\ l \in Nat /\ l > pos /\ Parent(l) = pos
      /\ r \in Nat /\ r > pos /\ Parent(r) = pos
      /\ \A i \in Nat \ {0} : Parent(i) = pos => i = l \/ i = r
  BY <1>2, ChildFacts
<1>4. MinPos = IF r < size /\ arr[r].val < (IF l < size /\ arr[l].val < item.val
                                           THEN arr[l].val ELSE item.val) THEN r
               ELSE IF l < size /\ arr[l].val < item.val THEN l ELSE pos
  BY DEF MinPos
<1> HIDE DEF l, r
<1>5. /\ l < size => l \in 1 .. size - 1 /\ Tree[l] = arr[l].val /\ arr[l].val \in Nat
      /\ r < size => r \in 1 .. size - 1 /\ Tree[r] = arr[r].val /\ arr[r].val \in Nat
  BY <1>2, <1>3
<1>6. \A i \in 1 .. size - 1 : Parent(i) = pos => (i = l /\ l < size) \/ (i = r /\ r < size)
  BY <1>2, <1>3
<1>7. CASE MinPos = pos
  <2>1. (l < size => item.val <= arr[l].val) /\ (r < size => item.val <= arr[r].val)
    BY <1>2, <1>3, <1>4, <1>5, <1>7
  <2> QED
    BY <1>2, <1>5, <1>6, <1>7, <2>1
<1>8. CASE MinPos = l /\ l < size /\ arr[l].val < item.val /\ MinPos # pos
  <2>1. r < size => arr[l].val <= arr[r].val
    BY <1>2, <1>3, <1>4, <1>5, <1>8
  <2> QED
    BY <1>2, <1>3, <1>5, <1>6, <1>8, <2>1
<1>9. CASE MinPos = r /\ r < size /\ arr[r].val < item.val /\ MinPos # pos
           /\ (l < size => arr[r].val <= arr[l].val)
  BY <1>2, <1>3, <1>5, <1>6, <1>9
<1> QED
  BY <1>2, <1>3, <1>4, <1>5, <1>7, <1>8, <1>9

LEMMA DownKeeps ==
    ASSUME Inv, sift_down
    PROVE  Inv'
<1>1. pc = "down" /\ Sifting
  BY DEF sift_down, Sifting
<1>2. size \in Nat /\ Tree \in Trees(size) /\ pos \in 0 .. size - 1
      /\ OrderedBelow(Tree, size, pos)
  BY <1>1, ItemShape DEF Inv, Order
<1>3. CASE MinPos # pos
  <2> DEFINE q == MinPos
  <2>1. Shift(q) /\ pos' = q /\ size' = size /\ pc' = "down"
    BY <1>1, <1>3 DEF sift_down, Shift
  <2>2. /\ q \in 1 .. size - 1 /\ Parent(q) = pos /\ Tree[q] < Tree[pos] /\ q # pos
        /\ \A i \in 1 .. size - 1 : Parent(i) = pos => Tree[q] <= Tree[i]
    BY <1>1, <1>3, MinPosFacts
  <2> HIDE DEF q
  <2>3. TypeOK' /\ Refs' /\ Tree' = Swap(Tree, pos, q)
    BY <1>1, <1>2, <2>1, <2>2, ShiftKeeps
  <2>4. OrderedBelow(Swap(Tree, pos, q), size, q)
    BY <1>2, <2>2, DownStep
  <2> QED
    BY <2>1, <2>3, <2>4 DEF Inv, Order
<1>4. CASE MinPos = pos
  <2>1. Place
    BY <1>1, <1>4 DEF sift_down
  <2>2. TypeOK' /\ Refs' /\ Tree' = Tree /\ size' = size /\ pc' = "idle"
    BY <1>1, <2>1, PlaceKeeps
  <2>3. Ordered(Tree, size)
    BY <1>1, <1>2, <1>4, MinPosFacts, DownDone
  <2> QED
    BY <2>2, <2>3 DEF Inv, Order
<1> QED
  BY <1>3, <1>4

LEMMA Inductive ==
    ASSUME Inv, [Next]_vars
    PROVE  Inv'
<1>1. CASE \E e \in Ents, v \in Vals : entry_set_ttl(e, v)
  BY <1>1, SetKeeps
<1>2. CASE \E e \in Ents : entry_remove_ttl(e)
  BY <1>2, RemoveKeeps
<1>3. CASE sift_up
  BY <1>3, UpKeeps
<1>4. CASE sift_down
  BY <1>4, DownKeeps
<1>5. CASE UNCHANGED vars
  BY <1>5 DEF vars, Inv, TypeOK, Refs, SlotsKnown, EntriesKnown, Order, Tree, Hole, InHand,
              Sifting
<1> QED
  BY <1>1, <1>2, <1>3, <1>4, <1>5 DEF Next

LEMMA Invariance == Spec => []Inv
<1>1. Inv /\ [Next]_vars => Inv'
  BY Inductive
<1> QED
  BY InitHolds, <1>1, PTL DEF Spec
-----------------------------------------------------------------------------
(* The theorems.                                                           *)

\* Every variable has its type.
THEOREM TypeCorrect == Spec => []TypeOK
<1>1. Inv => TypeOK
  BY DEF Inv
<1> QED
  BY Invariance, <1>1, PTL

\* Between calls to heap_upsert() and heap_delete(), an entry's heap_idx is the
\* slot of its item, and of no other entry's; no assertion of these functions
\* on the index fails.
THEOREM IndicesCorrect == Spec => []BackReferences
<1>1. Inv => pc # "assert"
  BY DEF Inv, Refs
<1>2. Inv => BackReferences
  BY <1>1, IdleRefs DEF BackReferences
<1> QED
  BY Invariance, <1>2, PTL

\* The numbers are well-founded: what a proof by induction on slots uses.
LEMMA LeastElement ==
    ASSUME NEW S, S \subseteq Nat, S # {}
    PROVE  \E x \in S : \A y \in S : x <= y
<1> DEFINE LessThan == {ss \in Nat \X Nat : ss[1] < ss[2]}
<1>1. IsWellFoundedOn(LessThan, Nat)
  BY NatLessThanWellFounded DEF OpToRel
<1>2. PICK x \in S : \A y \in S : <<y, x>> \notin LessThan
  BY <1>1, WFMin
<1>3. ASSUME NEW y \in S
      PROVE  x <= y
  <2>1. <<y, x>> \in Nat \X Nat /\ <<y, x>>[1] = y /\ <<y, x>>[2] = x
    OBVIOUS
  <2>2. ~(y < x)
    BY <1>2, <2>1
  <2> QED
    BY <2>2
<1> QED
  BY <1>3

\* If every item is at least its parent, none is below the root.
LEMMA RootOfOrdered ==
    ASSUME NEW n \in Nat, NEW b \in Trees(n), Ordered(b, n), NEW i \in 0 .. n - 1
    PROVE  b[0] <= b[i]
<1> DEFINE S == {j \in 0 .. n - 1 : ~(b[0] <= b[j])}
<1> SUFFICES ASSUME S # {}
             PROVE  FALSE
  OBVIOUS
<1>1. PICK j \in S : \A k \in S : j <= k
  <2>1. S \subseteq Nat
    OBVIOUS
  <2> QED
    BY <2>1, LeastElement
<1>2. j \in 1 .. n - 1 /\ b[0] \in Nat /\ ~(b[0] <= b[j])
  BY DEF Trees
<1>3. /\ Parent(j) \in 0 .. n - 1 /\ Parent(j) < j
      /\ b[Parent(j)] \in Nat /\ b[j] \in Nat
  BY <1>2, InTree
<1>4. b[Parent(j)] <= b[j]
  BY <1>2 DEF Ordered, Edge
<1>5. Parent(j) \in S
  BY <1>2, <1>3, <1>4
<1> QED
  BY <1>1, <1>3, <1>5

\* The item that the timers look at is the earliest: next_timer_ms() does not
\* sleep past a deadline, and process_timers() does not leave an expired entry
\* behind one that has not.
THEOREM RootCorrect == Spec => []RootIsEarliest
<1>1. Inv => RootIsEarliest
  <2> SUFFICES ASSUME Inv, pc = "idle", NEW i \in 0 .. size - 1
               PROVE  arr[0].val <= arr[i].val
    BY DEF RootIsEarliest
  <2>1. size \in Nat /\ Tree \in Trees(size)
    BY ItemShape DEF Inv
  <2>2. /\ Ordered(Tree, size)
        /\ \A j \in 0 .. size - 1 : Tree[j] = arr[j].val
    BY IdleRefs
  <2>3. Tree[0] <= Tree[i] /\ 0 \in 0 .. size - 1
    BY <2>1, <2>2, RootOfOrdered
  <2> QED
    BY <2>2, <2>3
<1> QED
  BY Invariance, <1>1, PTL

-----------------------------------------------------------------------------
(* The refinement.                                                         *)

Held == [e \in {x \in Ents : Holds(x)} |-> Deadline(e)]

LEMMA SetRefines ==
    ASSUME Inv, NEW e \in Ents, NEW v \in Vals, entry_set_ttl(e, v)
    PROVE  Abstract!Put(e, v)
<1>1. /\ pc = "idle" /\ dropped = None /\ ~Sifting /\ e # None
      /\ heap_upsert(e, [val |-> v, ref |-> e])
  BY IdleRefs, HeapAssumption DEF entry_set_ttl
<1>2. /\ item'.ref = e /\ item'.val = v /\ Sifting' /\ dropped' = None
      /\ heap_idx' = heap_idx
      /\ \A x \in Ents : x # e /\ heap_idx[x] # NoIdx => arr'[heap_idx[x]] = arr[heap_idx[x]]
  <2>1. CASE heap_idx[e] \in 0 .. size - 1
    <3>1. /\ arr' = [arr EXCEPT ![heap_idx[e]] = [val |-> v, ref |-> e]]
          /\ item' = [val |-> v, ref |-> e] /\ Sifting' /\ dropped' = dropped
          /\ heap_idx' = heap_idx
      BY <1>1, <2>1 DEF heap_upsert, sift, Sifting
    <3>2. \A x \in Ents : x # e /\ heap_idx[x] # NoIdx => heap_idx[x] # heap_idx[e]
      BY <1>1, <2>1, IdleRefs DEF NoIdx
    <3> QED
      BY <1>1, <3>1, <3>2 DEF Inv, TypeOK
  <2>2. CASE heap_idx[e] = NoIdx
    <3>1. /\ arr' = [i \in 0 .. size |-> IF i = size THEN [val |-> v, ref |-> e] ELSE arr[i]]
          /\ item' = [val |-> v, ref |-> e] /\ Sifting' /\ dropped' = dropped
          /\ heap_idx' = heap_idx /\ size \in Nat
      BY <1>1, <2>2 DEF heap_upsert, sift, Sifting, NoIdx, Inv, TypeOK
    <3>2. \A x \in Ents : heap_idx[x] # NoIdx =>
             heap_idx[x] \in 0 .. size - 1
      BY <1>1, IdleRefs
    <3>3. \A i \in 0 .. size - 1 : arr'[i] = arr[i]
      BY <3>1
    <3> QED
      BY <1>1, <3>1, <3>2, <3>3
  <2> QED
    BY <1>1, <2>1, <2>2, IdleRefs
<1>3. \A x \in Ents : x # None
  BY HeapAssumption
<1>4. ASSUME NEW x \in Ents
      PROVE  /\ Holds(x)' <=> x = e \/ Holds(x)
             /\ x = e => Deadline(x)' = v
             /\ x # e /\ Holds(x) => Deadline(x)' = Deadline(x)
  BY <1>1, <1>2, <1>3 DEF Holds, Deadline
<1>5. Held' = [x \in DOMAIN Held \cup {e} |-> IF x = e THEN v ELSE Held[x]]
  <2>1. Held' = [x \in {y \in Ents : Holds(y)'} |-> Deadline(x)']
    BY DEF Held
  <2>2. {y \in Ents : Holds(y)'} = {y \in Ents : Holds(y)} \cup {e}
    BY <1>4
  <2> QED
    BY <1>4, <2>1, <2>2 DEF Held
<1> QED
  BY <1>5 DEF Abstract!Put, Held

LEMMA RemoveRefines ==
    ASSUME Inv, NEW e \in Ents, entry_remove_ttl(e)
    PROVE  Abstract!Drop(e)
<1> DEFINE p == heap_idx[e]
           y == arr[size - 1]
<1>1. /\ pc = "idle" /\ dropped = None /\ ~Sifting /\ e # None
      /\ p \in 0 .. size - 1 /\ arr[p].ref = e /\ size \in Nat
  BY IdleRefs, HeapAssumption DEF entry_remove_ttl, Inv, TypeOK
<1>2. /\ arr' = [i \in 0 .. size - 2 |-> IF i = p THEN y ELSE arr[i]]
      /\ IF p = size - 1
         THEN heap_idx' = [heap_idx EXCEPT ![e] = NoIdx] /\ ~Sifting' /\ dropped' = None
         ELSE heap_idx' = heap_idx /\ item' = y /\ Sifting' /\ dropped' = e
  BY <1>1 DEF entry_remove_ttl, WasLast, sift, Sifting
<1>3. \A x \in Ents : heap_idx[x] # NoIdx =>
         heap_idx[x] \in 0 .. size - 1 /\ arr[heap_idx[x]].ref = x
  BY <1>1, IdleRefs
<1>4. e \in DOMAIN Held
  BY <1>1, <1>3 DEF Held, Holds, entry_remove_ttl
<1>5. y.ref \in Ents /\ heap_idx[y.ref] = size - 1
  BY <1>1, IdleRefs
<1>6. \A x \in Ents : x # e /\ heap_idx[x] # NoIdx /\ heap_idx[x] # size - 1 =>
         arr'[heap_idx[x]] = arr[heap_idx[x]]
  BY <1>1, <1>2, <1>3
<1>7. \A x \in Ents : heap_idx[x] = size - 1 => arr[heap_idx[x]] = y /\ x = y.ref
  BY <1>1, <1>3 DEF NoIdx
<1> HIDE DEF p, y
<1>8. ASSUME NEW x \in Ents
      PROVE  /\ Holds(x)' <=> x # e /\ Holds(x)
             /\ x # e /\ Holds(x) => Deadline(x)' = Deadline(x)
  <2>1. x # None /\ (Holds(x) <=> heap_idx[x] # NoIdx) /\ Deadline(x) = arr[heap_idx[x]].val
    BY <1>1, HeapAssumption DEF Holds, Deadline
  <2>2. CASE p = size - 1
    <3>1. heap_idx'[x] = IF x = e THEN NoIdx ELSE heap_idx[x]
      BY <1>2, <2>2 DEF Inv, TypeOK
    <3>2. x # e /\ heap_idx[x] # NoIdx => heap_idx[x] # size - 1
      BY <1>1, <1>3, <2>2
    <3> QED
      BY <1>2, <1>6, <2>1, <2>2, <3>1, <3>2 DEF Holds, Deadline
  <2>3. CASE p # size - 1
    <3>1. y.ref # e /\ heap_idx[y.ref] # NoIdx
      BY <1>1, <1>5, <2>3 DEF p, NoIdx
    <3> QED
      BY <1>2, <1>5, <1>6, <1>7, <2>1, <2>3, <3>1 DEF Holds, Deadline
  <2> QED
    BY <2>2, <2>3
<1>9. Held' = [x \in DOMAIN Held \ {e} |-> Held[x]]
  <2>1. Held' = [x \in {z \in Ents : Holds(z)'} |-> Deadline(x)']
    BY DEF Held
  <2>2. {z \in Ents : Holds(z)'} = {z \in Ents : Holds(z)} \ {e}
    BY <1>8
  <2> QED
    BY <1>8, <2>1, <2>2 DEF Held
<1> QED
  BY <1>4, <1>9 DEF Abstract!Drop, Held

LEMMA ShiftRefines ==
    ASSUME Inv, Sifting, NEW q \in 0 .. size - 1, q # pos, Shift(q)
    PROVE  Held' = Held
<1>1. /\ arr' = [arr EXCEPT ![pos] = arr[q]]
      /\ heap_idx' = [heap_idx EXCEPT ![arr[q].ref] = pos]
      /\ item' = item /\ dropped' = dropped /\ Sifting'
      /\ pos \in 0 .. size - 1 /\ pos \in Nat
  BY ItemShape DEF Shift, Sifting, Inv
<1>2. arr[q].ref \in Ents /\ heap_idx[arr[q].ref] = q
  BY ItemShape DEF Inv, Refs, SlotsKnown, Hole
<1>3. ASSUME NEW x \in Ents
      PROVE  /\ Holds(x)' <=> Holds(x)
             /\ Holds(x) => Deadline(x)' = Deadline(x)
  <2>1. heap_idx'[x] = IF x = arr[q].ref THEN pos ELSE heap_idx[x]
    BY <1>1 DEF Inv, TypeOK
  <2>2. Holds(x)' <=> Holds(x)
    BY <1>1, <1>2, <2>1 DEF Holds, NoIdx
  <2>3. ASSUME Holds(x), x # item.ref
        PROVE  arr'[heap_idx'[x]] = arr[heap_idx[x]]
    <3>1. heap_idx[x] \in 0 .. size - 1 /\ heap_idx[x] # pos
      BY <2>3 DEF Inv, Refs, EntriesKnown, Hole, InHand, Holds
    <3> QED
      BY <1>1, <1>2, <2>1, <3>1 DEF Inv, TypeOK
  <2> QED
    BY <1>1, <2>2, <2>3 DEF Deadline
<1>4. {x \in Ents : Holds(x)'} = {x \in Ents : Holds(x)}
  BY <1>3
<1>5. Held' = [x \in {y \in Ents : Holds(y)'} |-> Deadline(x)']
  BY DEF Held
<1> QED
  BY <1>3, <1>4, <1>5 DEF Held

LEMMA PlaceRefines ==
    ASSUME Inv, Sifting, Place
    PROVE  Held' = Held
<1>1. /\ arr' = [arr EXCEPT ![pos] = item]
      /\ heap_idx' = [e \in Ents |-> IF e = dropped THEN NoIdx
                                     ELSE IF e = item.ref THEN pos ELSE heap_idx[e]]
      /\ dropped' = None /\ ~Sifting'
      /\ pos \in 0 .. size - 1 /\ pos \in Nat
  BY ItemShape DEF Place, Sifting, Inv
<1>2. ASSUME NEW x \in Ents
      PROVE  /\ Holds(x)' <=> Holds(x)
             /\ Holds(x) => Deadline(x)' = Deadline(x)
  <2>1. x # None
    BY HeapAssumption
  <2>2. heap_idx'[x] = IF x = dropped THEN NoIdx
                       ELSE IF x = item.ref THEN pos ELSE heap_idx[x]
    BY <1>1
  <2>3. Holds(x)' <=> Holds(x)
    BY <1>1, <2>1, <2>2 DEF Holds, NoIdx
  <2>4. CASE x = item.ref
    BY <1>1, <2>2, <2>3, <2>4 DEF Deadline, Holds, Inv, TypeOK
  <2>5. CASE x # item.ref
    <3>1. Holds(x) => heap_idx'[x] = heap_idx[x] /\ heap_idx[x] \in 0 .. size - 1
                      /\ heap_idx[x] # pos
      BY <2>2, <2>5 DEF Inv, Refs, EntriesKnown, Hole, InHand, Holds
    <3> QED
      BY <1>1, <2>3, <2>5, <3>1 DEF Deadline, Inv, TypeOK
  <2> QED
    BY <2>4, <2>5
<1>3. {x \in Ents : Holds(x)'} = {x \in Ents : Holds(x)}
  BY <1>2
<1>4. Held' = [x \in {y \in Ents : Holds(y)'} |-> Deadline(x)']
  BY DEF Held
<1> QED
  BY <1>2, <1>3, <1>4 DEF Held

\* The array of heap.cpp and the indices of the entries implement the set of
\* deadlines that module Timers describes.
THEOREM HeapImplementsTimers == Spec => ImplementsTimers
<1>1. Init => Abstract!Init
  <2> SUFFICES ASSUME Init
               PROVE  Held = [e \in {} |-> 0]
    BY DEF Abstract!Init, Held
  <2>1. {x \in Ents : Holds(x)} = {}
    BY DEF Init, Holds, Sifting
  <2> QED
    BY <2>1 DEF Held
<1>2. ASSUME Inv, [Next]_vars
      PROVE  [Abstract!Next]_Held
  <2>1. CASE \E e \in Ents, v \in Vals : entry_set_ttl(e, v)
    BY <1>2, <2>1, SetRefines DEF Abstract!Next
  <2>2. CASE \E e \in Ents : entry_remove_ttl(e)
    BY <1>2, <2>2, RemoveRefines DEF Abstract!Next
  <2>3. ASSUME NEW q, Shift(q), (pc = "up" /\ q = Parent(pos) /\ pos > 0)
                                \/ (pc = "down" /\ q = MinPos /\ q # pos)
        PROVE  Held' = Held
    <3>1. Sifting /\ size \in Nat /\ pos \in 0 .. size - 1 /\ Tree \in Trees(size)
      BY <1>2, <2>3, ItemShape DEF Inv, Sifting
    <3>2. CASE pc = "up"
      <4>1. pos \in 1 .. size - 1 /\ q = Parent(pos)
        BY <2>3, <3>1, <3>2
      <4>2. q \in 0 .. size - 1 /\ q # pos
        BY <3>1, <4>1, InTree
      <4> QED
        BY <1>2, <2>3, <3>1, <4>2, ShiftRefines
    <3>3. CASE pc = "down"
      <4>1. q \in 1 .. size - 1 /\ q # pos
        BY <1>2, <2>3, <3>3, MinPosFacts
      <4> QED
        BY <1>2, <2>3, <3>1, <4>1, ShiftRefines
    <3> QED
      BY <2>3, <3>2, <3>3
  <2>4. ASSUME Sifting, Place
        PROVE  Held' = Held
    BY <1>2, <2>4, PlaceRefines
  <2>5. CASE sift_up
    BY <2>3, <2>4, <2>5 DEF sift_up, Sifting
  <2>6. CASE sift_down
    BY <2>3, <2>4, <2>6 DEF sift_down, Sifting
  <2>7. CASE UNCHANGED vars
    BY <2>7 DEF vars, Held, Holds, Deadline, Sifting
  <2> QED
    BY <1>2, <2>1, <2>2, <2>5, <2>6, <2>7 DEF Next
<1>3. Inv /\ [Next]_vars => [Abstract!Next]_Held
  BY <1>2
<1> QED
  BY Invariance, <1>1, <1>3, PTL DEF Spec, ImplementsTimers, Abstract!Spec, Held
=============================================================================
