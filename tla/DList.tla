-------------------------------- MODULE DList --------------------------------
(***************************************************************************)
(* The circular doubly linked list of src/src/list.cpp, as operators on    *)
(* the links of all its nodes: l.prev[n] and l.next[n] are the two         *)
(* pointers of node n.  A list is named by its head, a node that is no     *)
(* member.                                                                 *)
(***************************************************************************)
EXTENDS Integers, Sequences

\* `DList *prev = NULL`: a node that was never linked.
Unlinked(nodes, null) ==
    [prev |-> [n \in nodes |-> null], next |-> [n \in nodes |-> null]]

dlist_init(l, node) ==
    [prev |-> [l.prev EXCEPT ![node] = node], next |-> [l.next EXCEPT ![node] = node]]

dlist_empty(l, node) == l.next[node] = node

\* The node's own pointers stay as they are.
dlist_detach(l, node) ==
    [prev |-> [l.prev EXCEPT ![l.next[node]] = l.prev[node]],
     next |-> [l.next EXCEPT ![l.prev[node]] = l.next[node]]]

\* Mutant of dlist_insert_before: the target keeps its old predecessor.
dlist_insert_before_OneWay(l, target, rookie) ==
    [prev |-> [l.prev EXCEPT ![rookie] = l.prev[target]],
     next |-> [l.next EXCEPT ![l.prev[target]] = rookie, ![rookie] = target]]

dlist_insert_before(l, target, rookie) ==
    [prev |-> [l.prev EXCEPT ![rookie] = l.prev[target], ![target] = rookie],
     next |-> [l.next EXCEPT ![l.prev[target]] = rookie, ![rookie] = target]]

-----------------------------------------------------------------------------

\* Following the links from the head visits the members of s in order and
\* comes back to the head; the way back is the same.
Represents(l, head, s) ==
    LET ring == <<head>> \o s \o <<head>>
    IN  \A i \in 1..(Len(s) + 1) :
          l.next[ring[i]] = ring[i + 1] /\ l.prev[ring[i + 1]] = ring[i]
=============================================================================
