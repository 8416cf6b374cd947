------------------------------- MODULE Timers --------------------------------
(***************************************************************************)
(* What the TTL heap of src/src/heap.cpp is to its callers: the deadlines  *)
(* of some entries.  This is the variable `heap' of Keyspace; TtlHeap      *)
(* implements it.                                                          *)
(***************************************************************************)
CONSTANTS Ents, Vals

VARIABLE timers     \* timers[e]: the deadline of entry e

Init == timers = [e \in {} |-> 0]

\* entry_set_ttl() and entry_remove_ttl().
Put(e, v) ==
    timers' = [x \in DOMAIN timers \cup {e} |-> IF x = e THEN v ELSE timers[x]]

Drop(e) ==
    /\ e \in DOMAIN timers
    /\ timers' = [x \in DOMAIN timers \ {e} |-> timers[x]]

Next == \E e \in Ents : Drop(e) \/ \E v \in Vals : Put(e, v)

Spec == Init /\ [][Next]_timers
=============================================================================
