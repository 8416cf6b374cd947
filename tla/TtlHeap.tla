------------------------------- MODULE TtlHeap -------------------------------
(***************************************************************************)
(* The binary heap of deadlines of src/src/heap.cpp, with the indices that *)
(* entries keep into it (Entry::heap_idx), as used by entry_set_ttl() and  *)
(* entry_remove_ttl() of state.cpp.  An iteration of a sift loop is an     *)
(* action; nothing else happens until the loop has ended.                  *)
(***************************************************************************)
EXTENDS Integers

CONSTANTS
    Ents,       \* entries
    Vals,       \* deadlines
    None

ASSUME HeapAssumption == Vals \subseteq Nat /\ None \notin Ents

NoIdx == -1     \* (size_t)-1

Items == [val : Vals, ref : Ents]

VARIABLES
    arr,        \* the array: an item for each of 0..size-1
    size,       \* heap.size()
    heap_idx,   \* heap_idx[e]: where entry e believes its item to be
    pc,         \* "idle", the loop that is running, or "assert"
    pos, item,  \* the local variables of sift_up() and sift_down()
    dropped     \* the entry whose heap_idx entry_remove_ttl() resets at its end

vars == <<arr, size, heap_idx, pc, pos, item, dropped>>

Init ==
    /\ arr = [i \in {} |-> None] /\ size = 0
    /\ heap_idx = [e \in Ents |-> NoIdx]
    /\ pc = "idle" /\ pos = 0 /\ item = None /\ dropped = None

-----------------------------------------------------------------------------

Parent(i) == (i - 1) \div 2
Left(i) == i * 2 + 1
Right(i) == i * 2 + 2

\* Mutant of sift: an item that replaces another one only ever moves down.
sift_DownOnly(p, x) == pos' = p /\ item' = x /\ pc' = "down"

\* sift(), after x has been written to arr[p].
sift(p, x) ==
    /\ pos' = p /\ item' = x
    /\ pc' = IF p > 0 /\ arr'[Parent(p)].val > x.val THEN "up" ELSE "down"

AssertFails == pc' = "assert" /\ UNCHANGED <<arr, size, heap_idx, pos, item, dropped>>

heap_upsert(e, x) ==
    IF heap_idx[e] \in 0 .. size - 1
    THEN /\ arr' = [arr EXCEPT ![heap_idx[e]] = x]
         /\ sift(heap_idx[e], x)
         /\ UNCHANGED <<size, heap_idx, dropped>>
    ELSE IF heap_idx[e] = NoIdx
    THEN /\ arr' = [i \in 0..size |-> IF i = size THEN x ELSE arr[i]]
         /\ size' = size + 1
         /\ sift(size, x)
         /\ UNCHANGED <<heap_idx, dropped>>
    ELSE AssertFails

entry_set_ttl(e, v) ==
    /\ pc = "idle"
    /\ heap_upsert(e, [val |-> v, ref |-> e])

\* Mutant of WasLast: the index is compared before the pop.
WasLast_BeforePop(p) == p = size

\* pos == heap.size(), after the pop.
WasLast(p) == p = size - 1

\* heap_delete(): the last item takes the place of the one that goes.
entry_remove_ttl(e) ==
    /\ pc = "idle" /\ heap_idx[e] # NoIdx
    /\ LET p == heap_idx[e]
           last == arr[size - 1]
       IN  IF p \notin 0 .. size - 1 THEN AssertFails
           ELSE /\ arr' = [i \in 0 .. size - 2 |-> IF i = p THEN last ELSE arr[i]]
                /\ size' = size - 1
                /\ IF WasLast(p)
                   THEN /\ heap_idx' = [heap_idx EXCEPT ![e] = NoIdx]
                        /\ UNCHANGED <<pc, pos, item, dropped>>
                   ELSE /\ sift(p, last)
                        /\ dropped' = e
                        /\ UNCHANGED heap_idx

-----------------------------------------------------------------------------

\* Mutant of Shift: the entry that moves is not told.
Shift_Silently(q) ==
    /\ arr' = [arr EXCEPT ![pos] = arr[q]]
    /\ pos' = q
    /\ UNCHANGED <<size, heap_idx, pc, item, dropped>>

\* Mutant of Shift: the hole does not move.
Shift_Stays(q) ==
    /\ arr' = [arr EXCEPT ![pos] = arr[q]]
    /\ heap_idx' = [heap_idx EXCEPT ![arr[q].ref] = pos]
    /\ UNCHANGED <<size, pc, pos, item, dropped>>

\* arr[pos] = arr[q]; *arr[pos].ref = pos; pos = q
Shift(q) ==
    /\ arr' = [arr EXCEPT ![pos] = arr[q]]
    /\ heap_idx' = [heap_idx EXCEPT ![arr[q].ref] = pos]
    /\ pos' = q
    /\ UNCHANGED <<size, pc, item, dropped>>

\* Mutant of Place: the entry keeps the index of the item it had.
Place_KeepsIdx ==
    /\ arr' = [arr EXCEPT ![pos] = item]
    /\ heap_idx' = [heap_idx EXCEPT ![item.ref] = pos]
    /\ pc' = "idle" /\ pos' = 0 /\ item' = None /\ dropped' = None
    /\ UNCHANGED size

\* The end of the loop, and what is left of entry_remove_ttl().
Place ==
    /\ arr' = [arr EXCEPT ![pos] = item]
    /\ heap_idx' = [e \in Ents |-> IF e = dropped THEN NoIdx
                                   ELSE IF e = item.ref THEN pos ELSE heap_idx[e]]
    /\ pc' = "idle" /\ pos' = 0 /\ item' = None /\ dropped' = None
    /\ UNCHANGED size

sift_up ==
    /\ pc = "up"
    /\ IF pos > 0 /\ arr[Parent(pos)].val > item.val THEN Shift(Parent(pos)) ELSE Place

\* Where the smallest of the item and its children is.
MinPos ==
    LET l == Left(pos)
        r == Right(pos)
        lower == l < size /\ arr[l].val < item.val
    IN  IF r < size /\ arr[r].val < (IF lower THEN arr[l].val ELSE item.val) THEN r
        ELSE IF lower THEN l
        ELSE pos

sift_down ==
    /\ pc = "down"
    /\ IF MinPos # pos THEN Shift(MinPos) ELSE Place

Next ==
    \/ \E e \in Ents, v \in Vals : entry_set_ttl(e, v)
    \/ \E e \in Ents : entry_remove_ttl(e)
    \/ sift_up \/ sift_down

\* A loop of the only thread that uses the heap goes on.
Spec == Init /\ [][Next]_vars /\ WF_vars(sift_up \/ sift_down)

-----------------------------------------------------------------------------
(* Properties.                                                             *)

TypeOK ==
    /\ size \in Nat
    /\ arr \in [0 .. size - 1 -> Items]
    /\ heap_idx \in [Ents -> Nat \cup {NoIdx}]
    /\ pc \in {"idle", "up", "down", "assert"}
    /\ pc \in {"up", "down"} => pos \in 0 .. size - 1 /\ item \in Items
    /\ dropped \in Ents \cup {None}

\* Between calls every entry with a timer knows the slot of its item, every
\* slot's item belongs to the entry that points at it, and no other entry
\* believes that it has a timer; so the assertions of heap_delete() and
\* heap_upsert() on the index hold.
BackReferences ==
    /\ pc # "assert"
    /\ pc = "idle" =>
          /\ \A i \in 0 .. size - 1 : heap_idx[arr[i].ref] = i
          /\ \A e \in Ents : heap_idx[e] # NoIdx =>
                heap_idx[e] \in 0 .. size - 1 /\ arr[heap_idx[e]].ref = e

\* Between calls the item in the root, the only one that next_timer_ms() and
\* process_timers() look at, has the earliest deadline of all.
RootIsEarliest == pc = "idle" => \A i \in 0 .. size - 1 : arr[0].val <= arr[i].val

\* The deadlines that the heap holds, while a sift is in progress too: the
\* item in hand counts, and the entry that is being dropped does not.
Sifting == pc \in {"up", "down"}
Holds(e) == e # dropped /\ (heap_idx[e] # NoIdx \/ (Sifting /\ e = item.ref))
Deadline(e) == IF Sifting /\ e = item.ref THEN item.val ELSE arr[heap_idx[e]].val

Abstract == INSTANCE Timers WITH
    timers <- [e \in {x \in Ents : Holds(x)} |-> Deadline(e)]

\* Whatever the sifts do to the array, the heap holds the deadlines that were
\* set and not removed.
ImplementsTimers == Abstract!Spec

\* Every sift ends.
SiftEnds == Sifting ~> pc = "idle"
=============================================================================
