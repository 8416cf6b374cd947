------------------------------- MODULE NodeSet -------------------------------
(***************************************************************************)
(* What the hash map of src/src/hashtable.cpp is to its callers: a set of  *)
(* nodes, one for each key that is in it.  HashMap implements it.          *)
(***************************************************************************)
CONSTANTS Keys, None

VARIABLES
    members,    \* the keys that have a node in the map
    reply       \* the last lookup or deletion and what it returned

vars == <<members, reply>>

Init == members = {} /\ reply = None

\* hm_insert(): the callers have looked k up before.
Insert(k) == k \notin members /\ members' = members \cup {k} /\ UNCHANGED reply

Reply(fn, k) == reply' = [fn |-> fn, key |-> k, found |-> k \in members]

\* hm_lookup().
Lookup(k) == Reply("lookup", k) /\ UNCHANGED members

\* hm_delete().
Delete(k) == Reply("delete", k) /\ members' = members \ {k}

\* hm_clear().
Clear == members' = {} /\ UNCHANGED reply

Next == Clear \/ \E k \in Keys : Insert(k) \/ Lookup(k) \/ Delete(k)

Spec == Init /\ [][Next]_vars
=============================================================================
