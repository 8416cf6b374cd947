------------------------------- MODULE HashMap -------------------------------
(***************************************************************************)
(* The chained hash map of src/src/hashtable.cpp: two tables, of which the *)
(* older is migrated to the newer a few nodes per call.  An iteration of   *)
(* the migration loop is an action; nothing else happens until it ends.    *)
(* A node stands for its key: the callers (exec.cpp, zset.cpp) look a key  *)
(* up before they insert a node for it.                                    *)
(***************************************************************************)
EXTENDS Integers, Sequences, SequencesExt

CONSTANTS
    Keys, None,
    Hash,               \* Hash[k]: hcode, of the node of k and of a lookup of k
    InitSlots,          \* 4: the slots of the first table
    K_MAX_LOAD_FACTOR,  \* 8
    K_REHASH_WORK       \* 128

Ops == [fn : {"insert", "lookup", "delete"}, key : Keys]

ASSUME HashAssumption == None \notin Keys \cup Ops /\ Hash \in [Keys -> Nat]

\* Two slots at least: htab_foreach() takes a mask of 0 for a missing table.
ASSUME BoundsAssumption ==
    /\ InitSlots \in Nat \ {0, 1}
    /\ K_MAX_LOAD_FACTOR \in Nat \ {0}
    /\ K_REHASH_WORK \in Nat \ {0}

\* HTab: the chain of every slot, and the number of nodes in all of them.
NoTab == [tab |-> <<>>, mask |-> 0, size |-> 0]
IsNull(t) == t.tab = <<>>
Slots(t) == t.mask + 1

VARIABLES
    newer, older,   \* HTab
    migrate_pos,    \* the slot of older that is being migrated
    op,             \* the running call, of Ops, or None
    count,          \* nodes migrated by it so far
    reply           \* the last hm_lookup() or hm_delete() and what it returned

vars == <<newer, older, migrate_pos, op, count, reply>>

Init ==
    /\ newer = NoTab /\ older = NoTab /\ migrate_pos = 0
    /\ op = None /\ count = 0 /\ reply = None

-----------------------------------------------------------------------------
(* One table.                                                              *)

htab_init(n) == [tab |-> [i \in 0 .. n - 1 |-> <<>>], mask |-> n - 1, size |-> 0]

\* hcode & mask, the number of slots being a power of two.
htab_idx(t, k) == Hash[k] % Slots(t)

\* Chain c in slot i, and n nodes in the table.
WithChain(t, i, c, n) == [tab |-> [t.tab EXCEPT ![i] = c], mask |-> t.mask, size |-> n]

htab_insert(t, k) ==
    LET i == htab_idx(t, k) IN WithChain(t, i, <<k>> \o t.tab[i], t.size + 1)

\* htab_lookup(): is there a node for k in the only chain it can be in?
InTable(t, k) == ~IsNull(t) /\ k \in Range(t.tab[htab_idx(t, k)])

\* Mutant of Detach: the size is not reduced.
Detach_KeepsSize(t, i, k) == WithChain(t, i, RemoveFirst(t.tab[i], k), t.size)

\* htab_detach(), of the node of k from the chain of slot i.
Detach(t, i, k) == WithChain(t, i, RemoveFirst(t.tab[i], k), t.size - 1)

-----------------------------------------------------------------------------
(* The map.                                                                *)

Running(fn, k) == op' = [fn |-> fn, key |-> k] /\ count' = 0

\* Mutant of hm_trigger_rehash: the migration starts where the last one ended.
hm_trigger_rehash_KeepsPos(t) ==
    /\ older' = t
    /\ newer' = htab_init(Slots(t) * 2)
    /\ UNCHANGED migrate_pos

\* hm_trigger_rehash(), the newer table being t; its assertion is the first
\* condition of MustRehash.
hm_trigger_rehash(t) ==
    /\ older' = t
    /\ newer' = htab_init(Slots(t) * 2)
    /\ migrate_pos' = 0

\* Mutant of MustRehash: one node too late.
MustRehash_Late(t) == IsNull(older) /\ t.size > Slots(t) * K_MAX_LOAD_FACTOR

MustRehash(t) == IsNull(older) /\ t.size >= Slots(t) * K_MAX_LOAD_FACTOR

\* The nodes of a table, those that a walk over its chains meets.
Nodes(t) == UNION {Range(t.tab[i]) : i \in DOMAIN t.tab}

\* hm_insert(), up to the migration; k has been looked up and not found.
hm_insert(k) ==
    /\ op = None /\ k \notin Nodes(newer) \cup Nodes(older)
    /\ LET t == htab_insert(IF IsNull(newer) THEN htab_init(InitSlots) ELSE newer, k)
       IN  IF MustRehash(t) THEN hm_trigger_rehash(t)
           ELSE newer' = t /\ UNCHANGED <<older, migrate_pos>>
    /\ Running("insert", k)
    /\ UNCHANGED reply

\* hm_lookup() and hm_delete() begin with the migration.
Call(k) ==
    /\ op = None
    /\ \E fn \in {"lookup", "delete"} : Running(fn, k)
    /\ UNCHANGED <<newer, older, migrate_pos, reply>>

\* Mutant of Migrating: one node more than the batch.
Migrating_OneMore == op # None /\ count <= K_REHASH_WORK /\ older.size > 0

\* The condition of the loop of hm_progressive_rehash().
Migrating == op # None /\ count < K_REHASH_WORK /\ older.size > 0

\* Mutant of Skip: the loop looks at the same slot again.
Skip_Stays == UNCHANGED <<newer, older, migrate_pos, count>>

\* The slot has no node left.
Skip == migrate_pos' = migrate_pos + 1 /\ UNCHANGED <<newer, older, count>>

Move(k) ==
    /\ older' = Detach(older, migrate_pos, k)
    /\ newer' = htab_insert(newer, k)
    /\ count' = count + 1
    /\ UNCHANGED migrate_pos

\* An iteration of the loop.
hm_progressive_rehash ==
    /\ Migrating
    /\ LET chain == older.tab[migrate_pos]
       IN  IF chain = <<>> THEN Skip ELSE Move(Head(chain))
    /\ UNCHANGED <<op, reply>>

\* The older table at the end of hm_progressive_rehash().
Discarded == IF older.size = 0 THEN NoTab ELSE older

\* The node of k is returned, or NULL.
Answer(fn, k, found) == [fn |-> fn, key |-> k, found |-> found]

\* Mutant of Delete: the older table is not searched.
Delete_NewerOnly(k) ==
    /\ newer' = IF InTable(newer, k) THEN Detach(newer, htab_idx(newer, k), k) ELSE newer
    /\ older' = Discarded
    /\ reply' = Answer("delete", k, InTable(newer, k))

\* What hm_delete() does after the migration.
Delete(k) ==
    LET t == Discarded
        inNewer == InTable(newer, k)
        inOlder == ~inNewer /\ InTable(t, k)
    IN  /\ newer' = IF inNewer THEN Detach(newer, htab_idx(newer, k), k) ELSE newer
        /\ older' = IF inOlder THEN Detach(t, htab_idx(t, k), k) ELSE t
        /\ reply' = Answer("delete", k, inNewer \/ inOlder)

\* What hm_lookup() does after the migration.
Lookup(k) ==
    /\ older' = Discarded
    /\ reply' = Answer("lookup", k, InTable(newer, k) \/ InTable(Discarded, k))
    /\ UNCHANGED newer

Return ==
    /\ op # None /\ ~Migrating
    /\ CASE op.fn = "insert" -> older' = Discarded /\ UNCHANGED <<newer, reply>>
         [] op.fn = "lookup" -> Lookup(op.key)
         [] op.fn = "delete" -> Delete(op.key)
    /\ op' = None /\ count' = 0
    /\ UNCHANGED migrate_pos

hm_clear ==
    /\ op = None
    /\ newer' = NoTab /\ older' = NoTab /\ migrate_pos' = 0
    /\ UNCHANGED <<op, count, reply>>

Next ==
    \/ \E k \in Keys : hm_insert(k) \/ Call(k)
    \/ hm_progressive_rehash \/ Return \/ hm_clear

\* A call of the only thread that uses the map goes on.
Spec == Init /\ [][Next]_vars /\ WF_vars(hm_progressive_rehash \/ Return)

-----------------------------------------------------------------------------
(* What hm_size() and hm_foreach() tell their callers.                     *)

hm_size == newer.size + older.size

Chains(t) == IF t.mask = 0 THEN <<>> ELSE FlattenSeq([i \in 1 .. Slots(t) |-> t.tab[i - 1]])

\* The nodes in the order in which hm_foreach() passes them to the callback.
hm_foreach == Chains(newer) \o Chains(older)

-----------------------------------------------------------------------------
(* Properties.                                                             *)

IsTable(t) ==
    \/ t = NoTab
    \/ /\ t = [tab |-> t.tab, mask |-> t.mask, size |-> t.size]
       /\ t.mask \in Nat \ {0} /\ t.size \in Int
       /\ t.tab \in [0 .. t.mask -> Seq(Keys)]

TypeOK ==
    /\ IsTable(newer) /\ IsTable(older)
    /\ migrate_pos \in Nat /\ count \in 0 .. K_REHASH_WORK
    /\ op \in Ops \cup {None}
    /\ reply \in [fn : {"lookup", "delete"}, key : Keys, found : BOOLEAN] \cup {None}

\* The migration never reads past the end of the older table: its nodes are in
\* slots that are still to come, each in the slot of its hash code.
NothingLeftBehind ==
    /\ \A t \in {newer, older} : \A i \in DOMAIN t.tab :
          \A k \in Range(t.tab[i]) : i = htab_idx(t, k)
    /\ \A i \in DOMAIN older.tab : i < migrate_pos => older.tab[i] = <<>>
    /\ older.size > 0 => migrate_pos \in DOMAIN older.tab

\* Between calls hm_foreach() passes every node to the callback once, as many
\* as hm_size() says: exec_keys() announces that number before it lists them.
ForeachAgrees == op = None =>
    /\ Len(hm_foreach) = hm_size
    /\ IsInjective(hm_foreach)
    /\ Range(hm_foreach) = Nodes(newer) \cup Nodes(older)

\* Although hm_insert() does not look at the load of the newer table while a
\* migration is in progress, the table is never loaded to the threshold when
\* a call returns: the migration is over before it could be.
LoadBounded == op = None /\ ~IsNull(newer) =>
    newer.size < Slots(newer) * K_MAX_LOAD_FACTOR

Abstract == INSTANCE NodeSet WITH
    members <- (Nodes(newer) \cup Nodes(older))

\* However far the migration is, the two tables are one set of nodes, and the
\* calls return what the set holds.
ImplementsNodeSet == Abstract!Spec

\* Every call returns, however many empty slots the migration has to skip.
CallsReturn == op # None ~> op = None
=============================================================================
