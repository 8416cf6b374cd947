--------------------------- MODULE KeyspaceProofs ----------------------------
(***************************************************************************)
(* Theorems about Keyspace, for all sets of keys, values and addresses.    *)
(*                                                                         *)
(* Ownership is inductive together with the types.  The commands and the   *)
(* timers change entries only through the operators of state.cpp, so each  *)
(* of these has a lemma, and a command is the case split over them.        *)
(* The same operators, seen through the values and deadlines that entries  *)
(* stand for, make every step one of Store; the walk of zquery over the    *)
(* members of a sorted set needs the order and its positions besides.      *)
(***************************************************************************)
EXTENDS Keyspace, FunctionTheorems, FiniteSetTheorems,
        WellFoundedInduction, TLAPS

\* The part of the state that the operators of state.cpp work on.
DataTypeOK ==
    /\ db \in [Keys -> Addrs \cup {NULL}]
    /\ DOMAIN mem = Addrs
    /\ mem = [a \in Addrs |-> mem[a]]
    /\ \A a \in Addrs : mem[a] = Free \/ mem[a] \in Entries
    /\ DOMAIN heap \subseteq Addrs /\ \A a \in DOMAIN heap : heap[a] \in Nat
    /\ doomed \subseteq Addrs

DataInv == DataTypeOK /\ MapOwns /\ TimersPointBack /\ PoolOwns /\ NothingLost

-----------------------------------------------------------------------------

\* An entry is a record, and memory that is not free holds one.
LEMMA EntryShape ==
    ASSUME DataInv, NEW a \in Addrs, mem[a] # Free
    PROVE  /\ mem[a] \in Entries
           /\ mem[a].key \in Keys
           /\ mem[a].heap_idx \in BOOLEAN
           /\ mem[a].val \in Values
BY DEF DataInv, DataTypeOK, Entries

\* The entry of a key in the map.
LEMMA FoundEntry ==
    ASSUME DataInv, NEW k \in Keys, Found(k)
    PROVE  /\ db[k] \in Addrs /\ mem[db[k]] # Free /\ db[k] \notin doomed
           /\ mem[db[k]] \in Entries
           /\ mem[db[k]].key = k
           /\ mem[db[k]].val \in Values
<1>1. db[k] \in Addrs /\ mem[db[k]] # Free /\ db[k] \notin doomed
      /\ mem[db[k]].key = k
  BY DEF DataInv, DataTypeOK, MapOwns, Found
<1> QED
  BY <1>1, EntryShape

\* entry_new() at an address that is free: nothing can refer to it.
LEMMA NewKeeps ==
    ASSUME DataInv, NEW k \in Keys, ~Found(k), NEW v \in Values, entry_new(k, v)
    PROVE  DataInv'
<1> DEFINE e == [key |-> k, heap_idx |-> FALSE, val |-> v]
<1>1. PICK a \in Addrs \ Allocated :
         /\ mem' = [mem EXCEPT ![a] = e]
         /\ db' = [db EXCEPT ![k] = a]
         /\ UNCHANGED <<heap, doomed>>
  BY DEF entry_new
<1>2. e \in Entries /\ e # Free /\ e.key = k /\ ~e.heap_idx
  <2>1. e \in Entries
    BY DEF Entries
  <2>2. e # Free
    BY <2>1, FreeAssumption
  <2> QED
    BY <2>1, <2>2
<1> HIDE DEF e
<1>3. mem[a] = Free /\ a \in Addrs /\ a # NULL
  BY <1>1, KeyspaceAssumption DEF Allocated
<1>4. /\ \A b \in Addrs : mem'[b] = IF b = a THEN e ELSE mem[b]
      /\ \A l \in Keys : db'[l] = IF l = k THEN a ELSE db[l]
  BY <1>1 DEF DataInv, DataTypeOK
<1>5. DataTypeOK'
  BY <1>1, <1>2, <1>3, <1>4 DEF DataInv, DataTypeOK
<1>6. a \notin DOMAIN heap /\ a \notin doomed /\ \A l \in Keys : db[l] # a
  BY <1>3 DEF DataInv, MapOwns, TimersPointBack, PoolOwns
<1>7. \A b \in Addrs : b # a /\ mem[b] # Free => mem[b].key \in Keys
  BY EntryShape
<1>8. db[k] = NULL
  BY DEF Found
<1>9. MapOwns'
  BY <1>1, <1>2, <1>3, <1>4, <1>6 DEF DataInv, DataTypeOK, MapOwns
<1>10. TimersPointBack'
  BY <1>1, <1>3, <1>4, <1>6, <1>7, <1>8, KeyspaceAssumption
     DEF DataInv, DataTypeOK, TimersPointBack
<1>11. PoolOwns'
  BY <1>1, <1>4, <1>6 DEF DataInv, DataTypeOK, PoolOwns
<1>12. NothingLost'
  <2> SUFFICES ASSUME NEW b \in Addrs, mem'[b] # Free
               PROVE  /\ db'[mem'[b].key] = b \/ b \in doomed'
                      /\ mem'[b].heap_idx => b \in DOMAIN heap'
    BY DEF NothingLost, Allocated
  <2>1. CASE b = a
    BY <1>2, <1>4, <2>1
  <2>2. CASE b # a
    <3>1. mem'[b] = mem[b] /\ mem[b].key \in Keys /\ b \in Allocated
      BY <1>4, <1>7, <2>2 DEF Allocated
    <3>2. b # NULL
      BY KeyspaceAssumption
    <3> QED
      BY <1>1, <1>4, <1>8, <3>1, <3>2 DEF DataInv, NothingLost
  <2> QED
    BY <2>1, <2>2
<1> QED
  BY <1>5, <1>9, <1>10, <1>11, <1>12 DEF DataInv

-----------------------------------------------------------------------------

\* The entry of a key is overwritten - its value, or what it knows of its
\* timer - and the heap keeps in step with it.
LEMMA ReplaceKeeps ==
    ASSUME DataInv, NEW k \in Keys, Found(k), NEW e \in Entries, e.key = k,
           mem' = [mem EXCEPT ![db[k]] = e], UNCHANGED <<db, doomed>>,
           DOMAIN heap' = IF e.heap_idx THEN DOMAIN heap \cup {db[k]}
                                        ELSE DOMAIN heap \ {db[k]},
           \A b \in DOMAIN heap' : heap'[b] \in Nat
    PROVE  DataInv'
<1> DEFINE a == db[k]
<1>1. /\ a \in Addrs /\ mem[a] # Free /\ mem[a].key = k /\ a \notin doomed
  BY FoundEntry
<1>2. e # Free
  BY FreeAssumption
<1>3. \A b \in Addrs : mem'[b] = IF b = a THEN e ELSE mem[b]
  BY <1>1 DEF DataInv, DataTypeOK
<1>4. db[k] = a
  OBVIOUS
<1> HIDE DEF a
<1>5. DataTypeOK'
  BY <1>1, <1>3, <1>4 DEF DataInv, DataTypeOK
<1>6. \A b \in Addrs : /\ mem'[b] = Free <=> mem[b] = Free
                      /\ mem'[b].key = mem[b].key
  BY <1>1, <1>2, <1>3
<1>7. \A b \in Addrs : b # a => mem'[b] = mem[b]
  BY <1>3
<1>8. mem'[a] = e
  BY <1>1, <1>3
<1>9. MapOwns'
  BY <1>6 DEF DataInv, DataTypeOK, MapOwns
<1>10. TimersPointBack'
  <2> SUFFICES ASSUME NEW b \in DOMAIN heap'
               PROVE  mem'[b] # Free /\ mem'[b].heap_idx /\ db[mem'[b].key] = b
    BY DEF TimersPointBack
  <2>1. CASE b = a
    BY <1>2, <1>4, <1>8, <2>1
  <2>2. CASE b # a
    <3>1. b \in DOMAIN heap /\ b \in Addrs
      BY <1>4, <2>2 DEF DataInv, DataTypeOK
    <3> QED
      BY <1>7, <2>2, <3>1 DEF DataInv, TimersPointBack
  <2> QED
    BY <2>1, <2>2
<1>11. PoolOwns'
  BY <1>6 DEF DataInv, DataTypeOK, PoolOwns
<1>12. NothingLost'
  <2> SUFFICES ASSUME NEW b \in Addrs, mem'[b] # Free
               PROVE  /\ db[mem'[b].key] = b \/ b \in doomed
                      /\ mem'[b].heap_idx => b \in DOMAIN heap'
    BY DEF NothingLost, Allocated
  <2>1. CASE b = a
    BY <1>4, <1>8, <2>1
  <2>2. CASE b # a
    <3>1. mem'[b] = mem[b] /\ b \in Allocated
      BY <1>7, <2>2 DEF Allocated
    <3> QED
      BY <1>4, <2>2, <3>1 DEF DataInv, NothingLost
  <2> QED
    BY <2>1, <2>2
<1> QED
  BY <1>5, <1>9, <1>10, <1>11, <1>12 DEF DataInv

\* A value replaced in place.
LEMMA UpdateKeeps ==
    ASSUME DataInv, NEW k \in Keys, Found(k), NEW v \in Values, NEW r, Update(k, v, r)
    PROVE  DataInv'
<1> DEFINE a == db[k]
           e == [mem[a] EXCEPT !.val = v]
<1>1. /\ a \in Addrs /\ mem[a] # Free /\ mem[a] \in Entries /\ mem[a].key = k
  BY FoundEntry
<1>2. mem' = [mem EXCEPT ![a] = e] /\ UNCHANGED <<db, heap, doomed>>
  BY <1>1 DEF Update, DataInv, DataTypeOK
<1>3. e \in Entries /\ e.key = k
  BY <1>1 DEF Entries
<1>4. e.heap_idx <=> mem[a].heap_idx
  BY <1>1 DEF Entries
<1>5. mem[a].heap_idx <=> a \in DOMAIN heap
  BY <1>1 DEF DataInv, TimersPointBack, NothingLost, Allocated
<1> HIDE DEF e
<1>6. DOMAIN heap' = IF e.heap_idx THEN DOMAIN heap \cup {a} ELSE DOMAIN heap \ {a}
  BY <1>2, <1>4, <1>5
<1>7. \A b \in DOMAIN heap' : heap'[b] \in Nat
  BY <1>2 DEF DataInv, DataTypeOK
<1> QED
  BY <1>2, <1>3, <1>6, <1>7, ReplaceKeeps

\* entry_set_ttl().
LEMMA SetTtlKeeps ==
    ASSUME DataInv, NEW k \in Keys, Found(k), NEW ms \in Nat, now \in Nat,
           entry_set_ttl(db[k], ms), UNCHANGED <<db, doomed>>
    PROVE  DataInv'
<1> DEFINE a == db[k]
           e == [mem[a] EXCEPT !.heap_idx = TRUE]
<1>1. /\ a \in Addrs /\ mem[a] # Free /\ mem[a] \in Entries /\ mem[a].key = k
  BY FoundEntry
<1>2. mem' = [mem EXCEPT ![a] = e]
  BY <1>1 DEF entry_set_ttl, DataInv, DataTypeOK
<1>3. e \in Entries /\ e.key = k /\ e.heap_idx
  BY <1>1 DEF Entries
<1> HIDE DEF e
<1>4. DOMAIN heap' = DOMAIN heap \cup {a}
  BY DEF entry_set_ttl, With
<1>5. \A b \in DOMAIN heap' : heap'[b] \in Nat
  BY DEF entry_set_ttl, With, DataInv, DataTypeOK
<1> QED
  BY <1>2, <1>3, <1>4, <1>5, ReplaceKeeps

\* entry_remove_ttl() of an entry with a timer.
LEMMA RemoveTtlKeeps ==
    ASSUME DataInv, NEW k \in Keys, HasTimer(k),
           entry_remove_ttl(db[k]), UNCHANGED <<db, doomed>>
    PROVE  DataInv'
<1> DEFINE a == db[k]
           e == [mem[a] EXCEPT !.heap_idx = FALSE]
<1>1. /\ a \in Addrs /\ mem[a] # Free /\ mem[a] \in Entries /\ mem[a].key = k
      /\ mem[a].heap_idx /\ Found(k)
  BY FoundEntry DEF HasTimer, Ent
<1>2. mem' = [mem EXCEPT ![a] = e]
  BY <1>1 DEF entry_remove_ttl, DataInv, DataTypeOK
<1>3. e \in Entries /\ e.key = k /\ ~e.heap_idx
  BY <1>1 DEF Entries
<1> HIDE DEF e
<1>4. heap' = Without(heap, a)
  BY <1>1 DEF entry_remove_ttl
<1>5. DOMAIN heap' = DOMAIN heap \ {a}
  BY <1>4 DEF Without
<1>6. \A b \in DOMAIN heap' : heap'[b] \in Nat
  BY <1>4 DEF Without, DataInv, DataTypeOK
<1> QED
  BY <1>1, <1>2, <1>3, <1>5, <1>6, ReplaceKeeps

\* entry_del() of an entry that hm_delete() has taken out of the map.
LEMMA DeleteKeeps ==
    ASSUME DataInv, NEW k \in Keys, Found(k), entry_del(db[k]),
           db' = [db EXCEPT ![k] = NULL]
    PROVE  DataInv'
<1> DEFINE a == db[k]
<1>1. /\ a \in Addrs /\ mem[a] # Free /\ mem[a] \in Entries /\ mem[a].key = k
      /\ a \notin doomed /\ a # NULL
  BY FoundEntry, KeyspaceAssumption
<1>2. /\ DOMAIN heap' = DOMAIN heap \ {a}
      /\ \A b \in DOMAIN heap' : heap'[b] = heap[b]
  <2>1. a \in DOMAIN heap => mem[a].heap_idx
    BY DEF DataInv, TimersPointBack
  <2>2. heap' = IF mem[a].heap_idx THEN Without(heap, a) ELSE heap
    BY DEF entry_del
  <2> QED
    BY <2>1, <2>2 DEF Without
<1>3. \A l \in Keys : db'[l] = IF l = k THEN NULL ELSE db[l]
  BY DEF DataInv, DataTypeOK
<1>4. \A l \in Keys : db[l] = a => l = k
  BY <1>1 DEF DataInv, MapOwns
<1>5. a = db[k] /\ db' \in [Keys -> Addrs \cup {NULL}]
  BY DEF DataInv, DataTypeOK
<1>6. \A b \in Addrs : mem[b] # Free => mem[b].key \in Keys
  BY EntryShape
<1>7. CASE IsLarge(mem[a].val)
  <2> DEFINE e == [mem[a] EXCEPT !.heap_idx = FALSE]
  <2>1. mem' = [mem EXCEPT ![a] = e] /\ doomed' = doomed \cup {a}
    BY <1>1, <1>7 DEF entry_del, DataInv, DataTypeOK
  <2>2. e \in Entries /\ e.key = k /\ ~e.heap_idx
    BY <1>1 DEF Entries
  <2>3. e # Free
    BY <2>2, FreeAssumption
  <2>4. \A b \in Addrs : mem'[b] = IF b = a THEN e ELSE mem[b]
    BY <1>1, <2>1 DEF DataInv, DataTypeOK
  <2> HIDE DEF e, a
  <2>5. DataTypeOK'
    BY <1>1, <1>2, <1>5, <2>1, <2>2, <2>4 DEF DataInv, DataTypeOK
  <2>6. \A b \in Addrs : /\ mem'[b] = Free <=> mem[b] = Free
                        /\ mem'[b].key = mem[b].key
                        /\ (b # a => mem'[b] = mem[b])
    BY <1>1, <2>2, <2>3, <2>4
  <2>7. ~mem'[a].heap_idx
    BY <1>1, <2>2, <2>4
  <2>8. MapOwns'
    BY <1>3, <1>4, <2>1, <2>6 DEF DataInv, DataTypeOK, MapOwns
  <2>9. TimersPointBack'
    <3> SUFFICES ASSUME NEW b \in DOMAIN heap'
                 PROVE  mem'[b] # Free /\ mem'[b].heap_idx /\ db'[mem'[b].key] = b
      BY DEF TimersPointBack
    <3>1. b \in DOMAIN heap /\ b # a /\ b \in Addrs
      BY <1>2 DEF DataInv, DataTypeOK
    <3>2. mem[b] # Free /\ mem[b].heap_idx /\ db[mem[b].key] = b
      BY <3>1 DEF DataInv, TimersPointBack
    <3>3. mem[b].key \in Keys /\ mem[b].key # k
      BY <1>5, <1>6, <3>1, <3>2
    <3>4. mem'[b] = mem[b] /\ db'[mem[b].key] = db[mem[b].key]
      BY <1>3, <2>6, <3>1, <3>3
    <3> QED
      BY <3>4, <2>6, <3>1, <3>2, <3>3
  <2>10. PoolOwns'
    BY <1>1, <2>1, <2>6 DEF DataInv, DataTypeOK, PoolOwns
  <2>11. NothingLost'
    BY <1>2, <1>3, <1>5, <1>6, <2>1, <2>6, <2>7
       DEF DataInv, DataTypeOK, NothingLost, Allocated
  <2> QED
    BY <2>5, <2>8, <2>9, <2>10, <2>11 DEF DataInv
<1>8. CASE ~IsLarge(mem[a].val)
  <2>1. mem' = [mem EXCEPT ![a] = Free] /\ doomed' = doomed
    BY <1>8 DEF entry_del
  <2>2. \A b \in Addrs : mem'[b] = IF b = a THEN Free ELSE mem[b]
    BY <1>1, <2>1 DEF DataInv, DataTypeOK
  <2> HIDE DEF a
  <2>3. DataTypeOK'
    BY <1>1, <1>2, <1>5, <2>1, <2>2 DEF DataInv, DataTypeOK
  <2>4. MapOwns'
    BY <1>3, <1>4, <2>1, <2>2 DEF DataInv, DataTypeOK, MapOwns
  <2>5. TimersPointBack'
    BY <1>2, <1>3, <1>5, <1>6, <2>2 DEF DataInv, DataTypeOK, TimersPointBack
  <2>6. PoolOwns'
    BY <1>1, <2>1, <2>2 DEF DataInv, DataTypeOK, PoolOwns
  <2>7. NothingLost'
    BY <1>2, <1>3, <1>5, <1>6, <2>1, <2>2
       DEF DataInv, DataTypeOK, NothingLost, Allocated
  <2> QED
    BY <2>3, <2>4, <2>5, <2>6, <2>7 DEF DataInv
<1> QED
  BY <1>7, <1>8

\* A worker frees what nothing else refers to.
LEMMA ReclaimKeeps ==
    ASSUME DataInv, NEW a \in Addrs, Reclaim(a)
    PROVE  DataInv'
<1>1. /\ a \in doomed /\ mem' = [mem EXCEPT ![a] = Free]
      /\ doomed' = doomed \ {a} /\ UNCHANGED <<db, heap>>
  BY DEF Reclaim
<1>2. \A b \in Addrs : mem'[b] = IF b = a THEN Free ELSE mem[b]
  BY <1>1 DEF DataInv, DataTypeOK
<1>3. DataTypeOK'
  BY <1>1, <1>2 DEF DataInv, DataTypeOK
<1>4. a \notin DOMAIN heap /\ \A l \in Keys : db[l] # a
  <2>1. \A l \in Keys : db[l] # a
    BY <1>1, KeyspaceAssumption DEF DataInv, DataTypeOK, MapOwns
  <2>2. mem[a].key \in Keys
    BY <1>1, EntryShape DEF DataInv, PoolOwns
  <2> QED
    BY <2>1, <2>2 DEF DataInv, TimersPointBack
<1>5. MapOwns'
  BY <1>1, <1>2, <1>3, <1>4 DEF DataInv, DataTypeOK, MapOwns
<1>6. TimersPointBack'
  BY <1>1, <1>2, <1>3, <1>4 DEF DataInv, DataTypeOK, TimersPointBack
<1>7. PoolOwns'
  BY <1>1, <1>2, <1>3, <1>4 DEF DataInv, DataTypeOK, PoolOwns
<1>8. NothingLost'
  BY <1>1, <1>2, <1>3, <1>4 DEF DataInv, DataTypeOK, NothingLost, Allocated
<1> QED
  BY <1>3, <1>5, <1>6, <1>7, <1>8 DEF DataInv

-----------------------------------------------------------------------------
(* The commands.                                                           *)

LEMMA DataUnchanged ==
    ASSUME DataInv, UNCHANGED <<db, mem, heap, doomed>>
    PROVE  DataInv'
<1>1. db' = db /\ mem' = mem /\ heap' = heap /\ doomed' = doomed
  OBVIOUS
<1>2. DataTypeOK'
  BY <1>1 DEF DataInv, DataTypeOK
<1>3. MapOwns' /\ TimersPointBack' /\ PoolOwns'
  BY <1>1 DEF DataInv, MapOwns, TimersPointBack, PoolOwns
<1>4. NothingLost'
  BY <1>1 DEF DataInv, NothingLost, Allocated
<1> QED
  BY <1>2, <1>3, <1>4 DEF DataInv

LEMMA SaysKeeps ==
    ASSUME DataInv, NEW r, Says(r)
    PROVE  DataInv'
BY DataUnchanged DEF Says

\* A string, and a sorted set with a member more or less, is a value.
LEMMA ValueShapes ==
    /\ \A v \in Strings : StrVal(v) \in Values
    /\ \A z \in UNION {[S -> Scores] : S \in SUBSET Names} : ZsetVal(z) \in Values
BY DEF StrVal, ZsetVal, Values

LEMMA ZsetShape ==
    ASSUME NEW v \in Values, v.type = "zset"
    PROVE  \E S \in SUBSET Names : v.zset \in [S -> Scores]
BY DEF Values

LEMMA ZsetWith ==
    ASSUME NEW v \in Values, v.type = "zset", NEW n \in Names, NEW s \in Scores
    PROVE  ZsetVal(With(v.zset, n, s)) \in Values
<1>1. PICK S \in SUBSET Names : v.zset \in [S -> Scores]
  BY ZsetShape
<1>2. With(v.zset, n, s) \in [S \cup {n} -> Scores] /\ S \cup {n} \in SUBSET Names
  BY <1>1 DEF With
<1> QED
  BY <1>2, ValueShapes

LEMMA ZsetWithout ==
    ASSUME NEW v \in Values, v.type = "zset", NEW n \in Names
    PROVE  ZsetVal(Without(v.zset, n)) \in Values
<1>1. PICK S \in SUBSET Names : v.zset \in [S -> Scores]
  BY ZsetShape
<1>2. Without(v.zset, n) \in [S \ {n} -> Scores] /\ S \ {n} \in SUBSET Names
  BY <1>1 DEF Without
<1> QED
  BY <1>2, ValueShapes

LEMMA ZsetNew ==
    ASSUME NEW n \in Names, NEW s \in Scores
    PROVE  ZsetVal([m \in {n} |-> s]) \in Values
<1>1. [m \in {n} |-> s] \in [{n} -> Scores] /\ {n} \in SUBSET Names
  OBVIOUS
<1> QED
  BY <1>1, ValueShapes

LEMMA ReadKeeps ==
    ASSUME DataInv, NEW k \in Keys,
           \/ Get(k) \/ Pttl(k) \/ ListKeys
           \/ \E n \in Names : Zscore(k, n) \/ Zrank(k, n)
           \/ \E n, s, offset, limit : Zquery(k, s, n, offset, limit)
    PROVE  DataInv'
<1>1. CASE Get(k) \/ Pttl(k) \/ ListKeys \/ \E n \in Names : Zscore(k, n) \/ Zrank(k, n)
  <2>1. \E r : Says(r)
    BY <1>1 DEF Get, Pttl, ListKeys, Zscore, Zrank
  <2> QED
    BY <2>1, SaysKeeps
<1>2. CASE \E n, s, offset, limit : Zquery(k, s, n, offset, limit)
  <2>1. PICK n, s, offset, limit : Zquery(k, s, n, offset, limit)
    BY <1>2
  <2>2. \E r : Says(r)
    BY <2>1 DEF Zquery
  <2> QED
    BY <2>2, SaysKeeps
<1> QED
  BY <1>1, <1>2

LEMMA SetKeeps ==
    ASSUME DataInv, NEW k \in Keys, NEW v \in Strings, Set(k, v)
    PROVE  DataInv'
<1>1. CASE Says(BadType)
  BY <1>1, SaysKeeps
<1>2. CASE HasType(k, "str") /\ Update(k, StrVal(v), Nil)
  BY <1>2, UpdateKeeps, ValueShapes DEF HasType
<1>3. CASE ~Found(k) /\ entry_new(k, StrVal(v))
  BY <1>3, NewKeeps, ValueShapes
<1> QED
  BY <1>1, <1>2, <1>3 DEF Set

LEMMA DelKeeps ==
    ASSUME DataInv, NEW k \in Keys, Del(k)
    PROVE  DataInv'
<1>1. CASE Says(Int64(0))
  BY <1>1, SaysKeeps
<1>2. CASE Found(k) /\ entry_del(db[k]) /\ db' = [db EXCEPT ![k] = NULL]
  BY <1>2, DeleteKeeps
<1> QED
  BY <1>1, <1>2 DEF Del

LEMMA ZaddKeeps ==
    ASSUME DataInv, NEW k \in Keys, NEW n \in Names, NEW s \in Scores \cup {BadNumber},
           Zadd(k, n, s)
    PROVE  DataInv'
<1>1. CASE \E r : Says(r)
  BY <1>1, SaysKeeps
<1>2. CASE /\ s # BadNumber /\ HasType(k, "zset")
           /\ \E r : Update(k, ZsetVal(With(Ent(k).val.zset, n, s)), r)
  <2>1. Found(k) /\ Ent(k).val \in Values /\ Ent(k).val.type = "zset"
    BY <1>2, FoundEntry DEF HasType, Ent
  <2>2. ZsetVal(With(Ent(k).val.zset, n, s)) \in Values
    BY <1>2, <2>1, ZsetWith
  <2> QED
    BY <1>2, <2>1, <2>2, UpdateKeeps
<1>3. CASE s # BadNumber /\ ~Found(k) /\ entry_new(k, ZsetVal([m \in {n} |-> s]))
  BY <1>3, NewKeeps, ZsetNew
<1> QED
  BY <1>1, <1>2, <1>3 DEF Zadd

LEMMA ZremKeeps ==
    ASSUME DataInv, NEW k \in Keys, NEW n \in Names, Zrem(k, n)
    PROVE  DataInv'
<1>1. CASE \E r : Says(r)
  BY <1>1, SaysKeeps
<1>2. CASE /\ HasType(k, "zset")
           /\ Update(k, ZsetVal(Without(Ent(k).val.zset, n)), Int64(1))
  <2>1. Found(k) /\ Ent(k).val \in Values /\ Ent(k).val.type = "zset"
    BY <1>2, FoundEntry DEF HasType, Ent
  <2> QED
    BY <1>2, <2>1, ZsetWithout, UpdateKeeps
<1> QED
  BY <1>1, <1>2 DEF Zrem

LEMMA PexpireKeeps ==
    ASSUME DataInv, now \in Nat, NEW k \in Keys, NEW ms \in TTLs \cup {BadNumber},
           Pexpire(k, ms)
    PROVE  DataInv'
<1>1. CASE \E r : Says(r)
  BY <1>1, SaysKeeps
<1>2. CASE /\ ms # BadNumber /\ ms >= 0 /\ Found(k)
           /\ entry_set_ttl(db[k], ms) /\ UNCHANGED <<db, doomed>>
  <2>1. ms \in Nat
    BY <1>2, KeyspaceAssumption
  <2> QED
    BY <1>2, <2>1, SetTtlKeeps
<1> QED
  BY <1>1, <1>2 DEF Pexpire

LEMMA PersistKeeps ==
    ASSUME DataInv, NEW k \in Keys, Persist(k)
    PROVE  DataInv'
<1>1. CASE Says(Int64(0))
  BY <1>1, SaysKeeps
<1>2. CASE HasTimer(k) /\ entry_remove_ttl(db[k]) /\ UNCHANGED <<db, doomed>>
  BY <1>2, RemoveTtlKeeps
<1> QED
  BY <1>1, <1>2 DEF Persist

LEMMA CommandKeeps ==
    ASSUME DataInv, now \in Nat, Command
    PROVE  DataInv'
<1>1. CASE ListKeys \/ Unknown
  BY <1>1, SaysKeeps DEF ListKeys, Unknown
<1>2. CASE \E k \in Keys : Handler(k)
  <2>1. PICK k \in Keys : Handler(k)
    BY <1>2
  <2>2. CASE Get(k) \/ Pttl(k) \/ \E n \in Names : Zscore(k, n) \/ Zrank(k, n)
    BY <2>2, ReadKeeps
  <2>3. CASE Del(k) \/ Persist(k)
    BY <2>3, DelKeeps, PersistKeeps
  <2>4. CASE \E v \in Strings : Set(k, v)
    BY <2>4, SetKeeps
  <2>5. CASE \E ms \in TTLs \cup {BadNumber} : Pexpire(k, ms)
    BY <2>5, PexpireKeeps
  <2>6. CASE \E n \in Names : Zrem(k, n)
    BY <2>6, ZremKeeps
  <2>7. CASE \E n \in Names, s \in Scores \cup {BadNumber} : Zadd(k, n, s)
    BY <2>7, ZaddKeeps
  <2>8. CASE \E n \in Names, s \in Scores \cup {BadNumber} :
             \E offset \in Offsets \cup {BadNumber}, limit \in Limits \cup {BadNumber} :
                Zquery(k, s, n, offset, limit)
    BY <2>8, ReadKeeps
  <2> QED
    BY <2>1, <2>2, <2>3, <2>4, <2>5, <2>6, <2>7, <2>8 DEF Handler
<1> QED
  BY <1>1, <1>2 DEF Command

-----------------------------------------------------------------------------
(* The timers, and the whole.                                              *)

\* The inductive invariant: no assertion but that of pexpire ever fails.
Inv ==
    /\ DataInv
    /\ now \in Nat /\ now_ms \in Nat /\ nworks \in 0..MaxWorks
    /\ phase \in {"commands", "timers", "assert_ttl"}

LEMMA ExpireKeeps ==
    ASSUME Inv, ExpireOne
    PROVE  Inv'
<1>1. PICK a \in DOMAIN heap :
         /\ Due(a)
         /\ IF a \in Allocated /\ db[mem[a].key] = a
            THEN /\ db' = [db EXCEPT ![mem[a].key] = NULL]
                 /\ entry_del(a)
                 /\ nworks' = nworks + 1
                 /\ UNCHANGED phase
            ELSE phase' = "assert_node" /\ UNCHANGED <<db, mem, heap, doomed, nworks>>
  BY DEF ExpireOne
<1> DEFINE k == mem[a].key
<1>2. a \in Addrs /\ mem[a] # Free /\ db[k] = a /\ a # NULL
  BY KeyspaceAssumption DEF Inv, DataInv, DataTypeOK, TimersPointBack
<1>3. k \in Keys
  BY <1>2, EntryShape DEF Inv
<1>4. /\ Found(k) /\ entry_del(db[k]) /\ db' = [db EXCEPT ![k] = NULL]
      /\ nworks' = nworks + 1 /\ phase' = phase
  BY <1>1, <1>2 DEF Allocated, Found
<1> HIDE DEF k
<1>5. DataInv'
  BY <1>3, <1>4, DeleteKeeps DEF Inv
<1>6. nworks' \in 0..MaxWorks
  BY <1>1, <1>4, KeyspaceAssumption DEF Inv, Due
<1> QED
  BY <1>4, <1>5, <1>6 DEF Inv, ExpireOne

LEMMA InitHolds == Init => Inv
BY KeyspaceAssumption
   DEF Init, Inv, DataInv, DataTypeOK, MapOwns, TimersPointBack, PoolOwns,
       NothingLost, Allocated

LEMMA Inductive ==
    ASSUME Inv, [Next]_vars
    PROVE  Inv'
<1>1. CASE Command
  BY <1>1, CommandKeeps DEF Inv, Command, timers
<1>2. CASE Abort
  BY <1>2, DataUnchanged DEF Inv, Abort
<1>3. CASE TimersBegin
  BY <1>3, DataUnchanged, KeyspaceAssumption DEF Inv, TimersBegin
<1>4. CASE ExpireOne
  BY <1>4, ExpireKeeps
<1>5. CASE TimersEnd
  BY <1>5, DataUnchanged, KeyspaceAssumption DEF Inv, TimersEnd
<1>6. CASE \E a \in Addrs : Reclaim(a)
  BY <1>6, ReclaimKeeps DEF Inv, Reclaim, timers
<1>7. CASE Tick
  BY <1>7, DataUnchanged DEF Inv, Tick, timers
<1>8. CASE UNCHANGED vars
  BY <1>8, DataUnchanged DEF Inv, vars
<1> QED
  BY <1>1, <1>2, <1>3, <1>4, <1>5, <1>6, <1>7, <1>8 DEF Next

LEMMA Invariance == Spec => []Inv
<1>1. Inv /\ [Next]_vars => Inv'
  BY Inductive
<1> QED
  BY InitHolds, <1>1, PTL DEF Spec

\* Every variable has its type: in particular a heap item is the address of an
\* entry and carries a deadline that is not negative.
THEOREM TypeCorrect == Spec => []TypeOK
<1>1. Inv => TypeOK
  BY DEF Inv, DataInv, DataTypeOK, TypeOK
<1> QED
  BY Invariance, <1>1, PTL

\* Whatever commands, timers and workers do to entries (state.cpp, exec.cpp,
\* process_timers), an entry has one owner, no pointer dangles, and no entry
\* is lost.
THEOREM EntriesHaveOneOwner == Spec => []Ownership
<1>1. Inv => Ownership
  BY DEF Inv, DataInv, Ownership
<1> QED
  BY Invariance, <1>1, PTL

\* The assertion of process_timers() on the node it has popped never fails.
THEOREM RootAlwaysInMap == Spec => []RootIsInMap
<1>1. Inv => RootIsInMap
  BY DEF Inv, RootIsInMap
<1> QED
  BY Invariance, <1>1, PTL

-----------------------------------------------------------------------------
(* The order of a sorted set: scores, then names.  What znode_rank() counts *)
(* is a bijection between the members and their positions, so that the node *)
(* the C++ code reaches by walking the tree is the member at a position.    *)

Zsets ==
    {z \in UNION {[S -> Scores] : S \in SUBSET Names} : IsFiniteSet(DOMAIN z)}

\* The members before a score and a name.
Below(z, s, n) == {m \in DOMAIN z : Less(z, m, s, n)}

LEMMA LeastNumber ==
    ASSUME NEW S, S \subseteq Nat, S # {}
    PROVE  \E x \in S : \A y \in S : x <= y
<1> DEFINE LessThan == {ss \in Nat \X Nat : ss[1] < ss[2]}
<1>1. IsWellFoundedOn(LessThan, Nat)
  BY NatLessThanWellFounded DEF OpToRel
<1>2. PICK x \in S : \A y \in S : <<y, x>> \notin LessThan
  BY <1>1, WFMin
<1>3. ASSUME NEW y \in S
      PROVE  x <= y
  <2>1. <<y, x>> \in Nat \X Nat /\ <<y, x>>[1] = y /\ <<y, x>>[2] = x
    OBVIOUS
  <2> QED
    BY <1>2, <2>1
<1> QED
  BY <1>3

LEMMA ZsetFacts ==
    ASSUME NEW z \in Zsets
    PROVE  /\ DOMAIN z \subseteq Names /\ DOMAIN z \subseteq Int
           /\ IsFiniteSet(DOMAIN z) /\ NULL \notin DOMAIN z
           /\ Cardinality(DOMAIN z) \in Nat
           /\ \A m \in DOMAIN z : z[m] \in Int
<1>1. Cardinality(DOMAIN z) \in Nat
  BY FS_CardinalityType DEF Zsets
<1>2. PICK S \in SUBSET Names : z \in [S -> Scores]
  BY DEF Zsets
<1> QED
  BY <1>1, <1>2, OrderAssumption DEF Zsets

LEMMA BelowCount ==
    ASSUME NEW z \in Zsets, NEW s, NEW n
    PROVE  /\ IsFiniteSet(Below(z, s, n))
           /\ Cardinality(Below(z, s, n)) \in Nat
           /\ Cardinality(Below(z, s, n)) <= Cardinality(DOMAIN z)
           /\ Cardinality(Below(z, s, n)) = Cardinality(DOMAIN z)
                <=> Below(z, s, n) = DOMAIN z
<1>1. Below(z, s, n) \in SUBSET DOMAIN z
  BY DEF Below
<1>2. IsFiniteSet(DOMAIN z)
  BY ZsetFacts
<1> QED
  BY <1>1, <1>2, FS_Subset, FS_CardinalityType

LEMMA RankIsBelow ==
    ASSUME NEW z, NEW n
    PROVE  znode_rank(z, n) = Cardinality(Below(z, z[n], n))
BY DEF znode_rank, Below

\* The rank grows along the order.
LEMMA RankGrows ==
    ASSUME NEW z \in Zsets, NEW m \in DOMAIN z, NEW n \in DOMAIN z, Less(z, m, z[n], n)
    PROVE  znode_rank(z, m) < znode_rank(z, n)
<1> DEFINE A == Below(z, z[m], m)
           B == Below(z, z[n], n)
<1>1. A \subseteq B /\ m \in B /\ m \notin A
  BY ZsetFacts DEF Below, Less
<1>2. IsFiniteSet(A) /\ IsFiniteSet(B) /\ Cardinality(A) \in Nat /\ Cardinality(B) \in Nat
  BY BelowCount
<1>3. Cardinality(A) <= Cardinality(B) /\ Cardinality(A) # Cardinality(B)
  BY <1>1, <1>2, FS_Subset
<1>4. znode_rank(z, m) = Cardinality(A) /\ znode_rank(z, n) = Cardinality(B)
  BY RankIsBelow
<1> QED
  BY <1>2, <1>3, <1>4

\* A rank is the position of one member, and every position is a rank.
LEMMA RankIsAPosition ==
    ASSUME NEW z \in Zsets, NEW n \in DOMAIN z
    PROVE  znode_rank(z, n) \in 0..(Cardinality(DOMAIN z) - 1)
<1>1. n \in DOMAIN z /\ n \notin Below(z, z[n], n)
  BY ZsetFacts DEF Below, Less
<1> QED
  BY <1>1, RankIsBelow, BelowCount, ZsetFacts

LEMMA RankDetermines ==
    ASSUME NEW z \in Zsets, NEW m \in DOMAIN z, NEW n \in DOMAIN z,
           znode_rank(z, m) = znode_rank(z, n)
    PROVE  m = n
<1>1. m = n \/ Less(z, m, z[n], n) \/ Less(z, n, z[m], m)
  BY ZsetFacts DEF Less
<1>2. znode_rank(z, m) \in Int
  BY RankIsAPosition
<1> QED
  BY <1>1, <1>2, RankGrows

LEMMA PositionHasMember ==
    ASSUME NEW z \in Zsets, NEW i \in 0..(Cardinality(DOMAIN z) - 1)
    PROVE  \E n \in DOMAIN z : znode_rank(z, n) = i
<1> DEFINE c == Cardinality(DOMAIN z)
           f == [n \in DOMAIN z |-> znode_rank(z, n)]
<1>1. c \in Nat /\ IsFiniteSet(DOMAIN z)
  BY ZsetFacts
<1>2. f \in [DOMAIN z -> 0..(c - 1)]
  BY RankIsAPosition
<1>3. \A m, n \in DOMAIN z : f[m] = f[n] => m = n
  BY RankDetermines
<1>4. f \in Injection(DOMAIN z, 0..(c - 1))
  <2> HIDE DEF f, c
  <2> QED
    BY <1>2, <1>3, Fun_IsInj
<1>5. IsFiniteSet(0..(c - 1)) /\ Cardinality(0..(c - 1)) = c
  <2> HIDE DEF c
  <2>1. 0 \in Int /\ c - 1 \in Int
    BY <1>1
  <2>2. /\ IsFiniteSet(0..(c - 1))
        /\ Cardinality(0..(c - 1)) = IF 0 > c - 1 THEN 0 ELSE (c - 1) - 0 + 1
    BY <2>1, FS_Interval
  <2> QED
    BY <1>1, <2>2
<1>6. f \in Surjection(DOMAIN z, 0..(c - 1))
  <2> HIDE DEF f
  <2> QED
    BY <1>4, <1>5, FS_Injection
<1>7. \E n \in DOMAIN z : f[n] = i
  <2> HIDE DEF f
  <2> QED
    BY <1>6 DEF Surjection
<1> QED
  BY <1>7

-----------------------------------------------------------------------------
(* The walk of zquery: seek, offset, and the loop over the successors.     *)

Positions(z) == 0..(Cardinality(DOMAIN z) - 1)

\* zset_seek_ge() reaches the first member that does not come before (s, n).
LEMMA SeekReaches ==
    ASSUME NEW z \in Zsets, NEW s \in Int, NEW n \in Int
    PROVE  LET first == Cardinality(Below(z, s, n))
               node == zset_seek_ge(z, s, n)
           IN  /\ first \in Nat
               /\ first = Cardinality(DOMAIN z) => node = NULL
               /\ first # Cardinality(DOMAIN z) =>
                    node \in DOMAIN z /\ znode_rank(z, node) = first
<1> DEFINE first == Cardinality(Below(z, s, n))
           node == zset_seek_ge(z, s, n)
           from == {m \in DOMAIN z : ~Less(z, m, s, n)}
<1>1. /\ first \in Nat
      /\ first = Cardinality(DOMAIN z) <=> Below(z, s, n) = DOMAIN z
  BY BelowCount
<1>2. from = {} <=> Below(z, s, n) = DOMAIN z
  BY DEF Below
<1>3. CASE from = {}
  BY <1>1, <1>2, <1>3 DEF zset_seek_ge
<1>4. CASE from # {}
  <2>1. \E m \in from : \A l \in from : ~Less(z, l, z[m], m)
    <3> DEFINE R == {znode_rank(z, m) : m \in from}
    <3>1. R \subseteq Nat /\ R # {}
      BY <1>4, RankIsAPosition, ZsetFacts
    <3>2. PICK r \in R : \A q \in R : r <= q
      <4> HIDE DEF R
      <4> QED
        BY <3>1, LeastNumber
    <3>3. PICK m \in from : r = znode_rank(z, m)
      BY <3>2
    <3>4. ASSUME NEW l \in from, Less(z, l, z[m], m)
          PROVE  FALSE
      <4>1. znode_rank(z, l) < znode_rank(z, m)
        BY <3>4, RankGrows
      <4>2. znode_rank(z, l) \in Int /\ znode_rank(z, m) \in Int
        BY RankIsAPosition
      <4>3. r <= znode_rank(z, l)
        BY <3>2
      <4> QED
        BY <4>1, <4>2, <4>3, <3>3
    <3> QED
      BY <3>4
  <2>2. node \in from /\ \A l \in from : ~Less(z, l, z[node], node)
    <3>1. node = CHOOSE m \in from : \A l \in from : ~Less(z, l, z[m], m)
      BY <1>4 DEF zset_seek_ge
    <3> HIDE DEF from, node
    <3> QED
      BY <2>1, <3>1
  <2> HIDE DEF node
  <2>3. Below(z, z[node], node) = Below(z, s, n)
    <3>1. ASSUME NEW m \in DOMAIN z
          PROVE  Less(z, m, z[node], node) <=> Less(z, m, s, n)
      <4>1. node \in DOMAIN z /\ ~Less(z, node, s, n)
        BY <2>2
      <4>2. Less(z, m, z[node], node) => m \notin from
        BY <2>2
      <4>3. z[m] \in Int /\ z[node] \in Int /\ m \in Int /\ node \in Int
        BY <4>1, ZsetFacts
      <4>4. Less(z, m, s, n) => Less(z, m, z[node], node)
        BY <4>1, <4>3 DEF Less
      <4> QED
        BY <4>2, <4>4
    <3> QED
      BY <3>1 DEF Below
  <2>4. node \in DOMAIN z /\ znode_rank(z, node) = first
    BY <2>2, <2>3, RankIsBelow
  <2> QED
    BY <1>1, <1>2, <1>4, <2>4 DEF node
<1> HIDE DEF first
<1> QED
  BY <1>1, <1>3, <1>4 DEF first

\* znode_offset() reaches the member so many positions further, if there is one.
LEMMA OffsetReaches ==
    ASSUME NEW z \in Zsets, NEW node \in DOMAIN z, NEW offset \in Int
    PROVE  LET i == znode_rank(z, node) + offset
               next == znode_offset(z, node, offset)
           IN  /\ i \notin Positions(z) => next = NULL
               /\ i \in Positions(z) => next \in DOMAIN z /\ znode_rank(z, next) = i
<1> DEFINE i == znode_rank(z, node) + offset
           at == {m \in DOMAIN z : znode_rank(z, m) = i}
<1>1. node # NULL
  BY ZsetFacts
<1>2. znode_offset(z, node, offset) = IF at = {} THEN NULL ELSE CHOOSE m \in at : TRUE
  BY <1>1 DEF znode_offset
<1>3. at = {} <=> i \notin Positions(z)
  BY RankIsAPosition, PositionHasMember DEF Positions
<1> QED
  BY <1>2, <1>3

\* Cardinality of the module that Store extends is that of this one.
LEMMA SameCount == \A S : Abstract!Cardinality(S) = Cardinality(S)
BY DEF Abstract!Cardinality, Cardinality

\* The member at a position, for the store.
LEMMA MemberReached ==
    ASSUME NEW z \in Zsets, NEW node \in DOMAIN z
    PROVE  Abstract!Member(z, znode_rank(z, node)) = node
<1>1. \A n \in DOMAIN z : Abstract!Position(z, z[n], n) = znode_rank(z, n)
  BY SameCount DEF Abstract!Position, znode_rank, Less
<1>2. \A n \in DOMAIN z : znode_rank(z, n) = znode_rank(z, node) => n = node
  BY RankDetermines
<1> DEFINE i == znode_rank(z, node)
<1>3. i = znode_rank(z, node)
  OBVIOUS
<1> HIDE DEF i
<1> QED
  BY <1>1, <1>2, <1>3 DEF Abstract!Member

\* The members from a position on, while the limit lasts: two numbers a pair.
Smaller(a, b) == IF a < b THEN a ELSE b
PairAt(z, i) == LET m == Abstract!Member(z, i) IN <<m, z[m]>>

ListFrom(z, i, left) ==
    [j \in 1..Smaller(Cardinality(DOMAIN z) - i, (left + 1) \div 2) |-> PairAt(z, i + j - 1)]

ListFromNode(z, node, left) ==
    IF node = NULL \/ left = 0 THEN <<>> ELSE ListFrom(z, znode_rank(z, node), left)

Nodes(z) == DOMAIN z \cup {NULL}
Remaining(left) == IF left = 1 THEN 0 ELSE left - 2

Lists(z, rest) ==
    rest = [left \in Nat |->
               [node \in Nodes(z) |->
                   IF node = NULL \/ left = 0 THEN <<>>
                   ELSE <<<<node, z[node]>>>>
                        \o rest[Remaining(left)][znode_offset(z, node, 1)]]]

\* One turn of the loop.
LEMMA ListStep ==
    ASSUME NEW z \in Zsets, NEW node \in DOMAIN z, NEW left \in Nat \ {0}
    PROVE  ListFromNode(z, node, left)
             = <<<<node, z[node]>>>>
               \o ListFromNode(z, znode_offset(z, node, 1), Remaining(left))
<1> DEFINE c == Cardinality(DOMAIN z)
           i == znode_rank(z, node)
           next == znode_offset(z, node, 1)
           rem == Remaining(left)
           k == Smaller(c - i, (left + 1) \div 2)
           tail == ListFromNode(z, next, rem)
           l == IF next = NULL \/ rem = 0 THEN 0 ELSE Smaller(c - (i + 1), (rem + 1) \div 2)
<1>1. c \in Nat /\ i \in 0..(c - 1) /\ node # NULL
  BY RankIsAPosition, ZsetFacts
<1>2. PairAt(z, i) = <<node, z[node]>>
  BY MemberReached DEF PairAt
<1>3. /\ i + 1 \notin 0..(c - 1) => next = NULL
      /\ i + 1 \in 0..(c - 1) => next # NULL /\ next \in DOMAIN z /\ znode_rank(z, next) = i + 1
  BY OffsetReaches, ZsetFacts DEF Positions
<1>4. rem \in Nat
  BY DEF Remaining
<1>5. tail = [j \in 1..l |-> PairAt(z, i + 1 + j - 1)]
  <2>1. CASE next = NULL \/ rem = 0
    BY <2>1 DEF ListFromNode
  <2>2. CASE ~(next = NULL \/ rem = 0)
    BY <1>1, <1>3, <2>2 DEF ListFromNode, ListFrom
  <2> QED
    BY <2>1, <2>2
<1>6. k = l + 1 /\ l \in Nat
  <2> HIDE DEF c, i, next
  <2>1. CASE i + 1 \notin 0..(c - 1)
    BY <1>1, <1>3, <1>4, <2>1 DEF Smaller, Remaining
  <2>2. CASE i + 1 \in 0..(c - 1)
    BY <1>1, <1>3, <1>4, <2>2 DEF Smaller, Remaining
  <2> QED
    BY <2>1, <2>2
<1>7. ListFromNode(z, node, left) = [j \in 1..k |-> PairAt(z, i + j - 1)]
  BY <1>1 DEF ListFromNode, ListFrom
<1>8. tail = ListFromNode(z, znode_offset(z, node, 1), Remaining(left))
  OBVIOUS
<1> HIDE DEF c, i, next, rem, k, l, tail
<1>9. [j \in 1..k |-> PairAt(z, i + j - 1)] = <<PairAt(z, i)>> \o [j \in 1..l |-> PairAt(z, i + 1 + j - 1)]
  <2>1. \A j \in 1..k : PairAt(z, i + j - 1) =
          IF j = 1 THEN PairAt(z, i) ELSE PairAt(z, i + 1 + (j - 1) - 1)
    <3> TAKE j \in 1..k
    <3>1. CASE j = 1
      <4>1. i + j - 1 = i
        BY <1>1, <3>1
      <4> QED
        BY <3>1, <4>1
    <3>2. CASE j # 1
      <4>1. i + j - 1 = i + 1 + (j - 1) - 1
        BY <1>1, <1>6
      <4> QED
        BY <3>2, <4>1
    <3> QED
      BY <3>1, <3>2
  <2> QED
    BY <1>1, <1>6, <2>1
<1> QED
  BY <1>2, <1>5, <1>7, <1>8, <1>9

\* The recursion of Output has a solution, and only this one.
LEMMA NextIsNode ==
    ASSUME NEW z \in Zsets, NEW node \in DOMAIN z
    PROVE  znode_offset(z, node, 1) \in Nodes(z)
BY OffsetReaches DEF Nodes

LEMMA ListsExist ==
    ASSUME NEW z \in Zsets
    PROVE  \E rest : Lists(z, rest)
<1> DEFINE g == [left \in Nat |-> [node \in Nodes(z) |-> ListFromNode(z, node, left)]]
           turn(node, left) == IF node = NULL \/ left = 0 THEN <<>>
                               ELSE <<<<node, z[node]>>>>
                                    \o g[Remaining(left)][znode_offset(z, node, 1)]
<1>1. ASSUME NEW left \in Nat, NEW node \in Nodes(z)
      PROVE  ListFromNode(z, node, left) = turn(node, left)
  <2>1. CASE node = NULL \/ left = 0
    BY <2>1 DEF ListFromNode
  <2>2. CASE ~(node = NULL \/ left = 0)
    <3>1. node \in DOMAIN z /\ left \in Nat \ {0} /\ Remaining(left) \in Nat
      BY <2>2 DEF Nodes, Remaining
    <3>2. g[Remaining(left)][znode_offset(z, node, 1)]
            = ListFromNode(z, znode_offset(z, node, 1), Remaining(left))
      BY <3>1, NextIsNode
    <3> HIDE DEF g
    <3> QED
      BY <2>2, <3>1, <3>2, ListStep
  <2> QED
    BY <2>1, <2>2
<1>2. g = [left \in Nat |-> [node \in Nodes(z) |-> turn(node, left)]]
  <2>1. \A left \in Nat : g[left] = [node \in Nodes(z) |-> turn(node, left)]
    <3> TAKE left \in Nat
    <3>1. g[left] = [node \in Nodes(z) |-> ListFromNode(z, node, left)]
      OBVIOUS
    <3> HIDE DEF g, turn
    <3> QED
      BY <1>1, <3>1
  <2>2. g = [left \in Nat |-> g[left]]
    OBVIOUS
  <2> HIDE DEF g, turn
  <2> QED
    BY <2>1, <2>2
<1>3. Lists(z, g)
  <2> HIDE DEF g
  <2> QED
    BY <1>2 DEF Lists
<1> QED
  BY <1>3

LEMMA ListsAgree ==
    ASSUME NEW z \in Zsets, NEW rest, Lists(z, rest)
    PROVE  \A left \in Nat : \A node \in Nodes(z) :
              rest[left][node] = ListFromNode(z, node, left)
<1> DEFINE S == {left \in Nat : \E node \in Nodes(z) : rest[left][node] # ListFromNode(z, node, left)}
<1> SUFFICES ASSUME S # {}
             PROVE  FALSE
  OBVIOUS
<1>1. PICK left \in S : \A l \in S : left <= l
  <2>1. S \subseteq Nat
    OBVIOUS
  <2> HIDE DEF S
  <2> QED
    BY <2>1, LeastNumber
<1>2. PICK node \in Nodes(z) : rest[left][node] # ListFromNode(z, node, left)
  OBVIOUS
<1>3. rest[left][node] = IF node = NULL \/ left = 0 THEN <<>>
                         ELSE <<<<node, z[node]>>>>
                              \o rest[Remaining(left)][znode_offset(z, node, 1)]
  <2>1. left \in Nat
    OBVIOUS
  <2> HIDE DEF S
  <2>2. rest[left] = [m \in Nodes(z) |->
                        IF m = NULL \/ left = 0 THEN <<>>
                        ELSE <<<<m, z[m]>>>> \o rest[Remaining(left)][znode_offset(z, m, 1)]]
    BY <2>1 DEF Lists
  <2> QED
    BY <2>2
<1>4. node # NULL /\ left # 0
  BY <1>2, <1>3 DEF ListFromNode
<1>5. node \in DOMAIN z /\ left \in Nat \ {0}
  BY <1>4 DEF Nodes
<1>6. Remaining(left) \in Nat /\ Remaining(left) < left
  BY <1>5 DEF Remaining
<1>7. Remaining(left) \notin S
  <2> HIDE DEF S
  <2> QED
    BY <1>1, <1>5, <1>6
<1>8. rest[Remaining(left)][znode_offset(z, node, 1)]
        = ListFromNode(z, znode_offset(z, node, 1), Remaining(left))
  BY <1>5, <1>6, <1>7, NextIsNode
<1> HIDE DEF S
<1> QED
  BY <1>2, <1>3, <1>4, <1>5, <1>8, ListStep

LEMMA OutputIs ==
    ASSUME NEW z \in Zsets, NEW start \in Nodes(z), NEW limit \in Nat
    PROVE  Output(z, start, limit) = ListFromNode(z, start, limit)
<1> DEFINE rest == CHOOSE rest : Lists(z, rest)
<1>1. Lists(z, rest)
  BY ListsExist
<1>2. Output(z, start, limit) = rest[limit][start]
  BY DEF Output, Lists, Nodes, Remaining
<1> HIDE DEF rest
<1> QED
  BY <1>1, <1>2, ListsAgree

\* A query answers what the store lists.
LEMMA QueryIsListing ==
    ASSUME NEW z \in Zsets, NEW s \in Int, NEW n \in Int, NEW offset \in Int, NEW limit \in Int
    PROVE  Abstract!Listing(z, s, n, offset, limit)
             = IF limit <= 0 THEN <<>>
               ELSE Output(z, znode_offset(z, zset_seek_ge(z, s, n), offset), limit)
<1> DEFINE size == Cardinality(DOMAIN z)
           seek == Cardinality(Below(z, s, n))
           first == seek + offset
           left == IF seek < size /\ first \in 0..(size - 1) THEN size - first ELSE 0
           most == IF limit <= 0 THEN 0 ELSE (limit + 1) \div 2
           node == zset_seek_ge(z, s, n)
           start == znode_offset(z, node, offset)
<1>1. Abstract!Listing(z, s, n, offset, limit)
        = [i \in 1..(IF left < most THEN left ELSE most) |-> PairAt(z, first + i - 1)]
  <2>1. Abstract!Position(z, s, n) = seek
    BY SameCount DEF Abstract!Position, Below, Less
  <2>2. Abstract!Cardinality(DOMAIN z) = size
    BY SameCount
  <2> HIDE DEF size, seek
  <2> QED
    BY <2>1, <2>2 DEF Abstract!Listing, PairAt
<1>2. size \in Nat /\ seek \in Nat /\ seek <= size
  BY BelowCount, ZsetFacts
<1>3. CASE limit <= 0
  <2>1. (IF left < most THEN left ELSE most) = 0
    <3> HIDE DEF size, seek
    <3> QED
      BY <1>2, <1>3
  <2> HIDE DEF left, most, first
  <2> QED
    BY <1>1, <1>3, <2>1
<1>4. CASE ~(limit <= 0)
  <2>1. limit \in Nat \ {0} /\ most = (limit + 1) \div 2 /\ most \in Nat \ {0}
    BY <1>4
  <2>2. CASE seek < size /\ first \in 0..(size - 1)
    <3>1. node \in DOMAIN z /\ znode_rank(z, node) = seek
      BY <2>2, <1>2, SeekReaches
    <3>2. start \in DOMAIN z /\ znode_rank(z, start) = first
      <4> HIDE DEF node
      <4> QED
        BY <2>2, <3>1, OffsetReaches DEF Positions
    <3>3. start # NULL
      BY <3>2, ZsetFacts
    <3> HIDE DEF start
    <3>4. Output(z, start, limit) = ListFrom(z, first, limit)
      BY <2>1, <3>2, <3>3, OutputIs DEF ListFromNode, Nodes
    <3>5. Smaller(size - first, (limit + 1) \div 2) = IF left < most THEN left ELSE most
      <4> HIDE DEF size, seek, first
      <4> QED
        BY <2>1, <2>2 DEF Smaller
    <3> HIDE DEF first, left, most
    <3>6. Output(z, start, limit)
            = [i \in 1..(IF left < most THEN left ELSE most) |-> PairAt(z, first + i - 1)]
      BY <3>4, <3>5 DEF ListFrom
    <3> QED
      BY <1>1, <1>4, <3>6 DEF start, node
  <2>3. CASE ~(seek < size /\ first \in 0..(size - 1))
    <3>1. start = NULL
      <4>1. CASE seek = size
        <5>1. node = NULL
          BY <4>1, SeekReaches
        <5> HIDE DEF node
        <5> QED
          BY <5>1 DEF znode_offset
      <4>2. CASE seek # size
        <5>1. node \in DOMAIN z /\ znode_rank(z, node) = seek
          BY <4>2, SeekReaches
        <5>2. first \notin 0..(size - 1)
          <6> HIDE DEF first, seek, size
          <6> QED
            BY <1>2, <2>3, <4>2
        <5> HIDE DEF node
        <5> QED
          BY <5>1, <5>2, OffsetReaches DEF Positions
      <4> QED
        BY <4>1, <4>2
    <3> HIDE DEF start
    <3>2. Output(z, start, limit) = <<>>
      BY <2>1, <3>1, OutputIs DEF ListFromNode, Nodes
    <3>3. (IF left < most THEN left ELSE most) = 0
      BY <2>1, <2>3
    <3> HIDE DEF first, left, most
    <3> QED
      BY <1>1, <1>4, <3>2, <3>3 DEF start, node
  <2> QED
    BY <2>2, <2>3
<1> QED
  BY <1>3, <1>4

-----------------------------------------------------------------------------
(* The values and the deadlines that the entries stand for: what each      *)
(* operator of state.cpp does to them.                                     *)

Vals == [k \in {l \in Keys : Found(l)} |-> Ent(k).val]
Deadlines == [k \in {l \in Keys : Found(l) /\ db[l] \in DOMAIN heap} |-> heap[db[k]]]

LEMMA NewView ==
    ASSUME DataInv, NEW k \in Keys, ~Found(k), NEW v \in Values, entry_new(k, v)
    PROVE  Vals' = With(Vals, k, v) /\ Deadlines' = Deadlines
<1> DEFINE e == [key |-> k, heap_idx |-> FALSE, val |-> v]
<1>1. PICK a \in Addrs \ Allocated :
         /\ mem' = [mem EXCEPT ![a] = e]
         /\ db' = [db EXCEPT ![k] = a]
         /\ UNCHANGED <<heap, doomed>>
  BY DEF entry_new
<1>2. e.val = v
  OBVIOUS
<1> HIDE DEF e
<1>3. mem[a] = Free /\ a \in Addrs /\ a # NULL
  BY <1>1, KeyspaceAssumption DEF Allocated
<1>4. /\ \A b \in Addrs : mem'[b] = IF b = a THEN e ELSE mem[b]
      /\ \A l \in Keys : db'[l] = IF l = k THEN a ELSE db[l]
  BY <1>1, <1>3 DEF DataInv, DataTypeOK
<1>5. a \notin DOMAIN heap /\ \A l \in Keys : db[l] # a
  BY <1>3 DEF DataInv, MapOwns, TimersPointBack
<1>6. \A l \in Keys : l # k => /\ Found(l)' <=> Found(l)
                               /\ Found(l) => Ent(l)' = Ent(l)
  BY <1>4, <1>5, FoundEntry DEF Found, Ent
<1>7. Found(k)' /\ (Ent(k).val)' = v
  BY <1>2, <1>3, <1>4 DEF Found, Ent
<1>8. Vals' = With(Vals, k, v)
  BY <1>6, <1>7 DEF Vals, With
<1>9. \A l \in Keys : (Found(l) /\ db[l] \in DOMAIN heap)'
                         <=> Found(l) /\ db[l] \in DOMAIN heap
  BY <1>1, <1>4, <1>5, <1>6
<1>10. \A l \in Keys : Found(l) => db'[l] = db[l]
  BY <1>4
<1>11. Deadlines' = Deadlines
  BY <1>1, <1>9, <1>10 DEF Deadlines
<1> QED
  BY <1>8, <1>11

\* Only the entry of one key is overwritten.
LEMMA ReplaceView ==
    ASSUME DataInv, NEW k \in Keys, Found(k), NEW e,
           mem' = [mem EXCEPT ![db[k]] = e], UNCHANGED db
    PROVE  Vals' = With(Vals, k, e.val)
<1>1. db[k] \in Addrs
  BY FoundEntry
<1>2. \A l \in Keys : Found(l)' <=> Found(l)
  BY DEF Found
<1>3. \A l \in Keys : Found(l) /\ l # k => db[l] # db[k]
  BY FoundEntry
<1>4. \A l \in Keys : Found(l) /\ l # k => Ent(l)' = Ent(l)
  BY <1>3, FoundEntry DEF Ent, DataInv, DataTypeOK
<1>5. Ent(k)' = e
  BY <1>1 DEF Ent, DataInv, DataTypeOK
<1> QED
  BY <1>2, <1>4, <1>5 DEF Vals, With

LEMMA WithSame ==
    ASSUME NEW k \in Keys, Found(k)
    PROVE  With(Vals, k, Ent(k).val) = Vals
BY DEF With, Vals

LEMMA UpdateView ==
    ASSUME DataInv, NEW k \in Keys, Found(k), NEW v \in Values, NEW r, Update(k, v, r)
    PROVE  Vals' = With(Vals, k, v) /\ Deadlines' = Deadlines
<1> DEFINE e == [mem[db[k]] EXCEPT !.val = v]
<1>1. /\ db[k] \in Addrs /\ mem[db[k]] \in Entries
  BY FoundEntry
<1>2. mem' = [mem EXCEPT ![db[k]] = e] /\ UNCHANGED <<db, heap, doomed>>
  BY <1>1 DEF Update, DataInv, DataTypeOK
<1>3. e.val = v
  BY <1>1 DEF Entries
<1> HIDE DEF e
<1>4. Vals' = With(Vals, k, v)
  BY <1>2, <1>3, ReplaceView
<1>5. Deadlines' = Deadlines
  BY <1>2 DEF Deadlines, Found
<1> QED
  BY <1>4, <1>5

LEMMA SetTtlView ==
    ASSUME DataInv, NEW k \in Keys, Found(k), NEW ms \in Nat,
           entry_set_ttl(db[k], ms), UNCHANGED <<db, doomed>>
    PROVE  Vals' = Vals /\ Deadlines' = With(Deadlines, k, now + ms)
<1> DEFINE a == db[k]
           e == [mem[a] EXCEPT !.heap_idx = TRUE]
<1>1. a \in Addrs /\ mem[a] \in Entries
  BY FoundEntry
<1>2. mem' = [mem EXCEPT ![a] = e] /\ heap' = With(heap, a, now + ms)
  BY <1>1 DEF entry_set_ttl, DataInv, DataTypeOK
<1>3. e.val = Ent(k).val
  BY <1>1 DEF Entries, Ent
<1> HIDE DEF e
<1>4. Vals' = Vals
  BY <1>2, <1>3, ReplaceView, WithSame
<1>5. \A l \in Keys : Found(l) /\ l # k => db[l] # a
  BY FoundEntry
<1>6. \A l \in Keys : Found(l)' <=> Found(l)
  BY DEF Found
<1>7. a \in DOMAIN heap' /\ heap'[a] = now + ms
  BY <1>2 DEF With
<1>8. \A b : b # a => /\ b \in DOMAIN heap' <=> b \in DOMAIN heap
                      /\ b \in DOMAIN heap => heap'[b] = heap[b]
  BY <1>2 DEF With
<1>9. db' = db /\ db[k] = a /\ Found(k)
  OBVIOUS
<1> HIDE DEF a
<1>10. Deadlines' = With(Deadlines, k, now + ms)
  BY <1>5, <1>6, <1>7, <1>8, <1>9 DEF Deadlines, With
<1> QED
  BY <1>4, <1>10

\* The deadlines when an item is taken from the heap.
LEMMA DropView ==
    ASSUME DataInv, NEW k \in Keys, Found(k),
           DOMAIN heap' = DOMAIN heap \ {db[k]}, \A b \in DOMAIN heap' : heap'[b] = heap[b],
           \A l \in Keys : l # k => db'[l] = db[l],
           db'[k] = db[k] \/ db'[k] = NULL
    PROVE  Deadlines' = Without(Deadlines, k)
<1>1. \A l \in Keys : Found(l) /\ l # k => db[l] # db[k]
  BY FoundEntry
<1>2. \A l \in Keys : l # k => (Found(l)' <=> Found(l))
  BY DEF Found
<1>3. ~(Found(k) /\ db[k] \in DOMAIN heap)'
  BY DEF Found
<1>4. \A l \in Keys : (Found(l) /\ db[l] \in DOMAIN heap)'
                         <=> l # k /\ Found(l) /\ db[l] \in DOMAIN heap
  BY <1>1, <1>2, <1>3
<1>5. {l \in Keys : Found(l) /\ db[l] \in DOMAIN heap}'
        = {l \in Keys : Found(l) /\ db[l] \in DOMAIN heap} \ {k}
  BY <1>4
<1>6. \A l \in {m \in Keys : Found(m) /\ db[m] \in DOMAIN heap} \ {k} :
         heap'[db'[l]] = heap[db[l]]
  BY <1>1
<1> QED
  BY <1>5, <1>6 DEF Deadlines, Without

LEMMA RemoveTtlView ==
    ASSUME DataInv, NEW k \in Keys, HasTimer(k),
           entry_remove_ttl(db[k]), UNCHANGED <<db, doomed>>
    PROVE  Vals' = Vals /\ Deadlines' = Without(Deadlines, k)
<1> DEFINE a == db[k]
           e == [mem[a] EXCEPT !.heap_idx = FALSE]
<1>1. a \in Addrs /\ mem[a] \in Entries /\ mem[a].heap_idx /\ Found(k)
  BY FoundEntry DEF HasTimer, Ent
<1>2. mem' = [mem EXCEPT ![a] = e] /\ heap' = Without(heap, a)
  BY <1>1 DEF entry_remove_ttl, DataInv, DataTypeOK
<1>3. e.val = Ent(k).val
  BY <1>1 DEF Entries, Ent
<1> HIDE DEF e
<1>4. Vals' = Vals
  BY <1>1, <1>2, <1>3, ReplaceView, WithSame
<1>5. DOMAIN heap' = DOMAIN heap \ {a} /\ \A b \in DOMAIN heap' : heap'[b] = heap[b]
  BY <1>2 DEF Without
<1> QED
  BY <1>1, <1>4, <1>5, DropView

LEMMA DeleteView ==
    ASSUME DataInv, NEW k \in Keys, Found(k), entry_del(db[k]),
           db' = [db EXCEPT ![k] = NULL]
    PROVE  Vals' = Without(Vals, k) /\ Deadlines' = Without(Deadlines, k)
<1> DEFINE a == db[k]
<1>1. a \in Addrs /\ mem[a] # Free
  BY FoundEntry
<1>2. /\ DOMAIN heap' = DOMAIN heap \ {a}
      /\ \A b \in DOMAIN heap' : heap'[b] = heap[b]
  <2>1. a \in DOMAIN heap => mem[a].heap_idx
    BY DEF DataInv, TimersPointBack
  <2>2. heap' = IF mem[a].heap_idx THEN Without(heap, a) ELSE heap
    BY DEF entry_del
  <2> QED
    BY <2>1, <2>2 DEF Without
<1>3. \A l \in Keys : db'[l] = IF l = k THEN NULL ELSE db[l]
  BY DEF DataInv, DataTypeOK
<1>4. Deadlines' = Without(Deadlines, k)
  BY <1>2, <1>3, DropView
<1>5. \A b \in Addrs : b # a => mem'[b] = mem[b]
  <2>1. \/ mem' = [mem EXCEPT ![a] = [mem[a] EXCEPT !.heap_idx = FALSE]]
        \/ mem' = [mem EXCEPT ![a] = Free]
    BY <1>1 DEF entry_del, DataInv, DataTypeOK
  <2> QED
    BY <1>1, <2>1 DEF DataInv, DataTypeOK
<1>6. \A l \in Keys : Found(l) /\ l # k => db[l] # a /\ db[l] \in Addrs
  BY FoundEntry
<1>7. \A l \in Keys : Found(l)' <=> Found(l) /\ l # k
  BY <1>3 DEF Found
<1>8. \A l \in Keys : Found(l) /\ l # k => Ent(l)' = Ent(l)
  BY <1>3, <1>5, <1>6 DEF Ent
<1>9. {l \in Keys : Found(l)}' = {l \in Keys : Found(l)} \ {k}
  BY <1>7
<1>10. Vals' = Without(Vals, k)
  BY <1>8, <1>9 DEF Vals, Without
<1> QED
  BY <1>4, <1>10

\* A worker frees an entry that no key has.
LEMMA ReclaimView ==
    ASSUME DataInv, NEW a \in Addrs, Reclaim(a)
    PROVE  Vals' = Vals /\ Deadlines' = Deadlines
<1>1. a \in doomed /\ mem' = [mem EXCEPT ![a] = Free] /\ UNCHANGED <<db, heap>>
  BY DEF Reclaim
<1>2. \A l \in Keys : Found(l) => db[l] # a
  BY <1>1, FoundEntry
<1>3. \A l \in Keys : Found(l) => Ent(l)' = Ent(l)
  BY <1>1, <1>2, FoundEntry DEF Ent, DataInv, DataTypeOK
<1>4. \A l \in Keys : Found(l)' <=> Found(l)
  BY <1>1 DEF Found
<1>5. Vals' = Vals
  BY <1>3, <1>4 DEF Vals
<1>6. Deadlines' = Deadlines
  BY <1>1, <1>4 DEF Deadlines
<1> QED
  BY <1>5, <1>6

LEMMA SameView ==
    ASSUME UNCHANGED <<db, mem, heap>>
    PROVE  Vals' = Vals /\ Deadlines' = Deadlines
BY DEF Vals, Deadlines, Found, Ent

-----------------------------------------------------------------------------
(* A command does what the store promises.                                 *)

\* The invariant on values that makes positions and ranks meaningful.
ZsetsFinite ==
    \A a \in Allocated : mem[a].val.type = "zset" => IsFiniteSet(DOMAIN mem[a].val.zset)

\* What the store sees of a key.
LEMMA StoreReads ==
    ASSUME NEW k \in Keys
    PROVE  /\ Abstract!Exists(k) <=> Found(k)
           /\ \A type : Abstract!Wrong(k, type) <=> Found(k) /\ Ent(k).val.type # type
           /\ Abstract!Zset(k) = IF Found(k) THEN Ent(k).val.zset ELSE <<>>
           /\ Found(k) => Vals[k] = Ent(k).val
           /\ k \in DOMAIN Deadlines <=> Found(k) /\ db[k] \in DOMAIN heap
           /\ k \in DOMAIN Deadlines => Deadlines[k] = heap[db[k]]
BY DEF Vals, Deadlines, Abstract!Exists, Abstract!Wrong, Abstract!Zset

LEMMA SaysRefines ==
    ASSUME NEW r, Says(r), now' = now
    PROVE  Abstract!Says(r)
BY SameView DEF Says, Abstract!Says, Vals, Deadlines

LEMMA SetsRefines ==
    ASSUME NEW v, NEW r, Vals' = v, Deadlines' = Deadlines, reply' = r, now' = now
    PROVE  Abstract!Sets(v, r)
BY DEF Abstract!Sets, Vals, Deadlines

\* A value is a string or a sorted set.
LEMMA ValueTypes ==
    /\ \A v \in Values : v.type = "str" \/ v.type = "zset"
    /\ "str" # "zset"
BY DEF Values

LEMMA GetRefines ==
    ASSUME DataInv, NEW k \in Keys, Get(k), now' = now
    PROVE  Abstract!Get(k)
<1>1. CASE ~Found(k) /\ Says(Nil)
  BY <1>1, StoreReads, SaysRefines DEF Abstract!Get, Abstract!Nil, Nil
<1>2. CASE HasType(k, "str") /\ Says(Str(Ent(k).val.str))
  BY <1>2, StoreReads, SaysRefines DEF Abstract!Get, Abstract!Str, Str, HasType, Vals
<1>3. CASE HasType(k, "zset") /\ Says(BadType)
  BY <1>3, StoreReads, SaysRefines DEF Abstract!Get, Abstract!BadType, BadType, HasType
<1> QED
  BY <1>1, <1>2, <1>3 DEF Get

LEMMA SameWith ==
    /\ \A f, x, v : Abstract!With(f, x, v) = With(f, x, v)
    /\ \A f, x : Abstract!Without(f, x) = Without(f, x)
    /\ \A v : Abstract!StrVal(v) = StrVal(v)
    /\ \A z : Abstract!ZsetVal(z) = ZsetVal(z)
BY DEF Abstract!With, With, Abstract!Without, Without, Abstract!StrVal, StrVal,
       Abstract!ZsetVal, ZsetVal

LEMMA SetRefines ==
    ASSUME DataInv, NEW k \in Keys, NEW v \in Strings, Set(k, v), now' = now
    PROVE  Abstract!Set(k, v)
<1>1. CASE HasType(k, "zset") /\ Says(BadType)
  BY <1>1, StoreReads, SaysRefines DEF Abstract!Set, Abstract!BadType, BadType, HasType
<1>2. ASSUME ~Abstract!Wrong(k, "str"),
             Vals' = With(Vals, k, StrVal(v)), Deadlines' = Deadlines, reply' = Nil
      PROVE  Abstract!Set(k, v)
  <2>1. Abstract!Sets(With(Vals, k, StrVal(v)), Nil)
    BY <1>2, SetsRefines
  <2> QED
    BY <1>2, <2>1, SameWith DEF Abstract!Set, Abstract!Nil, Nil, Vals
<1>3. CASE HasType(k, "str") /\ Update(k, StrVal(v), Nil)
  <2>1. Vals' = With(Vals, k, StrVal(v)) /\ Deadlines' = Deadlines
    BY <1>3, UpdateView, ValueShapes DEF HasType
  <2> QED
    BY <1>2, <1>3, <2>1, StoreReads DEF HasType, Update
<1>4. CASE ~Found(k) /\ entry_new(k, StrVal(v)) /\ reply' = Nil
  <2>1. Vals' = With(Vals, k, StrVal(v)) /\ Deadlines' = Deadlines
    BY <1>4, NewView, ValueShapes
  <2> QED
    BY <1>2, <1>4, <2>1, StoreReads
<1> QED
  BY <1>1, <1>3, <1>4 DEF Set

LEMMA RemoveRefines ==
    ASSUME NEW k, Vals' = Without(Vals, k), Deadlines' = Without(Deadlines, k)
    PROVE  Abstract!Remove(k)
BY SameWith DEF Abstract!Remove, Vals, Deadlines

LEMMA DelRefines ==
    ASSUME DataInv, NEW k \in Keys, Del(k), now' = now
    PROVE  Abstract!Del(k)
<1>1. CASE ~Found(k) /\ Says(Int64(0))
  BY <1>1, StoreReads, SaysRefines DEF Abstract!Del, Abstract!Int64, Int64
<1>2. CASE /\ Found(k) /\ entry_del(db[k])
           /\ db' = [db EXCEPT ![k] = NULL] /\ reply' = Int64(1)
  BY <1>2, StoreReads, DeleteView, RemoveRefines DEF Abstract!Del, Abstract!Int64, Int64
<1> QED
  BY <1>1, <1>2 DEF Del

LEMMA ListKeysRefines ==
    ASSUME ListKeys \/ Unknown, now' = now
    PROVE  Abstract!ListKeys \/ Abstract!Unknown
<1>1. CASE ListKeys
  <2>1. Abstract!Says(Arr({k \in Keys : Found(k)}))
    BY <1>1, SaysRefines DEF ListKeys
  <2> QED
    BY <2>1 DEF Abstract!ListKeys, Abstract!Arr, Arr
<1>2. CASE Unknown
  BY <1>2, SaysRefines DEF Unknown, Abstract!Unknown, Abstract!UnknownCommand, UnknownCommand
<1> QED
  BY <1>1, <1>2

LEMMA ZaddRefines ==
    ASSUME DataInv, NEW k \in Keys, NEW n \in Names, NEW s \in Scores \cup {BadNumber},
           Zadd(k, n, s), now' = now
    PROVE  Abstract!Zadd(k, n, s)
<1>1. CASE s = BadNumber /\ Says(BadArg)
  BY <1>1, SaysRefines DEF Abstract!Zadd, Abstract!BadArg, BadArg
<1>2. CASE s # BadNumber /\ HasType(k, "str") /\ Says(BadType)
  BY <1>2, StoreReads, SaysRefines DEF Abstract!Zadd, Abstract!BadType, BadType, HasType
<1>3. ASSUME s # BadNumber, ~Abstract!Wrong(k, "zset"), NEW z, Abstract!Zset(k) = z,
             Vals' = With(Vals, k, ZsetVal(With(z, n, s))), Deadlines' = Deadlines,
             reply' = Int64(IF n \in DOMAIN z THEN 0 ELSE 1)
      PROVE  Abstract!Zadd(k, n, s)
  <2>1. Abstract!Sets(With(Vals, k, ZsetVal(With(z, n, s))), Int64(IF n \in DOMAIN z THEN 0 ELSE 1))
    BY <1>3, SetsRefines
  <2> QED
    BY <1>3, <2>1, SameWith DEF Abstract!Zadd, Abstract!Int64, Int64, Vals
<1>4. CASE /\ s # BadNumber /\ HasType(k, "zset")
           /\ Update(k, ZsetVal(With(Ent(k).val.zset, n, s)),
                     Int64(IF n \in DOMAIN Ent(k).val.zset THEN 0 ELSE 1))
  <2> DEFINE z == Ent(k).val.zset
  <2>1. Found(k) /\ Ent(k).val \in Values /\ Ent(k).val.type = "zset"
    BY <1>4, FoundEntry DEF HasType, Ent
  <2>2. ZsetVal(With(z, n, s)) \in Values
    BY <1>4, <2>1, ZsetWith
  <2>3. Abstract!Zset(k) = z /\ ~Abstract!Wrong(k, "zset")
    BY <2>1, StoreReads
  <2>4. Update(k, ZsetVal(With(z, n, s)), Int64(IF n \in DOMAIN z THEN 0 ELSE 1))
    BY <1>4
  <2> HIDE DEF z
  <2>5. Vals' = With(Vals, k, ZsetVal(With(z, n, s))) /\ Deadlines' = Deadlines
    BY <2>1, <2>2, <2>4, UpdateView
  <2> QED
    BY <1>3, <1>4, <2>3, <2>4, <2>5 DEF Update
<1>5. CASE /\ s # BadNumber /\ ~Found(k)
           /\ entry_new(k, ZsetVal([m \in {n} |-> s])) /\ reply' = Int64(1)
  <2>1. Abstract!Zset(k) = <<>> /\ ~Abstract!Wrong(k, "zset")
    BY <1>5, StoreReads
  <2>2. With(<<>>, n, s) = [m \in {n} |-> s] /\ n \notin DOMAIN <<>>
    BY DEF With
  <2>3. Vals' = With(Vals, k, ZsetVal([m \in {n} |-> s])) /\ Deadlines' = Deadlines
    BY <1>5, NewView, ZsetNew
  <2> QED
    BY <1>3, <1>5, <2>1, <2>2, <2>3
<1> QED
  BY <1>1, <1>2, <1>4, <1>5 DEF Zadd

LEMMA ZremRefines ==
    ASSUME DataInv, NEW k \in Keys, NEW n \in Names, Zrem(k, n), now' = now
    PROVE  Abstract!Zrem(k, n)
<1>1. CASE ~Found(k) /\ Says(Int64(0))
  BY <1>1, StoreReads, SaysRefines DEF Abstract!Zrem, Abstract!Int64, Int64
<1>2. CASE HasType(k, "str") /\ Says(BadType)
  BY <1>2, StoreReads, SaysRefines DEF Abstract!Zrem, Abstract!BadType, BadType, HasType
<1>3. CASE HasType(k, "zset") /\ n \notin DOMAIN Ent(k).val.zset /\ Says(Int64(0))
  BY <1>3, StoreReads, SaysRefines DEF Abstract!Zrem, Abstract!Int64, Int64, HasType
<1>4. CASE /\ HasType(k, "zset") /\ n \in DOMAIN Ent(k).val.zset
           /\ Update(k, ZsetVal(Without(Ent(k).val.zset, n)), Int64(1))
  <2> DEFINE z == Ent(k).val.zset
  <2>1. Found(k) /\ Ent(k).val \in Values /\ Ent(k).val.type = "zset"
    BY <1>4, FoundEntry DEF HasType, Ent
  <2>2. ZsetVal(Without(z, n)) \in Values
    BY <2>1, ZsetWithout
  <2>3. Abstract!Zset(k) = z /\ ~Abstract!Wrong(k, "zset") /\ n \in DOMAIN z
    BY <1>4, <2>1, StoreReads
  <2>4. Update(k, ZsetVal(Without(z, n)), Int64(1))
    BY <1>4
  <2> HIDE DEF z
  <2>5. Vals' = With(Vals, k, ZsetVal(Without(z, n))) /\ Deadlines' = Deadlines
    BY <2>1, <2>2, <2>4, UpdateView
  <2>6. Abstract!Sets(With(Vals, k, ZsetVal(Without(z, n))), Int64(1))
    BY <2>4, <2>5, SetsRefines DEF Update
  <2> QED
    BY <2>3, <2>6, SameWith DEF Abstract!Zrem, Abstract!Int64, Int64, Vals
<1> QED
  BY <1>1, <1>2, <1>3, <1>4 DEF Zrem

\* The sorted set of a key is one whose members can be counted.
LEMMA FoundZset ==
    ASSUME DataInv, ZsetsFinite, NEW k \in Keys, HasType(k, "zset")
    PROVE  /\ Ent(k).val.zset \in Zsets
           /\ Found(k) /\ Ent(k).val.type = "zset"
           /\ Abstract!Zset(k) = Ent(k).val.zset
<1>1. /\ Found(k) /\ db[k] \in Addrs /\ mem[db[k]] # Free
      /\ Ent(k).val \in Values /\ Ent(k).val.type = "zset"
  BY FoundEntry DEF HasType, Ent
<1>2. \E S \in SUBSET Names : Ent(k).val.zset \in [S -> Scores]
  BY <1>1, ZsetShape
<1>3. IsFiniteSet(DOMAIN Ent(k).val.zset)
  BY <1>1 DEF ZsetsFinite, Allocated, Ent
<1>4. Ent(k).val.zset \in Zsets
  BY <1>2, <1>3 DEF Zsets
<1> QED
  BY <1>1, <1>4, StoreReads

LEMMA ZscoreRefines ==
    ASSUME NEW k \in Keys, NEW n \in Names, Zscore(k, n), now' = now
    PROVE  Abstract!Zscore(k, n)
<1>1. CASE ~Found(k) /\ Says(Nil)
  BY <1>1, StoreReads, SaysRefines DEF Abstract!Zscore, Abstract!Nil, Nil
<1>2. CASE HasType(k, "str") /\ Says(BadType)
  BY <1>2, StoreReads, SaysRefines DEF Abstract!Zscore, Abstract!BadType, BadType, HasType
<1>3. CASE /\ HasType(k, "zset")
           /\ Says(IF n \in DOMAIN Ent(k).val.zset THEN Dbl(Ent(k).val.zset[n]) ELSE Nil)
  BY <1>3, StoreReads, SaysRefines
     DEF Abstract!Zscore, Abstract!Dbl, Dbl, Abstract!Nil, Nil, HasType
<1> QED
  BY <1>1, <1>2, <1>3 DEF Zscore

LEMMA ZrankRefines ==
    ASSUME NEW k \in Keys, NEW n \in Names, Zrank(k, n), now' = now
    PROVE  Abstract!Zrank(k, n)
<1>1. CASE ~Found(k) /\ Says(Nil)
  BY <1>1, StoreReads, SaysRefines DEF Abstract!Zrank, Abstract!Nil, Nil
<1>2. CASE HasType(k, "str") /\ Says(BadType)
  BY <1>2, StoreReads, SaysRefines DEF Abstract!Zrank, Abstract!BadType, BadType, HasType
<1>3. CASE /\ HasType(k, "zset")
           /\ Says(IF n \in DOMAIN Ent(k).val.zset
                   THEN Int64(znode_rank(Ent(k).val.zset, n)) ELSE Nil)
  <2>1. \A z : znode_rank(z, n) = Abstract!Position(z, z[n], n)
    BY SameCount DEF Abstract!Position, znode_rank, Less
  <2> QED
    BY <1>3, <2>1, StoreReads, SaysRefines
       DEF Abstract!Zrank, Abstract!Int64, Int64, Abstract!Nil, Nil, HasType
<1> QED
  BY <1>1, <1>2, <1>3 DEF Zrank

\* There is nothing to list of no sorted set.
LEMMA NothingListed ==
    ASSUME NEW s \in Int, NEW n \in Int, NEW offset \in Int, NEW limit \in Int
    PROVE  Abstract!Listing(<<>>, s, n, offset, limit) = <<>>
<1>1. DOMAIN <<>> = {} /\ <<>> \in [{} -> Scores] /\ IsFiniteSet({})
  BY FS_EmptySet
<1>2. <<>> \in Zsets
  BY <1>1 DEF Zsets
<1>3. zset_seek_ge(<<>>, s, n) = NULL
  BY <1>1 DEF zset_seek_ge
<1>4. znode_offset(<<>>, zset_seek_ge(<<>>, s, n), offset) = NULL
  BY <1>3 DEF znode_offset
<1>5. limit > 0 => Output(<<>>, NULL, limit) = <<>>
  BY <1>2, OutputIs DEF ListFromNode, Nodes
<1> QED
  BY <1>2, <1>4, <1>5, QueryIsListing

LEMMA ZqueryRefines ==
    ASSUME DataInv, ZsetsFinite, NEW k \in Keys, NEW n \in Names,
           NEW s \in Scores \cup {BadNumber}, NEW offset \in Offsets \cup {BadNumber},
           NEW limit \in Limits \cup {BadNumber},
           Zquery(k, s, n, offset, limit), now' = now
    PROVE  Abstract!Zquery(k, s, n, offset, limit)
<1>1. CASE BadNumber \in {s, offset, limit} /\ Says(BadArg)
  BY <1>1, SaysRefines DEF Abstract!Zquery, Abstract!BadArg, BadArg
<1>2. ASSUME BadNumber \notin {s, offset, limit}
      PROVE  s \in Int /\ n \in Int /\ offset \in Int /\ limit \in Int
  BY <1>2, OrderAssumption
<1>3. CASE BadNumber \notin {s, offset, limit} /\ ~Found(k) /\ Says(Pairs(<<>>))
  <2>1. Abstract!Listing(<<>>, s, n, offset, limit) = <<>>
    BY <1>2, <1>3, NothingListed
  <2> QED
    BY <1>3, <2>1, StoreReads, SaysRefines DEF Abstract!Zquery, Abstract!Pairs, Pairs
<1>4. CASE BadNumber \notin {s, offset, limit} /\ HasType(k, "str") /\ Says(BadType)
  BY <1>4, StoreReads, SaysRefines DEF Abstract!Zquery, Abstract!BadType, BadType, HasType
<1>5. ASSUME BadNumber \notin {s, offset, limit}, HasType(k, "zset"),
             NEW z, z = Ent(k).val.zset,
             Says(Pairs(IF limit <= 0 THEN <<>>
                        ELSE Output(z, znode_offset(z, zset_seek_ge(z, s, n), offset), limit)))
      PROVE  Abstract!Zquery(k, s, n, offset, limit)
  <2>1. z \in Zsets /\ Abstract!Zset(k) = z /\ ~Abstract!Wrong(k, "zset")
    BY <1>5, FoundZset, StoreReads
  <2>2. Says(Pairs(Abstract!Listing(z, s, n, offset, limit)))
    BY <1>2, <1>5, <2>1, QueryIsListing
  <2> QED
    BY <1>5, <2>1, <2>2, SaysRefines DEF Abstract!Zquery, Abstract!Pairs, Pairs
<1> QED
  BY <1>1, <1>3, <1>4, <1>5 DEF Zquery

LEMMA PexpireRefines ==
    ASSUME DataInv, NEW k \in Keys, NEW ms \in TTLs \cup {BadNumber}, Pexpire(k, ms), now' = now
    PROVE  Abstract!Pexpire(k, ms)
<1>1. CASE ms = BadNumber /\ Says(BadArg)
  BY <1>1, SaysRefines DEF Abstract!Pexpire, Abstract!BadArg, BadArg
<1>2. CASE ms # BadNumber /\ ms >= 0 /\ ~Found(k) /\ Says(Int64(0))
  BY <1>2, StoreReads, SaysRefines DEF Abstract!Pexpire, Abstract!Int64, Int64
<1>3. CASE /\ ms # BadNumber /\ ms >= 0 /\ Found(k) /\ entry_set_ttl(db[k], ms)
           /\ reply' = Int64(1) /\ UNCHANGED <<db, doomed>>
  <2>1. ms \in Nat
    BY <1>3, KeyspaceAssumption
  <2>2. Vals' = Vals /\ Deadlines' = With(Deadlines, k, now + ms)
    BY <1>3, <2>1, SetTtlView
  <2> QED
    BY <1>3, <2>2, StoreReads, SameWith
       DEF Abstract!Pexpire, Abstract!Int64, Int64, Vals, Deadlines
<1> QED
  BY <1>1, <1>2, <1>3 DEF Pexpire

\* An entry knows of its timer exactly when the heap has one for it.
LEMMA TimerHasDeadline ==
    ASSUME DataInv, NEW k \in Keys
    PROVE  HasTimer(k) <=> Found(k) /\ db[k] \in DOMAIN heap
BY FoundEntry DEF HasTimer, Ent, DataInv, TimersPointBack, NothingLost, Allocated

LEMMA PersistRefines ==
    ASSUME DataInv, NEW k \in Keys, Persist(k), now' = now
    PROVE  Abstract!Persist(k)
<1>1. CASE ~HasTimer(k) /\ Says(Int64(0))
  <2>1. k \notin DOMAIN Deadlines /\ Abstract!Says(Int64(0))
    BY <1>1, TimerHasDeadline, StoreReads, SaysRefines
  <2> QED
    BY <2>1 DEF Abstract!Persist, Abstract!Int64, Int64, Deadlines
<1>2. CASE /\ HasTimer(k) /\ entry_remove_ttl(db[k])
           /\ reply' = Int64(1) /\ UNCHANGED <<db, doomed>>
  <2>1. k \in DOMAIN Deadlines
    BY <1>2, TimerHasDeadline, StoreReads
  <2>2. Vals' = Vals /\ Deadlines' = Without(Deadlines, k)
    BY <1>2, RemoveTtlView
  <2> QED
    BY <1>2, <2>1, <2>2, SameWith DEF Abstract!Persist, Abstract!Int64, Int64, Vals, Deadlines
<1> QED
  BY <1>1, <1>2 DEF Persist

LEMMA PttlRefines ==
    ASSUME DataInv, NEW k \in Keys, Pttl(k), now' = now
    PROVE  Abstract!Pttl(k)
<1> DEFINE left == IF ~Found(k) THEN -2
                   ELSE IF k \notin DOMAIN Deadlines THEN -1
                   ELSE IF Deadlines[k] > now THEN Deadlines[k] - now ELSE 0
<1>1. Says(Int64(left))
  BY TimerHasDeadline, StoreReads DEF Pttl, HasTimer
<1>2. Abstract!Says(Int64(left))
  BY <1>1, SaysRefines
<1> QED
  BY <1>2, StoreReads DEF Abstract!Pttl, Abstract!Int64, Int64, Deadlines

-----------------------------------------------------------------------------
(* The sorted sets stay finite, and a timer fires no earlier than it is due.*)

FiniteValue(v) == v.type = "zset" => IsFiniteSet(DOMAIN v.zset)

LEMMA FiniteKept ==
    ASSUME ZsetsFinite,
           \A a \in Addrs : \/ mem'[a] = Free
                            \/ mem[a] # Free /\ mem'[a].val = mem[a].val
                            \/ FiniteValue(mem'[a].val)
    PROVE  ZsetsFinite'
BY DEF ZsetsFinite, Allocated, FiniteValue

LEMMA NewStaysFinite ==
    ASSUME DataInv, ZsetsFinite, NEW k \in Keys, NEW v, FiniteValue(v), entry_new(k, v)
    PROVE  ZsetsFinite'
<1>1. PICK a \in Addrs : mem' = [mem EXCEPT ![a] = [key |-> k, heap_idx |-> FALSE, val |-> v]]
  BY DEF entry_new
<1>2. mem'[a].val = v /\ \A b \in Addrs : b # a => mem'[b] = mem[b]
  BY <1>1 DEF DataInv, DataTypeOK
<1> QED
  BY <1>2, FiniteKept

\* A value, or what is known of the timer, is overwritten.
LEMMA UpdateStaysFinite ==
    ASSUME DataInv, ZsetsFinite, NEW k \in Keys, Found(k), NEW v, FiniteValue(v), NEW r,
           Update(k, v, r)
    PROVE  ZsetsFinite'
<1>1. /\ db[k] \in Addrs /\ mem[db[k]] \in Entries
  BY FoundEntry
<1>2. mem' = [mem EXCEPT ![db[k]] = [mem[db[k]] EXCEPT !.val = v]]
  BY <1>1 DEF Update, DataInv, DataTypeOK
<1>3. mem'[db[k]].val = v /\ \A b \in Addrs : b # db[k] => mem'[b] = mem[b]
  BY <1>1, <1>2 DEF Entries, DataInv, DataTypeOK
<1> QED
  BY <1>3, FiniteKept

LEMMA TimerStaysFinite ==
    ASSUME DataInv, ZsetsFinite, NEW a \in Addrs, mem[a] # Free, NEW b \in BOOLEAN,
           mem' = [mem EXCEPT ![a].heap_idx = b] \/ mem' = [mem EXCEPT ![a] = Free]
    PROVE  ZsetsFinite'
<1>1. CASE mem' = [mem EXCEPT ![a].heap_idx = b]
  <2> DEFINE e == [mem[a] EXCEPT !.heap_idx = b]
  <2>1. e.val = mem[a].val
    BY EntryShape DEF Entries
  <2>2. mem' = [mem EXCEPT ![a] = e]
    BY <1>1 DEF DataInv, DataTypeOK
  <2> HIDE DEF e
  <2>3. \A c \in Addrs : mem'[c] = IF c = a THEN e ELSE mem[c]
    BY <2>2 DEF DataInv, DataTypeOK
  <2> QED
    BY <2>1, <2>3, FiniteKept
<1>2. CASE mem' = [mem EXCEPT ![a] = Free]
  <2>1. \A c \in Addrs : mem'[c] = IF c = a THEN Free ELSE mem[c]
    BY <1>2 DEF DataInv, DataTypeOK
  <2> QED
    BY <2>1, FiniteKept
<1> QED
  BY <1>1, <1>2

LEMMA DeleteStaysFinite ==
    ASSUME DataInv, ZsetsFinite, NEW k \in Keys, Found(k), entry_del(db[k])
    PROVE  ZsetsFinite'
<1>1. db[k] \in Addrs /\ mem[db[k]] # Free
  BY FoundEntry
<1> QED
  BY <1>1, TimerStaysFinite DEF entry_del

LEMMA SaysStaysFinite ==
    ASSUME ZsetsFinite, UNCHANGED mem
    PROVE  ZsetsFinite'
BY DEF ZsetsFinite, Allocated

\* A member more or less leaves a sorted set finite.
LEMMA FiniteValues ==
    /\ \A v \in Strings : FiniteValue(StrVal(v))
    /\ \A z, n, s : IsFiniteSet(DOMAIN z) => FiniteValue(ZsetVal(With(z, n, s)))
    /\ \A z, n : IsFiniteSet(DOMAIN z) => FiniteValue(ZsetVal(Without(z, n)))
    /\ \A n, s : FiniteValue(ZsetVal([m \in {n} |-> s]))
<1>1. \A v \in Strings : FiniteValue(StrVal(v))
  BY DEF FiniteValue, StrVal
<1>2. ASSUME NEW z, NEW n, NEW s, IsFiniteSet(DOMAIN z)
      PROVE  FiniteValue(ZsetVal(With(z, n, s)))
  <2>1. DOMAIN With(z, n, s) = DOMAIN z \cup {n}
    BY DEF With
  <2>2. IsFiniteSet(DOMAIN With(z, n, s))
    BY <1>2, <2>1, FS_AddElement
  <2> QED
    BY <2>2 DEF FiniteValue, ZsetVal
<1>3. ASSUME NEW z, NEW n, IsFiniteSet(DOMAIN z)
      PROVE  FiniteValue(ZsetVal(Without(z, n)))
  <2>1. DOMAIN Without(z, n) = DOMAIN z \ {n}
    BY DEF Without
  <2>2. IsFiniteSet(DOMAIN Without(z, n))
    BY <1>3, <2>1, FS_RemoveElement
  <2> QED
    BY <2>2 DEF FiniteValue, ZsetVal
<1>4. ASSUME NEW n, NEW s
      PROVE  FiniteValue(ZsetVal([m \in {n} |-> s]))
  <2>1. IsFiniteSet(DOMAIN [m \in {n} |-> s])
    BY FS_Singleton
  <2> QED
    BY <2>1 DEF FiniteValue, ZsetVal
<1> QED
  BY <1>1, <1>2, <1>3, <1>4

\* The handlers, one by one: the data and the promise.
LEMMA HandlerRefines ==
    ASSUME DataInv, ZsetsFinite, NEW k \in Keys, Handler(k), now' = now
    PROVE  Abstract!Next /\ ZsetsFinite'
<1>1. CASE Get(k)
  <2>1. ZsetsFinite'
    BY <1>1, SaysStaysFinite DEF Get, Says
  <2> QED
    BY <1>1, <2>1, GetRefines DEF Abstract!Next
<1>2. CASE Del(k)
  <2>1. ZsetsFinite'
    BY <1>2, SaysStaysFinite, DeleteStaysFinite DEF Del, Says
  <2> QED
    BY <1>2, <2>1, DelRefines DEF Abstract!Next
<1>3. CASE Persist(k)
  <2>1. ASSUME HasTimer(k) /\ entry_remove_ttl(db[k])
        PROVE  ZsetsFinite'
    BY <2>1, FoundEntry, TimerStaysFinite DEF entry_remove_ttl, HasTimer
  <2>2. ZsetsFinite'
    BY <1>3, <2>1, SaysStaysFinite DEF Persist, Says
  <2> QED
    BY <1>3, <2>2, PersistRefines DEF Abstract!Next
<1>4. CASE Pttl(k)
  <2>1. ZsetsFinite'
    BY <1>4, SaysStaysFinite DEF Pttl, Says
  <2> QED
    BY <1>4, <2>1, PttlRefines DEF Abstract!Next
<1>5. CASE \E v \in Strings : Set(k, v)
  <2>1. PICK v \in Strings : Set(k, v)
    BY <1>5
  <2>2. ZsetsFinite'
    BY <2>1, SaysStaysFinite, UpdateStaysFinite, NewStaysFinite, FiniteValues
       DEF Set, Says, HasType
  <2> QED
    BY <2>1, <2>2, SetRefines DEF Abstract!Next
<1>6. CASE \E ms \in TTLs \cup {BadNumber} : Pexpire(k, ms)
  <2>1. PICK ms \in TTLs \cup {BadNumber} : Pexpire(k, ms)
    BY <1>6
  <2>2. ASSUME Found(k) /\ entry_set_ttl(db[k], ms)
        PROVE  ZsetsFinite'
    BY <2>2, FoundEntry, TimerStaysFinite DEF entry_set_ttl
  <2>3. ZsetsFinite'
    BY <2>1, <2>2, SaysStaysFinite DEF Pexpire, Says
  <2> QED
    BY <2>1, <2>3, PexpireRefines DEF Abstract!Next
<1>7. CASE \E n \in Names : Zrem(k, n) \/ Zscore(k, n) \/ Zrank(k, n)
  <2>1. PICK n \in Names : Zrem(k, n) \/ Zscore(k, n) \/ Zrank(k, n)
    BY <1>7
  <2>2. HasType(k, "zset") => IsFiniteSet(DOMAIN Ent(k).val.zset) /\ Found(k)
    BY FoundZset DEF Zsets
  <2>3. CASE Zrem(k, n)
    <3>1. ZsetsFinite'
      BY <2>2, <2>3, SaysStaysFinite, UpdateStaysFinite, FiniteValues DEF Zrem, Says
    <3> QED
      BY <2>3, <3>1, ZremRefines DEF Abstract!Next
  <2>4. CASE Zscore(k, n)
    <3>1. ZsetsFinite'
      BY <2>4, SaysStaysFinite DEF Zscore, Says
    <3> QED
      BY <2>4, <3>1, ZscoreRefines DEF Abstract!Next
  <2>5. CASE Zrank(k, n)
    <3>1. ZsetsFinite'
      BY <2>5, SaysStaysFinite DEF Zrank, Says
    <3> QED
      BY <2>5, <3>1, ZrankRefines DEF Abstract!Next
  <2> QED
    BY <2>1, <2>3, <2>4, <2>5
<1>8. ASSUME NEW n \in Names, NEW s \in Scores \cup {BadNumber}, Zadd(k, n, s)
      PROVE  Abstract!Next /\ ZsetsFinite'
  <2>1. HasType(k, "zset") => IsFiniteSet(DOMAIN Ent(k).val.zset) /\ Found(k)
    BY FoundZset DEF Zsets
  <2>2. ZsetsFinite'
    BY <1>8, <2>1, SaysStaysFinite, UpdateStaysFinite, NewStaysFinite, FiniteValues
       DEF Zadd, Says
  <2> QED
    BY <1>8, <2>2, ZaddRefines DEF Abstract!Next
<1>9. ASSUME NEW n \in Names, NEW s \in Scores \cup {BadNumber},
             NEW offset \in Offsets \cup {BadNumber}, NEW limit \in Limits \cup {BadNumber},
             Zquery(k, s, n, offset, limit)
      PROVE  Abstract!Next /\ ZsetsFinite'
  <2>1. \E r : Says(r)
    BY <1>9 DEF Zquery
  <2>2. ZsetsFinite'
    BY <2>1, SaysStaysFinite DEF Says
  <2>3. Abstract!Zquery(k, s, n, offset, limit)
    BY <1>9, ZqueryRefines
  <2> QED
    BY <2>2, <2>3 DEF Abstract!Next
<1> QED
  BY <1>1, <1>2, <1>3, <1>4, <1>5, <1>6, <1>7, <1>8, <1>9 DEF Handler

LEMMA ExpireRefines ==
    ASSUME Inv, ZsetsFinite, now_ms <= now, ExpireOne
    PROVE  Abstract!Next /\ ZsetsFinite'
<1>1. PICK a \in DOMAIN heap :
         /\ Due(a)
         /\ IF a \in Allocated /\ db[mem[a].key] = a
            THEN /\ db' = [db EXCEPT ![mem[a].key] = NULL]
                 /\ entry_del(a)
                 /\ nworks' = nworks + 1
                 /\ UNCHANGED phase
            ELSE phase' = "assert_node" /\ UNCHANGED <<db, mem, heap, doomed, nworks>>
  BY DEF ExpireOne
<1>2. /\ a \in Addrs /\ mem[a] # Free /\ db[mem[a].key] = a /\ a # NULL
      /\ heap[a] \in Nat
  BY KeyspaceAssumption DEF Inv, DataInv, DataTypeOK, TimersPointBack
<1>3. PICK k \in Keys : mem[a].key = k
  BY <1>2, EntryShape DEF Inv
<1>4. db[k] = a /\ Found(k) /\ entry_del(db[k]) /\ db' = [db EXCEPT ![k] = NULL]
      /\ UNCHANGED <<now, reply>>
  BY <1>1, <1>2, <1>3 DEF Allocated, Found, ExpireOne
<1>5. k \in DOMAIN Deadlines /\ Deadlines[k] < now
  <2>1. heap[a] < now
    BY <1>1, <1>2 DEF Due, Inv
  <2> QED
    BY <1>2, <1>3, <1>4, <2>1, StoreReads
<1>6. Abstract!Remove(k)
  <2>1. Vals' = Without(Vals, k) /\ Deadlines' = Without(Deadlines, k)
    BY <1>3, <1>4, DeleteView DEF Inv
  <2> QED
    BY <2>1, RemoveRefines
<1>7. Abstract!Expire(k)
  BY <1>4, <1>5, <1>6 DEF Abstract!Expire, Deadlines
<1>8. ZsetsFinite'
  BY <1>3, <1>4, DeleteStaysFinite DEF Inv
<1>9. Abstract!Next
  BY <1>3, <1>7 DEF Abstract!Next
<1> QED
  BY <1>8, <1>9

\* Where commands and timers do not touch the data, the store does nothing.
LEMMA StoreStutters ==
    ASSUME Vals' = Vals, Deadlines' = Deadlines, UNCHANGED <<now, reply>>
    PROVE  UNCHANGED Abstract!vars
BY DEF Abstract!vars, Vals, Deadlines

RefInv == Inv /\ ZsetsFinite /\ now_ms <= now

LEMMA StepRefines ==
    ASSUME RefInv, [Next]_vars
    PROVE  [Abstract!Next]_(Abstract!vars) /\ ZsetsFinite' /\ (now_ms <= now)'
<1>1. CASE Command
  <2>1. UNCHANGED <<now, now_ms>>
    BY <1>1 DEF Command, timers
  <2>2. CASE ListKeys \/ Unknown
    <3>1. ZsetsFinite'
      BY <2>2, SaysStaysFinite DEF ListKeys, Unknown, Says, RefInv
    <3> QED
      BY <2>1, <2>2, <3>1, ListKeysRefines DEF Abstract!Next, RefInv
  <2>3. CASE \E k \in Keys : Handler(k)
    BY <2>1, <2>3, HandlerRefines DEF RefInv, Inv
  <2> QED
    BY <1>1, <2>2, <2>3 DEF Command
<1>2. CASE Abort \/ TimersBegin \/ TimersEnd \/ UNCHANGED vars
  <2>1. UNCHANGED <<db, mem, heap, now, reply>>
    BY <1>2 DEF Abort, TimersBegin, TimersEnd, vars
  <2>2. now_ms' \in {now, 0, now_ms}
    BY <1>2 DEF Abort, TimersBegin, TimersEnd, vars
  <2> QED
    BY <2>1, <2>2, SameView, StoreStutters, SaysStaysFinite DEF RefInv, Inv
<1>3. CASE ExpireOne
  <2>1. UNCHANGED <<now, now_ms>>
    BY <1>3 DEF ExpireOne
  <2> QED
    BY <1>3, <2>1, ExpireRefines DEF RefInv
<1>4. ASSUME NEW a \in Addrs, Reclaim(a)
      PROVE  [Abstract!Next]_(Abstract!vars) /\ ZsetsFinite' /\ (now_ms <= now)'
  <2>1. /\ mem' = [mem EXCEPT ![a] = Free] /\ mem[a] # Free
        /\ UNCHANGED <<now, now_ms, reply>>
    BY <1>4 DEF Reclaim, timers, RefInv, Inv, DataInv, PoolOwns
  <2>2. ZsetsFinite'
    BY <2>1, TimerStaysFinite DEF RefInv, Inv
  <2> QED
    BY <1>4, <2>1, <2>2, ReclaimView, StoreStutters DEF RefInv, Inv
<1>5. CASE Tick
  <2>1. UNCHANGED <<db, mem, heap, reply, now_ms>> /\ now' = now + 1
    BY <1>5 DEF Tick, timers
  <2>2. Abstract!Tick
    BY <2>1, SameView DEF Abstract!Tick, Vals, Deadlines
  <2> QED
    BY <2>1, <2>2, SaysStaysFinite DEF Abstract!Next, RefInv, Inv
<1> QED
  BY <1>1, <1>2, <1>3, <1>4, <1>5 DEF Next

\* Entries, pointers, the heap of timers and the pool together behave as a map
\* from keys to values with deadlines: every answer is the one the store
\* gives, a query lists the members of a sorted set in order from the offset,
\* and a key goes when it is deleted or when its deadline has passed, and
\* never otherwise (exec.cpp, state.cpp, process_timers()).
THEOREM KeyspaceIsStore == Spec => ImplementsStore
<1>1. Init => Abstract!Init
  BY DEF Init, Abstract!Init, Found, Nil, Abstract!Nil
<1>2. Init => ZsetsFinite /\ now_ms <= now
  BY DEF Init, ZsetsFinite, Allocated
<1>3. RefInv /\ [Next]_vars => RefInv'
  BY Inductive, StepRefines DEF RefInv
<1>4. RefInv /\ [Next]_vars => [Abstract!Next]_(Abstract!vars)
  BY StepRefines
<1>5. Init => RefInv
  BY <1>2, InitHolds DEF RefInv
<1> QED
  BY <1>1, <1>3, <1>4, <1>5, PTL DEF Spec, ImplementsStore, Abstract!Spec
=============================================================================
