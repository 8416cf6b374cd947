------------------------------ MODULE Keyspace -------------------------------
(***************************************************************************)
(* The database of src/src/exec.cpp and src/src/state.cpp: entries that    *)
(* are allocated, linked from the top-level hash map, given an item in the *)
(* TTL heap that points back at them, deleted by a command or by a timer   *)
(* of process_timers() (server.cpp), and freed - small ones at once, large *)
(* sorted sets by a thread of the pool while commands go on.  Memory is    *)
(* explicit: a freed address can be allocated again.                       *)
(***************************************************************************)
EXTENDS Integers, FiniteSets, Sequences

CONSTANTS
    Keys, Strings,
    Names, Scores,  \* numbers, for their order
    TTLs,           \* arguments of pexpire, in ms
    Offsets, Limits,    \* arguments of zquery
    BadNumber,      \* an argument that str2dbl() and str2int() reject
    Addrs,          \* bound: addresses at which an Entry can be allocated
    NULL,
    Free,           \* the content of memory that is not allocated
    LargeZset,      \* k_large_zset_size
    MaxWorks,       \* k_max_works of process_timers
    MaxTime         \* bound: the clock stops there

ASSUME KeyspaceAssumption ==
    /\ NULL \notin Addrs
    /\ LargeZset \in Nat /\ MaxWorks \in Nat \ {0}
    /\ TTLs \subseteq Int

ASSUME OrderAssumption ==
    /\ Names \subseteq Int /\ Scores \subseteq Int
    /\ Offsets \subseteq Int /\ Limits \subseteq Int
    /\ NULL \notin Names

Values ==
    [type : {"str"}, str : Strings]
    \cup [type : {"zset"}, zset : UNION {[S -> Scores] : S \in SUBSET Names}]

Entries == [key : Keys, heap_idx : BOOLEAN, val : Values]

ASSUME FreeAssumption == Free \notin Entries

VARIABLES
    db,         \* g_data.db: db[k] is the entry of key k, or NULL
    mem,        \* mem[a]: the Entry at address a, or Free
    heap,       \* g_data.ttl_heap: the address an item points back at |-> val
    doomed,     \* entries handed to the thread pool and not yet deleted
    now,        \* the monotonic clock
    reply,      \* the response to the last command
    phase,      \* "commands", "timers", or the assertion that has failed
    now_ms,     \* process_timers(): its local variables
    nworks

vars == <<db, mem, heap, doomed, now, reply, phase, now_ms, nworks>>
timers == <<phase, now_ms, nworks>>

Nil == <<"nil">>
Str(v) == <<"str", v>>
Int64(n) == <<"int", n>>
Dbl(s) == <<"dbl", s>>
Arr(S) == <<"arr", S>>
Pairs(q) == <<"pairs", q>>
BadType == <<"err", "ERR_BAD_TYPE">>
BadArg == <<"err", "ERR_BAD_ARG">>
UnknownCommand == <<"err", "ERR_UNKNOWN">>

StrVal(v) == [type |-> "str", str |-> v]
ZsetVal(z) == [type |-> "zset", zset |-> z]

\* f with x mapped to v, whether or not x was in its domain; f without x.
With(f, x, v) == [y \in DOMAIN f \cup {x} |-> IF y = x THEN v ELSE f[y]]
Without(f, x) == [y \in DOMAIN f \ {x} |-> f[y]]

Allocated == {a \in Addrs : mem[a] # Free}
Found(k) == db[k] # NULL
Ent(k) == mem[db[k]]
HasTimer(k) == Found(k) /\ Ent(k).heap_idx
HasType(k, type) == Found(k) /\ Ent(k).val.type = type

Init ==
    /\ db = [k \in Keys |-> NULL]
    /\ mem = [a \in Addrs |-> Free]
    /\ heap = <<>>
    /\ doomed = {}
    /\ now = 0
    /\ reply = Nil
    /\ phase = "commands"
    /\ now_ms = 0 /\ nworks = 0

-----------------------------------------------------------------------------
(* state.cpp.  heap_idx says whether the entry knows of a heap item.       *)

\* entry_new(), then hm_insert() under the key.
entry_new(k, v) ==
    \E a \in Addrs \ Allocated :
        /\ mem' = [mem EXCEPT ![a] = [key |-> k, heap_idx |-> FALSE, val |-> v]]
        /\ db' = [db EXCEPT ![k] = a]
        /\ UNCHANGED <<heap, doomed>>

\* Mutant of entry_set_ttl: the heap is given the TTL for a deadline.
entry_set_ttl_Relative(a, ttl_ms) ==
    /\ heap' = With(heap, a, ttl_ms)
    /\ mem' = [mem EXCEPT ![a].heap_idx = TRUE]

entry_set_ttl(a, ttl_ms) ==
    /\ heap' = With(heap, a, now + ttl_ms)
    /\ mem' = [mem EXCEPT ![a].heap_idx = TRUE]

entry_remove_ttl(a) ==
    /\ heap' = IF mem[a].heap_idx THEN Without(heap, a) ELSE heap
    /\ mem' = [mem EXCEPT ![a].heap_idx = FALSE]

IsLarge(v) == v.type = "zset" /\ Cardinality(DOMAIN v.zset) > LargeZset

\* Mutants of entry_del: the timer is left in the heap; a large entry is freed
\* by the main thread and by the pool.
entry_del_KeepsTimer(a) ==
    /\ UNCHANGED heap
    /\ IF IsLarge(mem[a].val)
       THEN doomed' = doomed \cup {a} /\ UNCHANGED mem
       ELSE mem' = [mem EXCEPT ![a] = Free] /\ UNCHANGED doomed

entry_del_Always(a) ==
    /\ heap' = IF mem[a].heap_idx THEN Without(heap, a) ELSE heap
    /\ mem' = [mem EXCEPT ![a] = Free]
    /\ doomed' = IF IsLarge(mem[a].val) THEN doomed \cup {a} ELSE doomed

\* entry_del(): the timer goes, and the entry is freed or handed to the pool.
entry_del(a) ==
    /\ heap' = IF mem[a].heap_idx THEN Without(heap, a) ELSE heap
    /\ IF IsLarge(mem[a].val)
       THEN /\ mem' = [mem EXCEPT ![a].heap_idx = FALSE]
            /\ doomed' = doomed \cup {a}
       ELSE /\ mem' = [mem EXCEPT ![a] = Free]
            /\ UNCHANGED doomed

-----------------------------------------------------------------------------
(* exec.cpp.  A command runs to its end before the loop does anything else.*)

Says(r) == reply' = r /\ UNCHANGED <<db, mem, heap, doomed>>

Get(k) ==
    \/ ~Found(k) /\ Says(Nil)
    \/ HasType(k, "str") /\ Says(Str(Ent(k).val.str))
    \/ HasType(k, "zset") /\ Says(BadType)

Update(k, v, r) ==
    /\ mem' = [mem EXCEPT ![db[k]].val = v]
    /\ reply' = r
    /\ UNCHANGED <<db, heap, doomed>>

Set(k, v) ==
    \/ HasType(k, "zset") /\ Says(BadType)
    \/ HasType(k, "str") /\ Update(k, StrVal(v), Nil)
    \/ ~Found(k) /\ entry_new(k, StrVal(v)) /\ reply' = Nil

Del(k) ==
    \/ ~Found(k) /\ Says(Int64(0))
    \/ /\ Found(k)
       /\ entry_del(db[k])
       /\ db' = [db EXCEPT ![k] = NULL]
       /\ reply' = Int64(1)

ListKeys == Says(Arr({k \in Keys : Found(k)}))

Zadd(k, n, s) ==
    \/ s = BadNumber /\ Says(BadArg)
    \/ s # BadNumber /\ HasType(k, "str") /\ Says(BadType)
    \/ /\ s # BadNumber /\ HasType(k, "zset")
       /\ Update(k, ZsetVal(With(Ent(k).val.zset, n, s)),
                  Int64(IF n \in DOMAIN Ent(k).val.zset THEN 0 ELSE 1))
    \/ /\ s # BadNumber /\ ~Found(k)
       /\ entry_new(k, ZsetVal([m \in {n} |-> s]))
       /\ reply' = Int64(1)

Zrem(k, n) ==
    \/ ~Found(k) /\ Says(Int64(0))
    \/ HasType(k, "str") /\ Says(BadType)
    \/ /\ HasType(k, "zset")
       /\ IF n \in DOMAIN Ent(k).val.zset
          THEN Update(k, ZsetVal(Without(Ent(k).val.zset, n)), Int64(1))
          ELSE Says(Int64(0))

Zscore(k, n) ==
    \/ ~Found(k) /\ Says(Nil)
    \/ HasType(k, "str") /\ Says(BadType)
    \/ /\ HasType(k, "zset")
       /\ Says(IF n \in DOMAIN Ent(k).val.zset THEN Dbl(Ent(k).val.zset[n]) ELSE Nil)

\* The members of a sorted set by score, then by name; see SortedSet.
Less(z, m, s, n) == z[m] < s \/ (z[m] = s /\ m < n)
znode_rank(z, n) == Cardinality({m \in DOMAIN z : Less(z, m, z[n], n)})

zset_seek_ge(z, s, n) ==
    LET from == {m \in DOMAIN z : ~Less(z, m, s, n)}
    IN  IF from = {} THEN NULL
        ELSE CHOOSE m \in from : \A l \in from : ~Less(z, l, z[m], m)

\* There is no offset from no node.
znode_offset(z, node, offset) ==
    LET at == {m \in DOMAIN z : znode_rank(z, m) = znode_rank(z, node) + offset}
    IN  IF node = NULL \/ at = {} THEN NULL ELSE CHOOSE m \in at : TRUE

Zrank(k, n) ==
    \/ ~Found(k) /\ Says(Nil)
    \/ HasType(k, "str") /\ Says(BadType)
    \/ /\ HasType(k, "zset")
       /\ Says(IF n \in DOMAIN Ent(k).val.zset
               THEN Int64(znode_rank(Ent(k).val.zset, n)) ELSE Nil)

\* The loop of exec_zquery(): its output from a node on, when `left` names and
\* scores are left of the limit; a pair takes two of them.
Output(z, start, limit) ==
    LET rest[left \in Nat] ==
            [node \in DOMAIN z \cup {NULL} |->
                IF node = NULL \/ left = 0 THEN <<>>
                ELSE <<<<node, z[node]>>>>
                     \o rest[IF left = 1 THEN 0 ELSE left - 2][znode_offset(z, node, 1)]]
    IN  rest[limit][start]

Zquery(k, s, n, offset, limit) ==
    LET numbers == BadNumber \notin {s, offset, limit}
    IN  \/ ~numbers /\ Says(BadArg)
        \/ numbers /\ ~Found(k) /\ Says(Pairs(<<>>))
        \/ numbers /\ HasType(k, "str") /\ Says(BadType)
        \/ /\ numbers /\ HasType(k, "zset")
           /\ LET z == Ent(k).val.zset
              IN  Says(Pairs(IF limit <= 0 THEN <<>>
                             ELSE Output(z, znode_offset(z, zset_seek_ge(z, s, n), offset), limit)))

\* A number below zero fails the assertion of exec.cpp:273 (see Abort).
Pexpire(k, ms) ==
    \/ ms = BadNumber /\ Says(BadArg)
    \/ ms # BadNumber /\ ms >= 0 /\ ~Found(k) /\ Says(Int64(0))
    \/ /\ ms # BadNumber /\ ms >= 0 /\ Found(k)
       /\ entry_set_ttl(db[k], ms)
       /\ reply' = Int64(1)
       /\ UNCHANGED <<db, doomed>>

Persist(k) ==
    \/ ~HasTimer(k) /\ Says(Int64(0))
    \/ /\ HasTimer(k)
       /\ entry_remove_ttl(db[k])
       /\ reply' = Int64(1)
       /\ UNCHANGED <<db, doomed>>

Pttl(k) ==
    \/ ~Found(k) /\ Says(Int64(-2))
    \/ Found(k) /\ ~HasTimer(k) /\ Says(Int64(-1))
    \/ /\ HasTimer(k)
       /\ Says(Int64(IF heap[db[k]] > now THEN heap[db[k]] - now ELSE 0))

Handler(k) ==
    \/ Get(k) \/ Del(k) \/ Persist(k) \/ Pttl(k)
    \/ \E v \in Strings : Set(k, v)
    \/ \E ms \in TTLs \cup {BadNumber} : Pexpire(k, ms)
    \/ \E n \in Names : Zrem(k, n) \/ Zscore(k, n) \/ Zrank(k, n)
    \/ \E n \in Names, s \in Scores \cup {BadNumber} :
          \/ Zadd(k, n, s)
          \/ \E offset \in Offsets \cup {BadNumber}, limit \in Limits \cup {BadNumber} :
                Zquery(k, s, n, offset, limit)

\* No such command, or not as many arguments as it takes.
Unknown == Says(UnknownCommand)

Command ==
    /\ phase = "commands"
    /\ ListKeys \/ Unknown \/ \E k \in Keys : Handler(k)
    /\ UNCHANGED <<now, timers>>

Abort ==
    /\ phase = "commands"
    /\ \E ms \in TTLs : ms < 0
    /\ phase' = "assert_ttl"
    /\ UNCHANGED <<db, mem, heap, doomed, now, reply, now_ms, nworks>>

-----------------------------------------------------------------------------
(* process_timers(): the keys.                                             *)

TimersBegin ==
    /\ phase = "commands"
    /\ phase' = "timers" /\ now_ms' = now /\ nworks' = 0
    /\ UNCHANGED <<db, mem, heap, doomed, now, reply>>

IsRoot(a) == a \in DOMAIN heap /\ \A b \in DOMAIN heap : heap[a] <= heap[b]

\* Mutant of Due: the work is counted after the bound is tested.
Due_OneMore(a) == IsRoot(a) /\ heap[a] < now_ms /\ nworks <= MaxWorks

Due(a) == IsRoot(a) /\ heap[a] < now_ms /\ nworks < MaxWorks

\* One iteration.  The node is looked up by its own address: if the map does
\* not have it (a freed entry is in no map) the assertion of server.cpp:349
\* fails.
ExpireOne ==
    /\ phase = "timers"
    /\ \E a \in DOMAIN heap :
          /\ Due(a)
          /\ IF a \in Allocated /\ db[mem[a].key] = a
             THEN /\ db' = [db EXCEPT ![mem[a].key] = NULL]
                  /\ entry_del(a)
                  /\ nworks' = nworks + 1
                  /\ UNCHANGED phase
             ELSE phase' = "assert_node" /\ UNCHANGED <<db, mem, heap, doomed, nworks>>
    /\ UNCHANGED <<now, reply, now_ms>>

TimersEnd ==
    /\ phase = "timers"
    /\ ~\E a \in DOMAIN heap : Due(a)
    /\ phase' = "commands" /\ now_ms' = 0 /\ nworks' = 0
    /\ UNCHANGED <<db, mem, heap, doomed, now, reply>>

\* entry_del_task_fn() in a thread of the pool (see ThreadPool): the sorted
\* set and the entry are freed, in no particular order between the threads.
Reclaim(a) ==
    /\ phase \in {"commands", "timers"}
    /\ a \in doomed
    /\ mem' = [mem EXCEPT ![a] = Free]
    /\ doomed' = doomed \ {a}
    /\ UNCHANGED <<db, heap, now, reply, timers>>

Tick ==
    /\ now < MaxTime
    /\ now' = now + 1
    /\ UNCHANGED <<db, mem, heap, doomed, reply, timers>>

Next ==
    \/ Command \/ Abort
    \/ TimersBegin \/ ExpireOne \/ TimersEnd
    \/ \E a \in Addrs : Reclaim(a)
    \/ Tick

Spec == Init /\ [][Next]_vars

-----------------------------------------------------------------------------
(* Properties.                                                             *)

TypeOK ==
    /\ db \in [Keys -> Addrs \cup {NULL}]
    /\ \A a \in Addrs : mem[a] = Free \/ mem[a] \in Entries
    /\ DOMAIN heap \subseteq Addrs /\ \A a \in DOMAIN heap : heap[a] \in Nat
    /\ doomed \subseteq Addrs
    /\ now \in Nat /\ now_ms \in Nat /\ nworks \in 0..MaxWorks
    /\ phase \in {"commands", "timers", "assert_ttl", "assert_node"}

\* Every entry has one owner.  The map points at allocated entries of the
\* right key; a heap item points back at an entry that is in the map and
\* knows of the item; an entry in the hands of the pool can be reached in no
\* other way, so that the worker and the commands never meet; and no entry
\* is lost.
MapOwns ==
    \A k \in Keys : db[k] # NULL =>
        mem[db[k]] # Free /\ mem[db[k]].key = k /\ db[k] \notin doomed

TimersPointBack ==
    \A a \in DOMAIN heap :
        mem[a] # Free /\ mem[a].heap_idx /\ db[mem[a].key] = a

PoolOwns == \A a \in doomed : mem[a] # Free

NothingLost ==
    \A a \in Allocated :
        /\ db[mem[a].key] = a \/ a \in doomed
        /\ mem[a].heap_idx => a \in DOMAIN heap

Ownership == MapOwns /\ TimersPointBack /\ PoolOwns /\ NothingLost

\* The assertion of process_timers() (server.cpp:349) holds: the root of the
\* heap is an entry of the map.
RootIsInMap == phase # "assert_node"

\* Commands and timers together are the store of module Store.
Abstract == INSTANCE Store WITH
    val <- [k \in {l \in Keys : Found(l)} |-> Ent(k).val],
    exp <- [k \in {l \in Keys : Found(l) /\ db[l] \in DOMAIN heap} |-> heap[db[k]]]

ImplementsStore == Abstract!Spec

\* assert(ttl_ms >= 0) (exec.cpp:273): no command makes the server abort.
TtlIsNotNegative == phase # "assert_ttl"
=============================================================================
