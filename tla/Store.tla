-------------------------------- MODULE Store --------------------------------
(***************************************************************************)
(* What the commands of src/src/exec.cpp promise a client: a map from keys *)
(* to strings and sorted sets, with a deadline for some of the keys.  Here *)
(* are no entries, pointers, heaps or threads; Keyspace implements this    *)
(* module.                                                                 *)
(***************************************************************************)
EXTENDS Integers, FiniteSets

CONSTANTS
    Keys, Strings,
    Names, Scores,  \* numbers, for their order
    TTLs,           \* arguments of pexpire, in ms
    Offsets, Limits,    \* arguments of zquery
    BadNumber       \* an argument that str2dbl() and str2int() reject

VARIABLES
    val,            \* val[k]: the value of key k, for the keys that exist
    exp,            \* exp[k]: the deadline of key k, for the keys with a TTL
    now,            \* the clock
    reply           \* the answer to the last command

vars == <<val, exp, now, reply>>

Nil == <<"nil">>
Str(v) == <<"str", v>>
Int64(n) == <<"int", n>>
Dbl(s) == <<"dbl", s>>
Arr(S) == <<"arr", S>>
Pairs(q) == <<"pairs", q>>
BadType == <<"err", "ERR_BAD_TYPE">>
BadArg == <<"err", "ERR_BAD_ARG">>
UnknownCommand == <<"err", "ERR_UNKNOWN">>

StrVal(v) == [type |-> "str", str |-> v]
ZsetVal(z) == [type |-> "zset", zset |-> z]

Exists(k) == k \in DOMAIN val
Wrong(k, type) == Exists(k) /\ val[k].type # type
With(f, k, v) == [x \in DOMAIN f \cup {k} |-> IF x = k THEN v ELSE f[x]]
Without(f, k) == [x \in DOMAIN f \ {k} |-> f[x]]

\* A command that leaves the data alone, or changes the values only.
Says(r) == reply' = r /\ UNCHANGED <<val, exp, now>>
Sets(v, r) == val' = v /\ reply' = r /\ UNCHANGED <<exp, now>>

Init == val = <<>> /\ exp = <<>> /\ now = 0 /\ reply = Nil

Get(k) ==
    Says(IF Wrong(k, "str") THEN BadType
         ELSE IF Exists(k) THEN Str(val[k].str) ELSE Nil)

\* The key keeps its deadline, if it has one.
Set(k, v) ==
    IF Wrong(k, "str") THEN Says(BadType)
    ELSE Sets(With(val, k, StrVal(v)), Nil)

Remove(k) == val' = Without(val, k) /\ exp' = Without(exp, k)

Del(k) ==
    IF Exists(k) THEN Remove(k) /\ reply' = Int64(1) /\ UNCHANGED now
    ELSE Says(Int64(0))

ListKeys == Says(Arr(DOMAIN val))

\* No such command, or not as many arguments as it takes.
Unknown == Says(UnknownCommand)

Zset(k) == IF Exists(k) THEN val[k].zset ELSE <<>>

Zadd(k, n, s) ==
    IF s = BadNumber THEN Says(BadArg)
    ELSE IF Wrong(k, "zset") THEN Says(BadType)
    ELSE Sets(With(val, k, ZsetVal(With(Zset(k), n, s))),
              Int64(IF n \in DOMAIN Zset(k) THEN 0 ELSE 1))

\* An empty sorted set stays.
Zrem(k, n) ==
    IF Wrong(k, "zset") THEN Says(BadType)
    ELSE IF n \notin DOMAIN Zset(k) THEN Says(Int64(0))
    ELSE Sets(With(val, k, ZsetVal(Without(Zset(k), n))), Int64(1))

Zscore(k, n) ==
    Says(IF Wrong(k, "zset") THEN BadType
         ELSE IF n \in DOMAIN Zset(k) THEN Dbl(Zset(k)[n]) ELSE Nil)

\* How many members of z come before (s, n), by score and then by name; and
\* the member before which there are i.
Position(z, s, n) == Cardinality({m \in DOMAIN z : z[m] < s \/ (z[m] = s /\ m < n)})
Member(z, i) == CHOOSE n \in DOMAIN z : Position(z, z[n], n) = i

Zrank(k, n) ==
    Says(IF Wrong(k, "zset") THEN BadType
         ELSE IF n \in DOMAIN Zset(k) THEN Int64(Position(Zset(k), Zset(k)[n], n)) ELSE Nil)

\* The members from the one at `offset` from the first that is (s, n) or after
\* it.  The limit counts names and scores: a limit of 3 admits two pairs.  With
\* no member at (s, n) or after it, or the start out of range, there is nothing
\* - also when the offset is negative.
Listing(z, s, n, offset, limit) ==
    LET size == Cardinality(DOMAIN z)
        seek == Position(z, s, n)
        first == seek + offset
        left == IF seek < size /\ first \in 0..(size - 1) THEN size - first ELSE 0
        most == IF limit <= 0 THEN 0 ELSE (limit + 1) \div 2
        pair(i) == LET m == Member(z, first + i - 1) IN <<m, z[m]>>
    IN  [i \in 1..(IF left < most THEN left ELSE most) |-> pair(i)]

Zquery(k, s, n, offset, limit) ==
    IF BadNumber \in {s, offset, limit} THEN Says(BadArg)
    ELSE IF Wrong(k, "zset") THEN Says(BadType)
    ELSE Says(Pairs(Listing(Zset(k), s, n, offset, limit)))

Pexpire(k, ms) ==
    IF ms = BadNumber THEN Says(BadArg)
    ELSE IF ~Exists(k) THEN Says(Int64(0))
    ELSE /\ ms >= 0
         /\ exp' = With(exp, k, now + ms) /\ reply' = Int64(1) /\ UNCHANGED <<val, now>>

Persist(k) ==
    IF k \notin DOMAIN exp THEN Says(Int64(0))
    ELSE exp' = Without(exp, k) /\ reply' = Int64(1) /\ UNCHANGED <<val, now>>

Pttl(k) ==
    Says(Int64(IF ~Exists(k) THEN -2
             ELSE IF k \notin DOMAIN exp THEN -1
             ELSE IF exp[k] > now THEN exp[k] - now ELSE 0))

\* A key may go once its deadline has passed, and no earlier.
Expire(k) ==
    /\ k \in DOMAIN exp /\ exp[k] < now
    /\ Remove(k)
    /\ UNCHANGED <<now, reply>>

Tick == now' = now + 1 /\ UNCHANGED <<val, exp, reply>>

Next ==
    \/ \E k \in Keys :
          \/ Get(k) \/ Del(k) \/ Persist(k) \/ Pttl(k) \/ Expire(k)
          \/ \E v \in Strings : Set(k, v)
          \/ \E ms \in TTLs \cup {BadNumber} : Pexpire(k, ms)
          \/ \E n \in Names : Zrem(k, n) \/ Zscore(k, n) \/ Zrank(k, n)
          \/ \E n \in Names, s \in Scores \cup {BadNumber} :
                \/ Zadd(k, n, s)
                \/ \E offset \in Offsets \cup {BadNumber}, limit \in Limits \cup {BadNumber} :
                      Zquery(k, s, n, offset, limit)
    \/ ListKeys
    \/ Unknown
    \/ Tick

Spec == Init /\ [][Next]_vars
=============================================================================
