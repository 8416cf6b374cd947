---------------------------- MODULE HashMapProofs ----------------------------
(* Proofs about HashMap, for any nodes, hash codes, sizes of the first table, *)
(* load factor and amount of work of a migration step.                        *)
EXTENDS HashMap, FiniteSetTheorems, WellFoundedInduction, TLAPS

-----------------------------------------------------------------------------
(* Chains.                                                                   *)

\* A node pushed to the front of a chain that did not have it.
LEMMA ChainPush ==
    ASSUME NEW s \in Seq(Keys), NEW k \in Keys, IsInjective(s), k \notin Range(s)
    PROVE  /\ <<k>> \o s \in Seq(Keys)
           /\ Range(<<k>> \o s) = Range(s) \cup {k}
           /\ IsInjective(<<k>> \o s)
<1> DEFINE t == <<k>> \o s
<1>1. t \in Seq(Keys) /\ Len(t) = Len(s) + 1 /\ DOMAIN t = 1 .. Len(s) + 1
  OBVIOUS
<1>2. t[1] = k /\ \A i \in 1 .. Len(s) : t[i + 1] = s[i]
  OBVIOUS
<1>3. \A i \in 2 .. Len(s) + 1 : i - 1 \in 1 .. Len(s) /\ t[i] = s[i - 1]
  BY <1>2
<1>4. Range(t) = Range(s) \cup {k}
  <2>1. ASSUME NEW x \in Range(t) PROVE x \in Range(s) \cup {k}
    BY <1>1, <1>2, <1>3 DEF Range
  <2>2. ASSUME NEW x \in Range(s) PROVE x \in Range(t)
    <3>1. PICK i \in 1 .. Len(s) : x = s[i]
      BY DEF Range
    <3>2. i + 1 \in DOMAIN t /\ t[i + 1] = x
      BY <1>1, <1>2, <3>1
    <3> QED
      BY <3>2 DEF Range
  <2>3. k \in Range(t)
    BY <1>1, <1>2 DEF Range
  <2> QED
    BY <2>1, <2>2, <2>3
<1>5. IsInjective(t)
  BY <1>1, <1>2, <1>3 DEF IsInjective, Range
<1> QED
  BY <1>1, <1>4, <1>5

\* A node taken out of a chain that has it once.
LEMMA ChainRemove ==
    ASSUME NEW s \in Seq(Keys), NEW k \in Range(s), IsInjective(s)
    PROVE  /\ RemoveFirst(s, k) \in Seq(Keys)
           /\ Range(RemoveFirst(s, k)) = Range(s) \ {k}
           /\ IsInjective(RemoveFirst(s, k))
<1> DEFINE t == RemoveFirst(s, k)
<1>1. PICK p \in 1 .. Len(s) : s[p] = k
  BY DEF Range
<1>2. \A i \in 1 .. Len(s) : s[i] = k => i = p
  BY <1>1 DEF IsInjective
<1>3. t = SubSeq(s, 1, p - 1) \o SubSeq(s, p + 1, Len(s))
  <2>1. {i \in 1 .. Len(s) : s[i] = k} = {p}
    BY <1>1, <1>2
  <2>2. SelectInSeq(s, LAMBDA v : v = k) = p
    BY <1>1, <2>1 DEF SelectInSeq, SelectInSubSeq, Min
  <2> QED
    BY <1>1, <2>2 DEF RemoveFirst, RemoveAt
<1> DEFINE u == SubSeq(s, 1, p - 1)
           v == SubSeq(s, p + 1, Len(s))
<1>4. /\ u \in Seq(Keys) /\ Len(u) = p - 1 /\ \A i \in 1 .. p - 1 : u[i] = s[i]
      /\ v \in Seq(Keys) /\ Len(v) = Len(s) - p /\ \A i \in 1 .. Len(s) - p : v[i] = s[i + p]
  <2>1. \A i \in 1 .. Len(s) : s[i] \in Keys
    OBVIOUS
  <2>2. u = [i \in 1 .. p - 1 |-> s[i]]
    BY <1>1
  <2>3. v = [i \in 1 .. Len(s) - p |-> s[i + p]]
    BY <1>1
  <2> QED
    BY <1>1, <2>1, <2>2, <2>3
<1>5. /\ t \in Seq(Keys) /\ Len(t) = Len(s) - 1 /\ DOMAIN t = 1 .. Len(s) - 1
      /\ \A i \in 1 .. Len(s) - 1 : t[i] = IF i < p THEN s[i] ELSE s[i + 1]
  <2> HIDE DEF t, u, v
  <2>1. t = u \o v
    BY <1>3 DEF u, v
  <2>2. t \in Seq(Keys) /\ Len(t) = Len(s) - 1 /\ DOMAIN t = 1 .. Len(s) - 1
    <3>1. Len(t) = Len(u) + Len(v) /\ t \in Seq(Keys)
      <4>1. u \in Seq(Keys) /\ v \in Seq(Keys)
        BY <1>4
      <4> QED
        BY <2>1, <4>1
    <3>2. (p - 1) + (Len(s) - p) = Len(s) - 1
      BY <1>1
    <3> QED
      BY <1>4, <3>1, <3>2
  <2>3. \A i \in 1 .. Len(s) - 1 : t[i] = IF i < p THEN u[i] ELSE v[i - p + 1]
    BY <2>1, <1>4, <1>1
  <2>4. ASSUME NEW i \in 1 .. Len(s) - 1 PROVE t[i] = IF i < p THEN s[i] ELSE s[i + 1]
    <3>1. CASE i < p
      BY <3>1, <2>3, <1>4, <1>1
    <3>2. CASE ~(i < p)
      <4>1. i - p + 1 \in 1 .. Len(s) - p /\ (i - p + 1) + p = i + 1
        BY <3>2, <1>1
      <4>2. v[i - p + 1] = s[i + 1]
        BY <4>1, <1>4
      <4> QED
        BY <4>2, <3>2, <2>3
    <3> QED
      BY <3>1, <3>2
  <2> QED
    BY <2>2, <2>4
<1>6. Range(t) = Range(s) \ {k}
  <2>1. ASSUME NEW x \in Range(t) PROVE x \in Range(s) \ {k}
    <3>1. PICK i \in 1 .. Len(s) - 1 : x = t[i]
      BY <1>5 DEF Range
    <3>2. CASE i < p
      BY <3>1, <3>2, <1>2, <1>5 DEF Range
    <3>3. CASE ~(i < p)
      BY <3>1, <3>3, <1>2, <1>5 DEF Range
    <3> QED
      BY <3>2, <3>3
  <2>2. ASSUME NEW x \in Range(s), x # k PROVE x \in Range(t)
    <3>1. PICK i \in 1 .. Len(s) : x = s[i]
      BY DEF Range
    <3>2. i # p
      BY <1>1, <2>2, <3>1
    <3>3. CASE i < p
      <4>1. i \in DOMAIN t /\ t[i] = x
        BY <1>5, <1>5, <3>1, <3>3
      <4> QED
        BY <4>1 DEF Range
    <3>4. CASE i > p
      <4>1. i - 1 \in DOMAIN t /\ t[i - 1] = x
        BY <1>5, <1>5, <3>1, <3>4
      <4> QED
        BY <4>1 DEF Range
    <3> QED
      BY <3>2, <3>3, <3>4
  <2> QED
    BY <2>1, <2>2
<1>7. IsInjective(t)
  <2> SUFFICES ASSUME NEW i \in 1 .. Len(s) - 1, NEW j \in 1 .. Len(s) - 1, t[i] = t[j]
               PROVE  i = j
    BY <1>5 DEF IsInjective
  <2> DEFINE at(l) == IF l < p THEN l ELSE l + 1
  <2>1. \A l \in 1 .. Len(s) - 1 : t[l] = s[at(l)]
    BY <1>5
  <2>2. at(i) \in 1 .. Len(s) /\ at(j) \in 1 .. Len(s) /\ (at(i) = at(j) => i = j)
    BY <1>1
  <2> HIDE DEF at
  <2>3. at(i) = at(j)
    BY <2>1, <2>2 DEF IsInjective
  <2> QED
    BY <2>2, <2>3
<1> QED
  BY <1>5, <1>6, <1>7

-----------------------------------------------------------------------------
(* One table.                                                                *)

\* A table that is what it should be: each node in the slot of its hash code,
\* once, and as many nodes as the size says.
Good(t) ==
    /\ IsTable(t)
    /\ \A i \in DOMAIN t.tab : \A k \in Range(t.tab[i]) : i = htab_idx(t, k)
    /\ \A i \in DOMAIN t.tab : IsInjective(t.tab[i])
    /\ IsFiniteSet(Nodes(t)) /\ Cardinality(Nodes(t)) = t.size

LEMMA Modulo == ASSUME NEW a \in Nat, NEW n \in Nat \ {0} PROVE a % n \in 0 .. n - 1
  OBVIOUS

LEMMA NullTable == Good(NoTab) /\ IsNull(NoTab) /\ Nodes(NoTab) = {} /\ DOMAIN NoTab.tab = {}
<1>1. DOMAIN NoTab.tab = {} /\ NoTab.size = 0 /\ IsNull(NoTab)
  BY DEF NoTab, IsNull
<1>2. Nodes(NoTab) = {}
  BY <1>1 DEF Nodes
<1> QED
  BY <1>1, <1>2, FS_EmptySet DEF Good, IsTable

\* What a table that is there looks like.
LEMMA TableShape ==
    ASSUME NEW t, Good(t), ~IsNull(t)
    PROVE  /\ t = [tab |-> t.tab, mask |-> t.mask, size |-> t.size]
           /\ t.mask \in Nat \ {0} /\ t.size \in Int
           /\ t.tab \in [0 .. t.mask -> Seq(Keys)]
  BY DEF Good, IsTable, IsNull, NoTab

LEMMA NotNull ==
    ASSUME NEW t, NEW n \in Nat, DOMAIN t.tab = 0 .. n PROVE ~IsNull(t)
<1>1. DOMAIN <<>> = {}
  OBVIOUS
<1>2. 0 \in 0 .. n
  OBVIOUS
<1> QED
  BY <1>1, <1>2 DEF IsNull

LEMMA NewTable ==
    ASSUME NEW n \in Nat \ {0, 1}
    PROVE  LET t == htab_init(n)
           IN  Good(t) /\ ~IsNull(t) /\ Nodes(t) = {} /\ Slots(t) = n /\ t.size = 0
<1> DEFINE t == htab_init(n)
<1>1. /\ t = [tab |-> t.tab, mask |-> t.mask, size |-> t.size]
      /\ t.mask = n - 1 /\ t.size = 0 /\ t.tab = [i \in 0 .. n - 1 |-> <<>>]
  BY DEF htab_init
<1>2. \A i \in DOMAIN t.tab : t.tab[i] = <<>> /\ Range(t.tab[i]) = {} /\ IsInjective(t.tab[i])
  BY <1>1 DEF Range, IsInjective
<1>3. Nodes(t) = {}
  BY <1>2 DEF Nodes
<1>4. IsTable(t)
  <2>1. n - 1 \in Nat \ {0} /\ <<>> \in Seq(Keys)
    OBVIOUS
  <2>2. t.tab \in [0 .. n - 1 -> Seq(Keys)]
    BY <1>1, <2>1
  <2> QED
    BY <1>1, <2>1, <2>2 DEF IsTable
<1>5. Good(t)
  BY <1>1, <1>2, <1>3, <1>4, FS_EmptySet DEF Good
<1>6. ~IsNull(t)
  <2>1. n - 1 \in Nat /\ DOMAIN t.tab = 0 .. n - 1
    BY <1>1
  <2> QED
    BY <2>1, NotNull
<1> QED
  BY <1>1, <1>3, <1>5, <1>6 DEF Slots

\* A node of a table is in the chain of its slot.
LEMMA LookupFinds ==
    ASSUME NEW t, Good(t), NEW k \in Keys
    PROVE  /\ InTable(t, k) <=> k \in Nodes(t)
           /\ InTable(t, k) =>
                 htab_idx(t, k) \in DOMAIN t.tab /\ k \in Range(t.tab[htab_idx(t, k)])
<1>1. CASE IsNull(t)
  <2>1. DOMAIN t.tab = {}
    BY <1>1 DEF IsNull
  <2> QED
    BY <1>1, <2>1 DEF InTable, Nodes
<1>2. CASE ~IsNull(t)
  <2>1. htab_idx(t, k) \in DOMAIN t.tab
    <3>1. t.mask + 1 \in Nat \ {0} /\ DOMAIN t.tab = 0 .. t.mask
      BY <1>2, TableShape
    <3>2. Hash[k] \in Nat
      BY HashAssumption
    <3> HIDE DEF htab_idx
    <3>3. Hash[k] % (t.mask + 1) \in 0 .. (t.mask + 1) - 1
      BY <3>1, <3>2, Modulo
    <3> QED
      BY <1>2, TableShape, <3>1, <3>3 DEF htab_idx, Slots
  <2>2. ASSUME k \in Nodes(t) PROVE k \in Range(t.tab[htab_idx(t, k)])
    BY <2>2 DEF Nodes, Good
  <2>3. ASSUME k \in Range(t.tab[htab_idx(t, k)]) PROVE k \in Nodes(t)
    BY <2>1, <2>3 DEF Nodes
  <2> QED
    BY <1>2, <2>1, <2>2, <2>3 DEF InTable
<1> QED
  BY <1>1, <1>2

LEMMA ReplaceChain ==
    ASSUME NEW t, Good(t), ~IsNull(t), NEW i \in DOMAIN t.tab,
           NEW c \in Seq(Keys), IsInjective(c), NEW n \in Int,
           \A k \in Range(c) : i = htab_idx(t, k)
    PROVE  LET u == WithChain(t, i, c, n)
           IN  /\ Nodes(u) = (Nodes(t) \ Range(t.tab[i])) \cup Range(c)
               /\ IsFiniteSet(Nodes(u)) /\ Cardinality(Nodes(u)) = n => Good(u)
               /\ ~IsNull(u) /\ u.mask = t.mask /\ u.size = n
               /\ DOMAIN u.tab = DOMAIN t.tab
               /\ \A j \in DOMAIN t.tab : u.tab[j] = IF j = i THEN c ELSE t.tab[j]
<1> DEFINE u == WithChain(t, i, c, n)
<1>1. /\ t = [tab |-> t.tab, mask |-> t.mask, size |-> t.size]
      /\ t.mask \in Nat \ {0} /\ t.tab \in [0 .. t.mask -> Seq(Keys)]
  BY TableShape
<1>2. u = [tab |-> [t.tab EXCEPT ![i] = c], mask |-> t.mask, size |-> n]
  BY DEF WithChain
<1>3. /\ u = [tab |-> u.tab, mask |-> u.mask, size |-> u.size]
      /\ u.mask = t.mask /\ u.size = n /\ u.tab = [t.tab EXCEPT ![i] = c]
  BY <1>2
<1> HIDE DEF u
<1>4. /\ u.tab \in [0 .. u.mask -> Seq(Keys)] /\ DOMAIN u.tab = DOMAIN t.tab
      /\ \A j \in DOMAIN t.tab : u.tab[j] = IF j = i THEN c ELSE t.tab[j]
  BY <1>1, <1>3
<1>5. ~IsNull(u)
  <2>1. DOMAIN u.tab = 0 .. t.mask /\ t.mask \in Nat
    BY <1>1, <1>4
  <2> QED
    BY <2>1, NotNull
<1>6. \A k : htab_idx(u, k) = htab_idx(t, k)
  BY <1>3 DEF htab_idx, Slots
<1>7. Nodes(u) = (Nodes(t) \ Range(t.tab[i])) \cup Range(c)
  <2>1. \A j \in DOMAIN t.tab : \A k \in Range(t.tab[j]) : j = htab_idx(t, k)
    BY DEF Good
  <2>2. ASSUME NEW x \in Nodes(u) PROVE x \in (Nodes(t) \ Range(t.tab[i])) \cup Range(c)
    <3>1. PICK j \in DOMAIN t.tab : x \in Range(u.tab[j])
      BY <1>4 DEF Nodes
    <3>2. CASE j = i
      BY <3>1, <3>2, <1>4
    <3>3. CASE j # i
      <4>1. x \in Range(t.tab[j]) /\ x \notin Range(t.tab[i])
        BY <3>1, <3>3, <1>4, <2>1
      <4> QED
        BY <4>1 DEF Nodes
    <3> QED
      BY <3>2, <3>3
  <2>3. ASSUME NEW x \in Nodes(t), x \notin Range(t.tab[i]) PROVE x \in Nodes(u)
    <3>1. PICK j \in DOMAIN t.tab : x \in Range(t.tab[j])
      BY DEF Nodes
    <3>2. x \in Range(u.tab[j])
      BY <3>1, <2>3, <1>4
    <3> QED
      BY <3>1, <3>2, <1>4 DEF Nodes
  <2>4. ASSUME NEW x \in Range(c) PROVE x \in Nodes(u)
    <3>1. i \in DOMAIN u.tab /\ x \in Range(u.tab[i])
      BY <2>4, <1>4
    <3> QED
      BY <3>1 DEF Nodes
  <2> QED
    BY <2>2, <2>3, <2>4
<1>8. ASSUME IsFiniteSet(Nodes(u)), Cardinality(Nodes(u)) = n PROVE Good(u)
  <2>1. IsTable(u)
    BY <1>1, <1>3, <1>4 DEF IsTable
  <2>2. \A j \in DOMAIN u.tab : \A k \in Range(u.tab[j]) : j = htab_idx(u, k)
    BY <1>4, <1>6 DEF Good
  <2>3. \A j \in DOMAIN u.tab : IsInjective(u.tab[j])
    BY <1>4 DEF Good
  <2> QED
    BY <1>3, <1>8, <2>1, <2>2, <2>3 DEF Good
<1> QED
  BY <1>3, <1>4, <1>5, <1>7, <1>8 DEF u

\* htab_insert() adds the node that it is given.
LEMMA InsertAdds ==
    ASSUME NEW t, Good(t), ~IsNull(t), NEW k \in Keys, k \notin Nodes(t)
    PROVE  LET u == htab_insert(t, k)
           IN  /\ Good(u) /\ ~IsNull(u) /\ Nodes(u) = Nodes(t) \cup {k}
               /\ Slots(u) = Slots(t) /\ u.size = t.size + 1
<1> DEFINE i == htab_idx(t, k)
           c == <<k>> \o t.tab[i]
<1>1. t.size \in Int /\ t.tab \in [0 .. t.mask -> Seq(Keys)]
  BY TableShape
<1>2. i \in DOMAIN t.tab
  <2>1. t.mask + 1 \in Nat \ {0} /\ DOMAIN t.tab = 0 .. t.mask /\ Hash[k] \in Nat
    BY TableShape, HashAssumption
  <2>2. Hash[k] % (t.mask + 1) \in 0 .. (t.mask + 1) - 1
    BY <2>1, Modulo
  <2> QED
    BY <2>1, <2>2, TableShape DEF htab_idx, Slots
<1>3. k \notin Range(t.tab[i]) /\ IsInjective(t.tab[i]) /\ t.tab[i] \in Seq(Keys)
  <2>1. t.tab[i] \in Seq(Keys)
    BY <1>1, <1>2
  <2>2. IsInjective(t.tab[i])
    BY <1>2 DEF Good
  <2>3. k \notin Range(t.tab[i])
    BY <1>2 DEF Nodes
  <2> QED
    BY <2>1, <2>2, <2>3
<1>4. c \in Seq(Keys) /\ Range(c) = Range(t.tab[i]) \cup {k} /\ IsInjective(c)
  BY <1>3, ChainPush
<1>5. \A x \in Range(c) : i = htab_idx(t, x)
  BY <1>2, <1>4 DEF Good
<1> DEFINE u == htab_insert(t, k)
<1>6. u = WithChain(t, i, c, t.size + 1)
  BY DEF htab_insert, WithChain
<1> HIDE DEF i, c, u
<1>7. Nodes(u) = Nodes(t) \cup {k}
  <2>1. Nodes(u) = (Nodes(t) \ Range(t.tab[i])) \cup Range(c)
    BY <1>1, <1>2, <1>4, <1>5, <1>6, ReplaceChain
  <2>2. Range(t.tab[i]) \subseteq Nodes(t)
    BY <1>2 DEF Nodes
  <2> QED
    BY <1>4, <2>1, <2>2
<1>8. IsFiniteSet(Nodes(u)) /\ Cardinality(Nodes(u)) = t.size + 1
  BY <1>7, FS_AddElement DEF Good
<1>9. /\ IsFiniteSet(Nodes(u)) /\ Cardinality(Nodes(u)) = t.size + 1 => Good(u)
      /\ ~IsNull(u) /\ u.mask = t.mask /\ u.size = t.size + 1
  BY <1>1, <1>2, <1>4, <1>5, <1>6, ReplaceChain
<1> QED
  BY <1>7, <1>8, <1>9 DEF Slots, u

\* htab_detach() removes the node that it is given, and nothing else.
LEMMA DetachRemoves ==
    ASSUME NEW t, Good(t), NEW i \in DOMAIN t.tab, NEW k \in Range(t.tab[i])
    PROVE  LET u == Detach(t, i, k)
           IN  /\ Good(u) /\ ~IsNull(u) /\ Nodes(u) = Nodes(t) \ {k} /\ k \in Nodes(t)
               /\ Slots(u) = Slots(t) /\ u.size = t.size - 1
               /\ DOMAIN u.tab = DOMAIN t.tab
               /\ \A j \in DOMAIN t.tab : j # i => u.tab[j] = t.tab[j]
<1> DEFINE c == RemoveFirst(t.tab[i], k)
           u == Detach(t, i, k)
<1>1. ~IsNull(t)
  BY DEF IsNull
<1>2. t.size \in Int /\ t.tab \in [0 .. t.mask -> Seq(Keys)]
  BY <1>1, TableShape
<1>3. IsInjective(t.tab[i]) /\ t.tab[i] \in Seq(Keys)
  BY <1>2 DEF Good
<1>4. c \in Seq(Keys) /\ Range(c) = Range(t.tab[i]) \ {k} /\ IsInjective(c)
  BY <1>3, ChainRemove
<1>5. \A x \in Range(c) : i = htab_idx(t, x)
  BY <1>4 DEF Good
<1>6. u = WithChain(t, i, c, t.size - 1)
  BY DEF Detach, WithChain
<1>7. /\ IsFiniteSet(Nodes(u)) /\ Cardinality(Nodes(u)) = t.size - 1 => Good(u)
      /\ ~IsNull(u) /\ u.mask = t.mask /\ u.size = t.size - 1
      /\ DOMAIN u.tab = DOMAIN t.tab
      /\ \A j \in DOMAIN t.tab : j # i => u.tab[j] = t.tab[j]
      /\ Nodes(u) = (Nodes(t) \ Range(t.tab[i])) \cup Range(c)
  BY <1>1, <1>2, <1>4, <1>5, <1>6, ReplaceChain
<1>8. Nodes(u) = Nodes(t) \ {k} /\ k \in Nodes(t)
  <2>1. Range(t.tab[i]) \subseteq Nodes(t)
    BY DEF Nodes
  <2> QED
    BY <1>4, <1>7, <2>1
<1>9. IsFiniteSet(Nodes(u)) /\ Cardinality(Nodes(u)) = t.size - 1
  BY <1>8, FS_RemoveElement DEF Good
<1> QED
  BY <1>7, <1>8, <1>9 DEF Slots

LEMMA NullIsNoTab == ASSUME NEW t, Good(t), IsNull(t) PROVE t = NoTab
  <1>1. ASSUME t.mask \in Nat \ {0}, t.tab \in [0 .. t.mask -> Seq(Keys)] PROVE FALSE
    <2>1. DOMAIN t.tab = 0 .. t.mask
      BY <1>1
    <2> QED
      BY <1>1, <2>1, NotNull
  <1> QED
    BY <1>1 DEF Good, IsTable

\* A table that has nodes has a chain that is not empty.
LEMMA SomeChain ==
    ASSUME NEW t, Good(t), t.size # 0
    PROVE  t.size > 0 /\ ~IsNull(t) /\ \E i \in DOMAIN t.tab : t.tab[i] # <<>>
<1>1. Nodes(t) # {}
  BY FS_EmptySet DEF Good
<1>2. PICK i \in DOMAIN t.tab : Range(t.tab[i]) # {}
  BY <1>1 DEF Nodes
<1>3. t.tab[i] # <<>>
  BY <1>2 DEF Range
<1>4. t.size > 0
  BY FS_CardinalityType DEF Good
<1>5. ~IsNull(t)
  BY <1>2 DEF IsNull
<1> QED
  BY <1>3, <1>4, <1>5

-----------------------------------------------------------------------------
(* The inductive invariant.                                                  *)

\* The slots that the migration has passed are empty.
Passed == \A i \in DOMAIN older.tab : i < migrate_pos => older.tab[i] = <<>>

IInv ==
    /\ Good(newer) /\ Good(older)
    /\ Nodes(newer) \cap Nodes(older) = {}
    /\ IsNull(newer) => IsNull(older)
    /\ Passed
    /\ migrate_pos \in Nat /\ count \in 0 .. K_REHASH_WORK
    /\ op \in Ops \cup {None}
    /\ reply \in [fn : {"lookup", "delete"}, key : Keys, found : BOOLEAN] \cup {None}

\* hm_insert() adds a node to the newer table, which becomes the older one of
\* two if it has reached the threshold.
LEMMA InsertStep ==
    ASSUME IInv, NEW k \in Keys, hm_insert(k)
    PROVE  /\ Good(newer') /\ Good(older') /\ ~IsNull(newer')
           /\ Nodes(newer') \cap Nodes(older') = {}
           /\ Nodes(newer') \cup Nodes(older') = (Nodes(newer) \cup Nodes(older)) \cup {k}
           /\ migrate_pos' \in Nat /\ Passed'
           /\ \/ /\ IsNull(older) /\ ~IsNull(older') /\ newer'.size = 0
                 /\ Slots(newer') = Slots(older') * 2
                 /\ older'.size >= Slots(older') * K_MAX_LOAD_FACTOR
                 /\ older'.size = newer.size + 1
                 /\ ~IsNull(newer) => Slots(older') = Slots(newer)
              \/ /\ older' = older /\ newer'.size = newer.size + 1
                 /\ ~IsNull(newer) => Slots(newer') = Slots(newer)
                 /\ IsNull(older) => newer'.size < Slots(newer') * K_MAX_LOAD_FACTOR
<1> DEFINE b == IF IsNull(newer) THEN htab_init(InitSlots) ELSE newer
           t == htab_insert(b, k)
<1>1. /\ Good(b) /\ ~IsNull(b) /\ Nodes(b) = Nodes(newer) /\ b.size = newer.size
      /\ ~IsNull(newer) => Slots(b) = Slots(newer)
  <2>1. CASE IsNull(newer)
    <3>1. newer = NoTab /\ newer.size = 0 /\ Nodes(newer) = {}
      BY <2>1, NullIsNoTab, NullTable DEF IInv, NoTab
    <3>2. LET x == htab_init(InitSlots)
          IN  Good(x) /\ ~IsNull(x) /\ Nodes(x) = {} /\ Slots(x) = InitSlots /\ x.size = 0
      BY NewTable, BoundsAssumption
    <3>3. b = htab_init(InitSlots)
      BY <2>1
    <3> QED
      BY <2>1, <3>1, <3>2, <3>3
  <2>2. CASE ~IsNull(newer)
    BY <2>2 DEF IInv
  <2> QED
    BY <2>1, <2>2
<1> HIDE DEF b
<1>2. k \notin Nodes(newer) \cup Nodes(older)
  BY DEF hm_insert
<1>3. /\ Good(t) /\ ~IsNull(t) /\ Nodes(t) = Nodes(newer) \cup {k}
      /\ t.size = newer.size + 1 /\ Slots(t) = Slots(b)
  BY <1>1, <1>2, InsertAdds
<1>4. t.size \in Int /\ Slots(t) \in Nat \ {0, 1}
  BY <1>3, TableShape DEF Slots
<1>5. /\ MustRehash(t) => hm_trigger_rehash(t)
      /\ ~MustRehash(t) => newer' = t /\ UNCHANGED <<older, migrate_pos>>
  BY DEF hm_insert, b
<1> HIDE DEF t
<1>6. CASE MustRehash(t)
  <2>1. older' = t /\ newer' = htab_init(Slots(t) * 2) /\ migrate_pos' = 0
    BY <1>5, <1>6 DEF hm_trigger_rehash
  <2>2. Slots(t) * 2 \in Nat \ {0, 1}
    BY <1>4
  <2>3. /\ Good(newer') /\ ~IsNull(newer') /\ Nodes(newer') = {}
        /\ Slots(newer') = Slots(t) * 2 /\ newer'.size = 0
    BY <2>1, <2>2, NewTable
  <2>4. IsNull(older) /\ t.size >= Slots(t) * K_MAX_LOAD_FACTOR
    BY <1>6 DEF MustRehash
  <2>5. Nodes(older) = {}
    BY <2>4 DEF IsNull, Nodes
  <2>6. Passed'
    <3>1. ASSUME NEW i \in DOMAIN t.tab PROVE ~(i < 0)
      <4>1. i \in 0 .. t.mask /\ t.mask \in Nat
        BY <1>3, TableShape
      <4> QED
        BY <4>1
    <3> QED
      BY <2>1, <3>1 DEF Passed
  <2> QED
    BY <1>1, <1>3, <2>1, <2>3, <2>4, <2>5, <2>6
<1>7. CASE ~MustRehash(t)
  <2>1. newer' = t /\ older' = older /\ migrate_pos' = migrate_pos
    BY <1>5, <1>7
  <2>2. IsNull(older) => t.size < Slots(t) * K_MAX_LOAD_FACTOR
    <3>1. Slots(t) * K_MAX_LOAD_FACTOR \in Int
      BY <1>4, BoundsAssumption
    <3> QED
      BY <1>4, <1>7, <3>1 DEF MustRehash
  <2>3. Passed'
    BY <2>1 DEF IInv, Passed
  <2>4. Nodes(t) \cap Nodes(older) = {}
    BY <1>2, <1>3 DEF IInv
  <2> QED
    BY <1>1, <1>3, <2>1, <2>2, <2>3, <2>4 DEF IInv
<1> QED
  BY <1>6, <1>7

\* The slot that the loop looks at exists.
LEMMA PosInBounds == ASSUME IInv, older.size > 0 PROVE migrate_pos \in DOMAIN older.tab
<1>1. Good(older) /\ older.size # 0
  BY DEF IInv
<1>2. PICK i \in DOMAIN older.tab : older.tab[i] # <<>>
  BY <1>1, SomeChain
<1>3. DOMAIN older.tab = 0 .. older.mask /\ older.mask \in Nat
  BY <1>1, SomeChain, TableShape
<1>4. migrate_pos \in Nat /\ ~(i < migrate_pos)
  BY <1>2 DEF IInv, Passed
<1> QED
  BY <1>2, <1>3, <1>4

\* An iteration of the migration loop skips a slot or moves a node.
LEMMA MigrateStep ==
    ASSUME IInv, hm_progressive_rehash
    PROVE  /\ Good(newer') /\ Good(older')
           /\ ~IsNull(newer) /\ ~IsNull(newer') /\ ~IsNull(older) /\ ~IsNull(older')
           /\ Nodes(newer') \cap Nodes(older') = {}
           /\ Nodes(newer') \cup Nodes(older') = Nodes(newer) \cup Nodes(older)
           /\ migrate_pos' \in Nat /\ Passed'
           /\ Slots(newer') = Slots(newer)
           /\ \/ newer' = newer /\ older' = older /\ count' = count
              \/ /\ newer'.size = newer.size + 1 /\ older'.size = older.size - 1
                 /\ count' = count + 1
<1>1. Migrating /\ Good(newer) /\ Good(older) /\ Nodes(newer) \cap Nodes(older) = {}
  BY DEF hm_progressive_rehash, IInv
<1>2. older.size > 0 /\ older.size # 0
  BY <1>1 DEF Migrating
<1>3. migrate_pos \in DOMAIN older.tab
  BY <1>2, PosInBounds
<1>4. ~IsNull(older) /\ ~IsNull(newer)
  BY <1>1, <1>2, SomeChain DEF IInv
<1> DEFINE chain == older.tab[migrate_pos]
<1>5. chain \in Seq(Keys) /\ migrate_pos \in Nat
  BY <1>1, <1>3, <1>4, TableShape DEF IInv
<1>6. CASE chain = <<>>
  <2>1. migrate_pos' = migrate_pos + 1 /\ newer' = newer /\ older' = older /\ count' = count
    BY <1>6 DEF hm_progressive_rehash, Skip
  <2>2. Passed'
    <3>1. ASSUME NEW i \in DOMAIN older.tab, i < migrate_pos + 1 PROVE older.tab[i] = <<>>
      <4>1. i \in Nat
        BY <1>1, <1>4, TableShape
      <4>2. i < migrate_pos \/ i = migrate_pos
        BY <3>1, <4>1, <1>5
      <4> QED
        BY <4>2, <1>6 DEF IInv, Passed
    <3> QED
      BY <2>1, <3>1 DEF Passed
  <2> QED
    BY <1>1, <1>4, <1>5, <2>1, <2>2
<1>7. CASE chain # <<>>
  <2> DEFINE k == Head(chain)
  <2>1. k \in Range(chain) /\ k \in Keys
    BY <1>5, <1>7 DEF Range
  <2>2. /\ older' = Detach(older, migrate_pos, k) /\ newer' = htab_insert(newer, k)
        /\ count' = count + 1 /\ migrate_pos' = migrate_pos
    BY <1>7 DEF hm_progressive_rehash, Move
  <2> HIDE DEF k
  <2>3. /\ Good(older') /\ Nodes(older') = Nodes(older) \ {k} /\ k \in Nodes(older)
        /\ ~IsNull(older')
        /\ older'.size = older.size - 1 /\ DOMAIN older'.tab = DOMAIN older.tab
        /\ \A j \in DOMAIN older.tab : j # migrate_pos => older'.tab[j] = older.tab[j]
    BY <1>1, <1>3, <2>1, <2>2, DetachRemoves
  <2>4. k \notin Nodes(newer)
    BY <1>1, <2>3
  <2>5. /\ Good(newer') /\ ~IsNull(newer') /\ Nodes(newer') = Nodes(newer) \cup {k}
        /\ Slots(newer') = Slots(newer) /\ newer'.size = newer.size + 1
    BY <1>1, <1>4, <2>1, <2>2, <2>4, InsertAdds
  <2>6. Passed'
    <3>1. ASSUME NEW i \in DOMAIN older'.tab, i < migrate_pos' PROVE older'.tab[i] = <<>>
      <4>1. i \in DOMAIN older.tab /\ i < migrate_pos /\ i # migrate_pos
        BY <1>5, <2>2, <2>3, <3>1
      <4> QED
        BY <2>3, <4>1 DEF IInv, Passed
    <3> QED
      BY <3>1 DEF Passed
  <2> QED
    BY <1>1, <1>4, <1>5, <2>2, <2>3, <2>5, <2>6
<1> QED
  BY <1>6, <1>7

\* A table without nodes is discarded.
LEMMA DiscardStep ==
    ASSUME IInv
    PROVE  /\ Good(Discarded) /\ Nodes(Discarded) = Nodes(older)
           /\ Nodes(newer) \cap Nodes(Discarded) = {}
           /\ \A i \in DOMAIN Discarded.tab : i < migrate_pos => Discarded.tab[i] = <<>>
           /\ ~IsNull(Discarded) =>
                 Discarded = older /\ older.size > 0 /\ ~IsNull(older) /\ ~IsNull(newer)
<1>1. CASE older.size = 0
  <2>1. Nodes(older) = {} /\ Discarded = NoTab
    BY <1>1, FS_EmptySet DEF IInv, Good, Discarded
  <2> QED
    BY <2>1, NullTable
<1>2. CASE older.size # 0
  <2>1. Discarded = older
    BY <1>2 DEF Discarded
  <2>2. older.size > 0 /\ ~IsNull(older)
    BY <1>2, SomeChain DEF IInv
  <2> QED
    BY <2>1, <2>2 DEF IInv, Passed
<1> QED
  BY <1>1, <1>2

\* What the end of a call leaves of the tables, apart from the nodes in them.
Sound ==
    /\ Good(newer') /\ Good(older')
    /\ Nodes(newer') \cap Nodes(older') = {}
    /\ \A i \in DOMAIN older'.tab : i < migrate_pos' => older'.tab[i] = <<>>
    /\ IsNull(newer') <=> IsNull(newer)
    /\ Slots(newer') = Slots(newer) /\ newer'.size <= newer.size
    /\ ~IsNull(older') =>
          ~IsNull(older) /\ ~IsNull(newer) /\ older.size > 0 /\ older'.size <= older.size

LEMMA SizeIsInt == ASSUME NEW t, Good(t) PROVE t.size \in Nat
  BY FS_CardinalityType DEF Good

LEMMA KeepStep ==
    ASSUME IInv, newer' = newer, older' = Discarded, migrate_pos' = migrate_pos
    PROVE  Sound /\ Nodes(newer') \cup Nodes(older') = Nodes(newer) \cup Nodes(older)
<1>1. /\ Good(older') /\ Nodes(older') = Nodes(older)
      /\ Nodes(newer) \cap Nodes(older') = {}
      /\ \A i \in DOMAIN older'.tab : i < migrate_pos => older'.tab[i] = <<>>
      /\ ~IsNull(older') =>
            older' = older /\ older.size > 0 /\ ~IsNull(older) /\ ~IsNull(newer)
  BY DiscardStep
<1>2. Good(newer) /\ newer.size \in Nat /\ older.size \in Nat
  BY SizeIsInt DEF IInv
<1> QED
  BY <1>1, <1>2 DEF Sound

LEMMA DeleteStep ==
    ASSUME IInv, NEW k \in Keys, Delete(k), migrate_pos' = migrate_pos
    PROVE  /\ Sound
           /\ Nodes(newer') \cup Nodes(older') = (Nodes(newer) \cup Nodes(older)) \ {k}
           /\ reply' = Answer("delete", k, k \in Nodes(newer) \cup Nodes(older))
<1> DEFINE D == Discarded
           i == htab_idx(newer, k)
           j == htab_idx(D, k)
           found == InTable(newer, k) \/ (~InTable(newer, k) /\ InTable(D, k))
<1>1. /\ Good(D) /\ Nodes(D) = Nodes(older) /\ Nodes(newer) \cap Nodes(D) = {}
      /\ \A n \in DOMAIN D.tab : n < migrate_pos => D.tab[n] = <<>>
      /\ ~IsNull(D) => D = older /\ older.size > 0 /\ ~IsNull(older) /\ ~IsNull(newer)
  BY DiscardStep
<1>2. Good(newer) /\ newer.size \in Nat /\ older.size \in Nat /\ D.size \in Nat
  BY <1>1, SizeIsInt DEF IInv
<1>3. /\ InTable(newer, k) <=> k \in Nodes(newer)
      /\ InTable(newer, k) => i \in DOMAIN newer.tab /\ k \in Range(newer.tab[i])
      /\ InTable(D, k) <=> k \in Nodes(older)
      /\ InTable(D, k) => j \in DOMAIN D.tab /\ k \in Range(D.tab[j])
  BY <1>1, <1>2, LookupFinds
<1>4. /\ newer' = IF InTable(newer, k) THEN Detach(newer, i, k) ELSE newer
      /\ older' = IF ~InTable(newer, k) /\ InTable(D, k) THEN Detach(D, j, k) ELSE D
      /\ reply' = Answer("delete", k, found)
  BY DEF Delete
<1>5. found = (k \in Nodes(newer) \cup Nodes(older))
  BY <1>3
<1>6. reply' = Answer("delete", k, k \in Nodes(newer) \cup Nodes(older))
  BY <1>4, <1>5
<1> HIDE DEF D, i, j, found
<1>7. CASE InTable(newer, k)
  <2>1. newer' = Detach(newer, i, k) /\ older' = D
    BY <1>4, <1>7
  <2>2. /\ Good(newer') /\ ~IsNull(newer') /\ Nodes(newer') = Nodes(newer) \ {k}
        /\ Slots(newer') = Slots(newer) /\ newer'.size = newer.size - 1
    BY <1>2, <1>3, <1>7, <2>1, DetachRemoves
  <2>3. ~IsNull(newer) /\ k \notin Nodes(older)
    BY <1>1, <1>3, <1>7 DEF InTable
  <2>4. Sound
    BY <1>1, <1>2, <2>1, <2>2, <2>3 DEF Sound
  <2> QED
    BY <1>1, <1>6, <2>1, <2>2, <2>3, <2>4
<1>8. CASE ~InTable(newer, k) /\ InTable(D, k)
  <2>1. newer' = newer /\ older' = Detach(D, j, k)
    BY <1>4, <1>8
  <2>2. /\ Good(older') /\ Nodes(older') = Nodes(older) \ {k} /\ older'.size = D.size - 1
        /\ DOMAIN older'.tab = DOMAIN D.tab
        /\ \A n \in DOMAIN D.tab : n # j => older'.tab[n] = D.tab[n]
    BY <1>1, <1>3, <1>8, <2>1, DetachRemoves
  <2>3. ~IsNull(D) /\ k \notin Nodes(newer) /\ D.tab[j] # <<>>
    <3>1. Range(<<>>) = {}
      BY DEF Range
    <3> QED
      BY <1>3, <1>8, <3>1 DEF InTable
  <2>4. \A n \in DOMAIN older'.tab : n < migrate_pos' => older'.tab[n] = <<>>
    BY <1>1, <2>2, <2>3
  <2>5. Sound
    BY <1>1, <1>2, <2>1, <2>2, <2>3, <2>4 DEF Sound
  <2> QED
    BY <1>1, <1>6, <2>1, <2>2, <2>3, <2>5
<1>9. CASE ~InTable(newer, k) /\ ~InTable(D, k)
  <2>1. newer' = newer /\ older' = Discarded
    BY <1>4, <1>9 DEF D
  <2>2. Sound /\ Nodes(newer') \cup Nodes(older') = Nodes(newer) \cup Nodes(older)
    BY <2>1, KeepStep
  <2> QED
    BY <1>3, <1>6, <1>9, <2>2
<1> QED
  BY <1>7, <1>8, <1>9

\* The end of a call does what the call is for.
LEMMA ReturnStep ==
    ASSUME IInv, Return
    PROVE  /\ Sound
           /\ op.key \in Keys
           /\ \/ /\ Nodes(newer') \cup Nodes(older') = Nodes(newer) \cup Nodes(older)
                 /\ reply' = reply
              \/ /\ Nodes(newer') \cup Nodes(older') = Nodes(newer) \cup Nodes(older)
                 /\ reply' = Answer("lookup", op.key, op.key \in Nodes(newer) \cup Nodes(older))
              \/ /\ Nodes(newer') \cup Nodes(older')
                       = (Nodes(newer) \cup Nodes(older)) \ {op.key}
                 /\ reply' = Answer("delete", op.key, op.key \in Nodes(newer) \cup Nodes(older))
<1>1. op.fn \in {"insert", "lookup", "delete"} /\ op.key \in Keys /\ migrate_pos' = migrate_pos
  BY DEF IInv, Return, Ops
<1>2. CASE op.fn = "insert"
  <2>1. newer' = newer /\ older' = Discarded /\ reply' = reply
    BY <1>2 DEF Return
  <2> QED
    BY <1>1, <2>1, KeepStep
<1>3. CASE op.fn = "lookup"
  <2>1. /\ newer' = newer /\ older' = Discarded
        /\ reply' = Answer("lookup", op.key, InTable(newer, op.key) \/ InTable(Discarded, op.key))
    BY <1>3 DEF Return, Lookup
  <2>2. (InTable(newer, op.key) \/ InTable(Discarded, op.key))
           = (op.key \in Nodes(newer) \cup Nodes(older))
    <3>1. /\ Good(newer) /\ Good(Discarded) /\ Nodes(Discarded) = Nodes(older)
      BY DiscardStep DEF IInv
    <3>2. /\ InTable(newer, op.key) <=> op.key \in Nodes(newer)
          /\ InTable(Discarded, op.key) <=> op.key \in Nodes(older)
      BY <1>1, <3>1, LookupFinds
    <3> QED
      BY <3>2
  <2>3. reply' = Answer("lookup", op.key, op.key \in Nodes(newer) \cup Nodes(older))
    BY <2>1, <2>2
  <2> QED
    BY <1>1, <2>1, <2>3, KeepStep
<1>4. CASE op.fn = "delete"
  <2>1. Delete(op.key)
    BY <1>4 DEF Return
  <2> QED
    BY <1>1, <2>1, DeleteStep
<1> QED
  BY <1>1, <1>2, <1>3, <1>4

LEMMA InitInv == Init => IInv
  BY NullTable, BoundsAssumption DEF Init, IInv, Passed

LEMMA NextInv == IInv /\ [Next]_vars => IInv'
<1> SUFFICES ASSUME IInv, [Next]_vars PROVE IInv'
  OBVIOUS
<1>1. ASSUME NEW k \in Keys, hm_insert(k) PROVE IInv'
  <2>1. /\ Good(newer') /\ Good(older') /\ ~IsNull(newer')
        /\ Nodes(newer') \cap Nodes(older') = {} /\ migrate_pos' \in Nat /\ Passed'
    BY <1>1, InsertStep
  <2>2. op' = [fn |-> "insert", key |-> k] /\ count' = 0 /\ reply' = reply
    BY <1>1 DEF hm_insert, Running
  <2> QED
    BY <2>1, <2>2, BoundsAssumption DEF IInv, Ops
<1>2. ASSUME NEW k \in Keys, Call(k) PROVE IInv'
  <2>1. /\ op' \in Ops /\ count' = 0
        /\ UNCHANGED <<newer, older, migrate_pos, reply>>
    BY <1>2 DEF Call, Running, Ops
  <2> QED
    BY <2>1, BoundsAssumption DEF IInv, Passed
<1>3. CASE hm_progressive_rehash
  <2>1. /\ Good(newer') /\ Good(older') /\ ~IsNull(newer')
        /\ Nodes(newer') \cap Nodes(older') = {} /\ migrate_pos' \in Nat /\ Passed'
        /\ count' \in {count, count + 1}
    BY <1>3, MigrateStep
  <2>2. count < K_REHASH_WORK /\ op' = op /\ reply' = reply
    BY <1>3 DEF hm_progressive_rehash, Migrating
  <2>3. count' \in 0 .. K_REHASH_WORK
    BY <2>1, <2>2, BoundsAssumption DEF IInv, Ops
  <2> QED
    BY <2>1, <2>2, <2>3 DEF IInv
<1>4. CASE Return
  <2> DEFINE found == op.key \in Nodes(newer) \cup Nodes(older)
  <2>0. found \in BOOLEAN
    OBVIOUS
  <2>1. /\ Sound /\ op.key \in Keys
        /\ \/ reply' = reply
           \/ reply' = Answer("lookup", op.key, found)
           \/ reply' = Answer("delete", op.key, found)
    BY <1>4, ReturnStep
  <2> HIDE DEF found
  <2>2. op' = None /\ count' = 0 /\ migrate_pos' = migrate_pos
    BY <1>4 DEF Return
  <2>3. Passed'
    BY <2>1 DEF Sound, Passed
  <2>4. reply' \in [fn : {"lookup", "delete"}, key : Keys, found : BOOLEAN] \cup {None}
    BY <2>0, <2>1 DEF IInv, Answer
  <2> QED
    BY <2>1, <2>2, <2>3, <2>4, BoundsAssumption DEF IInv, Sound
<1>5. CASE hm_clear
  <2>1. newer' = NoTab /\ older' = NoTab /\ migrate_pos' = 0 /\ UNCHANGED <<op, count, reply>>
    BY <1>5 DEF hm_clear
  <2> QED
    BY <2>1, NullTable DEF IInv, Passed
<1>6. CASE UNCHANGED vars
  BY <1>6 DEF vars, IInv, Passed
<1> QED
  BY <1>1, <1>2, <1>3, <1>4, <1>5, <1>6 DEF Next

LEMMA Invariance == Spec => []IInv
  BY InitInv, NextInv, PTL DEF Spec

\* Every variable keeps its type: the migration writes no slot that is not there.
THEOREM TypeCorrect == Spec => []TypeOK
<1>1. IInv => TypeOK
  BY DEF IInv, Good, TypeOK
<1> QED
  BY <1>1, Invariance, PTL

\* While the older table has nodes, they are in slots that the migration has
\* yet to reach: the loop of hm_progressive_rehash() does not run off its end.
THEOREM MigrationInBounds == Spec => []NothingLeftBehind
<1>1. ASSUME IInv PROVE NothingLeftBehind
  <2>1. \A t \in {newer, older} : \A i \in DOMAIN t.tab :
           \A k \in Range(t.tab[i]) : i = htab_idx(t, k)
    BY <1>1 DEF IInv, Good
  <2>2. older.size > 0 => migrate_pos \in DOMAIN older.tab
    BY <1>1, PosInBounds
  <2> QED
    BY <1>1, <2>1, <2>2 DEF NothingLeftBehind, IInv, Passed
<1> QED
  BY <1>1, Invariance, PTL

-----------------------------------------------------------------------------
(* The load of the newer table.                                              *)

Threshold == Slots(newer) * K_MAX_LOAD_FACTOR

\* The nodes that the older table counts for: each of them takes a call that
\* may also insert one, and the last is followed by one more such call.
Pending == IF older.size > 0 THEN older.size ELSE 1

LoadInv ==
    /\ ~IsNull(newer) /\ IsNull(older) => newer.size < Threshold
    /\ ~IsNull(older) /\ count = 0 =>
          newer.size + 2 * Pending
             < Threshold + (IF op # None /\ op.fn = "insert" THEN 1 ELSE 0)
    /\ ~IsNull(older) /\ count # 0 => newer.size + 2 * older.size < Threshold
    /\ op = None => count = 0

LEMMA Product ==
    ASSUME NEW a \in Nat \ {0, 1}, NEW b \in Nat \ {0}
    PROVE  a * b \in Nat /\ a * b > 1 /\ (a * 2) * b = 2 * (a * b)
<1>1. a * b >= a * 1
  OBVIOUS
<1> QED
  BY <1>1

LEMMA ThresholdType == ASSUME NEW t, Good(t) PROVE Slots(t) * K_MAX_LOAD_FACTOR \in Nat
<1>1. Slots(t) \in Nat
  BY DEF Good, IsTable, NoTab, Slots
<1> QED
  BY <1>1, BoundsAssumption

LEMMA NextLoadInv == IInv /\ IInv' /\ LoadInv /\ [Next]_vars => LoadInv'
<1> SUFFICES ASSUME IInv, IInv', LoadInv, [Next]_vars PROVE LoadInv'
  OBVIOUS
<1>1. /\ newer.size \in Nat /\ older.size \in Nat /\ newer'.size \in Nat /\ older'.size \in Nat
      /\ Threshold \in Nat /\ Threshold' \in Nat
      /\ count \in Nat /\ count' \in Nat
  BY SizeIsInt, ThresholdType DEF IInv, Threshold
<1>2. ASSUME NEW k \in Keys, hm_insert(k) PROVE LoadInv'
  <2>1. op = None /\ count = 0
    BY <1>2 DEF hm_insert, LoadInv
  <2>2. op' # None /\ op'.fn = "insert" /\ count' = 0
    <3>1. op' = [fn |-> "insert", key |-> k] /\ count' = 0
      BY <1>2 DEF hm_insert, Running
    <3>2. op' \in Ops
      BY <3>1 DEF Ops
    <3> QED
      BY <3>1, <3>2, HashAssumption
  <2> DEFINE full == /\ IsNull(older) /\ ~IsNull(older') /\ newer'.size = 0
                     /\ Slots(newer') = Slots(older') * 2
                     /\ older'.size >= Slots(older') * K_MAX_LOAD_FACTOR
                     /\ older'.size = newer.size + 1
                     /\ ~IsNull(newer) => Slots(older') = Slots(newer)
             room == /\ older' = older /\ newer'.size = newer.size + 1
                     /\ ~IsNull(newer) => Slots(newer') = Slots(newer)
                     /\ IsNull(older) => newer'.size < Slots(newer') * K_MAX_LOAD_FACTOR
  <2>3. (full \/ room) /\ ~IsNull(newer')
    BY <1>2, InsertStep
  <2>4. CASE full
    <3>1. Slots(older') \in Nat \ {0, 1}
      <4>1. Good(older') /\ ~IsNull(older')
        BY <2>4 DEF IInv
      <4> QED
        BY <4>1, TableShape DEF Slots
    <3>2. /\ Slots(older') * K_MAX_LOAD_FACTOR \in Nat
          /\ Slots(older') * K_MAX_LOAD_FACTOR > 1
          /\ (Slots(older') * 2) * K_MAX_LOAD_FACTOR = 2 * (Slots(older') * K_MAX_LOAD_FACTOR)
      BY <3>1, BoundsAssumption, Product
    <3> DEFINE n == Slots(older') * K_MAX_LOAD_FACTOR
    <3>3. Threshold' = 2 * n
      BY <2>4, <3>2 DEF Threshold
    <3>4. ~IsNull(newer)
      <4>1. ASSUME IsNull(newer) PROVE FALSE
        <5>1. newer.size = 0
          BY <4>1, NullIsNoTab DEF IInv, NoTab
        <5> HIDE DEF n
        <5>2. n \in Nat /\ n > 1 /\ 1 >= n
          BY <2>4, <3>2, <5>1 DEF n
        <5> QED
          BY <5>2
      <4> QED
        BY <4>1
    <3>5. newer.size < n
      <4>1. newer.size < Threshold
        BY <2>4, <3>4 DEF LoadInv
      <4> QED
        BY <2>4, <3>4, <4>1 DEF Threshold
    <3>6. ~IsNull(older') /\ older'.size = newer.size + 1 /\ newer'.size = 0
      BY <2>4
    <3>7. n \in Nat
      BY <3>2
    <3> HIDE DEF n, full, room
    <3>8. newer'.size + 2 * Pending' < Threshold' + 1
      BY <1>1, <3>3, <3>5, <3>6, <3>7 DEF Pending
    <3> QED
      BY <1>1, <2>2, <3>6, <3>8 DEF LoadInv
  <2>5. CASE room
    <3>1. CASE IsNull(older)
      BY <2>2, <2>5, <3>1 DEF LoadInv, Threshold
    <3>2. CASE ~IsNull(older)
      <4>1. Threshold' = Threshold /\ Pending' = Pending
        BY <2>5, <3>2 DEF Threshold, Pending, IInv
      <4>2. newer.size + 2 * Pending < Threshold
        BY <1>1, <2>1, <3>2 DEF LoadInv
      <4>3. newer'.size = newer.size + 1 /\ ~IsNull(older') /\ Pending \in Nat
        BY <1>1, <2>5, <3>2 DEF Pending
      <4>4. newer'.size + 2 * Pending' < Threshold' + 1
        BY <1>1, <4>1, <4>2, <4>3
      <4> QED
        BY <2>2, <4>3, <4>4 DEF LoadInv
    <3> QED
      BY <3>1, <3>2
  <2> QED
    BY <2>3, <2>4, <2>5
<1>3. ASSUME NEW k \in Keys, Call(k) PROVE LoadInv'
  <2>1. op = None /\ count = 0 /\ UNCHANGED <<newer, older>>
    BY <1>3 DEF Call, LoadInv
  <2>2. count' = 0 /\ \E fn \in {"lookup", "delete"} : op' = [fn |-> fn, key |-> k]
    BY <1>3 DEF Call, Running
  <2>3. op' \in Ops /\ op' # None /\ op'.fn # "insert"
    BY <2>2, HashAssumption DEF Ops
  <2>4. Threshold' = Threshold /\ Pending' = Pending
    BY <2>1 DEF Threshold, Pending
  <2> QED
    BY <2>1, <2>2, <2>3, <2>4 DEF LoadInv
<1>4. CASE hm_progressive_rehash
  <2>1. /\ ~IsNull(older) /\ ~IsNull(older') /\ Slots(newer') = Slots(newer)
        /\ \/ newer' = newer /\ older' = older /\ count' = count
           \/ /\ newer'.size = newer.size + 1 /\ older'.size = older.size - 1
              /\ count' = count + 1
    BY <1>4, MigrateStep
  <2>2. op' = op /\ op # None /\ older.size > 0
    BY <1>4 DEF hm_progressive_rehash, Migrating
  <2>3. Threshold' = Threshold
    BY <2>1 DEF Threshold
  <2>4. CASE newer' = newer /\ older' = older /\ count' = count
    <3>1. Pending' = Pending
      BY <2>4 DEF Pending
    <3> QED
      BY <2>1, <2>2, <2>3, <2>4, <3>1 DEF LoadInv
  <2>5. CASE newer'.size = newer.size + 1 /\ older'.size = older.size - 1 /\ count' = count + 1
    <3>1. newer.size + 2 * older.size < Threshold + 1
      BY <1>1, <2>1, <2>2 DEF LoadInv, Pending
    <3>2. newer'.size + 2 * older'.size < Threshold' /\ count' # 0
      BY <1>1, <2>3, <2>5, <3>1
    <3> QED
      BY <2>1, <2>2, <3>2 DEF LoadInv
  <2> QED
    BY <2>1, <2>4, <2>5
<1>5. CASE Return
  <2>1. /\ IsNull(newer') <=> IsNull(newer)
        /\ Slots(newer') = Slots(newer) /\ newer'.size <= newer.size
        /\ ~IsNull(older') => ~IsNull(older) /\ older.size > 0 /\ older'.size <= older.size
    BY <1>5, ReturnStep DEF Sound
  <2>2. op # None /\ op' = None /\ count' = 0 /\ ~(count < K_REHASH_WORK /\ older.size > 0)
    BY <1>5 DEF Return, Migrating
  <2>3. Threshold' = Threshold
    BY <2>1 DEF Threshold
  <2>4. ~IsNull(newer) => newer.size < Threshold
    <3>1. CASE IsNull(older)
      BY <3>1 DEF LoadInv
    <3>2. CASE ~IsNull(older) /\ count = 0
      BY <1>1, <3>2 DEF LoadInv, Pending
    <3>3. CASE ~IsNull(older) /\ count # 0
      BY <1>1, <3>3 DEF LoadInv
    <3> QED
      BY <3>1, <3>2, <3>3
  <2>5. ASSUME ~IsNull(older') PROVE newer'.size + 2 * Pending' < Threshold'
    <3>1. older.size > 0 /\ older'.size <= older.size /\ ~IsNull(older)
      BY <2>1, <2>5
    <3>2. count # 0
      BY <1>1, <2>2, <3>1, BoundsAssumption
    <3>3. newer.size + 2 * older.size < Threshold
      BY <3>1, <3>2 DEF LoadInv
    <3> QED
      BY <1>1, <2>1, <2>3, <3>1, <3>3 DEF Pending
  <2>6. ~IsNull(newer') => newer'.size < Threshold'
    BY <1>1, <2>1, <2>3, <2>4
  <2> QED
    BY <1>1, <2>2, <2>5, <2>6 DEF LoadInv
<1>6. CASE hm_clear
  <2>1. IsNull(newer') /\ IsNull(older') /\ op' = op /\ count' = count
    BY <1>6, NullTable DEF hm_clear
  <2> QED
    BY <2>1 DEF LoadInv
<1>7. CASE UNCHANGED vars
  BY <1>7 DEF vars, LoadInv, Threshold, Pending
<1> QED
  BY <1>2, <1>3, <1>4, <1>5, <1>6, <1>7 DEF Next

\* No call leaves the newer table loaded to the threshold, so that the table
\* never has to grow while a migration is in progress.
THEOREM LoadCorrect == Spec => []LoadBounded
<1>1. Init => LoadInv
  BY NullTable DEF Init, LoadInv
<1>2. ASSUME IInv, LoadInv PROVE LoadBounded
  <2>1. ASSUME op = None, ~IsNull(older) PROVE newer.size < Threshold
    <3>1. newer.size + 2 * Pending < Threshold
      <4>1. Threshold \in Nat
        BY <1>2, ThresholdType DEF IInv, Threshold
      <4> QED
        BY <1>2, <2>1, <4>1 DEF LoadInv
    <3>2. newer.size \in Nat /\ older.size \in Nat /\ Threshold \in Nat
      BY <1>2, SizeIsInt, ThresholdType DEF IInv, Threshold
    <3> QED
      BY <3>1, <3>2 DEF Pending
  <2> QED
    BY <1>2, <2>1 DEF LoadInv, LoadBounded, Threshold
<1> QED
  BY <1>1, <1>2, Invariance, NextLoadInv, PTL DEF Spec

-----------------------------------------------------------------------------
(* Refinement.                                                               *)

Members == Nodes(newer) \cup Nodes(older)

\* The two tables are one set of nodes: every call adds, finds or removes the
\* node that it is for, and a migration changes nothing.
THEOREM MapImplementsNodeSet == Spec => ImplementsNodeSet
<1>1. Init => Abstract!Init
  BY NullTable DEF Init, Abstract!Init
<1>2. ASSUME IInv, [Next]_vars PROVE [Abstract!Next]_(Abstract!vars)
  <2>1. ASSUME NEW k \in Keys, hm_insert(k) PROVE Abstract!Insert(k)
    <3>1. Members' = Members \cup {k}
      BY <1>2, <2>1, InsertStep DEF Members
    <3>2. k \notin Members /\ reply' = reply
      BY <2>1 DEF hm_insert, Members
    <3> QED
      BY <3>1, <3>2 DEF Abstract!Insert, Members
  <2>2. ASSUME NEW k \in Keys, Call(k) PROVE UNCHANGED Abstract!vars
    BY <2>2 DEF Call, Abstract!vars
  <2>3. CASE hm_progressive_rehash
    <3>1. Members' = Members /\ reply' = reply
      BY <1>2, <2>3, MigrateStep DEF Members, hm_progressive_rehash
    <3> QED
      BY <3>1 DEF Abstract!vars, Members
  <2>4. CASE Return
    <3>1. /\ op.key \in Keys
          /\ \/ Members' = Members /\ reply' = reply
             \/ Members' = Members /\ reply' = Answer("lookup", op.key, op.key \in Members)
             \/ /\ Members' = Members \ {op.key}
                /\ reply' = Answer("delete", op.key, op.key \in Members)
      BY <1>2, <2>4, ReturnStep DEF Members
    <3>2. \/ UNCHANGED Abstract!vars
          \/ Abstract!Lookup(op.key)
          \/ Abstract!Delete(op.key)
      BY <3>1 DEF Members, Answer, Abstract!vars, Abstract!Lookup, Abstract!Delete, Abstract!Reply
    <3> QED
      BY <3>1, <3>2 DEF Abstract!Next
  <2>5. CASE hm_clear
    BY <2>5, NullTable DEF hm_clear, Abstract!Next, Abstract!Clear
  <2>6. CASE UNCHANGED vars
    BY <2>6 DEF vars, Abstract!vars
  <2> QED
    BY <1>2, <2>1, <2>2, <2>3, <2>4, <2>5, <2>6 DEF Next, Abstract!Next
<1> QED
  BY <1>1, <1>2, Invariance, PTL DEF Spec, ImplementsNodeSet, Abstract!Spec

-----------------------------------------------------------------------------
(* What hm_foreach() passes on.                                              *)

\* Some number of a set is the least.
LEMMA LeastNumber ==
    ASSUME NEW S, S \subseteq Nat, S # {}
    PROVE  \E x \in S : \A y \in S : x <= y
<1> DEFINE LessThan == {ss \in Nat \X Nat : ss[1] < ss[2]}
<1>1. IsWellFoundedOn(LessThan, Nat)
  BY NatLessThanWellFounded DEF OpToRel
<1>2. PICK x \in S : \A y \in S : <<y, x>> \notin LessThan
  BY <1>1, WFMin
<1>3. ASSUME NEW y \in S
      PROVE  x <= y
  <2>1. <<y, x>> \in Nat \X Nat /\ <<y, x>>[1] = y /\ <<y, x>>[2] = x
    OBVIOUS
  <2> QED
    BY <1>2, <2>1
<1> QED
  BY <1>3

\* What is true of 1, and of n + 1 if it is true of n, is true up to N.
LEMMA UpTo ==
    ASSUME NEW N \in Nat, NEW S, 1 \in S, \A n \in 1 .. N : n < N /\ n \in S => n + 1 \in S
    PROVE  1 .. N \subseteq S
<1> DEFINE R == {n \in 1 .. N : n \notin S}
<1> SUFFICES ASSUME R # {}
             PROVE  FALSE
  OBVIOUS
<1>1. PICK n \in R : \A m \in R : n <= m
  <2>1. R \subseteq Nat
    OBVIOUS
  <2> QED
    BY <2>1, LeastNumber
<1>2. n # 1 /\ n - 1 \in 1 .. N /\ n - 1 < N
  BY <1>1
<1>3. n - 1 \in S
  BY <1>1, <1>2
<1>4. (n - 1) + 1 = n
  BY <1>1
<1> QED
  BY <1>1, <1>2, <1>3, <1>4

\* The concatenations of the first chains of q.
Flattens(f, q, n) ==
    /\ f \in [1 .. n -> Seq(Keys)]
    /\ \A i \in 1 .. n : f[i] = IF i = 1 THEN q[i] ELSE f[i - 1] \o q[i]

LEMMA FlattenExists ==
    ASSUME NEW N \in Nat \ {0}, NEW q \in [1 .. N -> Seq(Keys)]
    PROVE  \E f : Flattens(f, q, N)
<1> DEFINE S == {n \in 1 .. N : \E f : Flattens(f, q, n)}
<1>1. 1 \in S
  <2> DEFINE f == [i \in 1 .. 1 |-> q[i]]
  <2>1. \A i \in 1 .. 1 : i = 1 /\ i \in 1 .. N
    OBVIOUS
  <2>2. Flattens(f, q, 1)
    BY <2>1 DEF Flattens
  <2> QED
    BY <2>2
<1>2. ASSUME NEW n \in 1 .. N, n < N, n \in S
      PROVE  n + 1 \in S
  <2>1. PICK f : Flattens(f, q, n)
    BY <1>2
  <2> DEFINE g == [i \in 1 .. n + 1 |-> IF i = n + 1 THEN f[n] \o q[n + 1] ELSE f[i]]
  <2>2. \A i \in 1 .. n + 1 : i = n + 1 \/ i \in 1 .. n
    OBVIOUS
  <2>3. f[n] \o q[n + 1] \in Seq(Keys)
    <3>1. f[n] \in Seq(Keys) /\ q[n + 1] \in Seq(Keys)
      BY <1>2, <2>1 DEF Flattens
    <3> QED
      BY <3>1
  <2>4. \A i \in 1 .. n : f[i] \in Seq(Keys)
    BY <2>1 DEF Flattens
  <2>5. g \in [1 .. n + 1 -> Seq(Keys)]
    BY <2>2, <2>3, <2>4
  <2>6. ASSUME NEW i \in 1 .. n + 1
        PROVE  g[i] = IF i = 1 THEN q[i] ELSE g[i - 1] \o q[i]
    <3>1. CASE i = n + 1
      <4>1. i # 1 /\ i - 1 = n /\ n \in 1 .. n + 1 /\ n # n + 1
        BY <3>1
      <4> QED
        BY <3>1, <4>1
    <3>2. CASE i # n + 1
      <4>1. i \in 1 .. n /\ (i # 1 => i - 1 \in 1 .. n + 1 /\ i - 1 # n + 1)
        BY <3>2
      <4>2. f[i] = IF i = 1 THEN q[i] ELSE f[i - 1] \o q[i]
        BY <2>1, <4>1 DEF Flattens
      <4> QED
        BY <4>1, <4>2
    <3> QED
      BY <3>1, <3>2
  <2>7. Flattens(g, q, n + 1)
    BY <2>5, <2>6 DEF Flattens
  <2>8. n + 1 \in 1 .. N
    BY <1>2
  <2> QED
    BY <2>7, <2>8
<1> HIDE DEF S
<1>3. 1 .. N \subseteq S
  BY <1>1, <1>2, UpTo
<1>4. N \in S
  BY <1>3
<1> QED
  BY <1>4 DEF S

\* FlattenSeq() is the last of them.
LEMMA FlattenIs ==
    ASSUME NEW N \in Nat \ {0}, NEW q \in [1 .. N -> Seq(Keys)]
    PROVE  \E f : Flattens(f, q, N) /\ FlattenSeq(q) = f[N]
<1> DEFINE Is(f) == f = [i \in 1 .. Len(q) |-> IF i = 1 THEN q[i] ELSE f[i - 1] \o q[i]]
           f == CHOOSE f_ : Is(f_)
<1>1. q \in Seq(Seq(Keys)) /\ Len(q) = N
  OBVIOUS
<1>2. FlattenSeq(q) = f[N]
  BY <1>1 DEF FlattenSeq
<1>3. Is(f)
  <2>1. PICK g : Flattens(g, q, N)
    BY FlattenExists
  <2>2. g = [i \in 1 .. N |-> IF i = 1 THEN q[i] ELSE g[i - 1] \o q[i]]
    BY <2>1 DEF Flattens
  <2>3. Is(g)
    BY <1>1, <2>2
  <2> HIDE DEF Is
  <2> QED
    BY <2>3
<1> HIDE DEF f
<1>4. f = [i \in 1 .. N |-> IF i = 1 THEN q[i] ELSE f[i - 1] \o q[i]]
  BY <1>1, <1>3
<1>5. \A i \in 1 .. N : f[i] = IF i = 1 THEN q[i] ELSE f[i - 1] \o q[i]
  BY <1>4
<1> HIDE DEF Is
<1> DEFINE S == {i \in 1 .. N : f[i] \in Seq(Keys)}
<1>6. 1 .. N \subseteq S
  <2>1. 1 \in S
    <3>1. 1 \in 1 .. N
      OBVIOUS
    <3> QED
      BY <1>5, <3>1
  <2>2. ASSUME NEW n \in 1 .. N, n < N, n \in S
        PROVE  n + 1 \in S
    <3>1. n + 1 \in 1 .. N /\ n + 1 # 1 /\ (n + 1) - 1 = n
      BY <2>2
    <3>2. f[n + 1] = f[n] \o q[n + 1]
      BY <1>5, <3>1
    <3>3. f[n] \in Seq(Keys) /\ q[n + 1] \in Seq(Keys)
      BY <2>2, <3>1
    <3>4. f[n] \o q[n + 1] \in Seq(Keys)
      BY <3>3
    <3> QED
      BY <3>1, <3>2, <3>4
  <2> HIDE DEF S
  <2> QED
    BY <2>1, <2>2, UpTo
<1>7. f \in [1 .. N -> Seq(Keys)]
  BY <1>4, <1>6
<1> QED
  BY <1>2, <1>5, <1>7 DEF Flattens

\* Two sequences without repetition and without a common element, one behind
\* the other, are one without repetition.
LEMMA OneBehindTheOther ==
    ASSUME NEW s \in Seq(Keys), NEW t \in Seq(Keys), IsInjective(s), IsInjective(t),
           Range(s) \cap Range(t) = {}
    PROVE  /\ s \o t \in Seq(Keys) /\ Len(s \o t) = Len(s) + Len(t)
           /\ IsInjective(s \o t)
           /\ Range(s \o t) = Range(s) \cup Range(t)
<1>0. DOMAIN s = 1 .. Len(s) /\ DOMAIN t = 1 .. Len(t) /\ Len(s) \in Nat /\ Len(t) \in Nat
  OBVIOUS
<1> DEFINE u == s \o t
<1>1. u \in Seq(Keys) /\ Len(u) = Len(s) + Len(t) /\ DOMAIN u = 1 .. Len(s) + Len(t)
  OBVIOUS
<1>2. /\ \A i \in 1 .. Len(s) : u[i] = s[i]
      /\ \A i \in 1 .. Len(t) : u[Len(s) + i] = t[i]
  OBVIOUS
<1>3. \A i \in 1 .. Len(s) + Len(t) :
         \/ i \in 1 .. Len(s) /\ u[i] = s[i]
         \/ i - Len(s) \in 1 .. Len(t) /\ u[i] = t[i - Len(s)]
  <2>1. ASSUME NEW i \in 1 .. Len(s) + Len(t), i \notin 1 .. Len(s)
        PROVE  i - Len(s) \in 1 .. Len(t) /\ u[i] = t[i - Len(s)]
    <3>1. i - Len(s) \in 1 .. Len(t) /\ Len(s) + (i - Len(s)) = i
      BY <2>1
    <3> HIDE DEF u
    <3> QED
      BY <1>2, <3>1
  <2> HIDE DEF u
  <2> QED
    BY <1>2, <2>1
<1> HIDE DEF u
<1>4. /\ \A i \in 1 .. Len(s) : s[i] \in Range(s) /\ i \in DOMAIN u
      /\ \A i \in 1 .. Len(t) : t[i] \in Range(t) /\ Len(s) + i \in DOMAIN u
  <2>1. \A i \in 1 .. Len(s) : i \in DOMAIN s /\ i \in DOMAIN u
    BY <1>0, <1>1
  <2>2. \A i \in 1 .. Len(t) : i \in DOMAIN t /\ Len(s) + i \in DOMAIN u
    BY <1>0, <1>1
  <2> QED
    BY <2>1, <2>2 DEF Range
<1>5. IsInjective(u)
  <2> SUFFICES ASSUME NEW i \in DOMAIN u, NEW j \in DOMAIN u, u[i] = u[j]
               PROVE  i = j
    BY DEF IsInjective
  <2>1. i \in 1 .. Len(s) + Len(t) /\ j \in 1 .. Len(s) + Len(t)
    BY <1>1
  <2>2. CASE i \in 1 .. Len(s) /\ u[i] = s[i] /\ j \in 1 .. Len(s) /\ u[j] = s[j]
    <3>1. i \in DOMAIN s /\ j \in DOMAIN s
      BY <1>0, <2>2
    <3>2. s[i] = s[j]
      BY <2>2
    <3> QED
      BY <3>1, <3>2 DEF IsInjective
  <2>3. CASE /\ i - Len(s) \in 1 .. Len(t) /\ u[i] = t[i - Len(s)]
             /\ j - Len(s) \in 1 .. Len(t) /\ u[j] = t[j - Len(s)]
    <3> DEFINE a == i - Len(s)
               b == j - Len(s)
    <3>1. a \in DOMAIN t /\ b \in DOMAIN t
      BY <1>0, <2>3
    <3>2. t[a] = t[b]
      BY <2>3
    <3> HIDE DEF a, b
    <3>3. a = b
      BY <3>1, <3>2 DEF IsInjective
    <3> QED
      BY <2>1, <3>3 DEF a, b
  <2>4. ~(u[i] \in Range(s) /\ u[j] \in Range(t)) /\ ~(u[i] \in Range(t) /\ u[j] \in Range(s))
    OBVIOUS
  <2> QED
    BY <1>3, <1>4, <2>1, <2>2, <2>3, <2>4
<1>6. Range(u) = Range(s) \cup Range(t)
  <2>1. ASSUME NEW x \in Range(u)
        PROVE  x \in Range(s) \cup Range(t)
    <3>1. PICK i \in 1 .. Len(s) + Len(t) : x = u[i]
      BY <1>1 DEF Range
    <3> QED
      BY <1>3, <1>4, <3>1
  <2>2. ASSUME NEW x \in Range(s)
        PROVE  x \in Range(u)
    <3>1. PICK i \in 1 .. Len(s) : x = s[i]
      BY DEF Range
    <3>2. i \in DOMAIN u /\ u[i] = x
      BY <1>2, <1>4, <3>1 DEF u
    <3> QED
      BY <3>2 DEF Range
  <2>3. ASSUME NEW x \in Range(t)
        PROVE  x \in Range(u)
    <3>1. PICK i \in 1 .. Len(t) : x = t[i]
      BY DEF Range
    <3>2. Len(s) + i \in DOMAIN u /\ u[Len(s) + i] = x
      BY <1>2, <1>4, <3>1 DEF u
    <3> QED
      BY <3>2 DEF Range
  <2> QED
    BY <2>1, <2>2, <2>3
<1> QED
  BY <1>1, <1>5, <1>6 DEF u

\* Chains without repetition and without a common node, one behind the other,
\* have each of their nodes once.
LEMMA FlattenKeeps ==
    ASSUME NEW N \in Nat \ {0}, NEW q \in [1 .. N -> Seq(Keys)],
           \A i \in 1 .. N : IsInjective(q[i]),
           \A i, j \in 1 .. N : i # j => Range(q[i]) \cap Range(q[j]) = {}
    PROVE  /\ FlattenSeq(q) \in Seq(Keys) /\ IsInjective(FlattenSeq(q))
           /\ Range(FlattenSeq(q)) = UNION {Range(q[i]) : i \in 1 .. N}
<1>1. PICK f : Flattens(f, q, N) /\ FlattenSeq(q) = f[N]
  BY FlattenIs
<1>2. /\ \A n \in 1 .. N : f[n] \in Seq(Keys)
      /\ \A n \in 1 .. N : f[n] = IF n = 1 THEN q[n] ELSE f[n - 1] \o q[n]
  BY <1>1 DEF Flattens
<1> DEFINE First(n) == UNION {Range(q[i]) : i \in 1 .. n}
           Holds(n) == IsInjective(f[n]) /\ Range(f[n]) = First(n)
           S == {n \in 1 .. N : Holds(n)}
<1>3. 1 \in S
  <2>1. f[1] = q[1] /\ 1 \in 1 .. N
    BY <1>2
  <2>2. First(1) = Range(q[1])
    <3>1. 1 .. 1 = {1}
      OBVIOUS
    <3> QED
      BY <3>1
  <2> QED
    BY <2>1, <2>2
<1>4. ASSUME NEW n \in 1 .. N, n < N, n \in S
      PROVE  n + 1 \in S
  <2>1. n + 1 \in 1 .. N /\ n + 1 # 1 /\ (n + 1) - 1 = n
    BY <1>4
  <2>2. f[n + 1] = f[n] \o q[n + 1] /\ f[n] \in Seq(Keys) /\ q[n + 1] \in Seq(Keys)
    BY <1>2, <2>1
  <2>3. IsInjective(f[n]) /\ Range(f[n]) = First(n) /\ IsInjective(q[n + 1])
    BY <1>4, <2>1
  <2>4. First(n) \cap Range(q[n + 1]) = {}
    <3>1. \A i \in 1 .. n : i \in 1 .. N /\ i # n + 1
      BY <1>4
    <3>2. \A i \in 1 .. n : Range(q[i]) \cap Range(q[n + 1]) = {}
      BY <2>1, <3>1
    <3> QED
      BY <3>2
  <2>5. First(n + 1) = First(n) \cup Range(q[n + 1])
    <3>1. 1 .. n + 1 = (1 .. n) \cup {n + 1}
      OBVIOUS
    <3> QED
      BY <3>1
  <2> HIDE DEF First
  <2>6. Range(f[n]) \cap Range(q[n + 1]) = {}
    BY <2>3, <2>4
  <2>7. /\ IsInjective(f[n] \o q[n + 1])
        /\ Range(f[n] \o q[n + 1]) = Range(f[n]) \cup Range(q[n + 1])
    BY <2>2, <2>3, <2>6, OneBehindTheOther
  <2>8. Holds(n + 1)
    BY <2>2, <2>3, <2>5, <2>7
  <2> HIDE DEF Holds
  <2> QED
    BY <2>1, <2>8
<1> HIDE DEF S
<1>5. 1 .. N \subseteq S
  BY <1>3, <1>4, UpTo
<1>6. N \in S /\ N \in 1 .. N
  BY <1>5
<1> QED
  BY <1>1, <1>2, <1>6 DEF S

\* htab_foreach() passes on every node of a table, once.
LEMMA ChainsAre ==
    ASSUME NEW t, Good(t)
    PROVE  Chains(t) \in Seq(Keys) /\ IsInjective(Chains(t)) /\ Range(Chains(t)) = Nodes(t)
<1>1. CASE IsNull(t)
  <2>1. t = NoTab
    BY <1>1, NullIsNoTab
  <2>2. Chains(t) = <<>> /\ Nodes(t) = {}
    BY <2>1, NullTable DEF Chains, NoTab
  <2>3. <<>> \in Seq(Keys) /\ IsInjective(<<>>) /\ Range(<<>>) = {}
    BY DEF IsInjective, Range
  <2> QED
    BY <2>2, <2>3
<1>2. CASE ~IsNull(t)
  <2>1. t.mask \in Nat \ {0} /\ t.tab \in [0 .. t.mask -> Seq(Keys)]
    BY <1>2, TableShape
  <2> DEFINE N == Slots(t)
             q == [i \in 1 .. N |-> t.tab[i - 1]]
  <2>2. N \in Nat \ {0} /\ N - 1 = t.mask
    BY <2>1 DEF Slots
  <2>3. Chains(t) = FlattenSeq(q)
    BY <2>1 DEF Chains
  <2> HIDE DEF N
  <2>4. \A i \in 1 .. N : i - 1 \in 0 .. t.mask /\ q[i] = t.tab[i - 1]
    BY <2>2
  <2>5. \A i \in 0 .. t.mask : i + 1 \in 1 .. N /\ q[i + 1] = t.tab[i]
    <3>1. ASSUME NEW i \in 0 .. t.mask
          PROVE  i + 1 \in 1 .. N /\ (i + 1) - 1 = i
      BY <2>2
    <3> QED
      BY <3>1
  <2>6. q \in [1 .. N -> Seq(Keys)]
    BY <2>1, <2>4
  <2> HIDE DEF q
  <2>7. \A i \in 1 .. N : IsInjective(q[i])
    BY <2>1, <2>4 DEF Good
  <2>8. ASSUME NEW i \in 1 .. N, NEW j \in 1 .. N, i # j
        PROVE  Range(q[i]) \cap Range(q[j]) = {}
    <3>1. i - 1 \in DOMAIN t.tab /\ j - 1 \in DOMAIN t.tab /\ i - 1 # j - 1
      BY <2>1, <2>4, <2>8
    <3>2. ASSUME NEW k \in Range(t.tab[i - 1]), k \in Range(t.tab[j - 1])
          PROVE  FALSE
      BY <3>1, <3>2 DEF Good
    <3> QED
      BY <2>4, <3>2
  <2>9. /\ FlattenSeq(q) \in Seq(Keys) /\ IsInjective(FlattenSeq(q))
        /\ Range(FlattenSeq(q)) = UNION {Range(q[i]) : i \in 1 .. N}
    BY <2>2, <2>6, <2>7, <2>8, FlattenKeeps
  <2>10. UNION {Range(q[i]) : i \in 1 .. N} = Nodes(t)
    <3>1. Nodes(t) = UNION {Range(t.tab[i]) : i \in 0 .. t.mask}
      BY <2>1 DEF Nodes
    <3> QED
      BY <2>4, <2>5, <3>1
  <2> QED
    BY <2>3, <2>9, <2>10
<1> QED
  BY <1>1, <1>2

\* A sequence without repetition is as long as it has elements.
LEMMA LengthIs ==
    ASSUME NEW s \in Seq(Keys), IsInjective(s)
    PROVE  Cardinality(Range(s)) = Len(s)
<1>1. Len(s) \in Nat /\ DOMAIN s = 1 .. Len(s)
  OBVIOUS
<1>2. s \in Bijection(1 .. Len(s), Range(s))
  <2>1. s \in [1 .. Len(s) -> Range(s)]
    BY <1>1 DEF Range
  <2>2. \A x \in Range(s) : \E i \in 1 .. Len(s) : s[i] = x
    BY <1>1 DEF Range
  <2> QED
    BY <2>1, <2>2 DEF Bijection, Injection, Surjection
<1>3. ExistsBijection(1 .. Len(s), Range(s))
  BY <1>2 DEF ExistsBijection
<1>4. IsFiniteSet(1 .. Len(s)) /\ Cardinality(1 .. Len(s)) = Len(s)
  <2>1. IsFiniteSet(1 .. Len(s)) /\ Cardinality(1 .. Len(s)) = IF 1 > Len(s) THEN 0 ELSE Len(s) - 1 + 1
    BY <1>1, FS_Interval
  <2> QED
    BY <1>1, <2>1
<1> QED
  BY <1>3, <1>4, FS_Bijection

\* The callback of hm_foreach() gets every node once, of whichever table, and as
\* often as hm_size() says - in the middle of a migration, too.
THEOREM ForeachCorrect == Spec => []ForeachAgrees
<1>1. ASSUME IInv
      PROVE  ForeachAgrees
  <2> DEFINE s == Chains(newer)
             t == Chains(older)
  <2>1. /\ s \in Seq(Keys) /\ IsInjective(s) /\ Range(s) = Nodes(newer)
        /\ t \in Seq(Keys) /\ IsInjective(t) /\ Range(t) = Nodes(older)
    BY <1>1, ChainsAre DEF IInv
  <2> HIDE DEF s, t
  <2>2. Range(s) \cap Range(t) = {}
    BY <1>1, <2>1 DEF IInv
  <2>3. /\ Len(s \o t) = Len(s) + Len(t) /\ IsInjective(s \o t)
        /\ Range(s \o t) = Range(s) \cup Range(t)
    BY <2>1, <2>2, OneBehindTheOther
  <2>4. Len(s) = newer.size /\ Len(t) = older.size
    BY <1>1, <2>1, LengthIs DEF IInv, Good
  <2>5. hm_foreach = s \o t
    BY DEF hm_foreach, s, t
  <2> QED
    BY <2>1, <2>3, <2>4, <2>5 DEF ForeachAgrees, hm_size
<1> QED
  BY <1>1, Invariance, PTL
=============================================================================
