--------------------------- MODULE EventLoopProofs ---------------------------
(***************************************************************************)
(* The event loop's safety properties, for any number of clients,          *)
(* descriptors and commands.  The inductive invariant says which mode      *)
(* every connection is in: each one that is not being served is Settled,   *)
(* and the one being served is on its way to that, or to being closed.     *)
(***************************************************************************)
EXTENDS EventLoop, SequencesExt, SequenceTheorems, WellFoundedInduction, TLAPS

(* The list: what the operations of DList do to the sequence that the      *)
(* links stand for.  insert_before(head) appends, detach removes.          *)

\* The i-th node on the way round, which begins and ends at the head.
At(s, head, i) == IF i \in 1..Len(s) THEN s[i] ELSE head

Ring(l, head, s) ==
    \A i \in 0..Len(s) : /\ l.next[At(s, head, i)] = At(s, head, i + 1)
                         /\ l.prev[At(s, head, i + 1)] = At(s, head, i)

LinksOf(N, null) == [prev : [N -> N \cup {null}], next : [N -> N \cup {null}]]

\* Represents, without the sequences that it puts together.
LEMMA RingIsRepresents ==
    ASSUME NEW l, NEW head, NEW N, NEW s \in Seq(N)
    PROVE  Represents(l, head, s) <=> Ring(l, head, s)
<1> DEFINE ring == <<head>> \o s \o <<head>>
<1>1. \A i \in 1..(Len(s) + 2) : ring[i] = At(s, head, i - 1)
  BY DEF At
<1> HIDE DEF ring
<1>2. Represents(l, head, s) <=>
        \A i \in 1..(Len(s) + 1) : l.next[ring[i]] = ring[i + 1] /\ l.prev[ring[i + 1]] = ring[i]
  BY DEF Represents, ring
<1>3. ASSUME Represents(l, head, s), NEW i \in 0..Len(s)
      PROVE  /\ l.next[At(s, head, i)] = At(s, head, i + 1)
             /\ l.prev[At(s, head, i + 1)] = At(s, head, i)
  <2>1. i + 1 \in 1..(Len(s) + 1) /\ (i + 1) - 1 = i /\ (i + 1) + 1 \in 1..(Len(s) + 2)
        /\ i + 1 \in 1..(Len(s) + 2) /\ ((i + 1) + 1) - 1 = i + 1
    OBVIOUS
  <2> QED
    BY <1>1, <1>2, <1>3, <2>1
<1>4. ASSUME Ring(l, head, s), NEW i \in 1..(Len(s) + 1)
      PROVE  l.next[ring[i]] = ring[i + 1] /\ l.prev[ring[i + 1]] = ring[i]
  <2>1. i - 1 \in 0..Len(s) /\ i \in 1..(Len(s) + 2) /\ i + 1 \in 1..(Len(s) + 2)
        /\ (i - 1) + 1 = i /\ (i + 1) - 1 = i
    OBVIOUS
  <2> QED
    BY <1>1, <1>4, <2>1 DEF Ring
<1> QED
  BY <1>2, <1>3, <1>4 DEF Ring

\* No node is met twice on the way round.
LEMMA Distinct ==
    ASSUME NEW N, NEW head, NEW s \in Seq(N), head \notin N, IsInjective(s)
    PROVE  /\ \A i, j \in 0..Len(s) : At(s, head, i) = At(s, head, j) => i = j
           /\ \A i, j \in 1..(Len(s) + 1) : At(s, head, i) = At(s, head, j) => i = j
<1>1. \A i \in 1..Len(s) : s[i] \in N /\ s[i] # head
  OBVIOUS
<1>2. \A i, j \in 1..Len(s) : s[i] = s[j] => i = j
  BY DEF IsInjective
<1> QED
  BY <1>1, <1>2 DEF At

LEMMA EmptyList ==
    ASSUME NEW N, NEW null, NEW head \in N
    PROVE  Represents(dlist_init(Unlinked(N, null), head), head, <<>>)
<1>1. Ring(dlist_init(Unlinked(N, null), head), head, <<>>)
  BY DEF Ring, At, dlist_init, Unlinked
<1>2. <<>> \in Seq(N)
  OBVIOUS
<1> QED
  BY <1>1, <1>2, RingIsRepresents

\* dlist_insert_before() the head puts a node that is not in the list at its
\* end, and keeps the ring.
THEOREM InsertAppends ==
    ASSUME NEW N, NEW null, NEW head, head \notin N, NEW l \in LinksOf(N \cup {head}, null),
           NEW s \in Seq(N), IsInjective(s), Represents(l, head, s),
           NEW x \in N, x \notin Range(s)
    PROVE  LET m == dlist_insert_before(l, head, x)
           IN  m \in LinksOf(N \cup {head}, null) /\ Represents(m, head, Append(s, x))
<1> DEFINE m == dlist_insert_before(l, head, x)
           n == Len(s)
           t == Append(s, x)
           a(i) == At(s, head, i)
<1>1. Ring(l, head, s)
  BY RingIsRepresents
<1>2. n \in Nat /\ t \in Seq(N) /\ Len(t) = n + 1
      /\ \A i \in 1..(n + 1) : t[i] = IF i = n + 1 THEN x ELSE s[i]
  OBVIOUS
<1>3. \A i \in 0..(n + 1) : a(i) \in N \cup {head} /\ a(i) # x
  <2>1. \A i \in 1..n : s[i] \in N /\ s[i] # x
    BY DEF Range
  <2> QED
    BY <2>1 DEF At
<1>4. l.prev[head] = a(n) /\ a(n + 1) = head /\ a(0) = head
  BY <1>1, <1>2 DEF Ring, At
<1>5. /\ m = [prev |-> m.prev, next |-> m.next]
      /\ m.prev = [l.prev EXCEPT ![x] = a(n), ![head] = x]
      /\ m.next = [l.next EXCEPT ![a(n)] = x, ![x] = head]
  BY <1>4 DEF dlist_insert_before
<1>6. /\ l.prev \in [N \cup {head} -> (N \cup {head}) \cup {null}]
      /\ l.next \in [N \cup {head} -> (N \cup {head}) \cup {null}]
  BY DEF LinksOf
<1>7. a(n) \in N \cup {head} /\ x # head /\ a(n) # x
  BY <1>2, <1>3
<1> HIDE DEF m, a
<1>8. /\ m.prev[x] = a(n) /\ m.prev[head] = x
      /\ \A y \in N \cup {head} : y # x /\ y # head => m.prev[y] = l.prev[y]
      /\ m.next[a(n)] = x /\ m.next[x] = head
      /\ \A y \in N \cup {head} : y # x /\ y # a(n) => m.next[y] = l.next[y]
  BY <1>5, <1>6, <1>7
<1>9. m \in LinksOf(N \cup {head}, null)
  BY <1>5, <1>6, <1>7 DEF LinksOf
<1>10. \A i \in 0..(n + 2) : At(t, head, i) = IF i = n + 1 THEN x ELSE IF i = n + 2 THEN head ELSE a(i)
  BY <1>2 DEF At, a
<1>11. ASSUME NEW i \in 0..(n + 1)
       PROVE  /\ m.next[At(t, head, i)] = At(t, head, i + 1)
              /\ m.prev[At(t, head, i + 1)] = At(t, head, i)
  <2>1. CASE i = n + 1
    BY <1>2, <1>8, <1>10, <2>1
  <2>2. CASE i = n
    BY <1>2, <1>8, <1>10, <2>2
  <2>3. CASE i # n /\ i # n + 1
    <3>1. i \in 0..n /\ i + 1 \in 0..n /\ n \in 0..n /\ i \in 0..(n + 1) /\ i + 1 \in 1..(n + 1)
          /\ n + 1 \in 1..(n + 1) /\ i + 1 \in 0..(n + 1) /\ i # n + 2 /\ i + 1 # n + 1
          /\ i + 1 # n + 2 /\ i + 1 \in 0..(n + 2) /\ i \in 0..(n + 2)
      BY <1>2, <2>3
    <3>2. a(i) # a(n) /\ a(i + 1) # a(n + 1)
      BY <2>3, <3>1, Distinct DEF a
    <3>3. l.next[a(i)] = a(i + 1) /\ l.prev[a(i + 1)] = a(i)
      BY <1>1, <3>1 DEF Ring, a
    <3>4. At(t, head, i) = a(i) /\ At(t, head, i + 1) = a(i + 1)
      BY <1>10, <2>3, <3>1
    <3>5. m.next[a(i)] = a(i + 1)
      BY <1>3, <1>8, <3>1, <3>2, <3>3
    <3>6. m.prev[a(i + 1)] = a(i)
      BY <1>3, <1>4, <1>8, <3>1, <3>2, <3>3
    <3> QED
      BY <3>4, <3>5, <3>6
  <2> QED
    BY <2>1, <2>2, <2>3
<1>12. Ring(m, head, t)
  BY <1>2, <1>11 DEF Ring
<1>13. Represents(m, head, t)
  BY <1>2, <1>12, RingIsRepresents
<1> QED
  BY <1>9, <1>13 DEF m

-----------------------------------------------------------------------------

\* s without its p-th element.
IsWithout(t, s, p) ==
    /\ Len(t) = Len(s) - 1
    /\ \A i \in 1..(Len(s) - 1) : t[i] = IF i < p THEN s[i] ELSE s[i + 1]

LEMMA RemoveFirstShape ==
    ASSUME NEW N, NEW s \in Seq(N), NEW x \in Range(s), IsInjective(s)
    PROVE  /\ RemoveFirst(s, x) \in Seq(N)
           /\ Range(RemoveFirst(s, x)) = Range(s) \ {x}
           /\ IsInjective(RemoveFirst(s, x))
           /\ \E p \in 1..Len(s) : s[p] = x /\ IsWithout(RemoveFirst(s, x), s, p)
<1> DEFINE t == RemoveFirst(s, x)
<1>1. PICK p \in 1 .. Len(s) : s[p] = x
  BY DEF Range
<1>2. \A i \in 1 .. Len(s) : s[i] = x => i = p
  BY <1>1 DEF IsInjective
<1>3. t = SubSeq(s, 1, p - 1) \o SubSeq(s, p + 1, Len(s))
  <2>1. {i \in 1 .. Len(s) : s[i] = x} = {p}
    BY <1>1, <1>2
  <2>2. SelectInSeq(s, LAMBDA v : v = x) = p
    BY <1>1, <2>1 DEF SelectInSeq, SelectInSubSeq, Min
  <2> QED
    BY <1>1, <2>2 DEF RemoveFirst, RemoveAt
<1> DEFINE u == SubSeq(s, 1, p - 1)
           v == SubSeq(s, p + 1, Len(s))
<1>4. /\ u \in Seq(N) /\ Len(u) = p - 1 /\ \A i \in 1 .. p - 1 : u[i] = s[i]
      /\ v \in Seq(N) /\ Len(v) = Len(s) - p /\ \A i \in 1 .. Len(s) - p : v[i] = s[i + p]
  <2>1. \A i \in 1 .. Len(s) : s[i] \in N
    OBVIOUS
  <2>2. u = [i \in 1 .. p - 1 |-> s[i]]
    BY <1>1
  <2>3. v = [i \in 1 .. Len(s) - p |-> s[i + p]]
    BY <1>1
  <2>4. 1 .. p - 1 \subseteq 1 .. Len(s) /\ p - 1 \in Nat /\ Len(s) - p \in Nat
    BY <1>1
  <2>5. \A i \in 1 .. Len(s) - p : i + p \in 1 .. Len(s)
    BY <1>1
  <2> HIDE DEF u, v
  <2>6. u \in Seq(N) /\ Len(u) = p - 1 /\ \A i \in 1 .. p - 1 : u[i] = s[i]
    BY <2>1, <2>2, <2>4
  <2>7. v \in Seq(N) /\ Len(v) = Len(s) - p /\ \A i \in 1 .. Len(s) - p : v[i] = s[i + p]
    BY <2>1, <2>3, <2>4, <2>5
  <2> QED
    BY <2>6, <2>7
<1> HIDE DEF t, u, v
<1>5. t = u \o v
  BY <1>3 DEF u, v
<1>6. t \in Seq(N) /\ Len(t) = Len(s) - 1 /\ DOMAIN t = 1 .. Len(s) - 1
  BY <1>5, <1>4, <1>1
<1>7. \A i \in 1 .. Len(s) - 1 : t[i] = IF i < p THEN u[i] ELSE v[i - p + 1]
  BY <1>5, <1>4, <1>1
<1>8. ASSUME NEW i \in 1 .. Len(s) - 1 PROVE t[i] = IF i < p THEN s[i] ELSE s[i + 1]
  <2>1. CASE i < p
    BY <2>1, <1>7, <1>4, <1>1
  <2>2. CASE ~(i < p)
    <3>1. i - p + 1 \in 1 .. Len(s) - p /\ (i - p + 1) + p = i + 1
      BY <2>2, <1>1
    <3> QED
      BY <2>2, <3>1, <1>7, <1>4
  <2> QED
    BY <2>1, <2>2
<1>9. IsWithout(t, s, p)
  BY <1>6, <1>8 DEF IsWithout
<1>10. IsInjective(t)
  <2>1. ASSUME NEW i \in DOMAIN t, NEW j \in DOMAIN t, t[i] = t[j]
        PROVE  i = j
    <3> DEFINE k(h) == IF h < p THEN h ELSE h + 1
    <3>1. k(i) \in DOMAIN s /\ k(j) \in DOMAIN s
      BY <1>1, <1>6
    <3>2. s[k(i)] = s[k(j)]
      BY <1>6, <1>8, <2>1
    <3>3. k(i) = k(j)
      BY <3>1, <3>2 DEF IsInjective
    <3> QED
      BY <1>1, <1>6, <3>3
  <2> QED
    BY <2>1 DEF IsInjective
<1>11. Range(t) = Range(s) \ {x}
  <2>1. ASSUME NEW y \in Range(t)
        PROVE  y \in Range(s) /\ y # x
    <3>1. PICK i \in 1 .. Len(s) - 1 : t[i] = y
      BY <1>6 DEF Range
    <3>2. PICK j \in 1 .. Len(s) : s[j] = y /\ j # p
      BY <1>1, <1>8, <3>1
    <3> QED
      BY <1>2, <3>2 DEF Range
  <2>2. ASSUME NEW y \in Range(s), y # x
        PROVE  y \in Range(t)
    <3>1. PICK j \in 1 .. Len(s) : s[j] = y /\ j # p
      BY <1>1, <2>2 DEF Range
    <3> DEFINE i == IF j < p THEN j ELSE j - 1
    <3>2. i \in 1 .. Len(s) - 1 /\ t[i] = s[j]
      BY <1>1, <1>8, <3>1
    <3> QED
      BY <1>6, <3>1, <3>2 DEF Range
  <2> QED
    BY <2>1, <2>2
<1> QED
  BY <1>1, <1>6, <1>9, <1>10, <1>11 DEF t

\* dlist_detach() takes a node out of the list, and keeps the ring and the
\* order of the rest.
THEOREM DetachRemoves ==
    ASSUME NEW N, NEW null, NEW head, head \notin N, NEW l \in LinksOf(N \cup {head}, null),
           NEW s \in Seq(N), IsInjective(s), Represents(l, head, s),
           NEW x \in Range(s)
    PROVE  LET m == dlist_detach(l, x)
           IN  m \in LinksOf(N \cup {head}, null) /\ Represents(m, head, RemoveFirst(s, x))
<1> DEFINE m == dlist_detach(l, x)
           n == Len(s)
           t == RemoveFirst(s, x)
           a(i) == At(s, head, i)
<1>1. Ring(l, head, s)
  BY RingIsRepresents
<1>2. PICK p \in 1..n : s[p] = x /\ IsWithout(t, s, p)
  BY RemoveFirstShape
<1>3. n \in Nat /\ t \in Seq(N) /\ Len(t) = n - 1
      /\ \A i \in 1..(n - 1) : t[i] = IF i < p THEN s[i] ELSE s[i + 1]
  BY <1>2, RemoveFirstShape DEF IsWithout
<1>4. \A i \in 0..(n + 1) : a(i) \in N \cup {head}
  <2>1. \A i \in 1..n : s[i] \in N
    OBVIOUS
  <2> QED
    BY <2>1 DEF At
<1>5. a(p) = x /\ p \in 0..n /\ p - 1 \in 0..n /\ (p - 1) + 1 = p /\ p + 1 \in 1..(n + 1)
  BY <1>2, <1>3 DEF At
<1>6. l.next[x] = a(p + 1) /\ l.prev[x] = a(p - 1)
  BY <1>1, <1>5 DEF Ring
<1>7. /\ m = [prev |-> m.prev, next |-> m.next]
      /\ m.prev = [l.prev EXCEPT ![a(p + 1)] = a(p - 1)]
      /\ m.next = [l.next EXCEPT ![a(p - 1)] = a(p + 1)]
  BY <1>6 DEF dlist_detach
<1>8. /\ l.prev \in [N \cup {head} -> (N \cup {head}) \cup {null}]
      /\ l.next \in [N \cup {head} -> (N \cup {head}) \cup {null}]
  BY DEF LinksOf
<1>9. a(p - 1) \in N \cup {head} /\ a(p + 1) \in N \cup {head}
  BY <1>3, <1>4, <1>5
<1> HIDE DEF m, a, t
<1>10. /\ m.prev[a(p + 1)] = a(p - 1)
       /\ \A y \in N \cup {head} : y # a(p + 1) => m.prev[y] = l.prev[y]
       /\ m.next[a(p - 1)] = a(p + 1)
       /\ \A y \in N \cup {head} : y # a(p - 1) => m.next[y] = l.next[y]
  BY <1>7, <1>8, <1>9
<1>11. m \in LinksOf(N \cup {head}, null)
  BY <1>7, <1>8, <1>9 DEF LinksOf
<1>12. \A i \in 0..n : At(t, head, i) = IF i < p THEN a(i) ELSE a(i + 1)
  BY <1>2, <1>3 DEF At, a
<1>13. /\ \A i, j \in 0..n : a(i) = a(j) => i = j
       /\ \A i, j \in 1..(n + 1) : a(i) = a(j) => i = j
  BY Distinct DEF a
<1>14. \A i \in 0..n : l.next[a(i)] = a(i + 1) /\ l.prev[a(i + 1)] = a(i)
  BY <1>1 DEF Ring, a
<1>15. ASSUME NEW i \in 0..(n - 1)
       PROVE  /\ m.next[At(t, head, i)] = At(t, head, i + 1)
              /\ m.prev[At(t, head, i + 1)] = At(t, head, i)
  <2>0. i \in 0..n /\ i + 1 \in 0..n /\ i + 1 \in 1..(n + 1) /\ i \in 0..(n + 1)
    BY <1>3
  <2>1. CASE i = p - 1
    <3>1. i < p /\ ~(i + 1 < p) /\ (i + 1) + 1 = p + 1
      BY <1>2, <1>3, <2>1
    <3>2. At(t, head, i) = a(p - 1) /\ At(t, head, i + 1) = a(p + 1)
      BY <1>12, <2>0, <2>1, <3>1
    <3> QED
      BY <1>10, <3>2
  <2>2. CASE i < p - 1
    <3>1. i < p /\ i + 1 < p /\ i # p - 1 /\ i + 1 # p + 1
      BY <1>2, <1>3, <2>2
    <3>2. At(t, head, i) = a(i) /\ At(t, head, i + 1) = a(i + 1)
      BY <1>12, <2>0, <3>1
    <3>3. a(i) # a(p - 1) /\ a(i + 1) # a(p + 1)
      BY <1>5, <1>13, <2>0, <3>1
    <3>4. a(i) \in N \cup {head} /\ a(i + 1) \in N \cup {head}
      BY <1>3, <1>4, <2>0
    <3> QED
      BY <1>10, <1>14, <2>0, <3>2, <3>3, <3>4
  <2>3. CASE p <= i
    <3>1. ~(i < p) /\ ~(i + 1 < p) /\ i + 1 # p - 1 /\ (i + 1) + 1 # p + 1
          /\ (i + 1) + 1 \in 1..(n + 1)
      BY <1>2, <1>3, <2>3
    <3>2. At(t, head, i) = a(i + 1) /\ At(t, head, i + 1) = a((i + 1) + 1)
      BY <1>12, <2>0, <3>1
    <3>3. a(i + 1) # a(p - 1) /\ a((i + 1) + 1) # a(p + 1)
      BY <1>5, <1>13, <2>0, <3>1
    <3>4. a(i + 1) \in N \cup {head} /\ a((i + 1) + 1) \in N \cup {head}
      BY <1>3, <1>4, <2>0, <3>1
    <3> QED
      BY <1>10, <1>14, <2>0, <3>2, <3>3, <3>4
  <2> QED
    BY <1>2, <1>3, <2>1, <2>2, <2>3
<1>16. Ring(m, head, t)
  BY <1>3, <1>15 DEF Ring
<1>17. Represents(m, head, t)
  BY <1>3, <1>16, RingIsRepresents
<1> QED
  BY <1>11, <1>17 DEF m, t

\* A node that is in no list may have any links.
LEMMA OthersDoNotMatter ==
    ASSUME NEW N, NEW null, NEW head, head \notin N, NEW l \in LinksOf(N \cup {head}, null),
           NEW s \in Seq(N), Represents(l, head, s), NEW x \in N, x \notin Range(s)
    PROVE  LET m == [prev |-> [l.prev EXCEPT ![x] = null], next |-> [l.next EXCEPT ![x] = null]]
           IN  m \in LinksOf(N \cup {head}, null) /\ Represents(m, head, s)
<1> DEFINE m == [prev |-> [l.prev EXCEPT ![x] = null], next |-> [l.next EXCEPT ![x] = null]]
<1>1. Ring(l, head, s)
  BY RingIsRepresents
<1>2. /\ l.prev \in [N \cup {head} -> (N \cup {head}) \cup {null}]
      /\ l.next \in [N \cup {head} -> (N \cup {head}) \cup {null}]
  BY DEF LinksOf
<1>3. m \in LinksOf(N \cup {head}, null)
  BY <1>2 DEF LinksOf
<1>4. \A y \in N \cup {head} : y # x => m.prev[y] = l.prev[y] /\ m.next[y] = l.next[y]
  BY <1>2
<1>5. \A i \in 0..(Len(s) + 1) : At(s, head, i) \in N \cup {head} /\ At(s, head, i) # x
  <2>1. \A i \in 1..Len(s) : s[i] \in N /\ s[i] # x
    BY DEF Range
  <2> QED
    BY <2>1 DEF At
<1> HIDE DEF m
<1>6. ASSUME NEW i \in 0..Len(s)
      PROVE  i \in 0..(Len(s) + 1) /\ i + 1 \in 0..(Len(s) + 1)
  OBVIOUS
<1>7. Ring(m, head, s)
  BY <1>1, <1>4, <1>5, <1>6 DEF Ring
<1>8. Represents(m, head, s)
  BY <1>7, RingIsRepresents
<1> QED
  BY <1>3, <1>8 DEF m

-----------------------------------------------------------------------------
(* The invariant of the event loop.                                        *)

ConnRecord == [fd : {0} \cup Fds,
               want_read : BOOLEAN, want_write : BOOLEAN, want_close : BOOLEAN,
               incoming : Seq(Nat), outgoing : Seq(Nat), last_active_ms : Nat]

SockRecord == [rx : Seq(Nat), tx : Seq(Nat), fin : BOOLEAN, err : {"none", "reset", "pipe"}]

\* The units that a client may send.
Units(c) == 1..(2 * Len(script[c]))

InRange ==
    /\ \A c \in Clients : nsent[c] <= 2 * Len(script[c])
    /\ \A c \in Clients : sock[c].rx \in Seq(Units(c)) /\ conn[c].incoming \in Seq(Units(c))
    /\ \A c \in Clients : Len(sock[c].tx) <= SndBuf

\* A connection that is not up has none of its client's requests executed.
Fresh ==
    /\ IsInjective(backlog)
    /\ \A c \in Range(backlog) : c \notin Live
    /\ \A c \in Clients : client[c] = "new" => c \notin Live /\ c \notin Range(backlog)

\* Nothing is being served while the loop is in poll() or between two rounds.
Phases ==
    /\ cur # 0 <=> pc \in {"parse", "write", "close", "dead"}
    /\ pc \in {"prepare", "poll", "timers"} => Pending(ready.revents) = {}
    /\ \A f \in Pending(ready.revents) : fd2conn[f] = ready.conn[f] /\ fd2conn[f] \in Clients

\* No connection was active in the future.
Past == \A c \in Clients : conn[c].last_active_ms <= now

\* What poll() is asked about a connection that is not being served is what
\* the connection needs.
Settled(c) ==
    /\ conn[c].want_write <=> conn[c].outgoing # <<>>
    /\ conn[c].want_read <=> conn[c].outgoing = <<>>
    /\ ~conn[c].want_close
    /\ ~Executable(c, conn[c].incoming)
    /\ ~Rejects(c, conn[c].incoming)

\* The mode of the connection that is being served.
ServedMode(c) ==
    /\ pc = "parse" => conn[c].want_read /\ ~conn[c].want_write /\ ~conn[c].want_close
    /\ pc = "write" => /\ conn[c].outgoing # <<>>
                       /\ conn[c].want_write /\ ~conn[c].want_read
                       /\ ~Executable(c, conn[c].incoming)
                       /\ conn[c].want_close \/ ~Rejects(c, conn[c].incoming)
    /\ pc = "close" => conn[c].want_close \/ Settled(c)

Modes ==
    /\ \A c \in Live : conn[c].fd # cur => Settled(c)
    /\ cur # 0 => ServedMode(Current)
    /\ \A f \in Pending(ready.revents) :
          f # cur => /\ "in" \in ready.revents[f] => conn[fd2conn[f]].want_read
                     /\ "out" \in ready.revents[f] => conn[fd2conn[f]].want_write

Inv == TypeOK /\ InRange /\ Fresh /\ Phases /\ Past /\ TablesAgree /\ Modes

-----------------------------------------------------------------------------
(* Sequences.                                                              *)

LEMMA AppendOneMore ==
    ASSUME NEW S, NEW s \in Seq(S), IsInjective(s), NEW x \in S, x \notin Range(s)
    PROVE  LET t == Append(s, x)
           IN  IsInjective(t) /\ Range(t) = Range(s) \cup {x}
<1> DEFINE t == Append(s, x)
<1>1. Len(t) = Len(s) + 1 /\ DOMAIN t = 1..(Len(s) + 1) /\ DOMAIN s = 1..Len(s)
  OBVIOUS
<1>2. \A i \in 1..(Len(s) + 1) : t[i] = IF i = Len(s) + 1 THEN x ELSE s[i]
  OBVIOUS
<1> HIDE DEF t
<1>3. \A i \in 1..Len(s) : s[i] # x
  BY <1>1 DEF Range
<1>4. IsInjective(t)
  BY <1>1, <1>2, <1>3 DEF IsInjective
<1>5. Range(t) = Range(s) \cup {x}
  <2>1. t[Len(s) + 1] = x /\ Len(s) + 1 \in 1..(Len(s) + 1)
    BY <1>2
  <2>2. \A i \in 1..Len(s) : t[i] = s[i] /\ i \in 1..(Len(s) + 1)
    BY <1>2
  <2> QED
    BY <1>1, <1>2, <2>1, <2>2 DEF Range
<1> QED
  BY <1>4, <1>5 DEF t

-----------------------------------------------------------------------------
(* What no step of a client, of the kernel or of the clock touches.        *)

server == <<tables, db, done, pc, wake, ready, cur>>

LEMMA ServerKept ==
    ASSUME Inv, UNCHANGED <<server, script>>, now <= now', now' \in 0..MaxTime
    PROVE  /\ Phases' /\ Past' /\ TablesAgree' /\ Modes'
           /\ Live' = Live
<1>1. Phases'
  BY DEF Inv, Phases, server, tables, Pending
<1>2. Past'
  BY LoopAssumption DEF Inv, TypeOK, Past, server, tables
<1>3. Live' = Live
  BY DEF Live, server, tables
<1>4. TablesAgree'
  BY <1>3 DEF Inv, TablesAgree, server, tables, Represents
<1>5. Modes'
  BY <1>3 DEF Inv, Modes, Settled, ServedMode, Current, Executable, Rejects, Command, server, tables, Pending
<1> QED
  BY <1>1, <1>2, <1>3, <1>4, <1>5

\* The parts of TypeOK about the clients and the kernel, and the others.
WorldTyped ==
    /\ client \in [Clients -> {"new", "open", "closed"}]
    /\ script \in [Clients -> Scripts]
    /\ nsent \in [Clients -> Nat]
    /\ got \in [Clients -> Seq(Nat)]
    /\ sock \in [Clients -> SockRecord]
    /\ backlog \in Seq(Clients)
    /\ now \in 0..MaxTime

ServerTyped ==
    /\ done \in [Clients -> Nat] /\ idle_list \in Seq(Clients)
    /\ fd2conn \in [Fds -> Clients \cup {NoConn}]
    /\ conn \in [Clients -> ConnRecord]
    /\ DOMAIN db \subseteq Keys /\ \A k \in DOMAIN db : db[k] \in Nat \cup {NoTTL}
    /\ idle \in [prev : [Nodes -> Nodes \cup {NoConn}], next : [Nodes -> Nodes \cup {NoConn}]]
    /\ pc \in {"prepare", "poll", "accept", "serve", "parse", "write", "close", "timers", "dead"}
    /\ wake \in Nat \cup {Forever}
    /\ ready \in [listen : BOOLEAN, revents : [Fds -> SUBSET {"in", "out", "err"}],
                  conn : [Fds -> Clients \cup {NoConn}]]
    /\ cur \in {0} \cup Fds
    /\ pc = "serve" => Pending(ready.revents) # {}
    /\ pc \in {"parse", "write", "close"} => cur \in Pending(ready.revents)

LEMMA TypesSplit ==
    /\ TypeOK <=> WorldTyped /\ ServerTyped
    /\ TypeOK' <=> WorldTyped' /\ ServerTyped'
BY DEF TypeOK, WorldTyped, ServerTyped, ConnRecord, SockRecord

LEMMA ServerTypedKept ==
    ASSUME ServerTyped, UNCHANGED server
    PROVE  ServerTyped'
BY DEF ServerTyped, server, tables, Pending, ConnRecord

LEMMA ConnectStep == ASSUME Inv, NEW c \in Clients, Connect(c) PROVE Inv'
<1>1. UNCHANGED <<server, script, nsent, got, sock, now>>
  BY DEF Connect, server, tables
<1>2. WorldTyped /\ ServerTyped /\ now <= now' /\ now' \in 0..MaxTime
  BY <1>1, TypesSplit, LoopAssumption DEF Inv, WorldTyped
<1>3. Phases' /\ Past' /\ TablesAgree' /\ Modes' /\ Live' = Live
  BY <1>1, <1>2, ServerKept
<1>4. TypeOK'
  <2>1. WorldTyped'
    BY <1>1, <1>2 DEF Connect, WorldTyped
  <2> QED
    BY <1>1, <1>2, <2>1, ServerTypedKept, TypesSplit
<1>5. InRange'
  BY <1>1 DEF Inv, InRange, Units, server, tables
<1>6. Fresh'
  <2>1. c \notin Live /\ c \notin Range(backlog) /\ backlog \in Seq(Clients)
    BY <1>2 DEF Inv, Fresh, Connect, WorldTyped
  <2>2. backlog' = Append(backlog, c)
    BY DEF Connect
  <2>3. Range(backlog') = Range(backlog) \cup {c} /\ IsInjective(backlog')
    <3>1. Range(Append(backlog, c)) = Range(backlog) \cup {c} /\ IsInjective(Append(backlog, c))
      BY <2>1, AppendOneMore DEF Inv, Fresh
    <3> QED
      BY <2>2, <3>1
  <2> QED
    BY <1>2, <1>3, <2>1, <2>3 DEF Inv, Fresh, Connect, WorldTyped
<1> QED
  BY <1>3, <1>4, <1>5, <1>6 DEF Inv

LEMMA SendStep == ASSUME Inv, NEW c \in Clients, Send(c) PROVE Inv'
<1>1. UNCHANGED <<server, client, script, got, backlog, now>>
  BY DEF Send, server, tables
<1>2. WorldTyped /\ ServerTyped /\ now <= now' /\ now' \in 0..MaxTime
  BY <1>1, TypesSplit, LoopAssumption DEF Inv, WorldTyped
<1>3. Phases' /\ Past' /\ TablesAgree' /\ Modes' /\ Live' = Live
  BY <1>1, <1>2, ServerKept
<1> DEFINE s == sock[c]
           u == nsent[c] + 1
<1>4. /\ s = [rx |-> s.rx, tx |-> s.tx, fin |-> s.fin, err |-> s.err]
      /\ s \in SockRecord /\ s.rx \in Seq(Nat) /\ s.rx \in Seq(Units(c))
      /\ nsent[c] \in Nat /\ u \in Nat /\ Len(script[c]) \in Nat /\ u \in Units(c)
  <2>1. script[c] \in Seq(Commands)
    BY <1>2, LoopAssumption DEF WorldTyped
  <2>2. Len(script[c]) \in Nat /\ nsent[c] \in Nat /\ nsent[c] < 2 * Len(script[c])
    BY <1>2, <2>1 DEF WorldTyped, Send
  <2>3. s \in SockRecord /\ s.rx \in Seq(Units(c))
    BY <1>2 DEF WorldTyped, Inv, InRange
  <2> QED
    BY <2>2, <2>3 DEF SockRecord, Units
<1>5. /\ sock' = [sock EXCEPT ![c] = [s EXCEPT !.rx = Append(s.rx, u)]]
      /\ nsent' = [nsent EXCEPT ![c] = u]
  BY DEF Send
<1>6. Append(s.rx, u) \in Seq(Nat) /\ Append(s.rx, u) \in Seq(Units(c))
  BY <1>4, AppendProperties
<1>7. TypeOK'
  <2>1. [s EXCEPT !.rx = Append(s.rx, u)] \in SockRecord
    BY <1>4, <1>6 DEF SockRecord
  <2>2. WorldTyped'
    BY <1>1, <1>2, <1>4, <1>5, <2>1 DEF WorldTyped
  <2> QED
    BY <1>1, <1>2, <2>2, ServerTypedKept, TypesSplit
<1>8. InRange'
  <2>1. ASSUME NEW d \in Clients
        PROVE  /\ nsent'[d] <= 2 * Len(script'[d])
               /\ sock'[d].rx \in Seq(Units(d)') /\ conn'[d].incoming \in Seq(Units(d)')
               /\ Len(sock'[d].tx) <= SndBuf
    <3>1. Units(d)' = Units(d) /\ conn' = conn /\ script' = script
      BY <1>1 DEF Units, server, tables
    <3>2. CASE d = c
      BY <1>2, <1>4, <1>5, <1>6, <3>1, <3>2 DEF Inv, InRange, Send, WorldTyped, SockRecord, Units
    <3>3. CASE d # c
      BY <1>2, <1>5, <3>1, <3>3 DEF Inv, InRange, WorldTyped
    <3> QED
      BY <3>2, <3>3
  <2> QED
    BY <2>1 DEF InRange
<1>9. Fresh'
  BY <1>1, <1>3 DEF Inv, Fresh
<1> QED
  BY <1>3, <1>7, <1>8, <1>9 DEF Inv

\* A step of the kernel that may take from the receive buffer of a client.
LEMMA SockOnly ==
    ASSUME Inv, UNCHANGED <<server, script, nsent, backlog, now>>,
           sock' \in [Clients -> SockRecord],
           \A d \in Clients : sock'[d].rx = sock[d].rx /\ Len(sock'[d].tx) <= SndBuf,
           client' \in [Clients -> {"new", "open", "closed"}],
           \A d \in Clients : client'[d] = "new" => client[d] = "new",
           got' \in [Clients -> Seq(Nat)]
    PROVE  Inv'
<1>2. WorldTyped /\ ServerTyped /\ now <= now' /\ now' \in 0..MaxTime
  BY TypesSplit, LoopAssumption DEF Inv, WorldTyped
<1>3. Phases' /\ Past' /\ TablesAgree' /\ Modes' /\ Live' = Live
  BY <1>2, ServerKept
<1>4. TypeOK'
  <2>1. WorldTyped'
    BY <1>2 DEF WorldTyped
  <2> QED
    BY <1>2, <2>1, ServerTypedKept, TypesSplit
<1>5. InRange'
  BY DEF Inv, InRange, Units, server, tables
<1>6. Fresh'
  BY <1>3 DEF Inv, Fresh
<1> QED
  BY <1>3, <1>4, <1>5, <1>6 DEF Inv

LEMMA ReceiveStep == ASSUME Inv, NEW c \in Clients, Receive(c) PROVE Inv'
<1>1. UNCHANGED <<server, client, script, nsent, backlog, now>>
  BY DEF Receive, server, tables
<1>2. WorldTyped
  BY TypesSplit DEF Inv
<1> DEFINE s == sock[c]
<1>3. s \in SockRecord /\ s.tx \in Seq(Nat) /\ s.tx # <<>>
  BY <1>2 DEF WorldTyped, SockRecord, Receive
<1>4. Head(s.tx) \in Nat /\ Tail(s.tx) \in Seq(Nat) /\ got[c] \in Seq(Nat)
      /\ Len(Tail(s.tx)) <= SndBuf
  BY <1>2, <1>3, LoopAssumption DEF WorldTyped, Inv, InRange
<1>5. sock' = [sock EXCEPT ![c] = [s EXCEPT !.tx = Tail(s.tx)]]
      /\ got' = [got EXCEPT ![c] = Append(@, Head(s.tx))]
  BY DEF Receive
<1>6. [s EXCEPT !.tx = Tail(s.tx)] \in SockRecord /\ [s EXCEPT !.tx = Tail(s.tx)].rx = s.rx
      /\ [s EXCEPT !.tx = Tail(s.tx)].tx = Tail(s.tx)
  BY <1>3, <1>4 DEF SockRecord
<1>7. sock' \in [Clients -> SockRecord]
      /\ \A d \in Clients : sock'[d].rx = sock[d].rx /\ Len(sock'[d].tx) <= SndBuf
  BY <1>2, <1>4, <1>5, <1>6 DEF WorldTyped, Inv, InRange
<1>8. got' \in [Clients -> Seq(Nat)]
  BY <1>2, <1>4, <1>5 DEF WorldTyped
<1> QED
  BY <1>1, <1>2, <1>7, <1>8, SockOnly DEF WorldTyped

LEMMA HangupStep == ASSUME Inv, NEW c \in Clients, Hangup(c) PROVE Inv'
<1>1. UNCHANGED <<server, script, nsent, got, backlog, now>>
  BY DEF Hangup, server, tables
<1>2. WorldTyped
  BY TypesSplit DEF Inv
<1> DEFINE s == sock[c]
           t == IF s.tx = <<>> THEN [s EXCEPT !.fin = TRUE]
                ELSE [s EXCEPT !.err = "reset", !.tx = <<>>]
<1>3. s \in SockRecord
  BY <1>2 DEF WorldTyped
<1>4. t \in SockRecord /\ t.rx = s.rx /\ Len(t.tx) <= SndBuf
  <2>1. <<>> \in Seq(Nat) /\ s.rx \in Seq(Nat) /\ s.fin \in BOOLEAN
        /\ Len(<<>>) = 0 /\ 0 <= SndBuf /\ Len(s.tx) <= SndBuf
    BY <1>3, LoopAssumption DEF SockRecord, Inv, InRange
  <2>2. [s EXCEPT !.fin = TRUE] \in SockRecord /\ [s EXCEPT !.fin = TRUE].rx = s.rx
        /\ [s EXCEPT !.fin = TRUE].tx = s.tx
    BY <1>3 DEF SockRecord
  <2>3. [s EXCEPT !.err = "reset", !.tx = <<>>] \in SockRecord
        /\ [s EXCEPT !.err = "reset", !.tx = <<>>].rx = s.rx
        /\ [s EXCEPT !.err = "reset", !.tx = <<>>].tx = <<>>
    BY <1>3, <2>1 DEF SockRecord
  <2> QED
    BY <2>1, <2>2, <2>3
<1>5. sock' = [sock EXCEPT ![c] = t] /\ client' = [client EXCEPT ![c] = "closed"]
  BY DEF Hangup
<1>6. sock' \in [Clients -> SockRecord]
      /\ \A d \in Clients : sock'[d].rx = sock[d].rx /\ Len(sock'[d].tx) <= SndBuf
  BY <1>2, <1>4, <1>5 DEF WorldTyped, Inv, InRange
<1>7. /\ client' \in [Clients -> {"new", "open", "closed"}]
      /\ \A d \in Clients : client'[d] = "new" => client[d] = "new"
  BY <1>2, <1>5 DEF WorldTyped
<1> QED
  BY <1>1, <1>2, <1>6, <1>7, SockOnly DEF WorldTyped

LEMMA ResetStep == ASSUME Inv, NEW c \in Clients, Reset(c) PROVE Inv'
<1>1. UNCHANGED <<server, client, script, nsent, got, backlog, now>>
  BY DEF Reset, server, tables, kernel
<1>2. WorldTyped
  BY TypesSplit DEF Inv
<1> DEFINE s == sock[c]
           t == [s EXCEPT !.err = "pipe", !.tx = <<>>]
<1>3. s \in SockRecord
  BY <1>2 DEF WorldTyped
<1>4. t \in SockRecord /\ t.rx = s.rx /\ Len(t.tx) <= SndBuf
  <2>1. <<>> \in Seq(Nat) /\ s.rx \in Seq(Nat) /\ s.fin \in BOOLEAN
        /\ Len(<<>>) = 0 /\ 0 <= SndBuf /\ Len(s.tx) <= SndBuf
    BY <1>3, LoopAssumption DEF SockRecord, Inv, InRange
  <2> QED
    BY <1>3, <2>1 DEF SockRecord
<1>5. sock' = [sock EXCEPT ![c] = t]
  BY DEF Reset
<1>6. sock' \in [Clients -> SockRecord]
      /\ \A d \in Clients : sock'[d].rx = sock[d].rx /\ Len(sock'[d].tx) <= SndBuf
  BY <1>2, <1>4, <1>5 DEF WorldTyped, Inv, InRange
<1> QED
  BY <1>1, <1>2, <1>6, SockOnly DEF WorldTyped

LEMMA TickStep == ASSUME Inv, Tick PROVE Inv'
<1>1. UNCHANGED <<server, client, script, nsent, got, backlog, sock>>
  BY DEF Tick, server, tables, kernel
<1>2. WorldTyped /\ ServerTyped /\ now <= now' /\ now' \in 0..MaxTime
  BY TypesSplit, LoopAssumption DEF Inv, WorldTyped, Tick
<1>3. Phases' /\ Past' /\ TablesAgree' /\ Modes' /\ Live' = Live
  BY <1>1, <1>2, ServerKept
<1>4. TypeOK'
  <2>1. WorldTyped'
    BY <1>1, <1>2 DEF WorldTyped
  <2> QED
    BY <1>1, <1>2, <2>1, ServerTypedKept, TypesSplit
<1>5. InRange' /\ Fresh'
  BY <1>1, <1>3 DEF Inv, InRange, Fresh, Units, server, tables
<1> QED
  BY <1>3, <1>4, <1>5 DEF Inv

-----------------------------------------------------------------------------
(* The first connection of the idle list, and poll().                      *)

LEMMA OldestIsFirst ==
    ASSUME TypeOK, TablesAgree
    PROVE  /\ idle_list = <<>> => Oldest = {}
           /\ idle_list # <<>> => Oldest = {idle_list[1]} /\ idle_list[1] \in Live
<1>1. Ring(idle, IdleHead, idle_list) /\ idle_list \in Seq(Clients)
  BY RingIsRepresents DEF TypeOK, TablesAgree
<1>2. 0 \in 0..Len(idle_list) /\ At(idle_list, IdleHead, 0) = IdleHead
  BY <1>1 DEF At
<1>3. idle.next[IdleHead] = At(idle_list, IdleHead, 1)
  BY <1>1, <1>2 DEF Ring
<1>4. CASE idle_list = <<>>
  BY <1>3, <1>4 DEF At, Oldest, dlist_empty
<1>5. CASE idle_list # <<>>
  <2>1. 1 \in 1..Len(idle_list) /\ idle_list[1] \in Clients /\ idle_list[1] \in Range(idle_list)
    BY <1>1, <1>5 DEF Range
  <2> QED
    BY <1>3, <1>5, <2>1, LoopAssumption DEF At, Oldest, dlist_empty, TablesAgree
<1> QED
  BY <1>4, <1>5

LEMMA LeastNatural ==
    ASSUME NEW S, S \subseteq Nat, S # {}
    PROVE  MinOf(S) \in S /\ \A n \in S : MinOf(S) <= n
<1> DEFINE LessThan == {ss \in Nat \X Nat : ss[1] < ss[2]}
<1>1. IsWellFoundedOn(LessThan, Nat)
  BY NatLessThanWellFounded DEF OpToRel
<1>2. PICK m \in S : \A n \in S : <<n, m>> \notin LessThan
  BY <1>1, WFMin
<1>3. ASSUME NEW n \in S
      PROVE  m <= n
  <2>1. <<n, m>> \in Nat \X Nat /\ <<n, m>>[1] = n /\ <<n, m>>[2] = m
    OBVIOUS
  <2> QED
    BY <1>2, <2>1
<1> QED
  BY <1>3 DEF MinOf

LEMMA TimersAreNaturals ==
    ASSUME TypeOK, TablesAgree
    PROVE  NextTimers \subseteq Nat
<1>1. \A c \in Oldest : conn[c].last_active_ms \in Nat
  <2>1. \A c \in Clients : conn[c].last_active_ms \in Nat
    BY DEF TypeOK
  <2> QED
    BY <2>1, OldestIsFirst DEF Live
<1>2. IdleDeadlines \subseteq Nat
  BY <1>1, LoopAssumption DEF IdleDeadlines
<1>3. HeapRoot \subseteq Nat
  <2> DEFINE vals == {db[k] : k \in DOMAIN db} \ {NoTTL}
  <2>1. vals \subseteq Nat
    BY DEF TypeOK
  <2> HIDE DEF vals
  <2>2. HeapRoot = IF vals = {} THEN {} ELSE {MinOf(vals)}
    BY DEF HeapRoot, vals
  <2> QED
    BY <2>1, <2>2, LeastNatural
<1> QED
  BY <1>2, <1>3 DEF NextTimers

LEMMA Int32IsInt == ASSUME NEW n \in Nat PROVE Int32(n) \in Int
<1>1. T32 \in Nat \ {0}
  BY LoopAssumption
<1>2. n % T32 \in 0..(T32 - 1)
  BY <1>1
<1> QED
  BY <1>1, <1>2 DEF Int32

LEMMA TimeoutIsInt ==
    ASSUME TypeOK, TablesAgree
    PROVE  next_timer_ms \in Int
<1> DEFINE m == MinOf(NextTimers)
<1>1. now \in Nat
  BY LoopAssumption DEF TypeOK
<1>2. NextTimers # {} => m \in Nat
  BY TimersAreNaturals, LeastNatural
<1>3. NextTimers # {} /\ ~(m <= now) => m - now \in Nat
  BY <1>1, <1>2
<1> HIDE DEF m
<1>4. next_timer_ms = IF NextTimers = {} THEN -1 ELSE IF m <= now THEN 0 ELSE Int32(m - now)
  BY DEF next_timer_ms, m
<1> QED
  BY <1>3, <1>4, Int32IsInt

LEMMA TablesKept ==
    ASSUME Inv, UNCHANGED <<kernel, sock, now, tables>>
    PROVE  /\ WorldTyped' /\ InRange' /\ Fresh' /\ Past' /\ TablesAgree'
           /\ Live' = Live
           /\ \A c : Settled(c)' <=> Settled(c)
<1>1. WorldTyped'
  BY TypesSplit DEF Inv, WorldTyped, kernel
<1>2. InRange'
  BY DEF Inv, InRange, Units, kernel, tables
<1>3. Live' = Live
  BY DEF Live, tables
<1>4. Fresh' /\ Past'
  BY <1>3 DEF Inv, Fresh, Past, kernel, tables
<1>5. TablesAgree'
  BY <1>3 DEF Inv, TablesAgree, tables, Represents
<1>6. \A c : Settled(c)' <=> Settled(c)
  BY DEF Settled, Executable, Rejects, Command, kernel, tables
<1> QED
  BY <1>1, <1>2, <1>3, <1>4, <1>5, <1>6

LEMMA PollEnterStep == ASSUME Inv, PollEnter PROVE Inv'
<1>1. UNCHANGED <<kernel, sock, now, tables>> /\ UNCHANGED <<db, done, ready, cur>>
      /\ pc = "prepare" /\ pc' = "poll"
  BY DEF PollEnter
<1>2. WorldTyped' /\ InRange' /\ Fresh' /\ Past' /\ TablesAgree' /\ Live' = Live
      /\ \A c : Settled(c)' <=> Settled(c)
  BY <1>1, TablesKept
<1>3. wake' \in Nat \cup {Forever}
  <2>1. next_timer_ms \in Int /\ now \in Nat
    BY TimeoutIsInt, LoopAssumption DEF Inv, TypeOK
  <2> HIDE DEF next_timer_ms
  <2> QED
    BY <2>1 DEF PollEnter
<1>4. ServerTyped'
  BY <1>1, <1>3, TypesSplit DEF Inv, ServerTyped, tables, Pending
<1>5. Phases' /\ Modes'
  <2>1. Phases'
    BY <1>1 DEF Inv, Phases, Pending, tables
  <2>2. Modes'
    BY <1>1, <1>2 DEF Inv, Phases, Modes, Pending, tables
  <2> QED
    BY <2>1, <2>2
<1> QED
  BY <1>2, <1>4, <1>5, TypesSplit DEF Inv

LEMMA PollInterruptedStep == ASSUME Inv, PollInterrupted PROVE Inv'
<1>1. UNCHANGED <<kernel, sock, now, tables>> /\ UNCHANGED <<db, done, wake, ready, cur>>
      /\ pc = "poll" /\ pc' = "prepare"
  BY DEF PollInterrupted
<1>2. WorldTyped' /\ InRange' /\ Fresh' /\ Past' /\ TablesAgree' /\ Live' = Live
      /\ \A c : Settled(c)' <=> Settled(c)
  BY <1>1, TablesKept
<1>3. ServerTyped'
  BY <1>1, TypesSplit DEF Inv, ServerTyped, tables, Pending
<1>4. Phases'
  BY <1>1 DEF Inv, Phases, Pending, tables
<1>5. Modes'
  BY <1>1, <1>2 DEF Inv, Phases, Modes, Pending, tables
<1> QED
  BY <1>2, <1>3, <1>4, <1>5, TypesSplit DEF Inv

LEMMA AcceptNothingStep == ASSUME Inv, AcceptNothing PROVE Inv'
<1>1. UNCHANGED <<kernel, sock, now, tables>> /\ UNCHANGED <<db, done, wake, cur>>
      /\ pc = "accept" /\ pc' = NextPhase(ready.revents)
  BY DEF AcceptNothing
<1>2. WorldTyped' /\ InRange' /\ Fresh' /\ Past' /\ TablesAgree' /\ Live' = Live
      /\ \A c : Settled(c)' <=> Settled(c)
  BY <1>1, TablesKept
<1>3. /\ ready.revents = ready'.revents /\ ready.conn = ready'.conn
      /\ ready' \in [listen : BOOLEAN, revents : [Fds -> SUBSET {"in", "out", "err"}],
                     conn : [Fds -> Clients \cup {NoConn}]]
  BY TypesSplit DEF Inv, ServerTyped, AcceptNothing
<1>4. ServerTyped'
  BY <1>1, <1>3, TypesSplit DEF Inv, ServerTyped, tables, Pending, NextPhase
<1>5. Phases'
  BY <1>1, <1>3 DEF Inv, Phases, Pending, tables, NextPhase
<1>6. Modes'
  BY <1>1, <1>2, <1>3 DEF Inv, Phases, Modes, Pending, tables
<1> QED
  BY <1>2, <1>4, <1>5, <1>6, TypesSplit DEF Inv

LEMMA PollReturnStep == ASSUME Inv, PollReturn PROVE Inv'
<1>1. UNCHANGED <<kernel, sock, now, tables>> /\ UNCHANGED <<db, done, wake, cur>>
      /\ pc = "poll" /\ pc' = "accept" /\ cur = 0
  BY DEF PollReturn, Inv, Phases
<1>2. WorldTyped' /\ InRange' /\ Fresh' /\ Past' /\ TablesAgree' /\ Live' = Live
      /\ \A c : Settled(c)' <=> Settled(c)
  BY <1>1, TablesKept
<1>3. PICK spurious :
        ready' = [listen |-> backlog # <<>>,
                  revents |-> [f \in Fds |->
                     IF fd2conn[f] = NoConn THEN {}
                     ELSE Events(fd2conn[f]) \cup
                          (IF fd2conn[f] \in spurious /\ conn[fd2conn[f]].want_read
                           THEN {"in"} ELSE {})],
                  conn |-> fd2conn]
  BY DEF PollReturn
<1>4. \A c : /\ Events(c) \subseteq {"in", "out", "err"}
             /\ "in" \in Events(c) => conn[c].want_read
             /\ "out" \in Events(c) => conn[c].want_write
  BY DEF Events
<1>5. fd2conn \in [Fds -> Clients \cup {NoConn}]
  BY TypesSplit DEF Inv, ServerTyped
<1>6. /\ ready'.conn = fd2conn
      /\ \A f \in Fds :
            /\ ready'.revents[f] \subseteq {"in", "out", "err"}
            /\ ready'.revents[f] # {} => fd2conn[f] \in Clients
            /\ "in" \in ready'.revents[f] => conn[fd2conn[f]].want_read
            /\ "out" \in ready'.revents[f] => conn[fd2conn[f]].want_write
  BY <1>3, <1>4, <1>5
<1>7. ready' \in [listen : BOOLEAN, revents : [Fds -> SUBSET {"in", "out", "err"}],
                  conn : [Fds -> Clients \cup {NoConn}]]
  BY <1>3, <1>4, <1>5
<1>8. ServerTyped'
  BY <1>1, <1>7, TypesSplit DEF Inv, ServerTyped, tables
<1>9. Phases'
  BY <1>1, <1>6 DEF Inv, Phases, Pending, tables
<1>10. Modes'
  BY <1>1, <1>2, <1>6 DEF Inv, Phases, Modes, Pending, tables
<1> QED
  BY <1>2, <1>8, <1>9, <1>10, TypesSplit DEF Inv

-----------------------------------------------------------------------------
(* The idle list: a connection arrives, is active, goes away.              *)

IdleLinks == LinksOf(Clients \cup {IdleHead}, NoConn)

\* The idle list is in the order of age, and nothing in it is younger than now.
Sorted(s, age) == \A i, j \in 1..Len(s) : i < j => age[s[i]] <= age[s[j]]

LEMMA RemoveKeepsSorted ==
    ASSUME NEW S, NEW s \in Seq(S), IsInjective(s), NEW x \in Range(s),
           NEW age \in [S -> Nat], Sorted(s, age)
    PROVE  Sorted(RemoveFirst(s, x), age)
<1> DEFINE t == RemoveFirst(s, x)
<1>1. PICK p \in 1..Len(s) : IsWithout(t, s, p)
  BY RemoveFirstShape
<1>2. Len(s) \in Nat /\ Len(t) = Len(s) - 1
  BY <1>1 DEF IsWithout
<1> DEFINE k(i) == IF i < p THEN i ELSE i + 1
<1>3. \A i \in 1..Len(t) : k(i) \in 1..Len(s) /\ t[i] = s[k(i)]
  BY <1>1, <1>2 DEF IsWithout
<1>4. \A i, j \in 1..Len(t) : i < j => k(i) < k(j)
  BY <1>1, <1>2
<1> QED
  BY <1>3, <1>4 DEF Sorted

LEMMA AppendKeepsSorted ==
    ASSUME NEW S, NEW s \in Seq(S), NEW x \in S, NEW age \in [S -> Nat],
           Sorted(s, age), \A y \in Range(s) : age[y] <= age[x]
    PROVE  Sorted(Append(s, x), age)
<1> DEFINE t == Append(s, x)
<1>1. Len(s) \in Nat /\ Len(t) = Len(s) + 1
      /\ \A i \in 1..Len(t) : t[i] = IF i = Len(s) + 1 THEN x ELSE s[i]
  BY AppendProperties
<1>2. \A i \in 1..Len(s) : age[s[i]] <= age[x]
  BY DEF Range
<1> HIDE DEF t
<1>3. ASSUME NEW i \in 1..Len(t), NEW j \in 1..Len(t), i < j
      PROVE  age[t[i]] <= age[t[j]]
  <2>1. i \in 1..Len(s) /\ t[i] = s[i] /\ (j = Len(s) + 1 \/ j \in 1..Len(s))
    BY <1>1, <1>3
  <2> QED
    BY <1>1, <1>2, <1>3, <2>1 DEF Sorted
<1> QED
  BY <1>3 DEF Sorted, t

\* TablesAgree, with the ages as a function.
LEMMA TablesBySorted ==
    ASSUME idle_list \in Seq(Clients)
    PROVE  TablesAgree <=>
              /\ \A f \in Fds, c \in Clients : fd2conn[f] = c <=> conn[c].fd = f
              /\ IsInjective(idle_list) /\ Range(idle_list) = Live
              /\ Represents(idle, IdleHead, idle_list)
              /\ Sorted(idle_list, [c \in Clients |-> conn[c].last_active_ms])
<1> DEFINE age == [c \in Clients |-> conn[c].last_active_ms]
<1>1. \A i \in 1..Len(idle_list) : age[idle_list[i]] = conn[idle_list[i]].last_active_ms
  OBVIOUS
<1> HIDE DEF age
<1>2. Sorted(idle_list, age) <=>
        \A i, j \in 1..Len(idle_list) :
            i < j => conn[idle_list[i]].last_active_ms <= conn[idle_list[j]].last_active_ms
  BY <1>1 DEF Sorted
<1> QED
  BY <1>2 DEF TablesAgree, age

LEMMA TablesBySortedNext ==
    ASSUME idle_list' \in Seq(Clients)
    PROVE  TablesAgree' <=>
              /\ \A f \in Fds, c \in Clients : fd2conn'[f] = c <=> conn'[c].fd = f
              /\ IsInjective(idle_list') /\ Range(idle_list') = Live'
              /\ Represents(idle', IdleHead, idle_list')
              /\ Sorted(idle_list', [c \in Clients |-> conn'[c].last_active_ms])
<1> DEFINE age == [c \in Clients |-> conn'[c].last_active_ms]
<1>1. \A i \in 1..Len(idle_list') : age[idle_list'[i]] = conn'[idle_list'[i]].last_active_ms
  OBVIOUS
<1> HIDE DEF age
<1>2. Sorted(idle_list', age) <=>
        \A i, j \in 1..Len(idle_list') :
            i < j => conn'[idle_list'[i]].last_active_ms <= conn'[idle_list'[j]].last_active_ms
  BY <1>1 DEF Sorted
<1> QED
  BY <1>2 DEF TablesAgree, age

LEMMA RestartTables ==
    ASSUME Inv, NEW c \in Live, Restart(c), fd2conn' = fd2conn, now' = now,
           \A d \in Clients : conn'[d].fd = conn[d].fd,
           \A d \in Clients \ {c} : conn'[d].last_active_ms = conn[d].last_active_ms,
           conn'[c].last_active_ms = now
    PROVE  /\ TablesAgree' /\ Past' /\ Live' = Live
           /\ idle' \in IdleLinks /\ idle_list' \in Seq(Clients)
<1> DEFINE r == RemoveFirst(idle_list, c)
           l == dlist_detach(idle, c)
           old == [d \in Clients |-> conn[d].last_active_ms]
           new == [d \in Clients |-> conn'[d].last_active_ms]
<1>1. /\ idle_list \in Seq(Clients) /\ idle \in IdleLinks /\ c \in Clients /\ now \in Nat
      /\ old \in [Clients -> Nat]
  <2>1. now \in Nat /\ \A d \in Clients : conn[d].last_active_ms \in Nat
    BY LoopAssumption DEF Inv, TypeOK
  <2> QED
    BY <2>1 DEF Inv, TypeOK, IdleLinks, LinksOf, Nodes, Live
<1>2. /\ IsInjective(idle_list) /\ Range(idle_list) = Live
      /\ Represents(idle, IdleHead, idle_list) /\ Sorted(idle_list, old)
  BY <1>1, TablesBySorted DEF Inv
<1>3. /\ r \in Seq(Clients) /\ Range(r) = Live \ {c} /\ IsInjective(r)
      /\ Sorted(r, old)
  <2>1. c \in Range(idle_list)
    BY <1>2
  <2>2. r \in Seq(Clients) /\ Range(r) = Range(idle_list) \ {c} /\ IsInjective(r)
    BY <1>1, <1>2, <2>1, RemoveFirstShape
  <2> HIDE DEF old
  <2>3. Sorted(r, old)
    BY <1>1, <1>2, <2>1, RemoveKeepsSorted
  <2> QED
    BY <1>2, <2>2, <2>3
<1>4. l \in IdleLinks /\ Represents(l, IdleHead, r)
  BY <1>1, <1>2, DetachRemoves, LoopAssumption DEF IdleLinks
<1> HIDE DEF r, l
<1>5. idle' = dlist_insert_before(l, IdleHead, c) /\ idle_list' = Append(r, c)
  BY DEF Restart, r, l
<1>6. idle' \in IdleLinks /\ Represents(idle', IdleHead, idle_list')
  <2>1. c \notin Range(r)
    BY <1>3
  <2> QED
    BY <1>1, <1>3, <1>4, <1>5, <2>1, InsertAppends, LoopAssumption DEF IdleLinks
<1>7. IsInjective(idle_list') /\ Range(idle_list') = Live /\ idle_list' \in Seq(Clients)
  <2>1. LET t == Append(r, c) IN IsInjective(t) /\ Range(t) = Range(r) \cup {c}
    BY <1>1, <1>3, AppendOneMore
  <2>2. Append(r, c) \in Seq(Clients)
    BY <1>1, <1>3, AppendProperties
  <2> QED
    BY <1>3, <1>5, <2>1, <2>2
<1>8. Live' = Live
  BY DEF Live
<1>9. new \in [Clients -> Nat] /\ Past'
  <2>1. \A d \in Clients : conn'[d].last_active_ms \in Nat /\ conn'[d].last_active_ms <= now
    BY <1>1 DEF Inv, Past
  <2> QED
    BY <2>1 DEF Past
<1>10. Sorted(idle_list', new)
  <2>1. \A i \in 1..Len(r) : r[i] \in Range(r) /\ r[i] \in Clients /\ r[i] # c
    BY <1>3 DEF Range
  <2>2. Sorted(r, new)
    BY <1>3, <2>1 DEF Sorted
  <2>3. \A y \in Range(r) : new[y] <= new[c]
    BY <1>1, <1>3, <1>9 DEF Past, Live
  <2> HIDE DEF new
  <2> QED
    BY <1>1, <1>3, <1>5, <1>9, <2>2, <2>3, AppendKeepsSorted
<1>11. TablesAgree'
  BY <1>6, <1>7, <1>8, <1>10, TablesBySortedNext DEF Inv, TablesAgree
<1> QED
  BY <1>6, <1>7, <1>8, <1>9, <1>11

LEMMA NullConnTyped == NullConn \in ConnRecord /\ NullConn.fd = 0 /\ NullConn.last_active_ms = 0
                       /\ NullConn.incoming = <<>> /\ NullConn.outgoing = <<>>
                       /\ ~NullConn.want_close /\ ~NullConn.want_write /\ ~NullConn.want_read
<1>1. <<>> \in Seq(Nat)
  OBVIOUS
<1> QED
  BY <1>1 DEF NullConn, ConnRecord

LEMMA DestroyTables ==
    ASSUME Inv, NEW c \in Live, Destroy(c), now' = now
    PROVE  /\ TablesAgree' /\ Past' /\ Live' = Live \ {c}
           /\ idle' \in IdleLinks /\ idle_list' \in Seq(Clients)
           /\ conn' \in [Clients -> ConnRecord]
           /\ conn[c].fd \in Fds /\ fd2conn' = [fd2conn EXCEPT ![conn[c].fd] = NoConn]
           /\ \A d \in Clients : d # c => conn'[d] = conn[d]
           /\ conn'[c] = NullConn
<1> DEFINE r == RemoveFirst(idle_list, c)
           l == dlist_detach(idle, c)
           old == [d \in Clients |-> conn[d].last_active_ms]
           new == [d \in Clients |-> conn'[d].last_active_ms]
<1>1. /\ idle_list \in Seq(Clients) /\ idle \in IdleLinks /\ c \in Clients /\ now \in Nat
      /\ old \in [Clients -> Nat] /\ conn \in [Clients -> ConnRecord]
      /\ fd2conn \in [Fds -> Clients \cup {NoConn}]
      /\ conn[c].fd \in Fds
  <2>1. now \in Nat /\ \A d \in Clients : conn[d].last_active_ms \in Nat
    BY LoopAssumption DEF Inv, TypeOK
  <2>2. conn[c].fd \in Fds
    BY DEF Inv, TypeOK, Live
  <2> QED
    BY <2>1, <2>2 DEF Inv, TypeOK, IdleLinks, LinksOf, Nodes, Live, ConnRecord
<1>2. /\ IsInjective(idle_list) /\ Range(idle_list) = Live
      /\ Represents(idle, IdleHead, idle_list) /\ Sorted(idle_list, old)
      /\ \A f \in Fds, d \in Clients : fd2conn[f] = d <=> conn[d].fd = f
  BY <1>1, TablesBySorted DEF Inv
<1>3. /\ r \in Seq(Clients) /\ Range(r) = Live \ {c} /\ IsInjective(r)
      /\ Sorted(r, old)
  <2>1. c \in Range(idle_list)
    BY <1>2
  <2>2. r \in Seq(Clients) /\ Range(r) = Range(idle_list) \ {c} /\ IsInjective(r)
    BY <1>1, <1>2, <2>1, RemoveFirstShape
  <2> HIDE DEF old
  <2>3. Sorted(r, old)
    BY <1>1, <1>2, <2>1, RemoveKeepsSorted
  <2> QED
    BY <1>2, <2>2, <2>3
<1>4. l \in IdleLinks /\ Represents(l, IdleHead, r)
  BY <1>1, <1>2, DetachRemoves, LoopAssumption DEF IdleLinks
<1>5. conn' = [conn EXCEPT ![c] = NullConn] /\ fd2conn' = [fd2conn EXCEPT ![conn[c].fd] = NoConn]
      /\ idle_list' = r
      /\ idle' = [prev |-> [l.prev EXCEPT ![c] = NoConn], next |-> [l.next EXCEPT ![c] = NoConn]]
  BY DEF Destroy
<1>6. /\ conn' \in [Clients -> ConnRecord] /\ conn'[c] = NullConn
      /\ \A d \in Clients : d # c => conn'[d] = conn[d]
  BY <1>1, <1>5, NullConnTyped
<1> HIDE DEF r, l
<1>7. idle' \in IdleLinks /\ Represents(idle', IdleHead, idle_list')
  <2>1. c \notin Range(r)
    BY <1>3
  <2> DEFINE m == [prev |-> [l.prev EXCEPT ![c] = NoConn], next |-> [l.next EXCEPT ![c] = NoConn]]
  <2>2. m \in IdleLinks /\ Represents(m, IdleHead, r)
    BY <1>1, <1>3, <1>4, <2>1, OthersDoNotMatter, LoopAssumption DEF IdleLinks
  <2> HIDE DEF m
  <2>3. idle' = m /\ idle_list' = r
    BY <1>5 DEF m
  <2> QED
    BY <2>2, <2>3
<1>8. Live' = Live \ {c}
  BY <1>6, NullConnTyped DEF Live
<1>9. Past'
  BY <1>1, <1>6, NullConnTyped DEF Inv, Past
<1>10. Sorted(idle_list', new)
  <2>1. \A i \in 1..Len(r) : r[i] \in Range(r) /\ r[i] \in Clients /\ r[i] # c
    BY <1>3 DEF Range
  <2>2. \A i \in 1..Len(r) : new[r[i]] = old[r[i]]
    BY <1>6, <2>1
  <2> HIDE DEF old, new
  <2> QED
    BY <1>3, <1>5, <2>2 DEF Sorted
<1>11. \A f \in Fds, d \in Clients : fd2conn'[f] = d <=> conn'[d].fd = f
  <2> TAKE f \in Fds, d \in Clients
  <2>1. NoConn # d /\ 0 \notin Fds
    BY LoopAssumption DEF Fds
  <2>2. CASE d = c
    <3>1. conn'[d].fd = 0 /\ (f # conn[c].fd => fd2conn[f] # c)
      BY <1>2, <1>6, <2>2, NullConnTyped
    <3> QED
      BY <1>1, <1>5, <2>1, <2>2, <3>1
  <2>3. CASE d # c
    <3>1. conn'[d] = conn[d]
      BY <1>6, <2>3
    <3>2. f = conn[c].fd => fd2conn[f] # d
      BY <1>1, <1>2, <2>3
    <3>3. fd2conn'[f] = IF f = conn[c].fd THEN NoConn ELSE fd2conn[f]
      BY <1>1, <1>5
    <3> QED
      BY <1>2, <2>1, <3>1, <3>2, <3>3
  <2> QED
    BY <2>2, <2>3
<1>12. TablesAgree'
  BY <1>3, <1>5, <1>7, <1>8, <1>10, <1>11, TablesBySortedNext
<1> QED
  BY <1>1, <1>3, <1>5, <1>6, <1>7, <1>8, <1>9, <1>12

LEMMA AcceptStep == ASSUME Inv, Accept PROVE Inv'
<1>0. backlog \in Seq(Clients) /\ backlog # <<>>
  BY DEF Accept, Inv, TypeOK
<1> PICK c \in Clients : c = Head(backlog)
  BY <1>0
<1>1. PICK f \in FreeFds :
            /\ fd2conn' = [fd2conn EXCEPT ![f] = c]
            /\ conn' = [conn EXCEPT ![c] = [NullConn EXCEPT
                           !.fd = f, !.want_read = TRUE, !.last_active_ms = now]]
            /\ idle' = dlist_insert_before(idle, IdleHead, c)
            /\ idle_list' = Append(idle_list, c)
  BY DEF Accept
<1> DEFINE n == [NullConn EXCEPT !.fd = f, !.want_read = TRUE, !.last_active_ms = now]
           new == [d \in Clients |-> conn'[d].last_active_ms]
<1>2. /\ idle_list \in Seq(Clients) /\ idle \in IdleLinks /\ now \in Nat
      /\ conn \in [Clients -> ConnRecord] /\ fd2conn \in [Fds -> Clients \cup {NoConn}]
      /\ backlog \in Seq(Clients) /\ backlog # <<>> /\ f \in Fds /\ fd2conn[f] = NoConn
  <2>1. now \in Nat
    BY LoopAssumption DEF Inv, TypeOK
  <2> QED
    BY <2>1 DEF Inv, TypeOK, IdleLinks, LinksOf, Nodes, ConnRecord, Accept, FreeFds
<1>3. /\ c \in Clients /\ c \in Range(backlog) /\ Tail(backlog) \in Seq(Clients)
      /\ IsInjective(Tail(backlog)) /\ Range(Tail(backlog)) \subseteq Range(backlog) \ {c}
  <2> DEFINE t == Tail(backlog)
  <2>1. /\ c = backlog[1] /\ 1 \in 1..Len(backlog) /\ t \in Seq(Clients)
        /\ Len(t) = Len(backlog) - 1 /\ \A i \in 1..Len(t) : t[i] = backlog[i + 1]
        /\ DOMAIN t = 1..Len(t) /\ DOMAIN backlog = 1..Len(backlog) /\ Len(backlog) \in Nat
    BY <1>2
  <2>2. IsInjective(backlog)
    BY DEF Inv, Fresh
  <2> HIDE DEF t
  <2>3. \A i \in 1..Len(t) : i + 1 \in DOMAIN backlog /\ i + 1 # 1
    BY <2>1
  <2>5. \A i, j \in DOMAIN backlog : backlog[i] = backlog[j] => i = j
    BY <2>2 DEF IsInjective
  <2>6. IsInjective(t)
    <3>1. ASSUME NEW i \in 1..Len(t), NEW j \in 1..Len(t), t[i] = t[j]
          PROVE  i = j
      <4>1. i + 1 = j + 1
        BY <2>1, <2>3, <2>5, <3>1
      <4> QED
        BY <4>1
    <3> QED
      BY <2>1, <3>1 DEF IsInjective
  <2>4. \A i \in 1..Len(t) : t[i] \in Range(backlog) /\ t[i] # c
    BY <2>1, <2>3, <2>5 DEF Range
  <2> QED
    BY <1>2, <2>1, <2>6, <2>4 DEF Range, t
<1>4. c \notin Live /\ client[c] # "new" /\ conn[c].fd = 0
  BY <1>2, <1>3 DEF Inv, Fresh, Live
<1>5. n \in ConnRecord /\ n.fd = f /\ n.last_active_ms = now /\ n.want_read
      /\ n.incoming = <<>> /\ n.outgoing = <<>> /\ ~n.want_close /\ ~n.want_write
  BY <1>2, NullConnTyped DEF ConnRecord, Fds
<1> HIDE DEF n
<1>6. /\ fd2conn' = [fd2conn EXCEPT ![f] = c] /\ conn' = [conn EXCEPT ![c] = n]
      /\ idle' = dlist_insert_before(idle, IdleHead, c) /\ idle_list' = Append(idle_list, c)
  BY <1>1 DEF n
<1>7. /\ backlog' = Tail(backlog) /\ pc = "accept" /\ pc' = NextPhase(ready.revents)
      /\ ready' = [ready EXCEPT !.listen = FALSE]
      /\ UNCHANGED <<client, script, nsent, got, sock, now, db, done, wake, cur>>
  BY DEF Accept
<1>8. /\ conn' \in [Clients -> ConnRecord] /\ conn'[c] = n
      /\ \A d \in Clients : d # c => conn'[d] = conn[d]
  BY <1>2, <1>3, <1>5, <1>6
<1>9. /\ IsInjective(idle_list) /\ Range(idle_list) = Live
      /\ Represents(idle, IdleHead, idle_list)
      /\ Sorted(idle_list, [d \in Clients |-> conn[d].last_active_ms])
      /\ \A g \in Fds, d \in Clients : fd2conn[g] = d <=> conn[d].fd = g
  BY <1>2, TablesBySorted DEF Inv
<1>10. idle' \in IdleLinks /\ Represents(idle', IdleHead, idle_list')
  BY <1>2, <1>3, <1>4, <1>6, <1>9, InsertAppends, LoopAssumption DEF IdleLinks
<1>11. Live' = Live \cup {c}
  BY <1>2, <1>3, <1>5, <1>8 DEF Live, Fds
<1>12. IsInjective(idle_list') /\ Range(idle_list') = Live' /\ idle_list' \in Seq(Clients)
  <2>1. LET t == Append(idle_list, c) IN IsInjective(t) /\ Range(t) = Range(idle_list) \cup {c}
    BY <1>2, <1>3, <1>4, <1>9, AppendOneMore
  <2>2. Append(idle_list, c) \in Seq(Clients)
    BY <1>2, <1>3, AppendProperties
  <2> QED
    BY <1>6, <1>9, <1>11, <2>1, <2>2
<1>13. Past' /\ new \in [Clients -> Nat]
  <2>1. \A d \in Clients : conn[d].last_active_ms \in Nat /\ conn[d].last_active_ms <= now
    BY <1>2 DEF Inv, Past, ConnRecord
  <2> QED
    BY <1>2, <1>5, <1>7, <1>8, <2>1 DEF Past
<1>14. Sorted(idle_list', new)
  <2>1. \A i \in 1..Len(idle_list) : idle_list[i] \in Clients /\ idle_list[i] # c
    BY <1>2, <1>4, <1>9 DEF Range
  <2>2. Sorted(idle_list, new)
    BY <1>2, <1>8, <1>9, <2>1 DEF Sorted
  <2>3. \A y \in Range(idle_list) : new[y] <= new[c]
    BY <1>2, <1>3, <1>5, <1>7, <1>8, <1>9, <1>13 DEF Past, Live
  <2> HIDE DEF new
  <2> QED
    BY <1>2, <1>3, <1>6, <1>13, <2>2, <2>3, AppendKeepsSorted
<1>15. \A g \in Fds, d \in Clients : fd2conn'[g] = d <=> conn'[d].fd = g
  <2> TAKE g \in Fds, d \in Clients
  <2>1. NoConn # d /\ 0 \notin Fds
    BY LoopAssumption DEF Fds
  <2>2. CASE d = c
    BY <1>2, <1>4, <1>5, <1>6, <1>8, <1>9, <2>1, <2>2
  <2>3. CASE d # c
    BY <1>2, <1>6, <1>8, <1>9, <2>1, <2>3
  <2> QED
    BY <2>2, <2>3
<1>16. TablesAgree'
  BY <1>10, <1>12, <1>14, <1>15, TablesBySortedNext
<1>17. /\ ready.revents = ready'.revents /\ ready.conn = ready'.conn
       /\ ready' \in [listen : BOOLEAN, revents : [Fds -> SUBSET {"in", "out", "err"}],
                      conn : [Fds -> Clients \cup {NoConn}]]
  BY <1>7, TypesSplit DEF Inv, ServerTyped
<1>18. WorldTyped'
  BY <1>3, <1>7, TypesSplit DEF Inv, WorldTyped
<1>19. ServerTyped'
  <2>1. fd2conn' \in [Fds -> Clients \cup {NoConn}]
    BY <1>2, <1>3, <1>6
  <2> QED
    BY <1>7, <1>8, <1>10, <1>12, <1>17, <2>1, TypesSplit
    DEF Inv, ServerTyped, Pending, NextPhase, IdleLinks, LinksOf, Nodes
<1>20. InRange'
  <2>1. <<>> \in Seq(Units(c))
    OBVIOUS
  <2> QED
    BY <1>2, <1>5, <1>7, <1>8, <2>1 DEF Inv, InRange, Units
<1>21. Fresh'
  BY <1>3, <1>4, <1>7, <1>11 DEF Inv, Fresh
<1>22. cur = 0 /\ \A g \in Pending(ready.revents) : g # f
  <2>1. \A g \in Pending(ready.revents) : fd2conn[g] \in Clients
    BY DEF Inv, Phases
  <2> QED
    BY <1>2, <1>7, <2>1, LoopAssumption DEF Inv, Phases
<1>23. Phases'
  BY <1>2, <1>6, <1>7, <1>17, <1>22 DEF Inv, Phases, Pending, NextPhase
<1>24. Settled(c)'
  <2>1. Len(<<>>) = 0 /\ conn'[c].incoming = <<>> /\ conn'[c].outgoing = <<>>
        /\ ~conn'[c].want_close /\ ~conn'[c].want_write /\ conn'[c].want_read
    BY <1>5, <1>8
  <2> QED
    BY <2>1 DEF Settled, Executable, Rejects
<1>25. \A d \in Live : Settled(d)'
  <2> TAKE d \in Live
  <2>1. d # c /\ Settled(d) /\ conn'[d] = conn[d]
    BY <1>4, <1>8, <1>22 DEF Inv, Modes, Live
  <2> QED
    BY <1>7, <2>1 DEF Settled, Executable, Rejects, Command
<1>26. Modes'
  <2>1. \A g \in Pending(ready.revents) : fd2conn'[g] = fd2conn[g] /\ conn'[fd2conn[g]] = conn[fd2conn[g]]
    <3> TAKE g \in Pending(ready.revents)
    <3>1. g \in Fds /\ fd2conn[g] \in Clients /\ conn[fd2conn[g]].fd = g
      BY <1>9 DEF Pending, Inv, Phases
    <3>2. fd2conn[g] # c
      BY <1>4, <3>1 DEF Fds
    <3> QED
      BY <1>2, <1>6, <1>8, <1>22, <3>1, <3>2
  <2> QED
    <3>1. \A d \in Live' : Settled(d)'
      BY <1>11, <1>24, <1>25
    <3>2. cur' = 0 /\ Pending(ready'.revents) = Pending(ready.revents)
      BY <1>7, <1>17, <1>22
    <3>3. \A g \in Pending(ready.revents) :
            /\ "in" \in ready.revents[g] => conn'[fd2conn'[g]].want_read
            /\ "out" \in ready.revents[g] => conn'[fd2conn'[g]].want_write
      <4> TAKE g \in Pending(ready.revents)
      <4>1. g # cur
        BY <1>22 DEF Pending, Fds
      <4> QED
        BY <2>1, <4>1 DEF Inv, Modes
    <3> QED
      BY <1>17, <3>1, <3>2, <3>3 DEF Modes
<1> QED
  BY <1>13, <1>16, <1>18, <1>19, <1>20, <1>21, <1>23, <1>26, TypesSplit DEF Inv

-----------------------------------------------------------------------------
(* A connection is served.                                                 *)

LEMMA PendingConn ==
    ASSUME Inv, NEW f \in Pending(ready.revents)
    PROVE  f \in Fds /\ fd2conn[f] \in Live /\ conn[fd2conn[f]].fd = f
<1>1. f \in Fds /\ fd2conn[f] \in Clients /\ f # 0
  BY DEF Inv, Phases, Pending, Fds
<1>2. conn[fd2conn[f]].fd = f
  BY <1>1 DEF Inv, TablesAgree
<1> QED
  BY <1>1, <1>2 DEF Live

LEMMA ServeTables ==
    ASSUME Inv, NEW f, Serve(f), NEW c \in Clients, c = fd2conn[f],
           conn' \in [Clients -> ConnRecord], \A d \in Clients : d # c => conn'[d] = conn[d],
           conn'[c].fd = conn[c].fd, conn'[c].last_active_ms = now,
           conn'[c].incoming \in Seq(Units(c)),
           sock' \in [Clients -> SockRecord], \A d \in Clients : sock'[d].rx \in Seq(Units(d)) /\ Len(sock'[d].tx) <= SndBuf,
           pc' \in {"parse", "write", "close"}, ServedMode(c)'
    PROVE  Inv'
<1>1. /\ f \in Pending(ready.revents) /\ pc = "serve" /\ cur' = f
      /\ UNCHANGED <<client, script, nsent, got, backlog, now, fd2conn, db, done, wake, ready>>
      /\ Restart(c)
  BY DEF Serve, kernel
<1>2. f \in Fds /\ c \in Live /\ conn[c].fd = f /\ cur = 0 /\ f # 0
  BY <1>1, PendingConn DEF Inv, Phases, Fds
<1>4. \A d \in Clients : conn'[d].fd = conn[d].fd
  OBVIOUS
<1>5. /\ TablesAgree' /\ Past' /\ Live' = Live
      /\ idle' \in IdleLinks /\ idle_list' \in Seq(Clients)
  BY <1>1, <1>2, <1>4, RestartTables
<1>6. WorldTyped'
  BY <1>1, TypesSplit DEF Inv, WorldTyped
<1>7. ServerTyped'
  BY <1>1, <1>2, <1>4, <1>5, TypesSplit DEF Inv, ServerTyped, IdleLinks, LinksOf, Nodes, Pending
<1>8. InRange'
  BY <1>1, <1>4 DEF Inv, InRange, Units
<1>9. Fresh'
  BY <1>1, <1>5 DEF Inv, Fresh
<1>10. Phases'
  BY <1>1, <1>2 DEF Inv, Phases, Pending
<1>11. Modes'
  <2>1. \A d \in Live : d # c => Settled(d)'
    <3> TAKE d \in Live
    <3> HAVE d # c
    <3>1. Settled(d) /\ conn'[d] = conn[d] /\ script' = script
      BY <1>1, <1>2, <1>4 DEF Inv, Modes, Live
    <3> QED
      BY <3>1 DEF Settled, Executable, Rejects, Command
  <2>2. ASSUME NEW g \in Pending(ready.revents), g # f
        PROVE  /\ "in" \in ready.revents[g] => conn'[fd2conn[g]].want_read
               /\ "out" \in ready.revents[g] => conn'[fd2conn[g]].want_write
    <3>1. fd2conn[g] \in Clients /\ fd2conn[g] # c /\ g # cur
      BY <1>2, <2>2, PendingConn DEF Live, Fds
    <3> QED
      BY <1>4, <3>1 DEF Inv, Modes
  <2>3. \A d \in Live' : conn'[d].fd # cur' => d # c
    BY <1>1, <1>2, <1>4
  <2>4. Current' = c /\ ready' = ready /\ cur' = f /\ fd2conn' = fd2conn
    BY <1>1 DEF Current
  <2> QED
    BY <1>5, <2>1, <2>2, <2>3, <2>4 DEF Modes, Pending
<1> QED
  BY <1>5, <1>6, <1>7, <1>8, <1>9, <1>10, <1>11, TypesSplit DEF Inv

\* What is known of a connection when its turn comes.
LEMMA ServeFacts ==
    ASSUME Inv, NEW f, Serve(f)
    PROVE  /\ fd2conn[f] \in Live /\ Settled(fd2conn[f])
           /\ "in" \in ready.revents[f] => conn[fd2conn[f]].want_read
           /\ "out" \in ready.revents[f] => conn[fd2conn[f]].want_write
           /\ conn \in [Clients -> ConnRecord] /\ sock \in [Clients -> SockRecord]
           /\ now \in Nat
<1>1. f \in Pending(ready.revents) /\ pc = "serve"
  BY DEF Serve
<1>2. f \in Fds /\ fd2conn[f] \in Live /\ conn[fd2conn[f]].fd = f /\ cur = 0 /\ f # cur
  BY <1>1, PendingConn DEF Inv, Phases, Fds
<1>3. conn \in [Clients -> ConnRecord] /\ sock \in [Clients -> SockRecord] /\ now \in Nat
  BY TypesSplit, LoopAssumption DEF Inv, ServerTyped, WorldTyped
<1> QED
  BY <1>1, <1>2, <1>3 DEF Inv, Modes

LEMMA ServeWriteStep == ASSUME Inv, NEW f, ServeWrite(f) PROVE Inv'
<1>1. Serve(f) /\ UNCHANGED sock /\ pc' = (IF "out" \in ready.revents[f] THEN "write" ELSE "close")
      /\ conn' = [conn EXCEPT ![fd2conn[f]] = [@ EXCEPT !.last_active_ms = now]]
  BY DEF ServeWrite
<1> PICK c \in Clients : c = fd2conn[f]
  BY <1>1, ServeFacts DEF Live
<1>2. /\ Settled(c)
      /\ "out" \in ready.revents[f] => conn[c].want_write
      /\ conn \in [Clients -> ConnRecord] /\ sock \in [Clients -> SockRecord] /\ now \in Nat
  BY <1>1, ServeFacts
<1>3. /\ conn' \in [Clients -> ConnRecord] /\ \A d \in Clients : d # c => conn'[d] = conn[d]
      /\ conn'[c].fd = conn[c].fd /\ conn'[c].last_active_ms = now
      /\ conn'[c].incoming = conn[c].incoming /\ conn'[c].outgoing = conn[c].outgoing
      /\ conn'[c].want_read = conn[c].want_read /\ conn'[c].want_write = conn[c].want_write
      /\ conn'[c].want_close = conn[c].want_close
  BY <1>1, <1>2 DEF ConnRecord
<1>4. script' = script
  BY <1>1 DEF Serve, kernel
<1>5. ServedMode(c)'
  <2>1. Settled(c)'
    BY <1>2, <1>3, <1>4 DEF Settled, Executable, Rejects, Command
  <2>2. pc' = "write" => conn[c].want_write
    BY <1>1, <1>2
  <2> QED
    BY <1>1, <1>3, <2>1, <2>2 DEF ServedMode, Settled
<1>6. pc' \in {"parse", "write", "close"} /\ conn'[c].incoming \in Seq(Units(c))
      /\ sock' \in [Clients -> SockRecord] /\ \A d \in Clients : sock'[d].rx \in Seq(Units(d)) /\ Len(sock'[d].tx) <= SndBuf
  BY <1>1, <1>2, <1>3 DEF Inv, InRange
<1> QED
  BY <1>1, <1>3, <1>5, <1>6, ServeTables

LEMMA ServeReadStep == ASSUME Inv, NEW f, ServeRead(f) PROVE Inv'
<1>1. Serve(f) /\ "in" \in ready.revents[f]
  BY DEF ServeRead
<1> PICK c \in Clients : c = fd2conn[f]
  BY <1>1, ServeFacts DEF Live
<1>2. /\ Settled(c) /\ conn[c].want_read
      /\ conn \in [Clients -> ConnRecord] /\ sock \in [Clients -> SockRecord] /\ now \in Nat
      /\ sock[c].rx \in Seq(Units(c)) /\ conn[c].incoming \in Seq(Units(c))
      /\ \A d \in Clients : sock[d].rx \in Seq(Units(d)) /\ Len(sock[d].tx) <= SndBuf
  BY <1>1, ServeFacts DEF Inv, InRange
<1>3. /\ conn[c].want_read /\ ~conn[c].want_write /\ ~conn[c].want_close
      /\ conn[c].outgoing = <<>> /\ conn[c] \in ConnRecord
      /\ sock[c] \in SockRecord /\ script' = script
  BY <1>1, <1>2 DEF Settled, ConnRecord, Serve, kernel
<1>4. CASE ReadNothing(c)
  <2>1. /\ conn' \in [Clients -> ConnRecord] /\ \A d \in Clients : d # c => conn'[d] = conn[d]
        /\ conn'[c].fd = conn[c].fd /\ conn'[c].last_active_ms = now
        /\ conn'[c].incoming = conn[c].incoming /\ conn'[c].outgoing = conn[c].outgoing
        /\ conn'[c].want_read = conn[c].want_read /\ conn'[c].want_write = conn[c].want_write
        /\ conn'[c].want_close \in BOOLEAN
    <3> DEFINE closes == conn[c].want_close \/ sock[c].fin \/ sock[c].err # "none"
               r == [conn[c] EXCEPT !.last_active_ms = now, !.want_close = closes]
    <3>1. conn' = [conn EXCEPT ![c] = r]
      BY <1>4 DEF ReadNothing
    <3> HIDE DEF closes
    <3>2. closes \in BOOLEAN
      BY DEF closes
    <3>3. /\ r \in ConnRecord /\ r.fd = conn[c].fd /\ r.last_active_ms = now
          /\ r.incoming = conn[c].incoming /\ r.outgoing = conn[c].outgoing
          /\ r.want_read = conn[c].want_read /\ r.want_write = conn[c].want_write
          /\ r.want_close \in BOOLEAN
      BY <1>2, <1>3, <3>2 DEF ConnRecord
    <3> HIDE DEF r
    <3>4. conn'[c] = r /\ conn' \in [Clients -> ConnRecord]
          /\ \A d \in Clients : d # c => conn'[d] = conn[d]
      BY <1>2, <3>1, <3>3
    <3> QED
      BY <3>3, <3>4
  <2>2. pc' = "close" /\ sock' = sock
    BY <1>4 DEF ReadNothing
  <2>3. conn'[c].want_close \/ Settled(c)'
    BY <1>2, <1>3, <2>1 DEF Settled, Executable, Rejects, Command
  <2>4. ServedMode(c)'
    BY <2>2, <2>3 DEF ServedMode
  <2> QED
    BY <1>1, <1>2, <2>1, <2>2, <2>4, ServeTables
<1>5. CASE ReadData(c)
  <2> DEFINE n == Min2(ReadMax, Len(sock[c].rx))
             i == conn[c].incoming \o SubSeq(sock[c].rx, 1, n)
             x == SubSeq(sock[c].rx, n + 1, Len(sock[c].rx))
  <2>1. n \in 0..Len(sock[c].rx) /\ Len(sock[c].rx) \in Nat
    BY <1>2, LoopAssumption DEF Min2
  <2> HIDE DEF n
  <2>2. i \in Seq(Units(c)) /\ x \in Seq(Units(c))
    BY <1>2, <2>1, SubSeqProperties
  <2>3. i \in Seq(Nat) /\ x \in Seq(Nat)
    BY <2>2 DEF Units
  <2>4. conn' = [conn EXCEPT ![c] = [@ EXCEPT !.last_active_ms = now, !.incoming = i]]
        /\ pc' = "parse" /\ sock' = [sock EXCEPT ![c].rx = x]
    BY <1>5 DEF ReadData, n
  <2> HIDE DEF i, x
  <2>5. /\ conn' \in [Clients -> ConnRecord] /\ \A d \in Clients : d # c => conn'[d] = conn[d]
        /\ conn'[c].fd = conn[c].fd /\ conn'[c].last_active_ms = now
        /\ conn'[c].incoming = i /\ conn'[c].want_read
        /\ ~conn'[c].want_write /\ ~conn'[c].want_close
    BY <1>2, <1>3, <2>3, <2>4 DEF ConnRecord
  <2>6. sock' \in [Clients -> SockRecord] /\ \A d \in Clients : sock'[d].rx \in Seq(Units(d)) /\ Len(sock'[d].tx) <= SndBuf
    <3>1. sock'[c].rx = x /\ sock'[c].tx = sock[c].tx /\ sock'[c] \in SockRecord
      BY <1>2, <1>3, <2>3, <2>4 DEF SockRecord
    <3>2. \A d \in Clients : d # c => sock'[d] = sock[d]
      BY <1>2, <2>4
    <3> QED
      BY <1>2, <2>2, <2>4, <3>1, <3>2
  <2>7. ServedMode(c)'
    BY <2>4, <2>5 DEF ServedMode
  <2> QED
    BY <1>1, <2>2, <2>4, <2>5, <2>6, <2>7, ServeTables
<1> QED
  BY <1>4, <1>5 DEF ServeRead

\* A step of the connection that is being served.
LEMMA ConnStep ==
    ASSUME Inv, pc \in {"parse", "write", "close"}, NEW c \in Clients, c = Current,
           UNCHANGED <<kernel, now, fd2conn, idle, idle_list, wake, ready, cur>>,
           conn' \in [Clients -> ConnRecord], \A d \in Clients : d # c => conn'[d] = conn[d],
           conn'[c].fd = conn[c].fd, conn'[c].last_active_ms = conn[c].last_active_ms,
           conn'[c].incoming \in Seq(Units(c)),
           sock' \in [Clients -> SockRecord],
           \A d \in Clients : sock'[d].rx = sock[d].rx /\ Len(sock'[d].tx) <= SndBuf,
           DOMAIN db' \subseteq Keys, \A k \in DOMAIN db' : db'[k] \in Nat \cup {NoTTL},
           done' \in [Clients -> Nat],
           pc' \in {"parse", "write", "close", "dead"}, ServedMode(c)'
    PROVE  Inv'
<1>1. /\ cur \in Pending(ready.revents) /\ cur # 0 /\ c \in Live /\ conn[c].fd = cur
  <2>1. cur \in Pending(ready.revents) /\ cur # 0
    BY DEF Inv, TypeOK, Phases
  <2> QED
    BY <2>1, PendingConn DEF Current
<1>2. \A d \in Clients : conn'[d].fd = conn[d].fd /\ conn'[d].last_active_ms = conn[d].last_active_ms
  OBVIOUS
<1>3. Live' = Live
  BY <1>2 DEF Live
<1>4. TablesAgree'
  <2>1. idle_list \in Seq(Clients)
    BY DEF Inv, TypeOK
  <2>2. \A i \in 1..Len(idle_list) :
            conn'[idle_list[i]].last_active_ms = conn[idle_list[i]].last_active_ms
    BY <1>2, <2>1
  <2>6. \A i, j \in 1..Len(idle_list) :
            i < j => conn[idle_list[i]].last_active_ms <= conn[idle_list[j]].last_active_ms
    BY DEF Inv, TablesAgree
  <2>7. idle_list' = idle_list
    OBVIOUS
  <2>3. \A i, j \in 1..Len(idle_list') :
            i < j => conn'[idle_list'[i]].last_active_ms <= conn'[idle_list'[j]].last_active_ms
    BY <2>2, <2>6, <2>7
  <2>4. \A f \in Fds, d \in Clients : fd2conn'[f] = d <=> conn'[d].fd = f
    BY <1>2 DEF Inv, TablesAgree
  <2>5. Represents(idle', IdleHead, idle_list')
    BY DEF Inv, TablesAgree
  <2> QED
    BY <1>3, <2>3, <2>4, <2>5 DEF Inv, TablesAgree
<1>5. Past'
  BY <1>2 DEF Inv, Past
<1>6. WorldTyped' /\ ServerTyped'
  BY TypesSplit DEF Inv, WorldTyped, ServerTyped, kernel, Pending
<1>7. InRange'
  BY DEF Inv, InRange, Units, kernel
<1>8. Fresh'
  BY <1>3 DEF Inv, Fresh, kernel
<1>9. Phases'
  BY <1>1 DEF Inv, Phases, Pending
<1>10. Modes'
  <2>1. \A d \in Live : d # c => Settled(d)'
    <3> TAKE d \in Live
    <3> HAVE d # c
    <3>1. conn[d].fd # cur
      BY <1>1 DEF Inv, TablesAgree, Live, Current, Pending
    <3>2. Settled(d) /\ conn'[d] = conn[d] /\ script' = script
      BY <3>1 DEF Inv, Modes, Live, kernel
    <3> QED
      BY <3>2 DEF Settled, Executable, Rejects, Command
  <2>2. ASSUME NEW g \in Pending(ready.revents), g # cur
        PROVE  /\ "in" \in ready.revents[g] => conn'[fd2conn[g]].want_read
               /\ "out" \in ready.revents[g] => conn'[fd2conn[g]].want_write
    <3>1. fd2conn[g] \in Clients /\ fd2conn[g] # c
      BY <1>1, <2>2, PendingConn DEF Live
    <3> QED
      BY <2>2, <3>1 DEF Inv, Modes
  <2>3. \A d \in Live' : conn'[d].fd # cur' => d # c
    BY <1>1
  <2>4. Current' = c /\ ready' = ready /\ cur' = cur /\ fd2conn' = fd2conn
    BY DEF Current
  <2> QED
    BY <1>3, <2>1, <2>2, <2>3, <2>4 DEF Modes, Pending
<1> QED
  BY <1>4, <1>5, <1>6, <1>7, <1>8, <1>9, <1>10, TypesSplit DEF Inv

LEMMA CurrentFacts ==
    ASSUME Inv, pc \in {"parse", "write", "close"}
    PROVE  /\ cur \in Pending(ready.revents) /\ cur # 0
           /\ Current \in Live /\ conn[Current].fd = cur /\ ServedMode(Current)
           /\ conn \in [Clients -> ConnRecord] /\ sock \in [Clients -> SockRecord]
           /\ conn[Current].incoming \in Seq(Units(Current))
           /\ conn[Current].outgoing \in Seq(Nat)
           /\ script[Current] \in Seq(Commands)
           /\ \A d \in Clients : Len(sock[d].tx) <= SndBuf
<1>1. cur \in Pending(ready.revents) /\ cur # 0
  BY DEF Inv, TypeOK, Phases
<1>2. Current \in Live /\ conn[Current].fd = cur
  BY <1>1, PendingConn DEF Current
<1>3. conn \in [Clients -> ConnRecord] /\ sock \in [Clients -> SockRecord]
      /\ script \in [Clients -> Scripts]
  BY TypesSplit DEF Inv, ServerTyped, WorldTyped
<1>4. conn[Current].outgoing \in Seq(Nat) /\ script[Current] \in Seq(Commands)
  BY <1>2, <1>3, LoopAssumption DEF ConnRecord, Live
<1> QED
  BY <1>1, <1>2, <1>3, <1>4 DEF Inv, Modes, InRange, Live

LEMMA ExecTyped ==
    ASSUME NEW keys, NEW cmd \in Commands, cmd.op \notin {"bad", "long"}, now \in Nat,
           DOMAIN keys \subseteq Keys, \A k \in DOMAIN keys : keys[k] \in Nat \cup {NoTTL}
    PROVE  /\ DOMAIN Exec(keys, cmd) \subseteq Keys
           /\ \A k \in DOMAIN Exec(keys, cmd) : Exec(keys, cmd)[k] \in Nat \cup {NoTTL}
           /\ DOMAIN Exec(keys, cmd) \subseteq DOMAIN keys \cup {cmd.key}
<1>1. cmd.op \in {"set", "del", "pexpire", "persist"} /\ cmd.key \in Keys /\ cmd.ms \in Nat
  BY DEF Commands
<1>2. now + cmd.ms \in Nat
  BY <1>1
<1>3. CASE cmd.op = "set"
  BY <1>1, <1>3 DEF Exec
<1>4. CASE cmd.op = "del"
  BY <1>1, <1>4 DEF Exec
<1>5. CASE cmd.op = "pexpire"
  BY <1>1, <1>2, <1>5 DEF Exec
<1>6. CASE cmd.op = "persist"
  BY <1>1, <1>6 DEF Exec
<1> QED
  BY <1>1, <1>3, <1>4, <1>5, <1>6

\* The command of a unit that has been received.
LEMMA CommandTyped ==
    ASSUME NEW c, script[c] \in Seq(Commands), NEW u \in Units(c)
    PROVE  /\ Request(u) \in 1..Len(script[c]) /\ Request(u) \in Nat
           /\ Command(c, u) \in Commands
<1>1. Len(script[c]) \in Nat /\ u \in 1..(2 * Len(script[c]))
  BY DEF Units
<1>2. Request(u) \in 1..Len(script[c])
  BY <1>1 DEF Request
<1> QED
  BY <1>1, <1>2 DEF Command

LEMMA TryOneRequestStep == ASSUME Inv, TryOneRequest PROVE Inv'
<1>1. pc = "parse" /\ Executable(Current, conn[Current].incoming) /\ pc' = "parse"
      /\ UNCHANGED <<kernel, sock, now, fd2conn, idle, idle_list, wake, ready, cur>>
  BY DEF TryOneRequest, ParseNext
<1> PICK c \in Clients : c = Current
  BY <1>1, CurrentFacts DEF Live
<1>2. /\ conn \in [Clients -> ConnRecord] /\ sock \in [Clients -> SockRecord]
      /\ conn[c].incoming \in Seq(Units(c)) /\ conn[c].outgoing \in Seq(Nat)
      /\ script[c] \in Seq(Commands) /\ ServedMode(c)
      /\ \A d \in Clients : Len(sock[d].tx) <= SndBuf
  BY <1>1, CurrentFacts
<1> DEFINE units == conn[c].incoming
           rest == SubSeq(units, 3, Len(units))
           answers == Append(conn[c].outgoing, Request(units[1]))
<1>3. Len(units) >= 2 /\ Len(units) \in Nat /\ units[1] \in Units(c)
      /\ Command(c, units[1]).op \notin {"bad", "long"}
  BY <1>1, <1>2 DEF Executable
<1>4. Request(units[1]) \in Nat /\ Command(c, units[1]) \in Commands
  BY <1>2, <1>3, CommandTyped
<1>5. rest \in Seq(Units(c)) /\ rest \in Seq(Nat) /\ answers \in Seq(Nat)
  <2>1. rest \in Seq(Units(c))
    BY <1>2, <1>3, SubSeqProperties
  <2> QED
    BY <1>2, <1>4, <2>1, AppendProperties DEF Units
<1>6. /\ conn' = [conn EXCEPT ![c] = [@ EXCEPT !.incoming = rest, !.outgoing = answers]]
      /\ db' = Exec(db, Command(c, units[1]))
      /\ done' = [done EXCEPT ![c] = @ + 1]
  BY DEF TryOneRequest
<1> HIDE DEF rest, answers
<1>7. /\ conn' \in [Clients -> ConnRecord] /\ \A d \in Clients : d # c => conn'[d] = conn[d]
      /\ conn'[c].fd = conn[c].fd /\ conn'[c].last_active_ms = conn[c].last_active_ms
      /\ conn'[c].incoming = rest /\ conn'[c].outgoing = answers
      /\ conn'[c].want_read = conn[c].want_read /\ conn'[c].want_write = conn[c].want_write
      /\ conn'[c].want_close = conn[c].want_close
  BY <1>2, <1>5, <1>6 DEF ConnRecord
<1>8. /\ DOMAIN db' \subseteq Keys /\ \A k \in DOMAIN db' : db'[k] \in Nat \cup {NoTTL}
  <2>1. now \in Nat /\ DOMAIN db \subseteq Keys /\ \A k \in DOMAIN db : db[k] \in Nat \cup {NoTTL}
    BY LoopAssumption DEF Inv, TypeOK
  <2> QED
    BY <1>3, <1>4, <1>6, <2>1, ExecTyped
<1>9. done' \in [Clients -> Nat]
  BY <1>6 DEF Inv, TypeOK
<1>10. ServedMode(c)'
  BY <1>1, <1>2, <1>7 DEF ServedMode
<1> QED
  BY <1>1, <1>2, <1>5, <1>7, <1>8, <1>9, <1>10, ConnStep

LEMMA StopParsingStep == ASSUME Inv, StopParsing PROVE Inv'
<1>1. pc = "parse" /\ ~Executable(Current, conn[Current].incoming)
      /\ UNCHANGED <<kernel, sock, now, fd2conn, idle, idle_list, db, done, wake, ready, cur>>
  BY DEF StopParsing
<1> PICK c \in Clients : c = Current
  BY <1>1, CurrentFacts DEF Live
<1>2. /\ conn \in [Clients -> ConnRecord] /\ sock \in [Clients -> SockRecord]
      /\ conn[c].incoming \in Seq(Units(c)) /\ conn[c].outgoing \in Seq(Nat)
      /\ ServedMode(c)
      /\ \A d \in Clients : Len(sock[d].tx) <= SndBuf
  BY <1>1, CurrentFacts
<1> DEFINE answers == conn[c].outgoing # <<>>
           rejects == Rejects(c, conn[c].incoming)
<1>3. /\ conn' = [conn EXCEPT ![c] = [@ EXCEPT
                    !.want_close = conn[c].want_close \/ rejects,
                    !.want_read = conn[c].want_read /\ ~answers,
                    !.want_write = conn[c].want_write \/ answers]]
      /\ pc' = IF answers THEN "write" ELSE "close"
  BY DEF StopParsing
<1>4. conn[c].want_read /\ ~conn[c].want_write /\ ~conn[c].want_close
  BY <1>1, <1>2 DEF ServedMode
<1>5. rejects \in BOOLEAN /\ answers \in BOOLEAN
  BY DEF Rejects
<1>6. /\ conn' \in [Clients -> ConnRecord] /\ \A d \in Clients : d # c => conn'[d] = conn[d]
      /\ conn'[c].fd = conn[c].fd /\ conn'[c].last_active_ms = conn[c].last_active_ms
      /\ conn'[c].incoming = conn[c].incoming /\ conn'[c].outgoing = conn[c].outgoing
      /\ conn'[c].want_read <=> ~answers
      /\ conn'[c].want_write <=> answers
      /\ conn'[c].want_close <=> rejects
  <2> DEFINE r == [conn[c] EXCEPT !.want_close = conn[c].want_close \/ rejects,
                                  !.want_read = conn[c].want_read /\ ~answers,
                                  !.want_write = conn[c].want_write \/ answers]
  <2> HIDE DEF answers, rejects
  <2>1. conn[c] \in ConnRecord
    BY <1>2
  <2>2. /\ r \in ConnRecord /\ r.fd = conn[c].fd /\ r.last_active_ms = conn[c].last_active_ms
        /\ r.incoming = conn[c].incoming /\ r.outgoing = conn[c].outgoing
    BY <1>5, <2>1 DEF ConnRecord
  <2>3. /\ r.want_read <=> ~answers
        /\ r.want_write <=> answers
        /\ r.want_close <=> rejects
    BY <1>4, <1>5, <2>1 DEF ConnRecord
  <2>4. conn' = [conn EXCEPT ![c] = r]
    BY <1>3
  <2> HIDE DEF r
  <2>5. conn'[c] = r /\ conn' \in [Clients -> ConnRecord]
        /\ \A d \in Clients : d # c => conn'[d] = conn[d]
    BY <1>2, <2>2, <2>4
  <2> QED
    BY <2>2, <2>3, <2>5
<1>7. ServedMode(c)'
  <2>1. script' = script
    BY <1>1 DEF kernel
  <2>2. ~Executable(c, conn[c].incoming)' /\ (Rejects(c, conn[c].incoming)' <=> rejects)
    BY <1>1, <1>6, <2>1 DEF Executable, Rejects, Command
  <2> QED
    BY <1>3, <1>6, <2>1, <2>2 DEF ServedMode, Settled
<1>8. pc' \in {"parse", "write", "close", "dead"}
  BY <1>3
<1> QED
  BY <1>1, <1>2, <1>6, <1>7, <1>8, ConnStep DEF Inv, TypeOK

LEMMA Min2Least ==
    ASSUME NEW a \in Nat, NEW b \in Nat
    PROVE  Min2(a, b) \in Nat /\ Min2(a, b) <= a /\ Min2(a, b) <= b
BY DEF Min2

\* n elements move from the front of t to the end of s.
LEMMA MoveElements ==
    ASSUME NEW S, NEW s \in Seq(S), NEW t \in Seq(S), NEW n \in 0..Len(t)
    PROVE  /\ s \o SubSeq(t, 1, n) \in Seq(S)
           /\ SubSeq(t, n + 1, Len(t)) \in Seq(S)
           /\ Len(s \o SubSeq(t, 1, n)) = Len(s) + n
           /\ Len(SubSeq(t, n + 1, Len(t))) = Len(t) - n
           /\ (s \o SubSeq(t, 1, n)) \o SubSeq(t, n + 1, Len(t)) = s \o t
<1>1. Len(t) \in Nat /\ Len(s) \in Nat /\ \A i \in 1..Len(t) : t[i] \in S
  OBVIOUS
<1> DEFINE a == SubSeq(t, 1, n)
           b == SubSeq(t, n + 1, Len(t))
<1>2. /\ a \in Seq(S) /\ Len(a) = n /\ \A i \in 1..n : a[i] = t[i]
      /\ b \in Seq(S) /\ Len(b) = Len(t) - n /\ \A i \in 1..(Len(t) - n) : b[i] = t[i + n]
  <2>1. a = [i \in 1..n |-> t[i]]
    BY <1>1
  <2>2. b = [i \in 1..(Len(t) - n) |-> t[i + n]]
    BY <1>1
  <2>3. n \in Nat /\ Len(t) - n \in Nat /\ 1..n \subseteq 1..Len(t)
    BY <1>1
  <2>4. \A i \in 1..(Len(t) - n) : i + n \in 1..Len(t)
    BY <1>1
  <2> HIDE DEF a, b
  <2>5. a \in Seq(S) /\ Len(a) = n /\ \A i \in 1..n : a[i] = t[i]
    BY <1>1, <2>1, <2>3
  <2>6. /\ b \in Seq(S) /\ Len(b) = Len(t) - n
        /\ \A i \in 1..(Len(t) - n) : b[i] = t[i + n]
    BY <1>1, <2>2, <2>3, <2>4
  <2> QED
    BY <2>5, <2>6
<1> HIDE DEF a, b
<1>3. a \o b = t
  <2>0. a \o b \in Seq(S) /\ Len(a \o b) = Len(a) + Len(b)
    BY <1>2, ConcatProperties
  <2>1. a \o b \in Seq(S) /\ Len(a \o b) = Len(t)
    BY <1>1, <1>2, <2>0
  <2>2. \A i \in 1..Len(t) : (a \o b)[i] = t[i]
    <3>1. \A i \in 1..(n + (Len(t) - n)) : (a \o b)[i] = IF i <= n THEN a[i] ELSE b[i - n]
      BY <1>1, <1>2, ConcatProperties
    <3>2. \A i \in 1..Len(t) : ~(i <= n) => i - n \in 1..(Len(t) - n) /\ (i - n) + n = i
      BY <1>1
    <3>3. n + (Len(t) - n) = Len(t) /\ \A i \in 1..Len(t) : i <= n => i \in 1..n
      BY <1>1
    <3> QED
      BY <1>2, <3>1, <3>2, <3>3
  <2> QED
    BY <1>1, <2>1, <2>2, SeqEqual
<1>4. (s \o a) \o b = s \o (a \o b)
  BY <1>2, ConcatAssociative
<1>5. s \o a \in Seq(S) /\ Len(s \o a) = Len(s) + n
  BY <1>2, ConcatProperties
<1> QED
  BY <1>2, <1>3, <1>4, <1>5 DEF a, b

LEMMA WriteStep == ASSUME Inv, Write PROVE Inv'
<1>1. pc = "write" /\ UNCHANGED <<kernel, now, fd2conn, idle, idle_list, db, done, wake, ready, cur>>
  BY DEF Write
<1> PICK c \in Clients : c = Current
  BY <1>1, CurrentFacts DEF Live
<1>2. /\ conn \in [Clients -> ConnRecord] /\ sock \in [Clients -> SockRecord]
      /\ conn[c].incoming \in Seq(Units(c)) /\ conn[c].outgoing \in Seq(Nat)
      /\ ServedMode(c)
      /\ \A d \in Clients : Len(sock[d].tx) <= SndBuf
  BY <1>1, CurrentFacts
<1>3. /\ conn[c].want_write /\ ~conn[c].want_read /\ ~Executable(c, conn[c].incoming)
      /\ conn[c].want_close \/ ~Rejects(c, conn[c].incoming)
      /\ script' = script
  BY <1>1, <1>2 DEF ServedMode, kernel
<1>4. CASE WriteSome(c)
  <2> DEFINE n == Min2(SndBuf - Len(sock[c].tx), Len(conn[c].outgoing))
             rest == SubSeq(conn[c].outgoing, n + 1, Len(conn[c].outgoing))
             sent == sock[c].tx \o SubSeq(conn[c].outgoing, 1, n)
  <2>0. /\ sock[c] \in SockRecord /\ sock[c].tx \in Seq(Nat) /\ sock[c].rx \in Seq(Nat)
        /\ Len(conn[c].outgoing) \in Nat /\ Len(sock[c].tx) \in Nat /\ Len(sock[c].tx) <= SndBuf
        /\ SndBuf \in Nat
    BY <1>2, LoopAssumption DEF SockRecord
  <2>1. n \in Nat /\ n <= Len(conn[c].outgoing) /\ n <= SndBuf - Len(sock[c].tx)
    <3>1. SndBuf - Len(sock[c].tx) \in Nat
      BY <2>0
    <3> QED
      BY <2>0, <3>1, Min2Least
  <2> HIDE DEF n
  <2>2. rest \in Seq(Nat) /\ sent \in Seq(Nat) /\ Len(sent) <= SndBuf
    <3>1. n \in 0..Len(conn[c].outgoing)
      BY <2>0, <2>1
    <3>3. sock[c].tx \in Seq(Nat) /\ conn[c].outgoing \in Seq(Nat)
      BY <1>2, <2>0
    <3>2. rest \in Seq(Nat) /\ sent \in Seq(Nat) /\ Len(sent) = Len(sock[c].tx) + n
      <4> DEFINE o == conn[c].outgoing
                 t == sock[c].tx
      <4>1. o \in Seq(Nat) /\ t \in Seq(Nat) /\ n \in 0..Len(o)
        BY <3>1, <3>3
      <4> HIDE DEF o, t
      <4>2. /\ t \o SubSeq(o, 1, n) \in Seq(Nat) /\ SubSeq(o, n + 1, Len(o)) \in Seq(Nat)
            /\ Len(t \o SubSeq(o, 1, n)) = Len(t) + n
        BY <4>1, MoveElements
      <4> QED
        BY <4>2 DEF o, t
    <3> HIDE DEF rest, sent
    <3> QED
      BY <2>0, <2>1, <3>2
  <2>3. /\ sock' = [sock EXCEPT ![c].tx = sent] /\ pc' = "close"
        /\ conn' = [conn EXCEPT ![c] = [@ EXCEPT
                      !.outgoing = rest,
                      !.want_read = conn[c].want_read \/ rest = <<>>,
                      !.want_write = conn[c].want_write /\ rest # <<>>]]
    BY <1>4 DEF WriteSome, n
  <2> HIDE DEF rest, sent
  <2>4. /\ conn' \in [Clients -> ConnRecord] /\ \A d \in Clients : d # c => conn'[d] = conn[d]
        /\ conn'[c].fd = conn[c].fd /\ conn'[c].last_active_ms = conn[c].last_active_ms
        /\ conn'[c].incoming = conn[c].incoming /\ conn'[c].outgoing = rest
        /\ conn'[c].want_read <=> rest = <<>>
        /\ conn'[c].want_write <=> rest # <<>>
        /\ conn'[c].want_close <=> conn[c].want_close
    <3> DEFINE r == [conn[c] EXCEPT !.outgoing = rest,
                                    !.want_read = conn[c].want_read \/ rest = <<>>,
                                    !.want_write = conn[c].want_write /\ rest # <<>>]
    <3>1. conn[c] \in ConnRecord /\ rest \in Seq(Nat)
      BY <1>2, <2>2
    <3>2. /\ r \in ConnRecord /\ r.fd = conn[c].fd /\ r.last_active_ms = conn[c].last_active_ms
          /\ r.incoming = conn[c].incoming /\ r.outgoing = rest
          /\ r.want_close <=> conn[c].want_close
      BY <3>1 DEF ConnRecord
    <3>3. /\ r.want_read <=> rest = <<>>
          /\ r.want_write <=> rest # <<>>
      BY <1>2, <1>3, <3>1 DEF ConnRecord
    <3>4. conn' = [conn EXCEPT ![c] = r]
      BY <2>3
    <3> HIDE DEF r
    <3>5. conn'[c] = r /\ conn' \in [Clients -> ConnRecord]
          /\ \A d \in Clients : d # c => conn'[d] = conn[d]
      BY <1>2, <3>2, <3>4
    <3> QED
      BY <3>2, <3>3, <3>5
  <2>5. /\ sock' \in [Clients -> SockRecord]
        /\ \A d \in Clients : sock'[d].rx = sock[d].rx /\ Len(sock'[d].tx) <= SndBuf
    <3>1. sock'[c].rx = sock[c].rx /\ sock'[c].tx = sent /\ sock'[c] \in SockRecord
      BY <1>2, <2>0, <2>2, <2>3 DEF SockRecord
    <3>2. \A d \in Clients : d # c => sock'[d] = sock[d]
      BY <1>2, <2>3
    <3> QED
      BY <1>2, <2>2, <2>3, <3>1, <3>2
  <2>6. ServedMode(c)'
    <3>1. ~Executable(c, conn[c].incoming)'
          /\ (Rejects(c, conn[c].incoming)' <=> Rejects(c, conn[c].incoming))
      BY <1>3, <2>4 DEF Executable, Rejects, Command
    <3> QED
      BY <1>3, <2>3, <2>4, <3>1 DEF ServedMode, Settled
  <2> QED
    BY <1>1, <1>2, <2>3, <2>4, <2>5, <2>6, ConnStep DEF Inv, TypeOK
<1>5. CASE WriteError(c)
  <2>1. conn' = [conn EXCEPT ![c].want_close = TRUE] /\ pc' = "close" /\ sock' = sock
    BY <1>5 DEF WriteError
  <2>2. /\ conn' \in [Clients -> ConnRecord] /\ \A d \in Clients : d # c => conn'[d] = conn[d]
        /\ conn'[c].fd = conn[c].fd /\ conn'[c].last_active_ms = conn[c].last_active_ms
        /\ conn'[c].incoming = conn[c].incoming /\ conn'[c].want_close
    BY <1>2, <2>1 DEF ConnRecord
  <2>3. ServedMode(c)'
    BY <2>1, <2>2 DEF ServedMode
  <2> QED
    BY <1>1, <1>2, <2>1, <2>2, <2>3, ConnStep DEF Inv, TypeOK
<1>6. CASE WriteKilled(c)
  <2>1. conn' = conn /\ pc' = "dead" /\ sock' = sock
    BY <1>6 DEF WriteKilled
  <2>2. ServedMode(c)'
    BY <2>1 DEF ServedMode
  <2> QED
    BY <1>1, <1>2, <2>1, <2>2, ConnStep DEF Inv, TypeOK
<1> QED
  BY <1>4, <1>5, <1>6 DEF Write

-----------------------------------------------------------------------------
(* Connections and keys go away.                                           *)

LEMMA CloseStep == ASSUME Inv, Close PROVE Inv'
<1>1. /\ pc = "close" /\ ready' = Served(cur) /\ cur' = 0
      /\ pc' = NextPhase(ready'.revents)
      /\ UNCHANGED <<client, script, nsent, got, backlog, sock, now, db, done, wake>>
  BY DEF Close, kernel
<1> PICK c \in Live : c = Current
  BY <1>1, CurrentFacts
<1> PICK f \in Fds : f = cur
  BY <1>1, CurrentFacts DEF Pending
<1>2. /\ conn \in [Clients -> ConnRecord] /\ f \in Pending(ready.revents) /\ f # 0
      /\ conn[c].fd = f /\ fd2conn[f] = c /\ ServedMode(c) /\ c \in Clients
  BY <1>1, CurrentFacts DEF Live, Current
<1>3. /\ ready' \in [listen : BOOLEAN, revents : [Fds -> SUBSET {"in", "out", "err"}],
                     conn : [Fds -> Clients \cup {NoConn}]]
      /\ Pending(ready'.revents) = Pending(ready.revents) \ {f}
      /\ \A g \in Fds : g # f => ready'.revents[g] = ready.revents[g] /\ ready'.conn[g] = ready.conn[g]
  <2>1. ready \in [listen : BOOLEAN, revents : [Fds -> SUBSET {"in", "out", "err"}],
                   conn : [Fds -> Clients \cup {NoConn}]]
    BY DEF Inv, TypeOK
  <2>2. /\ ready' \in [listen : BOOLEAN, revents : [Fds -> SUBSET {"in", "out", "err"}],
                       conn : [Fds -> Clients \cup {NoConn}]]
        /\ ready'.revents[f] = {}
        /\ \A g \in Fds : g # f => ready'.revents[g] = ready.revents[g] /\ ready'.conn[g] = ready.conn[g]
    BY <1>1, <2>1 DEF Served
  <2> QED
    BY <2>2 DEF Pending
<1>4. \A d \in Live : d # c => Settled(d)
  BY <1>2 DEF Inv, Modes, TablesAgree, Live
<1>5. WorldTyped'
  BY <1>1, TypesSplit DEF Inv, WorldTyped
<1>6. \A g \in Pending(ready'.revents) :
        /\ g \in Fds /\ g # f /\ g \in Pending(ready.revents)
        /\ fd2conn[g] \in Clients /\ fd2conn[g] # c
        /\ ready'.revents[g] = ready.revents[g] /\ ready'.conn[g] = ready.conn[g]
  BY <1>2, <1>3, PendingConn DEF Live, Pending
<1>7. CASE Destroy(c)
  <2>1. /\ TablesAgree' /\ Past' /\ Live' = Live \ {c}
        /\ idle' \in IdleLinks /\ idle_list' \in Seq(Clients)
        /\ conn' \in [Clients -> ConnRecord]
        /\ fd2conn' = [fd2conn EXCEPT ![f] = NoConn]
        /\ \A d \in Clients : d # c => conn'[d] = conn[d]
        /\ conn'[c] = NullConn
    BY <1>1, <1>2, <1>7, DestroyTables
  <2>2. fd2conn \in [Fds -> Clients \cup {NoConn}] /\ fd2conn' \in [Fds -> Clients \cup {NoConn}]
    BY <2>1 DEF Inv, TypeOK
  <2>3. ServerTyped'
    BY <1>1, <1>3, <2>1, <2>2, TypesSplit
    DEF Inv, ServerTyped, IdleLinks, LinksOf, Nodes, Pending, NextPhase
  <2>4. InRange'
    <3>1. <<>> \in Seq(Units(c))
      OBVIOUS
    <3> QED
      BY <1>1, <1>2, <2>1, <3>1, NullConnTyped DEF Inv, InRange, Units
  <2>5. Fresh'
    BY <1>1, <2>1 DEF Inv, Fresh
  <2>6. Phases'
    <3>1. \A g \in Pending(ready'.revents) : fd2conn'[g] = ready'.conn[g] /\ fd2conn'[g] \in Clients
      BY <1>6, <2>1, <2>2 DEF Inv, Phases
    <3> QED
      BY <1>1, <3>1 DEF Phases, NextPhase, Pending
  <2>7. Modes'
    <3>1. \A d \in Live' : Settled(d)'
      <4> TAKE d \in Live'
      <4>1. Settled(d) /\ conn'[d] = conn[d] /\ script' = script
        BY <1>1, <1>4, <2>1 DEF Live
      <4> QED
        BY <4>1 DEF Settled, Executable, Rejects, Command
    <3>2. \A g \in Pending(ready'.revents) :
            /\ "in" \in ready'.revents[g] => conn'[fd2conn'[g]].want_read
            /\ "out" \in ready'.revents[g] => conn'[fd2conn'[g]].want_write
      <4> TAKE g \in Pending(ready'.revents)
      <4>1. fd2conn'[g] = fd2conn[g] /\ conn'[fd2conn[g]] = conn[fd2conn[g]] /\ g # cur
            /\ g \in Pending(ready.revents) /\ ready'.revents[g] = ready.revents[g]
        BY <1>6, <2>1, <2>2
      <4> QED
        BY <4>1 DEF Inv, Modes
    <3> QED
      BY <1>1, <3>1, <3>2 DEF Modes
  <2> QED
    BY <1>5, <2>1, <2>3, <2>4, <2>5, <2>6, <2>7, TypesSplit DEF Inv
<1>8. CASE ~conn[c].want_close /\ UNCHANGED tables
  <2>1. UNCHANGED <<kernel, sock, now, tables>>
    BY <1>1, <1>8 DEF kernel
  <2>2. WorldTyped' /\ InRange' /\ Fresh' /\ Past' /\ TablesAgree' /\ Live' = Live
        /\ \A d : Settled(d)' <=> Settled(d)
    BY <2>1, TablesKept
  <2>3. ServerTyped'
    BY <1>1, <1>3, <1>8, TypesSplit DEF Inv, ServerTyped, Pending, NextPhase, tables
  <2>4. Phases'
    <3>1. \A g \in Pending(ready'.revents) : fd2conn'[g] = ready'.conn[g] /\ fd2conn'[g] \in Clients
      BY <1>6, <1>8 DEF Inv, Phases, tables
    <3> QED
      BY <1>1, <3>1 DEF Phases, NextPhase, Pending
  <2>5. Modes'
    <3>1. \A d \in Live' : Settled(d)'
      BY <1>1, <1>2, <1>4, <1>8, <2>2 DEF ServedMode
    <3>2. \A g \in Pending(ready'.revents) :
            /\ "in" \in ready'.revents[g] => conn'[fd2conn'[g]].want_read
            /\ "out" \in ready'.revents[g] => conn'[fd2conn'[g]].want_write
      <4> TAKE g \in Pending(ready'.revents)
      <4>1. fd2conn'[g] = fd2conn[g] /\ conn' = conn /\ g # cur
            /\ g \in Pending(ready.revents) /\ ready'.revents[g] = ready.revents[g]
        BY <1>6, <1>8 DEF tables
      <4> QED
        BY <4>1 DEF Inv, Modes
    <3> QED
      BY <1>1, <3>1, <3>2 DEF Modes
  <2> QED
    BY <2>2, <2>3, <2>4, <2>5, TypesSplit DEF Inv
<1> QED
  BY <1>2, <1>7, <1>8 DEF Close, Inv

LEMMA CloseIdleStep == ASSUME Inv, CloseIdle PROVE Inv'
<1>1. pc = "timers" /\ UNCHANGED <<kernel, sock, now, db, done, pc, wake, ready, cur>>
  BY DEF CloseIdle
<1> PICK c \in Oldest : Destroy(c)
  BY DEF CloseIdle
<1>2. c \in Live
  BY OldestIsFirst DEF Inv
<1>3. /\ TablesAgree' /\ Past' /\ Live' = Live \ {c}
      /\ idle' \in IdleLinks /\ idle_list' \in Seq(Clients)
      /\ conn' \in [Clients -> ConnRecord] /\ conn[c].fd \in Fds
      /\ fd2conn' = [fd2conn EXCEPT ![conn[c].fd] = NoConn]
      /\ \A d \in Clients : d # c => conn'[d] = conn[d]
      /\ conn'[c] = NullConn
  BY <1>1, <1>2, DestroyTables
<1>4. Pending(ready.revents) = {} /\ cur = 0
  BY <1>1 DEF Inv, Phases
<1>5. WorldTyped'
  BY <1>1, TypesSplit DEF Inv, WorldTyped, kernel
<1>6. ServerTyped'
  <2>1. fd2conn' \in [Fds -> Clients \cup {NoConn}]
    BY <1>3 DEF Inv, TypeOK
  <2> QED
    BY <1>1, <1>3, <2>1, TypesSplit DEF Inv, ServerTyped, IdleLinks, LinksOf, Nodes, Pending
<1>7. InRange'
  <2>1. <<>> \in Seq(Units(c))
    OBVIOUS
  <2> QED
    BY <1>1, <1>3, <2>1, NullConnTyped DEF Inv, InRange, Units, kernel, Live
<1>8. Fresh'
  BY <1>1, <1>3 DEF Inv, Fresh, kernel
<1>9. Phases'
  BY <1>1, <1>4 DEF Inv, Phases, Pending
<1>10. Modes'
  <2>1. \A d \in Live' : Settled(d)'
    <3> TAKE d \in Live'
    <3>1. Settled(d)
      BY <1>3, <1>4 DEF Inv, Modes, Live, TypeOK
    <3>2. conn'[d] = conn[d] /\ script' = script
      BY <1>1, <1>3 DEF Live, kernel
    <3> QED
      BY <3>1, <3>2 DEF Settled, Executable, Rejects, Command
  <2> QED
    BY <1>1, <1>4, <2>1 DEF Modes, Pending
<1> QED
  BY <1>3, <1>5, <1>6, <1>7, <1>8, <1>9, <1>10, TypesSplit DEF Inv

LEMMA ExpireKeysStep == ASSUME Inv, ExpireKeys PROVE Inv'
<1>1. /\ pc = "timers" /\ pc' = "prepare"
      /\ UNCHANGED <<kernel, sock, now, tables, done, wake, ready, cur>>
      /\ \E removed : db' = [k \in DOMAIN db \ removed |-> db[k]]
  BY DEF ExpireKeys
<1>2. WorldTyped' /\ InRange' /\ Fresh' /\ Past' /\ TablesAgree' /\ Live' = Live
      /\ \A d : Settled(d)' <=> Settled(d)
  BY <1>1, TablesKept
<1>3. ServerTyped'
  BY <1>1, TypesSplit DEF Inv, ServerTyped, tables, Pending
<1>4. Phases'
  BY <1>1 DEF Inv, Phases, Pending, tables
<1>5. Modes'
  BY <1>1, <1>2 DEF Inv, Phases, Modes, Pending, tables
<1> QED
  BY <1>2, <1>3, <1>4, <1>5, TypesSplit DEF Inv

-----------------------------------------------------------------------------

LEMMA InitInv == ASSUME Init PROVE Inv
<1>1. <<>> \in Seq(Nat) /\ <<>> \in Seq(Clients) /\ Len(<<>>) = 0 /\ DOMAIN <<>> = {}
      /\ \A c : <<>> \in Seq(Units(c))
  OBVIOUS
<1>2. Live = {} /\ Range(<<>>) = {} /\ IsInjective(<<>>)
  BY <1>1, NullConnTyped DEF Init, Live, Range, IsInjective
<1>3. idle \in IdleLinks /\ Represents(idle, IdleHead, <<>>)
  BY EmptyList DEF Init, IdleLinks, LinksOf, Nodes, dlist_init, Unlinked
<1>4. WorldTyped
  BY <1>1, LoopAssumption DEF Init, WorldTyped, SockRecord
<1>5. ServerTyped
  BY <1>1, <1>3, NullConnTyped
  DEF Init, ServerTyped, IdleLinks, LinksOf, Nodes, NoEvents, Pending, Forever
<1>6. InRange
  <2>1. \A c \in Clients : 0 <= 2 * Len(script[c])
    <3>1. \A c \in Clients : script[c] \in Seq(Commands)
      BY LoopAssumption DEF Init
    <3> QED
      BY <3>1
  <2>2. \A c \in Clients : /\ nsent[c] = 0 /\ sock[c].rx = <<>> /\ sock[c].tx = <<>>
                           /\ conn[c].incoming = <<>>
    BY NullConnTyped DEF Init
  <2>3. 0 <= SndBuf
    BY LoopAssumption
  <2> QED
    BY <1>1, <2>1, <2>2, <2>3 DEF InRange
<1>7. Fresh /\ Past
  BY <1>2, NullConnTyped DEF Init, Fresh, Past
<1>8. Phases /\ Modes
  BY <1>2 DEF Init, Phases, Modes, NoEvents, Pending
<1>9. TablesAgree
  <2>1. \A f \in Fds, c \in Clients : fd2conn[f] = c <=> conn[c].fd = f
    BY NullConnTyped, LoopAssumption DEF Init, Fds
  <2> QED
    BY <1>1, <1>2, <1>3, <2>1 DEF Init, TablesAgree
<1> QED
  BY <1>4, <1>5, <1>6, <1>7, <1>8, <1>9, TypesSplit DEF Inv

LEMMA StutterInv == ASSUME Inv, UNCHANGED vars PROVE Inv'
<1>1. UNCHANGED <<server, script, client, nsent, got, sock, backlog, now>>
  BY DEF vars, server, tables
<1>2. WorldTyped /\ ServerTyped /\ now <= now' /\ now' \in 0..MaxTime
  BY <1>1, TypesSplit, LoopAssumption DEF Inv, WorldTyped
<1>3. Phases' /\ Past' /\ TablesAgree' /\ Modes' /\ Live' = Live
  BY <1>1, <1>2, ServerKept
<1>4. TypeOK'
  BY <1>1, <1>2, ServerTypedKept, TypesSplit DEF WorldTyped
<1>5. InRange' /\ Fresh'
  BY <1>1, <1>3 DEF Inv, InRange, Fresh, Units, server, tables
<1> QED
  BY <1>3, <1>4, <1>5 DEF Inv

LEMMA NextInv == ASSUME Inv, [Next]_vars PROVE Inv'
<1>1. ASSUME NEW c \in Clients, Connect(c) \/ Send(c) \/ Receive(c) \/ Hangup(c) \/ Reset(c)
      PROVE  Inv'
  BY <1>1, ConnectStep, SendStep, ReceiveStep, HangupStep, ResetStep
<1>2. ASSUME ServerStep PROVE Inv'
  BY <1>2, PollEnterStep, PollReturnStep, AcceptStep, AcceptNothingStep, ServeReadStep,
     ServeWriteStep, TryOneRequestStep, StopParsingStep, WriteStep, CloseStep,
     CloseIdleStep, ExpireKeysStep
  DEF ServerStep
<1> QED
  BY <1>1, <1>2, TickStep, PollInterruptedStep, StutterInv DEF Next

\* The inductive invariant: types, tables, and the mode of every connection,
\* of the one being served and of the ones that wait for their answers.
THEOREM Invariant == Spec => []Inv
<1>1. Init => Inv
  BY InitInv
<1>2. Inv /\ [Next]_vars => Inv'
  BY NextInv
<1> QED
  BY <1>1, <1>2, PTL DEF Spec

\* Every variable of the loop, of its clients and of the kernel keeps its type.
THEOREM TypesCorrect == Spec => []TypeOK
<1>1. Inv => TypeOK
  BY DEF Inv
<1> QED
  BY <1>1, Invariant, PTL

\* fd2conn, the connections and the idle list, with its links, agree, and the
\* list is in the order of age.
THEOREM TablesCorrect == Spec => []TablesAgree
<1>1. Inv => TablesAgree
  BY DEF Inv
<1> QED
  BY <1>1, Invariant, PTL

\* poll() is asked for what makes progress on each connection.
THEOREM WaitsCorrect == Spec => []WaitsForTheRightThing
<1>1. Inv => WaitsForTheRightThing
  <2>1. ASSUME Inv, pc = "poll", NEW c \in Live
        PROVE  Settled(c)
    BY <2>1 DEF Inv, Phases, Modes, Live
  <2> QED
    BY <2>1 DEF WaitsForTheRightThing, Settled
<1> QED
  BY <1>1, Invariant, PTL

\* poll()'s answers are used for the connections they were given for, and the
\* assertions of the loop hold.
THEOREM AnswersCorrect == Spec => []AnswersStayValid
<1>1. Inv => AnswersStayValid
  <2> SUFFICES ASSUME Inv PROVE AnswersStayValid
    OBVIOUS
  <2>1. ASSUME NEW f \in Pending(ready.revents)
        PROVE  LET c == ready.conn[f]
               IN  /\ fd2conn[f] = c /\ c \in Live /\ conn[c].fd = f
                   /\ cur # f /\ "in" \in ready.revents[f] => conn[c].want_read
                   /\ cur # f /\ "out" \in ready.revents[f] => conn[c].want_write
    <3>1. fd2conn[f] = ready.conn[f] /\ fd2conn[f] \in Live /\ conn[fd2conn[f]].fd = f
      BY PendingConn DEF Inv, Phases
    <3> QED
      BY <3>1 DEF Inv, Modes
  <2>2. pc = "write" => conn[Current].outgoing # <<>>
    BY DEF Inv, Phases, Modes, ServedMode
  <2> QED
    BY <2>1, <2>2 DEF AnswersStayValid
<1> QED
  BY <1>1, Invariant, PTL

-----------------------------------------------------------------------------
(* Timers.                                                                 *)

\* A server step that changes the keys executes a request or expires keys.
LEMMA KeysChange ==
    ASSUME Inv, [Next]_vars
    PROVE  \/ db' = db
           \/ /\ TryOneRequest
              /\ \E c \in Clients, u \in Nat :
                    /\ script[c] \in Seq(Commands) /\ u \in Units(c)
                    /\ Command(c, u).op \notin {"bad", "long"}
                    /\ db' = Exec(db, Command(c, u))
           \/ ExpireKeys
<1>1. ASSUME TryOneRequest
      PROVE  \E c \in Clients, u \in Nat :
                    /\ script[c] \in Seq(Commands) /\ u \in Units(c)
                    /\ Command(c, u).op \notin {"bad", "long"}
                    /\ db' = Exec(db, Command(c, u))
  <2>1. pc = "parse" /\ Executable(Current, conn[Current].incoming)
        /\ db' = Exec(db, Command(Current, conn[Current].incoming[1]))
    BY <1>1 DEF TryOneRequest
  <2> PICK c \in Clients : c = Current
    BY <2>1, CurrentFacts DEF Live
  <2>2. /\ script[c] \in Seq(Commands) /\ conn[c].incoming \in Seq(Units(c))
        /\ Executable(c, conn[c].incoming)
        /\ db' = Exec(db, Command(c, conn[c].incoming[1]))
    BY <2>1, CurrentFacts
  <2>3. /\ conn[c].incoming[1] \in Units(c) /\ conn[c].incoming[1] \in Nat
        /\ Command(c, conn[c].incoming[1]).op \notin {"bad", "long"}
    BY <2>2 DEF Executable, Units
  <2> QED
    BY <2>2, <2>3
<1>2. ASSUME ServerStep, ~TryOneRequest, ~ExpireKeys
      PROVE  db' = db
  BY <1>2 DEF ServerStep, PollEnter, PollReturn, Accept, AcceptNothing, ServeRead, ServeWrite, Serve,
     StopParsing, Write, Close, CloseIdle
<1>3. ASSUME NEW c \in Clients, Connect(c) \/ Send(c) \/ Receive(c) \/ Hangup(c) \/ Reset(c)
      PROVE  db' = db
  BY <1>3 DEF Connect, Send, Receive, Hangup, Reset
<1> QED
  BY <1>1, <1>2, <1>3 DEF Next, Tick, PollInterrupted, vars

\* The first connection of the list has been idle for longest.
LEMMA OldestIsOldest ==
    ASSUME Inv
    PROVE  /\ Oldest \subseteq Live
           /\ \A c \in Live : \E d \in Oldest : conn[d].last_active_ms <= conn[c].last_active_ms
<1>1. /\ idle_list \in Seq(Clients) /\ Range(idle_list) = Live
      /\ \A i, j \in 1..Len(idle_list) :
            i < j => conn[idle_list[i]].last_active_ms <= conn[idle_list[j]].last_active_ms
      /\ \A c \in Clients : conn[c].last_active_ms \in Nat
  BY DEF Inv, TypeOK, TablesAgree
<1>2. idle_list = <<>> => Oldest = {} /\ Live = {}
  BY <1>1, OldestIsFirst DEF Inv, Range
<1>3. ASSUME idle_list # <<>>, NEW c \in Live
      PROVE  conn[idle_list[1]].last_active_ms <= conn[c].last_active_ms
  <2>1. PICK i \in 1..Len(idle_list) : idle_list[i] = c
    BY <1>1 DEF Range
  <2>2. 1 \in 1..Len(idle_list) /\ idle_list[1] \in Clients
    BY <1>1, <1>3
  <2> QED
    BY <1>1, <2>1, <2>2
<1> QED
  BY <1>2, <1>3, OldestIsFirst DEF Inv

LEMMA TimersStep ==
    ASSUME Inv, [Next]_vars, pc = "timers"
    PROVE  /\ \A c, d \in Live :
                 conn'[c].fd = 0 => conn[c].last_active_ms <= conn[d].last_active_ms
           /\ pc' # "timers" =>
                 \A c \in Live : conn[c].last_active_ms + IdleTimeout > now
<1>1. CloseIdle \/ ExpireKeys \/ UNCHANGED <<conn, pc>>
  BY DEF Next, ServerStep, Connect, Send, Receive, Hangup, Reset, Tick, tables, PollEnter, PollReturn,
     Accept, AcceptNothing, ServeRead, ServeWrite, Serve, TryOneRequest, StopParsing, Write, Close,
     PollInterrupted, vars
<1>2. ASSUME ExpireKeys, NEW c \in Live PROVE conn[c].last_active_ms + IdleTimeout > now
  <2>1. PICK d \in Oldest : conn[d].last_active_ms <= conn[c].last_active_ms
    BY OldestIsOldest
  <2>2. ~Overdue(d)
    BY <1>2 DEF ExpireKeys
  <2>3. conn[c].last_active_ms \in Nat /\ conn[d].last_active_ms \in Nat /\ now \in Nat
    <3>1. c \in Clients /\ d \in Clients
      BY OldestIsOldest DEF Live
    <3>2. now \in Nat /\ \A e \in Clients : conn[e].last_active_ms \in Nat
      BY LoopAssumption DEF Inv, TypeOK
    <3> QED
      BY <3>1, <3>2
  <2> QED
    BY <2>1, <2>2, <2>3, LoopAssumption DEF Overdue
<1>3. ASSUME CloseIdle
      PROVE  /\ pc' = pc
             /\ \A c, d \in Live :
                   conn'[c].fd = 0 => conn[c].last_active_ms <= conn[d].last_active_ms
  <2>1. PICK e \in Oldest : Destroy(e)
    BY <1>3 DEF CloseIdle
  <2>2. \A c \in Live : conn'[c].fd = 0 => c = e
    <3>1. conn' = [conn EXCEPT ![e] = NullConn] /\ DOMAIN conn = Clients
      BY <2>1 DEF Destroy, Inv, TypeOK
    <3> QED
      BY <3>1 DEF Live
  <2>3. \A o \in Oldest : o = e
    BY <2>1 DEF Oldest
  <2>4. \A d \in Live : conn[e].last_active_ms <= conn[d].last_active_ms
    BY <2>3, OldestIsOldest
  <2> QED
    BY <1>3, <2>2, <2>4 DEF CloseIdle
<1>4. ASSUME conn' = conn, NEW c \in Live PROVE conn'[c].fd # 0
  BY <1>4 DEF Live
<1>5. ExpireKeys => conn' = conn
  BY DEF ExpireKeys, tables
<1> QED
  BY <1>1, <1>2, <1>3, <1>4, <1>5

\* A pass of process_timers() closes the connections that have been idle for
\* longest, and all of them whose time is over.
THEOREM TimersCorrect == Spec => IdlestTimeOut
<1>1. Inv /\ [Next]_vars =>
        [pc = "timers" =>
          /\ \A c, d \in Live :
                conn'[c].fd = 0 => conn[c].last_active_ms <= conn[d].last_active_ms
          /\ pc' # "timers" =>
                \A c \in Live : conn[c].last_active_ms + IdleTimeout > now]_vars
  BY TimersStep
<1> QED
  BY <1>1, Invariant, PTL DEF Spec, IdlestTimeOut

-----------------------------------------------------------------------------
(* The sleep of poll().                                                    *)

\* Every TTL that a client sets is within the range of poll()'s timeout.
TimeoutsInRange ==
    \A scr \in Scripts : \A i \in 1..Len(scr) :
        scr[i].op = "pexpire" => 2 * scr[i].ms < T32

KeysNear == \A k \in DOMAIN db : db[k] # NoTTL => 2 * (db[k] - now) < T32

Asleep == KeysNear /\ SleepsUntilDeadline

LEMMA KeysNearKept ==
    ASSUME TimeoutsInRange, Inv, KeysNear, [Next]_vars
    PROVE  KeysNear'
<1>1. /\ now \in Nat /\ now' \in Nat /\ now <= now' /\ T32 \in Nat /\ 0 < T32
      /\ DOMAIN db \subseteq Keys /\ \A k \in DOMAIN db : db[k] \in Nat \cup {NoTTL}
  <2>1. now' \in 0..MaxTime /\ now \in 0..MaxTime
    BY NextInv DEF Inv, TypeOK
  <2>2. now' = now \/ now' = now + 1
    BY DEF Next, ServerStep, Connect, Send, Receive, Hangup, Reset, Tick, PollEnter, PollReturn,
       Accept, AcceptNothing, ServeRead, ServeWrite, Serve, TryOneRequest, StopParsing, Write, Close,
       CloseIdle, ExpireKeys, PollInterrupted, vars, kernel
  <2> QED
    BY <2>1, <2>2, LoopAssumption DEF Inv, TypeOK
<1>2. CASE db' = db
  BY <1>1, <1>2 DEF KeysNear
<1>3. CASE ExpireKeys
  BY <1>1, <1>3 DEF KeysNear, ExpireKeys
<1>4. ASSUME TryOneRequest, NEW c \in Clients, NEW u \in Nat,
             script[c] \in Seq(Commands), u \in Units(c),
             Command(c, u).op \notin {"bad", "long"}, db' = Exec(db, Command(c, u))
      PROVE  KeysNear'
  <2> DEFINE cmd == Command(c, u)
  <2>1. cmd \in Commands /\ Request(u) \in 1..Len(script[c]) /\ script[c] \in Scripts
    BY <1>4, CommandTyped DEF Inv, TypeOK
  <2>2. cmd.op = "pexpire" => 2 * cmd.ms < T32
    BY <2>1 DEF TimeoutsInRange, Command
  <2>3. now' = now
    BY <1>4 DEF TryOneRequest
  <2> HIDE DEF cmd
  <2>4. cmd.op \in {"set", "del", "pexpire", "persist"} /\ cmd.ms \in Nat
    BY <1>4, <2>1 DEF Commands, cmd
  <2>5. db' = Exec(db, cmd)
    BY <1>4 DEF cmd
  <2>6. CASE cmd.op = "set"
    BY <1>1, <2>3, <2>5, <2>6 DEF Exec, KeysNear
  <2>7. CASE cmd.op = "del"
    BY <1>1, <2>3, <2>5, <2>7 DEF Exec, KeysNear
  <2>8. CASE cmd.op = "pexpire"
    BY <1>1, <2>2, <2>3, <2>4, <2>5, <2>8 DEF Exec, KeysNear
  <2>9. CASE cmd.op = "persist"
    BY <1>1, <2>3, <2>5, <2>9 DEF Exec, KeysNear
  <2> QED
    BY <2>4, <2>6, <2>7, <2>8, <2>9
<1> QED
  BY <1>2, <1>3, <1>4, KeysChange

\* next_timer_ms() looks at the least of all deadlines.
LEMMA NextTimerIsLeast ==
    ASSUME Inv
    PROVE  /\ Deadlines \subseteq Nat /\ NextTimers \subseteq Deadlines
           /\ NextTimers = {} <=> Deadlines = {}
           /\ Deadlines # {} => MinOf(NextTimers) = MinOf(Deadlines)
<1> DEFINE vals == {db[k] : k \in DOMAIN db} \ {NoTTL}
           ages == {conn[c].last_active_ms + IdleTimeout : c \in Live}
<1>1. vals \subseteq Nat
  BY DEF Inv, TypeOK
<1>2. /\ ages \subseteq Nat /\ IdleDeadlines \subseteq ages
      /\ \A a \in ages : \E b \in IdleDeadlines : b <= a
  <2>1. IdleTimeout \in Nat /\ \A c \in Live : conn[c].last_active_ms \in Nat
    BY LoopAssumption DEF Inv, TypeOK, Live
  <2>2. /\ Oldest \subseteq Live
        /\ \A c \in Live : \E d \in Oldest : conn[d].last_active_ms <= conn[c].last_active_ms
    BY OldestIsOldest
  <2>3. \A a \in ages : \E b \in IdleDeadlines : b <= a
    <3> TAKE a \in ages
    <3>1. PICK c \in Live : a = conn[c].last_active_ms + IdleTimeout
      OBVIOUS
    <3>2. PICK d \in Oldest : conn[d].last_active_ms <= conn[c].last_active_ms
      BY <2>2
    <3>3. conn[d].last_active_ms + IdleTimeout \in IdleDeadlines
      BY DEF IdleDeadlines
    <3>4. conn[d].last_active_ms + IdleTimeout <= a
      BY <2>1, <2>2, <3>1, <3>2
    <3> QED
      BY <3>3, <3>4
  <2> QED
    BY <2>1, <2>2, <2>3 DEF IdleDeadlines
<1> HIDE DEF vals, ages
<1>3. HeapRoot = IF vals = {} THEN {} ELSE {MinOf(vals)}
  BY DEF HeapRoot, vals
<1>4. HeapRoot \subseteq vals /\ \A a \in vals : \E b \in HeapRoot : b <= a
  BY <1>1, <1>3, LeastNatural
<1>5. Deadlines = ages \cup vals /\ NextTimers = HeapRoot \cup IdleDeadlines
  BY DEF Deadlines, NextTimers, ages, vals
<1>6. /\ Deadlines \subseteq Nat /\ NextTimers \subseteq Deadlines
      /\ \A a \in Deadlines : \E b \in NextTimers : b <= a
  BY <1>1, <1>2, <1>4, <1>5
<1>7. ASSUME Deadlines # {} PROVE MinOf(NextTimers) = MinOf(Deadlines)
  <2>1. /\ MinOf(Deadlines) \in Deadlines /\ \A n \in Deadlines : MinOf(Deadlines) <= n
    BY <1>6, <1>7, LeastNatural
  <2>2. /\ MinOf(NextTimers) \in NextTimers /\ \A n \in NextTimers : MinOf(NextTimers) <= n
    BY <1>6, <1>7, LeastNatural
  <2>3. PICK b \in NextTimers : b <= MinOf(Deadlines)
    BY <1>6, <2>1
  <2>4. MinOf(NextTimers) <= b /\ MinOf(Deadlines) <= MinOf(NextTimers)
    BY <1>6, <2>1, <2>2
  <2>5. MinOf(NextTimers) \in Nat /\ MinOf(Deadlines) \in Nat /\ b \in Nat
    BY <1>6, <2>1, <2>2
  <2>6. \A x, y, z \in Nat : x <= z /\ z <= y /\ y <= x => x = y
    OBVIOUS
  <2>7. \A x, y, z \in Nat : x <= z /\ z <= y => x <= y
    OBVIOUS
  <2>8. MinOf(NextTimers) <= MinOf(Deadlines)
    BY <2>3, <2>4, <2>5, <2>7
  <2> QED
    BY <2>4, <2>5, <2>8, <2>6
<1> QED
  BY <1>6, <1>7

LEMMA AsleepStep ==
    ASSUME TimeoutsInRange, Inv, Asleep, [Next]_vars
    PROVE  Asleep'
<1>1. CASE PollEnter
  <2>1. now \in Nat /\ T32 \in Nat \ {0} /\ 2 * IdleTimeout < T32 /\ IdleTimeout \in Nat
    BY LoopAssumption DEF Inv, TypeOK
  <2>2. Deadlines' = Deadlines /\ now' = now
    BY <1>1 DEF PollEnter, Deadlines, Live, tables
  <2>3. \A d \in Deadlines : 2 * (d - now) < T32
    <3>1. \A c \in Live : conn[c].last_active_ms \in Nat /\ conn[c].last_active_ms <= now
      BY DEF Inv, TypeOK, Past, Live
    <3>2. \A c \in Live : 2 * (conn[c].last_active_ms + IdleTimeout - now) < T32
      BY <2>1, <3>1
    <3>3. \A k \in DOMAIN db : db[k] # NoTTL => 2 * (db[k] - now) < T32
      BY DEF Asleep, KeysNear
    <3>4. SUFFICES ASSUME NEW d \in Deadlines PROVE 2 * (d - now) < T32
      OBVIOUS
    <3>5. CASE d \in {conn[c].last_active_ms + IdleTimeout : c \in Live}
      <4>1. PICK c \in Live : d = conn[c].last_active_ms + IdleTimeout
        BY <3>5
      <4>2. 2 * (conn[c].last_active_ms + IdleTimeout - now) < T32
        BY <3>2
      <4> QED
        BY <2>1, <3>1, <4>1, <4>2
    <3>6. CASE d \in {db[k] : k \in DOMAIN db} \ {NoTTL}
      <4>1. PICK k \in DOMAIN db : d = db[k] /\ db[k] # NoTTL
        BY <3>6
      <4> QED
        BY <3>3, <4>1
    <3> QED
      BY <3>4, <3>5, <3>6 DEF Deadlines
  <2>4. CASE Deadlines = {}
    <3>1. next_timer_ms = -1
      BY <2>4, NextTimerIsLeast DEF next_timer_ms
    <3> QED
      BY <1>1, <2>2, <2>4, <3>1, KeysNearKept DEF PollEnter, SleepsUntilDeadline, Asleep
  <2>5. CASE Deadlines # {}
    <3> DEFINE m == MinOf(Deadlines)
    <3>1. m \in Nat /\ 2 * (m - now) < T32 /\ m = MinOf(NextTimers) /\ NextTimers # {}
      BY <2>3, <2>5, NextTimerIsLeast, LeastNatural
    <3> HIDE DEF m
    <3>2. next_timer_ms = IF m <= now THEN 0 ELSE Int32(m - now)
      BY <3>1 DEF next_timer_ms
    <3>3. CASE m <= now
      <4>1. wake' = now
        BY <1>1, <2>1, <3>2, <3>3 DEF PollEnter
      <4>2. wake' = m \/ (m < wake' /\ wake' <= now')
        BY <2>1, <2>2, <3>1, <3>3, <4>1
      <4> QED
        BY <2>2, <2>5, <4>2, KeysNearKept DEF SleepsUntilDeadline, Asleep, m
    <3>4. CASE ~(m <= now)
      <4>1. m - now \in Nat /\ m - now < T32
        BY <2>1, <3>1, <3>4
      <4>2. (m - now) % T32 = m - now
        BY <2>1, <4>1
      <4>3. Int32(m - now) = m - now
        BY <3>1, <4>2 DEF Int32
      <4>4. wake' = m
        BY <1>1, <2>1, <3>1, <3>2, <3>4, <4>1, <4>3 DEF PollEnter
      <4> QED
        BY <2>2, <2>5, <4>4, KeysNearKept DEF SleepsUntilDeadline, Asleep, m
    <3> QED
      BY <3>3, <3>4
  <2> QED
    BY <2>4, <2>5
<1>2. ASSUME pc = "poll", pc' = "poll"
      PROVE  SleepsUntilDeadline'
  <2>1. UNCHANGED <<conn, db, wake>>
    BY <1>2 DEF Next, ServerStep, Connect, Send, Receive, Hangup, Reset, Tick, PollEnter, PollReturn,
       Accept, AcceptNothing, ServeRead, ServeWrite, Serve, TryOneRequest, StopParsing, Write, Close,
       CloseIdle, ExpireKeys, PollInterrupted, vars, tables
  <2>2. Deadlines' = Deadlines
    BY <2>1 DEF Deadlines, Live
  <2>3. now' = now \/ now' = now + 1
    BY <1>2 DEF Next, ServerStep, Connect, Send, Receive, Hangup, Reset, Tick, PollEnter, PollReturn,
       Accept, AcceptNothing, ServeRead, ServeWrite, Serve, TryOneRequest, StopParsing, Write, Close,
       CloseIdle, ExpireKeys, PollInterrupted, vars, kernel
  <2>4. now \in Nat /\ wake \in Int
    BY LoopAssumption DEF Inv, TypeOK, Forever
  <2> QED
    BY <1>2, <2>1, <2>2, <2>3, <2>4 DEF Asleep, SleepsUntilDeadline
<1>3. ASSUME pc # "poll", ~PollEnter
      PROVE  pc' # "poll"
  BY <1>3 DEF Next, ServerStep, Connect, Send, Receive, Hangup, Reset, Tick, PollReturn,
     Accept, AcceptNothing, NextPhase, ServeRead, ServeWrite, ReadData, ReadNothing, TryOneRequest,
     ParseNext, StopParsing, Write, WriteSome, WriteError, WriteKilled, Close, CloseIdle, ExpireKeys,
     PollInterrupted, vars
<1> QED
  BY <1>1, <1>2, <1>3, KeysNearKept DEF Asleep, SleepsUntilDeadline

\* As long as no TTL leaves the range of the timeout, poll() sleeps until the
\* earliest deadline of a connection or key, and no longer.
THEOREM SleepsCorrect ==
    ASSUME TimeoutsInRange PROVE Spec => []SleepsUntilDeadline
<1>1. Init => Asleep
  BY DEF Init, Asleep, KeysNear, SleepsUntilDeadline
<1>2. Inv /\ Asleep /\ [Next]_vars => Asleep'
  BY AsleepStep
<1>3. Asleep => SleepsUntilDeadline
  BY DEF Asleep
<1> QED
  BY <1>1, <1>2, <1>3, Invariant, PTL DEF Spec
=============================================================================
