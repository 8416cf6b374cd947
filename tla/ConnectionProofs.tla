-------------------------- MODULE ConnectionProofs ---------------------------
(***************************************************************************)
(* Theorems about Connection, and about the buffers and the messages it is *)
(* made of, for every size, every set of commands and replies, every       *)
(* number of requests and of signals: the client and the server stay in    *)
(* step, and what either appends to a buffer stays inside its allocation.  *)
(***************************************************************************)
EXTENDS Connection, SequenceTheorems, WellFoundedInduction, TLAPS

Buffers(B) == [cap : Nat, lo : Nat, data : Seq(B)]

\* The numbers are well-founded: what a proof by induction uses.
LEMMA LeastElement ==
    ASSUME NEW S, S \subseteq Nat, S # {}
    PROVE  \E x \in S : \A y \in S : x <= y
<1> DEFINE LessThan == {ss \in Nat \X Nat : ss[1] < ss[2]}
<1>1. IsWellFoundedOn(LessThan, Nat)
  BY NatLessThanWellFounded DEF OpToRel
<1>2. PICK x \in S : \A y \in S : <<y, x>> \notin LessThan
  BY <1>1, WFMin
<1>3. ASSUME NEW y \in S
      PROVE  x <= y
  <2>1. <<y, x>> \in Nat \X Nat /\ <<y, x>>[1] = y /\ <<y, x>>[2] = x
    OBVIOUS
  <2> QED
    BY <1>2, <2>1
<1> QED
  BY <1>3

-----------------------------------------------------------------------------
(* Pow2 exists: up to every n there is a function that doubles, any two of  *)
(* them agree, and together they are one on all of Nat.                     *)

Doubles(g, n) ==
    g \in [0..n -> Nat] /\ \A k \in 0..n : g[k] = IF k = 0 THEN 1 ELSE 2 * g[k - 1]

\* Up to every n there is a function that doubles.
LEMMA DoublingExists == \A n \in Nat : \E g : Doubles(g, n)
<1> DEFINE S == {n \in Nat : ~\E g : Doubles(g, n)}
<1> SUFFICES ASSUME S # {}
             PROVE  FALSE
  OBVIOUS
<1>1. PICK n \in S : \A m \in S : n <= m
  <2>1. S \subseteq Nat
    OBVIOUS
  <2> QED
    BY <2>1, LeastElement
<1>2. CASE n = 0
  <2>1. Doubles([k \in 0..0 |-> 1], 0)
    BY DEF Doubles
  <2> QED
    BY <1>2, <2>1
<1>3. CASE n # 0
  <2>1. n - 1 \in Nat /\ n - 1 \notin S
    BY <1>1, <1>3
  <2>2. PICK g : Doubles(g, n - 1)
    BY <2>1
  <2> DEFINE h == [k \in 0..n |-> IF k = n THEN 2 * g[n - 1] ELSE g[k]]
  <2>3. g[n - 1] \in Nat /\ \A k \in 0..(n - 1) : g[k] \in Nat /\ h[k] = g[k]
    BY <2>1, <2>2 DEF Doubles
  <2>4. h \in [0..n -> Nat]
    <3>1. \A k \in 0..n : k = n \/ k \in 0..(n - 1)
      BY <2>1
    <3>2. 2 * g[n - 1] \in Nat
      BY <2>3
    <3> QED
      BY <2>3, <3>1, <3>2
  <2>5. ASSUME NEW k \in 0..n
        PROVE  h[k] = IF k = 0 THEN 1 ELSE 2 * h[k - 1]
    <3>1. CASE k = n
      BY <1>3, <2>1, <2>3, <3>1
    <3>2. CASE k # n
      BY <2>1, <2>2, <2>3, <3>2 DEF Doubles
    <3> QED
      BY <3>1, <3>2
  <2>6. Doubles(h, n)
    BY <2>4, <2>5 DEF Doubles
  <2> QED
    BY <2>6
<1> QED
  BY <1>2, <1>3

\* Two functions that double agree wherever both are defined.
LEMMA DoublingAgrees ==
    ASSUME NEW m \in Nat, NEW n \in Nat, NEW g, NEW h, Doubles(g, m), Doubles(h, n),
           NEW i \in Nat, i <= m, i <= n
    PROVE  g[i] = h[i]
<1> DEFINE S == {k \in Nat : k <= m /\ k <= n /\ g[k] # h[k]}
<1> SUFFICES ASSUME S # {}
             PROVE  FALSE
  OBVIOUS
<1>1. PICK k \in S : \A l \in S : k <= l
  <2>1. S \subseteq Nat
    OBVIOUS
  <2> QED
    BY <2>1, LeastElement
<1>2. CASE k = 0
  BY <1>1, <1>2 DEF Doubles
<1>3. CASE k # 0
  <2>1. k - 1 \in Nat /\ k - 1 \notin S /\ k - 1 <= m /\ k - 1 <= n
    BY <1>1, <1>3
  <2>2. g[k - 1] = h[k - 1]
    BY <2>1
  <2>3. k \in 0..m /\ k \in 0..n
    BY <1>1
  <2>4. g[k] = 2 * g[k - 1] /\ h[k] = 2 * h[k - 1]
    BY <1>3, <2>3 DEF Doubles
  <2> QED
    BY <1>1, <2>2, <2>4
<1> QED
  BY <1>2, <1>3

\* Pow2 is such a function, on all numbers.
LEMMA Pow2Def ==
    /\ Pow2 \in [Nat -> Nat]
    /\ \A k \in Nat : Pow2[k] = IF k = 0 THEN 1 ELSE 2 * Pow2[k - 1]
<1> DEFINE upTo(n) == CHOOSE g : Doubles(g, n)
           f == [n \in Nat |-> upTo(n)[n]]
<1>1. \A n \in Nat : Doubles(upTo(n), n)
  BY DoublingExists
<1>2. ASSUME NEW n \in Nat
      PROVE  f[n] \in Nat /\ f[n] = IF n = 0 THEN 1 ELSE 2 * f[n - 1]
  <2> HIDE DEF upTo
  <2>1. upTo(n)[n] \in Nat /\ upTo(n)[n] = IF n = 0 THEN 1 ELSE 2 * upTo(n)[n - 1]
    BY <1>1 DEF Doubles
  <2>2. CASE n = 0
    BY <2>1, <2>2
  <2>3. CASE n # 0
    <3>1. n - 1 \in Nat /\ n - 1 <= n
      BY <2>3
    <3>2. Doubles(upTo(n), n) /\ Doubles(upTo(n - 1), n - 1)
      BY <1>1, <3>1
    <3>3. upTo(n)[n - 1] = upTo(n - 1)[n - 1]
      BY <3>1, <3>2, DoublingAgrees
    <3> QED
      BY <2>1, <2>3, <3>1, <3>3
  <2> QED
    BY <2>2, <2>3
<1> HIDE DEF upTo
<1>3. f = [k \in Nat |-> IF k = 0 THEN 1 ELSE 2 * f[k - 1]]
  BY <1>2
<1> HIDE DEF f
<1>4. Pow2 = [k \in Nat |-> IF k = 0 THEN 1 ELSE 2 * Pow2[k - 1]]
  BY <1>3, Zenon DEF Pow2
<1>5. \A k \in Nat : Pow2[k] = IF k = 0 THEN 1 ELSE 2 * Pow2[k - 1]
  BY <1>4
<1>6. DOMAIN Pow2 = Nat
  BY <1>4
<1> DEFINE S == {k \in Nat : Pow2[k] \notin Nat}
<1>7. ASSUME S # {}
      PROVE  FALSE
  <2>1. PICK k \in S : \A l \in S : k <= l
    <3>1. S \subseteq Nat
      OBVIOUS
    <3> QED
      BY <1>7, <3>1, LeastElement
  <2>2. CASE k = 0
    BY <1>5, <2>1, <2>2
  <2>3. CASE k # 0
    <3>1. k - 1 \in Nat /\ k - 1 \notin S
      BY <2>1, <2>3
    <3> QED
      BY <1>5, <2>1, <2>3, <3>1
  <2> QED
    BY <2>2, <2>3
<1>8. \A k \in Nat : Pow2[k] \in Nat
  BY <1>7
<1>9. Pow2 = [k \in Nat |-> Pow2[k]]
  BY <1>4, <1>6
<1> QED
  BY <1>5, <1>8, <1>9

\* It exceeds its argument: doubling gets everywhere.
LEMMA Pow2Grows == \A k \in Nat : Pow2[k] > k
<1> DEFINE S == {k \in Nat : ~(Pow2[k] > k)}
<1> SUFFICES ASSUME S # {}
             PROVE  FALSE
  OBVIOUS
<1>1. PICK k \in S : \A l \in S : k <= l
  <2>1. S \subseteq Nat
    OBVIOUS
  <2> QED
    BY <2>1, LeastElement
<1>2. CASE k = 0
  BY <1>1, <1>2, Pow2Def
<1>3. CASE k # 0
  <2>1. k - 1 \in Nat /\ k - 1 \notin S /\ Pow2[k - 1] \in Nat /\ Pow2[k] = 2 * Pow2[k - 1]
    BY <1>1, <1>3, Pow2Def
  <2> QED
    BY <1>1, <2>1
<1> QED
  BY <1>2, <1>3

-----------------------------------------------------------------------------
(* The allocation.                                                         *)

\* Doubling ends, with room for what is needed.
LEMMA DoubledIsEnough ==
    ASSUME NEW start \in Nat \ {0}, NEW wanted \in Nat
    PROVE  DoubledUntil(start, wanted) \in Nat /\ DoubledUntil(start, wanted) >= wanted
<1> DEFINE caps == {start * Pow2[k] : k \in 0..wanted}
           enough == {c \in caps : c >= wanted}
<1>1. \A k \in 0..wanted : start * Pow2[k] \in Nat
  BY Pow2Def
<1>2. caps \subseteq Nat
  BY <1>1
<1>3. start * Pow2[wanted] \in caps /\ start * Pow2[wanted] >= wanted
  <2>1. start * Pow2[wanted] \in caps
    OBVIOUS
  <2>2. Pow2[wanted] \in Nat /\ Pow2[wanted] > wanted
    BY Pow2Def, Pow2Grows
  <2>3. ASSUME NEW p \in Nat, p > wanted
        PROVE  start * p >= wanted
    BY <2>3
  <2> QED
    BY <2>1, <2>2, <2>3
<1> HIDE DEF caps
<1>4. PICK x \in enough : \A y \in enough : x <= y
  <2>1. enough \subseteq Nat /\ enough # {}
    BY <1>2, <1>3
  <2> QED
    BY <2>1, LeastElement
<1>5. \E c \in caps : c >= wanted /\ \A d \in caps : d >= wanted => c <= d
  BY <1>4
<1>6. DoubledUntil(start, wanted) \in caps /\ DoubledUntil(start, wanted) >= wanted
  BY <1>5 DEF DoubledUntil, caps
<1> QED
  BY <1>2, <1>6

\* buf_append() puts the bytes behind the data, and inside the allocation if
\* there is no gap in front of the data or if no reallocation is needed (the
\* gap is kept by realloc() but not counted, common.cpp:97).
THEOREM AppendFitsInside ==
    ASSUME InitCap \in Nat \ {0}, NEW B, NEW b \in Buffers(B), Fits(b), NEW bytes \in Seq(B),
           b.lo = 0 \/ Len(bytes) <= b.cap - size(b)
    PROVE  LET a == BufAppend(b, bytes)
           IN  a \in Buffers(B) /\ Fits(a) /\ a.data = b.data \o bytes /\ a.lo <= b.lo
<1> DEFINE wanted == size(b) + Len(bytes)
           start == IF b.cap = 0 THEN InitCap ELSE 2 * b.cap
           all == b.data \o bytes
<1>1. /\ b = [cap |-> b.cap, lo |-> b.lo, data |-> b.data]
      /\ b.cap \in Nat /\ b.lo \in Nat /\ b.data \in Seq(B)
      /\ size(b) \in Nat /\ Len(bytes) \in Nat /\ wanted \in Nat /\ start \in Nat \ {0}
      /\ all \in Seq(B) /\ Len(all) = wanted
  BY DEF Buffers, size
<1>2. DoubledUntil(start, wanted) \in Nat /\ DoubledUntil(start, wanted) >= wanted
  BY <1>1, DoubledIsEnough
<1> HIDE DEF wanted, start, all
<1>3. BufAppend(b, bytes) =
        IF Len(bytes) <= b.cap - (b.lo + size(b)) THEN [cap |-> b.cap, lo |-> b.lo, data |-> all]
        ELSE IF Len(bytes) <= b.cap - size(b) THEN [cap |-> b.cap, lo |-> 0, data |-> all]
        ELSE [cap |-> DoubledUntil(start, wanted), lo |-> b.lo, data |-> all]
  BY DEF BufAppend, all, start, wanted
<1>4. wanted = size(b) + Len(bytes) /\ b.lo + size(b) <= b.cap
  BY DEF wanted, Fits
<1> DEFINE a == BufAppend(b, bytes)
<1>5. CASE Len(bytes) <= b.cap - (b.lo + size(b))
  <2>1. a = [cap |-> b.cap, lo |-> b.lo, data |-> all]
    BY <1>3, <1>5
  <2> QED
    BY <1>1, <1>4, <1>5, <2>1 DEF Buffers, Fits, size, all
<1>6. CASE ~(Len(bytes) <= b.cap - (b.lo + size(b))) /\ Len(bytes) <= b.cap - size(b)
  <2>1. a = [cap |-> b.cap, lo |-> 0, data |-> all]
    BY <1>3, <1>6
  <2> QED
    BY <1>1, <1>4, <1>6, <2>1 DEF Buffers, Fits, size, all
<1>7. CASE ~(Len(bytes) <= b.cap - (b.lo + size(b))) /\ ~(Len(bytes) <= b.cap - size(b))
  <2>1. a = [cap |-> DoubledUntil(start, wanted), lo |-> b.lo, data |-> all] /\ b.lo = 0
    BY <1>3, <1>7
  <2> QED
    BY <1>1, <1>2, <1>4, <2>1 DEF Buffers, Fits, size, all
<1> QED
  BY <1>5, <1>6, <1>7

\* buf_consume() takes the bytes from the front and leaves the rest where it
\* is; when nothing is left the gap is closed.
THEOREM ConsumeKeepsInside ==
    ASSUME NEW B, NEW b \in Buffers(B), Fits(b), NEW n \in 0..size(b)
    PROVE  LET a == BufConsume(b, n)
           IN  /\ a \in Buffers(B) /\ Fits(a)
               /\ a.data = SubSeq(b.data, n + 1, Len(b.data))
               /\ a.data = <<>> => a.lo = 0
<1> DEFINE rest == SubSeq(b.data, n + 1, Len(b.data))
<1>1. /\ b = [cap |-> b.cap, lo |-> b.lo, data |-> b.data]
      /\ b.cap \in Nat /\ b.lo \in Nat /\ b.data \in Seq(B) /\ size(b) = Len(b.data)
      /\ n \in Nat /\ n <= Len(b.data) /\ rest \in Seq(B) /\ Len(rest) = Len(b.data) - n
  BY DEF Buffers, size
<1>2. n = Len(b.data) => rest = <<>>
  BY <1>1
<1>3. n # Len(b.data) => rest # <<>>
  <2>1. Len(<<>>) = 0
    OBVIOUS
  <2> HIDE DEF rest
  <2> QED
    BY <1>1, <2>1
<1> HIDE DEF rest
<1>4. BufConsume(b, n) = [cap |-> b.cap, lo |-> IF n = Len(b.data) THEN 0 ELSE b.lo + n, data |-> rest]
  BY <1>1 DEF BufConsume, rest
<1>5. CASE n = Len(b.data)
  <2>1. BufConsume(b, n) = [cap |-> b.cap, lo |-> 0, data |-> rest]
    BY <1>2, <1>4, <1>5
  <2> QED
    BY <1>1, <1>5, <2>1 DEF Buffers, Fits, size, rest
<1>6. CASE n # Len(b.data)
  <2>1. BufConsume(b, n) = [cap |-> b.cap, lo |-> b.lo + n, data |-> rest]
    BY <1>3, <1>4, <1>6
  <2> QED
    BY <1>1, <1>3, <1>6, <2>1 DEF Buffers, Fits, size, rest
<1> QED
  BY <1>5, <1>6

-----------------------------------------------------------------------------
(* Sequences.                                                              *)

\* A sequence is its first n elements and the rest.
Cut(S, s, n) ==
    /\ s = SubSeq(s, 1, n) \o SubSeq(s, n + 1, Len(s))
    /\ SubSeq(s, 1, n) \in Seq(S) /\ SubSeq(s, n + 1, Len(s)) \in Seq(S)
    /\ Len(SubSeq(s, 1, n)) = n /\ Len(SubSeq(s, n + 1, Len(s))) = Len(s) - n

LEMMA CutInTwo ==
    ASSUME NEW S, NEW s \in Seq(S), NEW n \in 0..Len(s)
    PROVE  Cut(S, s, n)
<1>1. Len(s) \in Nat /\ \A i \in 1..Len(s) : s[i] \in S
  OBVIOUS
<1>2. n \in Nat /\ n <= Len(s) /\ 1 \in 1..Len(s)+1 /\ n \in 0..Len(s) /\ Len(s) \in n..Len(s)
  BY <1>1
<1>3. s = SubSeq(s, 1, n) \o SubSeq(s, n + 1, Len(s))
  <2>1. SubSeq(s, 1, Len(s)) = s
    BY SubSeqFull
  <2>2. 1 - 1 = 0
    OBVIOUS
  <2> QED
    BY <1>2, <2>1, <2>2, ConcatAdjacentSubSeq
<1>4. SubSeq(s, 1, n) \in Seq(S) /\ Len(SubSeq(s, 1, n)) = n
  BY <1>1, <1>2
<1>5. SubSeq(s, n + 1, Len(s)) \in Seq(S) /\ Len(SubSeq(s, n + 1, Len(s))) = Len(s) - n
  BY <1>1, <1>2
<1> QED
  BY <1>3, <1>4, <1>5 DEF Cut

\* Concatenation is associative.
Regrouped(x, y, z) == (x \o y) \o z = x \o (y \o z)

\* ... stated in one word, which the provers match at once.
LEMMA Regrouping ==
    ASSUME NEW S, NEW x \in Seq(S), NEW y \in Seq(S), NEW z \in Seq(S)
    PROVE  Regrouped(x, y, z)
BY DEF Regrouped

\* What follows the same front is the same.
LEMMA CancelFront ==
    ASSUME NEW S, NEW m \in Seq(S), NEW s \in Seq(S), NEW t \in Seq(S), m \o s = m \o t
    PROVE  s = t
<1>1. Len(m \o s) = Len(m) + Len(s) /\ Len(m \o t) = Len(m) + Len(t)
  OBVIOUS
<1>2. Len(m) \in Nat /\ Len(s) \in Nat /\ Len(t) \in Nat
  OBVIOUS
<1>3. Len(s) = Len(t)
  BY <1>1, <1>2
<1>4. ASSUME NEW i \in 1..Len(s)
      PROVE  s[i] = t[i]
  <2>1. (m \o s)[Len(m) + i] = s[i] /\ (m \o t)[Len(m) + i] = t[i]
    BY <1>2, <1>3
  <2> QED
    BY <2>1
<1> QED
  BY <1>3, <1>4, SeqEqual

\* Of two fronts of the same sequence the longer one begins with the other.
SplitBy(s, m, c, t, S) ==
    LET r == SubSeq(s, Len(m) + 1, Len(s))
    IN  r \in Seq(S) /\ s = m \o r /\ c = r \o t /\ SubSeq(s, 1, Len(m)) = m

\* If two sequences begin alike, the one's rest is in the other.
LEMMA CommonFront ==
    ASSUME NEW S, NEW s \in Seq(S), NEW t \in Seq(S), NEW m \in Seq(S), NEW c \in Seq(S),
           s \o t = m \o c, Len(m) <= Len(s)
    PROVE  SplitBy(s, m, c, t, S)
<1> DEFINE f == SubSeq(s, 1, Len(m))
           r == SubSeq(s, Len(m) + 1, Len(s))
<1>1. Len(m) \in 0..Len(s)
  OBVIOUS
<1>2. s = f \o r /\ f \in Seq(S) /\ r \in Seq(S) /\ Len(f) = Len(m)
  <2>1. Cut(S, s, Len(m))
    BY <1>1, CutInTwo
  <2> QED
    BY <2>1 DEF Cut
<1>3. f = m
  <2>1. ASSUME NEW i \in 1..Len(m)
        PROVE  f[i] = m[i]
    <3>1. (s \o t)[i] = s[i] /\ (m \o c)[i] = m[i]
      OBVIOUS
    <3>2. f[i] = s[i]
      BY <1>1
    <3> QED
      BY <3>1, <3>2
  <2> HIDE DEF f
  <2> QED
    BY <1>2, <2>1, SeqEqual
<1> HIDE DEF f, r
<1>4. m \o (r \o t) = m \o c
  <2>1. r \in Seq(S)
    BY <1>2
  <2>2. (m \o r) \o t = m \o (r \o t)
    BY <2>1
  <2> QED
    BY <1>2, <1>3, <2>2
<1>5. r \o t = c
  <2>1. r \o t \in Seq(S)
    BY <1>2
  <2> QED
    BY <1>4, <2>1, CancelFront
<1> QED
  BY <1>2, <1>3, <1>5 DEF SplitBy, f, r

\* What is proved of 0, and of n + 1 from n, is true of every number up to N.
LEMMA UpTo ==
    ASSUME NEW N \in Nat, NEW S, 0 \in S, \A n \in 0..N : n < N /\ n \in S => n + 1 \in S
    PROVE  0..N \subseteq S
<1> DEFINE R == {n \in 0..N : n \notin S}
<1> SUFFICES ASSUME R # {}
             PROVE  FALSE
  OBVIOUS
<1>1. PICK n \in R : \A m \in R : n <= m
  <2>1. R \subseteq Nat
    OBVIOUS
  <2> QED
    BY <2>1, LeastElement
<1>2. n - 1 \in 0..N /\ n - 1 \in S /\ n - 1 < N
  BY <1>1
<1> QED
  BY <1>1, <1>2

\* A recursive function on 0..N exists, and has the type its steps have.
Steps(step, N, X) == step \in [1..N -> [X -> X]]

Iterates(f, N, X, x, step) ==
    f \in [0..N -> X] /\ f[0] = x /\ \A i \in 1..N : f[i] = step[i][f[i - 1]]

\* A recursion whose steps have a type defines a function.
LEMMA Recursion ==
    ASSUME NEW N \in Nat, NEW X, NEW x \in X, NEW step, Steps(step, N, X)
    PROVE  \E f : Iterates(f, N, X, x, step)
<1> DEFINE Is(f, n) == f[0] = x /\ \A i \in 1..n : f[i] = step[i][f[i - 1]]
           S == {n \in 0..N : \E f \in [0..N -> X] : Is(f, n)}
<1>0. step \in [1..N -> [X -> X]]
  BY DEF Steps
<1>1. 0 \in S
  <2>1. [i \in 0..N |-> x] \in [0..N -> X] /\ Is([i \in 0..N |-> x], 0) /\ 0 \in 0..N
    OBVIOUS
  <2> HIDE DEF Is
  <2> QED
    BY <2>1
<1>2. ASSUME NEW n \in 0..N, n < N, n \in S
      PROVE  n + 1 \in S
  <2>1. PICK f \in [0..N -> X] : Is(f, n)
    BY <1>2
  <2>2. n + 1 \in 1..N /\ n + 1 \in 0..N /\ n \in 0..N
    BY <1>2
  <2> DEFINE v == step[n + 1][f[n]]
             g == [f EXCEPT ![n + 1] = v]
  <2>3. v \in X
    BY <1>0, <2>1, <2>2
  <2>4. g \in [0..N -> X] /\ g[n + 1] = v /\ \A i \in 0..n : g[i] = f[i]
    BY <2>1, <2>2, <2>3
  <2>5. ASSUME NEW i \in 1..(n + 1)
        PROVE  g[i] = step[i][g[i - 1]]
    <3>1. CASE i = n + 1
      <4>1. i - 1 = n /\ g[n] = f[n]
        BY <2>4, <3>1
      <4> QED
        BY <2>4, <3>1, <4>1
    <3>2. CASE i # n + 1
      <4>1. i \in 0..n /\ i - 1 \in 0..n /\ i \in 1..n
        BY <3>2
      <4> QED
        BY <2>1, <2>4, <4>1
    <3> QED
      BY <3>1, <3>2
  <2>6. Is(g, n + 1)
    BY <2>1, <2>4, <2>5
  <2> QED
    BY <2>2, <2>4, <2>6
<1>3. N \in S
  <2> HIDE DEF S
  <2>1. 0..N \subseteq S
    BY <1>1, <1>2, UpTo
  <2> QED
    BY <2>1
<1> QED
  BY <1>3 DEF Iterates

-----------------------------------------------------------------------------
(* Buffers that grow.                                                      *)

Tight(b) == b.lo = 0 /\ Fits(b)

\* Wherever the data are: buf_append() puts the bytes behind them.
LEMMA AppendBehind ==
    ASSUME NEW B, NEW b \in Buffers(B), NEW bytes \in Seq(B)
    PROVE  LET a == BufAppend(b, bytes)
           IN  a \in Buffers(B) /\ a.data = b.data \o bytes /\ (Tight(b) => Tight(a))
<1> DEFINE wanted == size(b) + Len(bytes)
           start == IF b.cap = 0 THEN InitCap ELSE 2 * b.cap
           all == b.data \o bytes
           a == BufAppend(b, bytes)
<1>1. /\ b = [cap |-> b.cap, lo |-> b.lo, data |-> b.data]
      /\ b.cap \in Nat /\ b.lo \in Nat /\ b.data \in Seq(B)
      /\ size(b) \in Nat /\ Len(bytes) \in Nat /\ wanted \in Nat /\ start \in Nat \ {0}
      /\ all \in Seq(B)
  BY InitCapAssumption DEF Buffers, size
<1>2. DoubledUntil(start, wanted) \in Nat
  BY <1>1, DoubledIsEnough
<1>3. Tight(b) => Tight(a)
  <2>1. b.lo = 0 => b.lo = 0 \/ Len(bytes) <= b.cap - size(b)
    OBVIOUS
  <2>2. Tight(b) => Fits(a) /\ a.lo <= b.lo /\ a.lo \in Nat
    BY <2>1, AppendFitsInside, InitCapAssumption DEF Tight, Buffers
  <2> HIDE DEF a
  <2> QED
    BY <2>2 DEF Tight
<1> HIDE DEF wanted, start, all
<1>4. a =
        IF Len(bytes) <= b.cap - (b.lo + size(b)) THEN [cap |-> b.cap, lo |-> b.lo, data |-> all]
        ELSE IF Len(bytes) <= b.cap - size(b) THEN [cap |-> b.cap, lo |-> 0, data |-> all]
        ELSE [cap |-> DoubledUntil(start, wanted), lo |-> b.lo, data |-> all]
  BY DEF BufAppend, all, start, wanted
<1> HIDE DEF a
<1>5. \/ a = [cap |-> b.cap, lo |-> b.lo, data |-> all]
      \/ a = [cap |-> b.cap, lo |-> 0, data |-> all]
      \/ a = [cap |-> DoubledUntil(start, wanted), lo |-> b.lo, data |-> all]
  BY <1>4
<1>6. a \in Buffers(B) /\ a.data = all
  BY <1>1, <1>2, <1>5 DEF Buffers
<1> QED
  BY <1>3, <1>6 DEF all, a

\* buf_resize() to a smaller size drops bytes at the end.
LEMMA ResizeShrinks ==
    ASSUME NEW B, NEW b \in Buffers(B), NEW n \in Nat, n <= size(b)
    PROVE  LET a == BufResize(b, n)
           IN  /\ a \in Buffers(B) /\ a.data = SubSeq(b.data, 1, n) /\ size(a) = n
               /\ Tight(b) => Tight(a)
<1>1. /\ b = [cap |-> b.cap, lo |-> b.lo, data |-> b.data]
      /\ b.cap \in Nat /\ b.lo \in Nat /\ b.data \in Seq(B) /\ size(b) = Len(b.data)
  BY DEF Buffers, size
<1> DEFINE front == SubSeq(b.data, 1, n)
<1>2. front \in Seq(B) /\ Len(front) = n
  BY <1>1, CutInTwo DEF Cut
<1>3. BufResize(b, n) = [cap |-> b.cap, lo |-> b.lo, data |-> front]
  BY <1>1 DEF BufResize
<1> HIDE DEF front
<1>4. BufResize(b, n) \in Buffers(B) /\ size(BufResize(b, n)) = n
  BY <1>1, <1>2, <1>3 DEF Buffers, size
<1>5. Tight(b) => Tight(BufResize(b, n))
  BY <1>1, <1>2, <1>3 DEF Tight, Fits, size
<1> QED
  BY <1>3, <1>4, <1>5 DEF front

\* To a bigger size it adds zeroes, and no byte that nobody has written: none
\* of the data moves when there is no gap in front of it.
LEMMA ResizeGrows ==
    ASSUME NEW B, Zero \in B, NEW b \in Buffers(B), Tight(b), NEW n \in Nat, n > size(b)
    PROVE  LET a == BufResize(b, n)
           IN  /\ a \in Buffers(B) /\ Tight(a) /\ size(a) = n
               /\ SubSeq(a.data, 1, size(b)) = b.data
<1> DEFINE J == B \cup {Junk}
           junk == [i \in 1..(n - size(b)) |-> Junk]
           room == BufAppend(b, junk)
<1>1. /\ b.cap \in Nat /\ b.lo = 0 /\ b.data \in Seq(B) /\ size(b) = Len(b.data) /\ size(b) \in Nat
      /\ Fits(b)
  BY DEF Buffers, size, Tight
<1>2. b \in Buffers(J)
  <2>1. b.data \in Seq(J)
    BY <1>1, SeqMonotonic
  <2>2. b = [cap |-> b.cap, lo |-> b.lo, data |-> b.data] /\ b.lo \in Nat
    BY DEF Buffers
  <2> HIDE DEF J
  <2> QED
    BY <1>1, <2>1, <2>2 DEF Buffers
<1>3. junk \in Seq(J) /\ Len(junk) = n - size(b)
  <2>1. n - size(b) \in Nat
    BY <1>1
  <2> QED
    BY <2>1
<1> HIDE DEF junk, J
<1>4. /\ room \in Buffers(J) /\ room.data = b.data \o junk /\ Tight(room)
  BY <1>2, <1>3, AppendBehind
<1> HIDE DEF room
<1>5. /\ room.lo = 0 /\ room.cap \in Nat /\ Len(room.data) = n /\ size(room) = n
      /\ \A i \in 1..size(b) : room.data[i] = b.data[i] /\ b.data[i] \in B
      /\ n <= room.cap
  <2>1. b.data \in Seq(J)
    BY <1>2 DEF Buffers
  <2>2. Len(room.data) = n
    BY <1>1, <1>3, <1>4, <2>1
  <2>3. \A i \in 1..size(b) : room.data[i] = b.data[i] /\ b.data[i] \in B
    BY <1>1, <1>3, <1>4, <2>1
  <2>4. room.lo = 0 /\ room.cap \in Nat
    BY <1>4 DEF Tight, Buffers
  <2> QED
    BY <1>4, <2>2, <2>3, <2>4 DEF Tight, Fits, size
<1> DEFINE data == [i \in 1..n |-> IF i \in (size(b) + 1)..n THEN Zero ELSE room.data[i]]
<1>6. BufResize(b, n) = [cap |-> room.cap, lo |-> room.lo, data |-> data]
  <2>1. ~(n <= size(b))
    BY <1>1
  <2>2. room = [cap |-> room.cap, lo |-> room.lo, data |-> room.data]
    BY <1>4 DEF Buffers
  <2>3. \A i \in 1..n : room.lo + i = i
    BY <1>5
  <2>4. b.lo + size(b) = size(b) /\ size(b) + n - size(b) = n
    BY <1>1
  <2> DEFINE written == [i \in 1..n |->
                 IF room.lo + i \in (b.lo + size(b) + 1)..(b.lo + size(b) + n - size(b)) THEN Zero
                 ELSE room.data[i]]
  <2>5. written = data
    BY <2>3, <2>4
  <2>6. BufResize(b, n) = [room EXCEPT !.data = written]
    BY <2>1 DEF BufResize, room, junk
  <2> HIDE DEF written, data
  <2> QED
    BY <2>2, <2>5, <2>6
<1>7. data \in Seq(B) /\ Len(data) = n
  <2>1. \A i \in 1..n : data[i] \in B
    BY <1>1, <1>5
  <2> QED
    BY <2>1
<1>8. SubSeq(data, 1, size(b)) = b.data
  <2>1. SubSeq(data, 1, size(b)) \in Seq(B) /\ Len(SubSeq(data, 1, size(b))) = size(b)
    BY <1>1, <1>7
  <2>2. \A i \in 1..size(b) : data[i] = b.data[i]
    BY <1>1, <1>5
  <2>3. \A i \in 1..size(b) : SubSeq(data, 1, size(b))[i] = data[i]
    <3> HIDE DEF data
    <3> QED
      BY <1>1, <1>7
  <2> HIDE DEF data
  <2> QED
    BY <1>1, <2>1, <2>2, <2>3, SeqEqual
<1> HIDE DEF data
<1>9. BufResize(b, n) \in Buffers(B) /\ Tight(BufResize(b, n)) /\ size(BufResize(b, n)) = n
  BY <1>1, <1>5, <1>6, <1>7 DEF Buffers, Tight, Fits, size
<1> QED
  BY <1>6, <1>8, <1>9

\* A function that follows the steps as long as its values have their type.
LEMMA Iterating ==
    ASSUME NEW N \in Nat, NEW X, NEW x \in X, NEW step, Steps(step, N, X),
           NEW g, g = [i \in 0..N |-> g[i]], g[0] = x,
           \A i \in 1..N : g[i - 1] \in X => g[i] = step[i][g[i - 1]]
    PROVE  Iterates(g, N, X, x, step)
<1> DEFINE S == {i \in 0..N : g[i] \in X}
<1>1. 0..N \subseteq S
  <2>1. 0 \in S
    OBVIOUS
  <2>2. ASSUME NEW i \in 0..N, i < N, i \in S
        PROVE  i + 1 \in S
    <3>1. PICK j \in 1..N : j = i + 1 /\ j - 1 = i
      BY <2>2
    <3>2. g[i] \in X
      BY <2>2
    <3>3. g[j] = step[j][g[i]]
      BY <3>1, <3>2
    <3>4. step[j] \in [X -> X]
      BY <3>1 DEF Steps
    <3> QED
      BY <3>1, <3>2, <3>3, <3>4
  <2> HIDE DEF S
  <2> QED
    BY <2>1, <2>2, UpTo
<1>2. \A i \in 0..N : g[i] \in X
  BY <1>1
<1>3. g \in [0..N -> X]
  BY <1>2
<1>4. ASSUME NEW i \in 1..N
      PROVE  g[i] = step[i][g[i - 1]]
  <2>1. i - 1 \in 0..N
    OBVIOUS
  <2> QED
    BY <1>2, <2>1
<1> QED
  BY <1>3, <1>4 DEF Iterates

\* RequestSize() adds up the fields.
LEMMA SumIs ==
    ASSUME NEW cmd \in Seq(Nat)
    PROVE  \E sum \in [0..Len(cmd) -> Nat] :
              /\ sum[0] = U32 /\ sum[Len(cmd)] = RequestSize(cmd)
              /\ \A i \in 1..Len(cmd) : sum[i] = sum[i - 1] + U32 + cmd[i]
<1> DEFINE N == Len(cmd)
           step == [i \in 1..N |-> [n \in Nat |-> n + U32 + cmd[i]]]
           Sums(s) == s = [i \in 0..Len(cmd) |-> IF i = 0 THEN U32 ELSE s[i - 1] + U32 + cmd[i]]
           sum == CHOOSE s : Sums(s)
<1>1. U32 \in Nat /\ N \in Nat /\ \A i \in 1..N : cmd[i] \in Nat
  BY WireAssumption
<1>2. Steps(step, N, Nat)
  BY <1>1 DEF Steps
<1>3. ASSUME NEW i \in 1..N, NEW n \in Nat
      PROVE  step[i][n] = n + U32 + cmd[i]
  OBVIOUS
<1>4. RequestSize(cmd) = sum[N]
  BY DEF RequestSize
<1>5. Sums(sum)
  <2> HIDE DEF step
  <2>1. PICK f : Iterates(f, N, Nat, U32, step)
    BY <1>1, <1>2, Recursion
  <2>2. f \in [0..N -> Nat] /\ f[0] = U32
    BY <2>1 DEF Iterates
  <2>3. ASSUME NEW i \in 1..N
        PROVE  f[i] = f[i - 1] + U32 + cmd[i]
    <3>1. i - 1 \in 0..N
      BY <1>1
    <3>2. f[i] = step[i][f[i - 1]]
      BY <2>1 DEF Iterates
    <3> QED
      BY <1>3, <2>2, <3>1, <3>2
  <2>4. \A i \in 0..N : i = 0 \/ i \in 1..N
    BY <1>1
  <2>5. \A i \in 0..N : f[i] = IF i = 0 THEN U32 ELSE f[i - 1] + U32 + cmd[i]
    BY <2>2, <2>3, <2>4
  <2>6. Sums(f)
    BY <2>2, <2>5
  <2> HIDE DEF Sums
  <2> QED
    BY <2>6
<1> HIDE DEF sum, step
<1>6. sum = [i \in 0..N |-> sum[i]] /\ sum[0] = U32
  BY <1>1, <1>5
<1>7. ASSUME NEW i \in 1..N
      PROVE  sum[i] = sum[i - 1] + U32 + cmd[i]
  BY <1>1, <1>5
<1>8. Iterates(sum, N, Nat, U32, step)
  <2>1. \A i \in 1..N : sum[i - 1] \in Nat => sum[i] = step[i][sum[i - 1]]
    BY <1>3, <1>7
  <2> HIDE DEF N
  <2> QED
    BY <1>1, <1>2, <1>6, <2>1, Iterating
<1> QED
  BY <1>4, <1>7, <1>8 DEF Iterates

-----------------------------------------------------------------------------
(* Fields, and buffers that have become longer by some of them.            *)

\* The fields of a message are bytes, as many as they should be.
LEMMA Fields ==
    ASSUME NEW k \in Nat, NEW n \in Nat
    PROVE  /\ u32(k, n) \in Seq(Bytes) /\ Len(u32(k, n)) = U32
           /\ \A i \in 1..U32 : u32(k, n)[i] = <<k, "u32", i, n>>
           /\ num(k) \in Seq(Bytes) /\ Len(num(k)) = W64
           /\ str(k, n) \in Seq(Bytes) /\ Len(str(k, n)) = n
<1>1. U32 \in Nat /\ W64 \in Nat
  BY WireAssumption
<1>2. ASSUME NEW i \in Nat, NEW m \in Nat
      PROVE  <<k, "u32", i, m>> \in Bytes /\ <<k, "num", i, m>> \in Bytes
             /\ <<k, "char", i, m>> \in Bytes
  BY DEF Bytes
<1>3. u32(k, n) \in Seq(Bytes) /\ Len(u32(k, n)) = U32 
  <2>1. ASSUME NEW i \in 1..U32
        PROVE  <<k, "u32", i, n>> \in Bytes
    <3>1. i \in Nat
      OBVIOUS
    <3> QED
      BY <1>2, <3>1
  <2> QED
    BY <1>1, <2>1 DEF u32
<1>4. num(k) \in Seq(Bytes) /\ Len(num(k)) = W64
  <2>1. ASSUME NEW i \in 1..W64
        PROVE  <<k, "num", i, 0>> \in Bytes
    <3>1. i \in Nat /\ 0 \in Nat
      OBVIOUS
    <3> QED
      BY <1>2, <3>1
  <2> QED
    BY <1>1, <2>1 DEF num
<1>5. str(k, n) \in Seq(Bytes) /\ Len(str(k, n)) = n
  <2>1. ASSUME NEW i \in 1..n
        PROVE  <<k, "char", i, 0>> \in Bytes
    <3>1. i \in Nat /\ 0 \in Nat
      OBVIOUS
    <3> QED
      BY <1>2, <3>1
  <2> QED
    BY <2>1 DEF str
<1>6. \A i \in 1..U32 : u32(k, n)[i] = <<k, "u32", i, n>>
  BY DEF u32
<1> QED
  BY <1>3, <1>4, <1>5, <1>6

\* A tag is one byte that tells the type.
LEMMA TagIs ==
    ASSUME NEW k \in Nat, NEW t \in Tags
    PROVE  tag(k, t) \in Seq(Bytes) /\ Len(tag(k, t)) = 1 /\ tag(k, t)[1] = <<k, t, 1, 0>>
<1>1. <<k, t, 1, 0>> \in Bytes
  BY DEF Bytes
<1> DEFINE e == <<k, t, 1, 0>>
<1>2. tag(k, t) = <<e>>
  BY DEF tag
<1> HIDE DEF e
<1>3. e \in Bytes
  BY <1>1 DEF e
<1>4. tag(k, t) \in Seq(Bytes) /\ Len(tag(k, t)) = 1 /\ tag(k, t)[1] = e
  BY <1>2, <1>3
<1> QED
  BY <1>4 DEF e

\* The value of a field, wherever it is.
LEMMA ReadField ==
    ASSUME NEW x \in Seq(Bytes), NEW y \in Seq(Bytes), NEW k \in Nat, NEW n \in Nat
    PROVE  U32At(x \o (u32(k, n) \o y), Len(x)) = n
<1>1. U32 \in Nat \ {0}
  BY WireAssumption
<1>2. u32(k, n) \in Seq(Bytes) /\ Len(u32(k, n)) = U32 /\ u32(k, n)[1] = <<k, "u32", 1, n>>
  <2>1. 1 \in 1..U32
    BY <1>1
  <2> QED
    BY <2>1, Fields
<1> DEFINE f == u32(k, n)
<1> HIDE DEF f
<1>3. f \in Seq(Bytes) /\ Len(f) = U32 /\ f[1][4] = n
  <2>1. <<k, "u32", 1, n>>[4] = n
    OBVIOUS
  <2> QED
    BY <1>2, <2>1 DEF f
<1>4. (f \o y)[1] = f[1] /\ f \o y \in Seq(Bytes) /\ Len(f \o y) > 0
  BY <1>1, <1>3
<1> DEFINE g == f \o y
<1> HIDE DEF g
<1>5. (x \o g)[Len(x) + 1] = g[1]
  BY <1>4 DEF g
<1> QED
  BY <1>3, <1>4, <1>5 DEF U32At, f, g

Longer(a, b, s) == a \in Buffers(Bytes) /\ a.data = b.data \o s /\ (Tight(b) => Tight(a))

\* A buffer to which nothing is appended.
LEMMA LongerNot ==
    ASSUME NEW b \in Buffers(Bytes)
    PROVE  Longer(b, b, <<>>)
<1>1. b.data \in Seq(Bytes)
  BY DEF Buffers
<1>2. b.data \o <<>> = b.data
  BY <1>1
<1> QED
  BY <1>2 DEF Longer

\* What is appended in two parts is appended.
LEMMA LongerTwice ==
    ASSUME NEW a, NEW b \in Buffers(Bytes), NEW c, NEW s \in Seq(Bytes), NEW t \in Seq(Bytes),
           Longer(a, b, s), Longer(c, a, t)
    PROVE  Longer(c, b, s \o t)
<1>1. b.data \in Seq(Bytes)
  BY DEF Buffers
<1>2. (b.data \o s) \o t = b.data \o (s \o t)
  <2> DEFINE d == b.data
  <2>1. d \in Seq(Bytes)
    BY <1>1
  <2> HIDE DEF d
  <2>2. (d \o s) \o t = d \o (s \o t)
    BY <2>1
  <2> QED
    BY <2>2 DEF d
<1> QED
  BY <1>2 DEF Longer

\* buf_append() makes a buffer longer.
LEMMA LongerBy ==
    ASSUME NEW a, NEW b \in Buffers(Bytes), NEW s \in Seq(Bytes), NEW t \in Seq(Bytes),
           Longer(a, b, s)
    PROVE  Longer(a ++ t, b, s \o t)
<1>1. a \in Buffers(Bytes)
  BY DEF Longer
<1>2. Longer(a ++ t, a, t)
  BY <1>1, AppendBehind DEF Longer, ++
<1> QED
  BY <1>1, <1>2, LongerTwice

-----------------------------------------------------------------------------
(* Requests.                                                               *)

\* send_req() writes as many bytes as its header says, and names the request
\* in the first byte behind the header.
LEMMA RequestIs ==
    ASSUME NEW k \in Nat, NEW cmd \in Seq(Nat), NEW nstr \in Nat
    PROVE  /\ RequestSize(cmd) \in Nat /\ RequestSize(cmd) >= U32
           /\ \E p \in Seq(Bytes) :
                 /\ Request(k, cmd, nstr).data = u32(k, RequestSize(cmd)) \o p
                 /\ Len(p) = RequestSize(cmd) /\ p[1][1] = k
<1> DEFINE N == Len(cmd)
           X == Buffers(Bytes)
           head == u32(k, RequestSize(cmd))
           x == NewBuffer ++ head ++ u32(k, nstr)
           step == [i \in 1..N |-> [b \in X |-> b ++ u32(k, cmd[i]) ++ str(k, cmd[i])]]
           Fills(w) == w = [i \in 0..Len(cmd) |->
                              IF i = 0 THEN NewBuffer ++ u32(k, RequestSize(cmd)) ++ u32(k, nstr)
                              ELSE w[i - 1] ++ u32(k, cmd[i]) ++ str(k, cmd[i])]
           w == CHOOSE w_ : Fills(w_)
<1>1. PICK sum \in [0..N -> Nat] :
         /\ sum[0] = U32 /\ sum[N] = RequestSize(cmd)
         /\ \A i \in 1..N : sum[i] = sum[i - 1] + U32 + cmd[i]
  BY SumIs
<1>2. N \in Nat /\ RequestSize(cmd) \in Nat /\ U32 \in Nat \ {0} /\ \A i \in 1..N : cmd[i] \in Nat
  <2>1. N \in Nat /\ \A i \in 1..N : cmd[i] \in Nat
    OBVIOUS
  <2>2. N \in 0..N
    BY <2>1
  <2>3. U32 \in Nat \ {0}
    BY WireAssumption
  <2> HIDE DEF N
  <2> QED
    BY <1>1, <2>1, <2>2, <2>3
<1>3. NewBuffer \in X /\ NewBuffer.data = <<>>
  BY DEF NewBuffer, Buffers
<1>4. head \in Seq(Bytes) /\ u32(k, nstr) \in Seq(Bytes) /\ Len(u32(k, nstr)) = U32
      /\ u32(k, nstr)[1] = <<k, "u32", 1, nstr>>
  <2>1. 1 \in 1..U32
    BY <1>2
  <2>2. head \in Seq(Bytes)
    BY <1>2, Fields
  <2> QED
    BY <2>1, <2>2, Fields
<1>5. x \in X /\ x.data = head \o u32(k, nstr)
  <2>1. Longer(x, NewBuffer, (<<>> \o head) \o u32(k, nstr))
    <3> HIDE DEF head
    <3>1. Longer(NewBuffer, NewBuffer, <<>>)
      BY <1>3, LongerNot
    <3>2. <<>> \in Seq(Bytes)
      OBVIOUS
    <3>3. Longer(NewBuffer ++ head, NewBuffer, <<>> \o head)
      BY <1>3, <1>4, <3>1, <3>2, LongerBy
    <3>4. <<>> \o head \in Seq(Bytes)
      BY <1>4
    <3> QED
      BY <1>3, <1>4, <3>3, <3>4, LongerBy
  <2> HIDE DEF head, x
  <2>2. <<>> \o ((<<>> \o head) \o u32(k, nstr)) = head \o u32(k, nstr)
    BY <1>4
  <2> QED
    BY <1>3, <2>1, <2>2 DEF Longer
<1>6. ASSUME NEW i \in 1..N, NEW b \in X
      PROVE  /\ step[i][b] = b ++ u32(k, cmd[i]) ++ str(k, cmd[i])
             /\ Longer(step[i][b], b, u32(k, cmd[i]) \o str(k, cmd[i]))
             /\ step[i][b] \in X
  <2>1. step[i][b] = b ++ u32(k, cmd[i]) ++ str(k, cmd[i])
    OBVIOUS
  <2>2. cmd[i] \in Nat
    BY <1>2
  <2>3. u32(k, cmd[i]) \in Seq(Bytes) /\ str(k, cmd[i]) \in Seq(Bytes)
    BY <2>2, Fields
  <2>4. Longer(b ++ u32(k, cmd[i]), b, <<>> \o u32(k, cmd[i]))
    <3>1. <<>> \in Seq(Bytes)
      OBVIOUS
    <3> QED
      BY <2>3, <3>1, LongerNot, LongerBy
  <2>5. <<>> \o u32(k, cmd[i]) = u32(k, cmd[i])
    BY <2>3
  <2>6. Longer(b ++ u32(k, cmd[i]) ++ str(k, cmd[i]), b, u32(k, cmd[i]) \o str(k, cmd[i]))
    BY <2>3, <2>4, <2>5, LongerBy
  <2> QED
    BY <2>1, <2>6 DEF Longer
<1>7. Steps(step, N, X)
  <2>1. ASSUME NEW i \in 1..N
        PROVE  step[i] \in [X -> X]
    <3>1. step[i] = [b \in X |-> b ++ u32(k, cmd[i]) ++ str(k, cmd[i])]
      OBVIOUS
    <3> HIDE DEF X, step
    <3> QED
      BY <1>6, <3>1
  <2> HIDE DEF X
  <2> QED
    BY <2>1 DEF Steps
<1>8. Request(k, cmd, nstr) = w[N]
  BY DEF Request
<1>9. Fills(w)
  <2> HIDE DEF step, x, X
  <2>1. PICK f : Iterates(f, N, X, x, step)
    BY <1>2, <1>5, <1>7, Recursion
  <2>2. f \in [0..N -> X] /\ f[0] = x
    BY <2>1 DEF Iterates
  <2>3. ASSUME NEW i \in 1..N
        PROVE  f[i] = f[i - 1] ++ u32(k, cmd[i]) ++ str(k, cmd[i])
    <3>1. i - 1 \in 0..N
      BY <1>2
    <3>2. f[i] = step[i][f[i - 1]]
      BY <2>1 DEF Iterates
    <3> QED
      BY <1>6, <2>2, <3>1, <3>2
  <2>4. \A i \in 0..N : i = 0 \/ i \in 1..N
    BY <1>2
  <2>5. \A i \in 0..N : f[i] = IF i = 0 THEN x ELSE f[i - 1] ++ u32(k, cmd[i]) ++ str(k, cmd[i])
    BY <2>2, <2>3, <2>4
  <2>6. Fills(f)
    BY <2>2, <2>5 DEF x
  <2> HIDE DEF Fills
  <2> QED
    BY <2>6
<1> HIDE DEF w, step, X
<1>10. w = [i \in 0..N |-> w[i]] /\ w[0] = x
  BY <1>2, <1>9
<1>11. ASSUME NEW i \in 1..N
       PROVE  w[i] = w[i - 1] ++ u32(k, cmd[i]) ++ str(k, cmd[i])
  BY <1>2, <1>9
<1> HIDE DEF x, head
<1>12. Iterates(w, N, X, x, step)
  <2>1. \A i \in 1..N : w[i - 1] \in X => w[i] = step[i][w[i - 1]]
    BY <1>6, <1>11
  <2> HIDE DEF N
  <2> QED
    BY <1>2, <1>5, <1>7, <1>10, <2>1, Iterating
<1> DEFINE Holds(i) == \E p \in Seq(Bytes) :
                          w[i].data = head \o p /\ Len(p) = sum[i] /\ Len(p) >= U32 /\ p[1][1] = k
           S == {i \in 0..N : Holds(i)}
<1>13. 0..N \subseteq S
  <2>1. 0 \in S
    <3>1. <<k, "u32", 1, nstr>>[1] = k
      OBVIOUS
    <3>2. Holds(0)
      <4> DEFINE f == u32(k, nstr)
      <4>1. f \in Seq(Bytes) /\ Len(f) = sum[0] /\ Len(f) >= U32 /\ f[1][1] = k
        BY <1>1, <1>2, <1>4, <3>1
      <4>2. w[0].data = head \o f
        BY <1>5, <1>10
      <4> HIDE DEF f
      <4> QED
        BY <4>1, <4>2
    <3> HIDE DEF Holds
    <3> QED
      BY <1>2, <3>2
  <2>2. ASSUME NEW i \in 0..N, i < N, i \in S
        PROVE  i + 1 \in S
    <3>1. PICK j \in 1..N : j = i + 1 /\ j - 1 = i
      BY <1>2, <2>2
    <3>2. PICK p \in Seq(Bytes) :
             w[i].data = head \o p /\ Len(p) = sum[i] /\ Len(p) >= U32 /\ p[1][1] = k
      BY <2>2
    <3> DEFINE q == u32(k, cmd[j]) \o str(k, cmd[j])
    <3>3. cmd[j] \in Nat
      BY <1>2
    <3>4. q \in Seq(Bytes) /\ Len(q) = U32 + cmd[j]
      <4> DEFINE f == u32(k, cmd[j])
                 g == str(k, cmd[j])
      <4>1. f \in Seq(Bytes) /\ Len(f) = U32 /\ g \in Seq(Bytes) /\ Len(g) = cmd[j]
        BY <3>3, Fields
      <4> HIDE DEF f, g
      <4>2. f \in Seq(Bytes) /\ g \in Seq(Bytes)
        BY <4>1
      <4>3. f \o g \in Seq(Bytes) /\ Len(f \o g) = Len(f) + Len(g)
        BY <4>2
      <4> QED
        BY <4>1, <4>3 DEF f, g
    <3>5. w[i] \in X /\ w[j] = step[j][w[i]]
      BY <1>12, <3>1 DEF Iterates
    <3>6. w[j].data = w[i].data \o q
      BY <1>6, <3>5 DEF Longer
    <3> HIDE DEF q
    <3>7. w[j].data = head \o (p \o q) /\ p \o q \in Seq(Bytes)
      <4>1. head \in Seq(Bytes) /\ q \in Seq(Bytes)
        BY <1>4, <3>4
      <4>2. p \o q \in Seq(Bytes)
        BY <4>1
      <4>3. Regrouped(head, p, q)
        BY <3>2, <4>1, Regrouping
      <4>4. (head \o p) \o q = head \o (p \o q)
        BY <4>3 DEF Regrouped
      <4> QED
        BY <3>2, <3>6, <4>2, <4>4
    <3>8. Len(p \o q) = sum[j] /\ Len(p \o q) >= U32
      <4>1. sum[j] = sum[i] + U32 + cmd[j] /\ sum[i] \in Nat
        BY <1>1, <3>1
      <4>2. q \in Seq(Bytes)
        BY <3>4
      <4>3. Len(p \o q) = Len(p) + Len(q)
        <5>1. p \in Seq(Bytes)
          BY <3>2
        <5> QED
          BY <4>2, <5>1, ConcatProperties, Zenon
      <4>4. Len(p) = sum[i] /\ Len(q) = U32 + cmd[j] /\ cmd[j] \in Nat /\ U32 \in Nat
        BY <1>2, <3>2, <3>3, <3>4
      <4> HIDE DEF N, w, S
      <4> QED
        BY <4>1, <4>3, <4>4
    <3>9. (p \o q)[1] = p[1]
      BY <1>2, <3>2, <3>4
    <3>10. Holds(j)
      BY <3>2, <3>7, <3>8, <3>9
    <3> HIDE DEF Holds
    <3> QED
      BY <1>2, <3>1, <3>10
  <2> HIDE DEF S
  <2> QED
    BY <1>2, <2>1, <2>2, UpTo
<1>14. Holds(N)
  <2>1. N \in 0..N
    BY <1>2
  <2> HIDE DEF Holds
  <2> QED
    BY <1>13, <2>1
<1>15. PICK p \in Seq(Bytes) :
          w[N].data = head \o p /\ Len(p) = sum[N] /\ Len(p) >= U32 /\ p[1][1] = k
  BY <1>14
<1>16. RequestSize(cmd) >= U32
  BY <1>1, <1>15
<1> QED
  BY <1>1, <1>2, <1>8, <1>15, <1>16 DEF head

-----------------------------------------------------------------------------
(* Values, as the bytes that the out functions append to any buffer.       *)

nilOf(k) == tag(k, "nil")
intOf(k) == tag(k, "int") \o num(k)
dblOf(k) == tag(k, "dbl") \o num(k)
strOf(k, n) == tag(k, "str") \o (u32(k, n) \o str(k, n))
errOf(k, n) == tag(k, "err") \o (u32(k, 0) \o (u32(k, n) \o str(k, n)))
arrOf(k, n) == tag(k, "arr") \o u32(k, n)

\* The values are bytes, as many as print_res() skips for them.
LEMMA FieldsOf ==
    ASSUME NEW k \in Nat, NEW n \in Nat
    PROVE  /\ nilOf(k) \in Seq(Bytes) /\ Len(nilOf(k)) = 1
           /\ intOf(k) \in Seq(Bytes) /\ Len(intOf(k)) = 1 + W64
           /\ dblOf(k) \in Seq(Bytes) /\ Len(dblOf(k)) = 1 + W64
           /\ strOf(k, n) \in Seq(Bytes) /\ Len(strOf(k, n)) = 1 + U32 + n
           /\ errOf(k, n) \in Seq(Bytes) /\ Len(errOf(k, n)) = 1 + 2 * U32 + n
           /\ arrOf(k, n) \in Seq(Bytes) /\ Len(arrOf(k, n)) = 1 + U32
<1> DEFINE h == u32(k, n)
           g == str(k, n)
           z == u32(k, 0)
           d == num(k)
<1>1. /\ h \in Seq(Bytes) /\ Len(h) = U32 /\ d \in Seq(Bytes) /\ Len(d) = W64
      /\ g \in Seq(Bytes) /\ Len(g) = n
  BY Fields
<1>2. z \in Seq(Bytes) /\ Len(z) = U32
  BY Fields
<1>3. \A t \in Tags : tag(k, t) \in Seq(Bytes) /\ Len(tag(k, t)) = 1
  BY TagIs
<1>4. U32 \in Nat /\ W64 \in Nat
  BY WireAssumption
<1> HIDE DEF h, g, z, d
<1>5. h \o g \in Seq(Bytes) /\ Len(h \o g) = U32 + n
  <2>1. h \in Seq(Bytes) /\ g \in Seq(Bytes)
    BY <1>1
  <2>2. h \o g \in Seq(Bytes) /\ Len(h \o g) = Len(h) + Len(g)
    BY <2>1
  <2> QED
    BY <1>1, <2>2
<1>6. z \o (h \o g) \in Seq(Bytes) /\ Len(z \o (h \o g)) = 2 * U32 + n
  <2> DEFINE hg == h \o g
  <2>1. hg \in Seq(Bytes) /\ z \in Seq(Bytes) /\ Len(hg) = U32 + n
    BY <1>2, <1>5
  <2> HIDE DEF hg
  <2>2. z \o hg \in Seq(Bytes) /\ Len(z \o hg) = Len(z) + Len(hg)
    BY <2>1
  <2> QED
    BY <1>2, <1>4, <2>1, <2>2 DEF hg
<1>7. ASSUME NEW t \in Tags, NEW x \in Seq(Bytes)
      PROVE  tag(k, t) \o x \in Seq(Bytes) /\ Len(tag(k, t) \o x) = 1 + Len(x)
  <2> DEFINE y == tag(k, t)
  <2>1. y \in Seq(Bytes)
    BY <1>3
  <2>2. Len(y) = 1
    BY <1>3
  <2> HIDE DEF y
  <2>3. y \o x \in Seq(Bytes) /\ Len(y \o x) = Len(y) + Len(x)
    BY <2>1
  <2> QED
    BY <2>2, <2>3 DEF y
<1>8. "nil" \in Tags /\ "int" \in Tags /\ "dbl" \in Tags /\ "str" \in Tags /\ "err" \in Tags /\ "arr" \in Tags
  BY DEF Tags
<1>9. nilOf(k) \in Seq(Bytes) /\ Len(nilOf(k)) = 1
  BY <1>3, <1>8 DEF nilOf
<1>10. intOf(k) \in Seq(Bytes) /\ Len(intOf(k)) = 1 + W64
  BY <1>1, <1>7, <1>8 DEF intOf, d
<1>11. dblOf(k) \in Seq(Bytes) /\ Len(dblOf(k)) = 1 + W64
  BY <1>1, <1>7, <1>8 DEF dblOf, d
<1>12. strOf(k, n) \in Seq(Bytes) /\ Len(strOf(k, n)) = 1 + U32 + n
  <2>1. tag(k, "str") \o (h \o g) \in Seq(Bytes) /\ Len(tag(k, "str") \o (h \o g)) = 1 + Len(h \o g)
    BY <1>5, <1>7, <1>8
  <2> QED
    BY <1>4, <1>5, <2>1 DEF strOf, h, g
<1>13. errOf(k, n) \in Seq(Bytes) /\ Len(errOf(k, n)) = 1 + 2 * U32 + n
  <2>1. /\ tag(k, "err") \o (z \o (h \o g)) \in Seq(Bytes)
        /\ Len(tag(k, "err") \o (z \o (h \o g))) = 1 + Len(z \o (h \o g))
    BY <1>6, <1>7, <1>8
  <2>2. errOf(k, n) = tag(k, "err") \o (z \o (h \o g))
    BY DEF errOf, h, g, z
  <2> QED
    BY <1>4, <1>6, <2>1, <2>2
<1>14. arrOf(k, n) \in Seq(Bytes) /\ Len(arrOf(k, n)) = 1 + U32
  BY <1>1, <1>7, <1>8 DEF arrOf, h
<1> QED
  BY <1>9, <1>10, <1>11, <1>12, <1>13, <1>14

\* The out functions (server_utils.cpp) append the values.
LEMMA OutValues ==
    ASSUME NEW b \in Buffers(Bytes), NEW k \in Nat, NEW n \in Nat
    PROVE  /\ Longer(out_nil(b, k), b, nilOf(k))
           /\ Longer(out_int(b, k), b, intOf(k))
           /\ Longer(out_dbl(b, k), b, dblOf(k))
           /\ Longer(out_str(b, k, n), b, strOf(k, n))
           /\ Longer(out_err(b, k, n), b, errOf(k, n))
           /\ Longer(out_arr(b, k, n), b, arrOf(k, n))
<1> DEFINE h == u32(k, n)
           g == str(k, n)
           z == u32(k, 0)
           d == num(k)
<1>1. h \in Seq(Bytes) /\ g \in Seq(Bytes) /\ z \in Seq(Bytes) /\ d \in Seq(Bytes)
  BY Fields
<1> HIDE DEF h, g, z, d
<1>2. ASSUME NEW t \in Tags
      PROVE  Longer(b ++ tag(k, t), b, tag(k, t)) /\ tag(k, t) \in Seq(Bytes)
  <2> DEFINE y == tag(k, t)
  <2>1. y \in Seq(Bytes)
    BY TagIs
  <2> HIDE DEF y
  <2>2. <<>> \in Seq(Bytes) /\ <<>> \o y = y
    BY <2>1
  <2>3. Longer(b ++ y, b, <<>> \o y)
    BY <2>1, <2>2, LongerNot, LongerBy
  <2> QED
    BY <2>1, <2>2, <2>3 DEF y
<1>3. ASSUME NEW t \in Tags, NEW x \in Seq(Bytes)
      PROVE  Longer(b ++ tag(k, t) ++ x, b, tag(k, t) \o x)
  BY <1>2, LongerBy
<1>4. ASSUME NEW t \in Tags, NEW x \in Seq(Bytes), NEW y \in Seq(Bytes)
      PROVE  Longer(b ++ tag(k, t) ++ x ++ y, b, tag(k, t) \o (x \o y))
  <2> DEFINE e == tag(k, t)
  <2>1. e \in Seq(Bytes) /\ Longer(b ++ e ++ x, b, e \o x)
    BY <1>2, <1>3
  <2> HIDE DEF e
  <2>2. e \o x \in Seq(Bytes) /\ (e \o x) \o y = e \o (x \o y)
    BY <2>1
  <2>3. Longer(b ++ e ++ x ++ y, b, (e \o x) \o y)
    BY <2>1, <2>2, LongerBy
  <2> QED
    BY <2>2, <2>3 DEF e
<1>5. ASSUME NEW t \in Tags, NEW x \in Seq(Bytes), NEW y \in Seq(Bytes), NEW v \in Seq(Bytes)
      PROVE  Longer(b ++ tag(k, t) ++ x ++ y ++ v, b, tag(k, t) \o (x \o (y \o v)))
  <2> DEFINE e == tag(k, t)
  <2>1. e \in Seq(Bytes) /\ Longer(b ++ e ++ x ++ y, b, e \o (x \o y))
    BY <1>2, <1>4
  <2> HIDE DEF e
  <2>2. x \o y \in Seq(Bytes) /\ (x \o y) \o v = x \o (y \o v)
    OBVIOUS
  <2> DEFINE xy == x \o y
  <2> HIDE DEF xy
  <2>3. e \o xy \in Seq(Bytes) /\ (e \o xy) \o v = e \o (xy \o v)
    <3>1. xy \in Seq(Bytes)
      BY <2>2 DEF xy
    <3>2. e \o xy \in Seq(Bytes)
      BY <2>1, <3>1
    <3>3. Regrouped(e, xy, v)
      BY <2>1, <3>1, Regrouping
    <3> QED
      BY <3>2, <3>3 DEF Regrouped
  <2>4. Longer(b ++ e ++ x ++ y ++ v, b, (e \o xy) \o v)
    BY <2>1, <2>3, LongerBy DEF xy
  <2> QED
    BY <2>2, <2>3, <2>4 DEF e, xy
<1>6. "nil" \in Tags /\ "int" \in Tags /\ "dbl" \in Tags /\ "str" \in Tags /\ "err" \in Tags /\ "arr" \in Tags
  BY DEF Tags
<1>7. Longer(out_nil(b, k), b, nilOf(k))
  BY <1>2, <1>6 DEF out_nil, nilOf
<1>8. Longer(out_int(b, k), b, intOf(k))
  BY <1>1, <1>3, <1>6 DEF out_int, intOf, d
<1>9. Longer(out_dbl(b, k), b, dblOf(k))
  BY <1>1, <1>3, <1>6 DEF out_dbl, dblOf, d
<1>10. Longer(out_str(b, k, n), b, strOf(k, n))
  BY <1>1, <1>4, <1>6 DEF out_str, strOf, h, g
<1>11. Longer(out_err(b, k, n), b, errOf(k, n))
  BY <1>1, <1>5, <1>6 DEF out_err, errOf, h, g, z
<1>12. Longer(out_arr(b, k, n), b, arrOf(k, n))
  BY <1>1, <1>3, <1>6 DEF out_arr, arrOf, h
<1> QED
  BY <1>7, <1>8, <1>9, <1>10, <1>11, <1>12

-----------------------------------------------------------------------------
(* Lists of values.                                                        *)

\* cat[i] is the first i items, one behind the other.
Chain(cat, N, item) ==
    /\ cat \in [0..N -> Seq(Bytes)] /\ item \in [1..N -> Seq(Bytes)]
    /\ cat[0] = <<>> /\ \A i \in 1..N : cat[i] = cat[i - 1] \o item[i]

\* Any items can be put one behind the other.
LEMMA ChainExists ==
    ASSUME NEW N \in Nat, NEW item \in [1..N -> Seq(Bytes)]
    PROVE  \E cat : Chain(cat, N, item)
<1> DEFINE X == Seq(Bytes)
           step == [i \in 1..N |-> [s \in X |-> s \o item[i]]]
<1>1. <<>> \in X
  OBVIOUS
<1>2. ASSUME NEW i \in 1..N, NEW s \in X
      PROVE  step[i][s] = s \o item[i] /\ s \o item[i] \in X
  <2>1. item[i] \in X
    OBVIOUS
  <2>2. s \o item[i] \in X
    BY <2>1
  <2> HIDE DEF X
  <2> QED
    BY <2>2
<1>3. Steps(step, N, X)
  <2> HIDE DEF X
  <2> QED
    BY <1>2 DEF Steps
<1>4. PICK f : Iterates(f, N, X, <<>>, step)
  <2> HIDE DEF X, step
  <2> QED
    BY <1>1, <1>3, Recursion
<1>5. ASSUME NEW i \in 1..N
      PROVE  f[i] = f[i - 1] \o item[i]
  <2>1. i - 1 \in 0..N
    OBVIOUS
  <2>2. f[i] = step[i][f[i - 1]] /\ f[i - 1] \in X
    BY <1>4, <2>1 DEF Iterates
  <2> HIDE DEF X, step
  <2> QED
    BY <1>2, <2>2
<1> QED
  BY <1>4, <1>5 DEF Iterates, Chain

\* What is appended item by item makes the buffer longer by the chain.
LEMMA ChainAppended ==
    ASSUME NEW N \in Nat, NEW cat, NEW item, Chain(cat, N, item),
           NEW b \in Buffers(Bytes), NEW base \in Seq(Bytes), NEW x, Longer(x, b, base), NEW step,
           \A i \in 1..N, o \in Buffers(Bytes) : Longer(step[i][o], o, item[i]),
           NEW g, Iterates(g, N, Buffers(Bytes), x, step)
    PROVE  Longer(g[N], b, base \o cat[N])
<1> DEFINE S == {i \in 0..N : Longer(g[i], b, base \o cat[i])}
<1>1. 0 \in S
  <2>1. base \o <<>> = base /\ cat[0] = <<>> /\ g[0] = x
    BY DEF Chain, Iterates
  <2>2. 0 \in 0..N
    OBVIOUS
  <2> QED
    BY <2>1, <2>2
<1>2. ASSUME NEW i \in 0..N, i < N, i \in S
      PROVE  i + 1 \in S
  <2>1. PICK j \in 1..N : j = i + 1 /\ j - 1 = i
    BY <1>2
  <2>2. g[j] = step[j][g[i]] /\ g[i] \in Buffers(Bytes)
    BY <2>1 DEF Iterates
  <2>3. Longer(g[j], g[i], item[j])
    BY <2>2
  <2> DEFINE c == cat[i]
             e == item[j]
  <2>4. c \in Seq(Bytes) /\ e \in Seq(Bytes) /\ cat[j] = c \o e
    BY <2>1 DEF Chain
  <2>5. Longer(g[i], b, base \o c)
    BY <1>2
  <2> HIDE DEF c, e
  <2>6. base \o c \in Seq(Bytes) /\ (base \o c) \o e = base \o (c \o e)
    BY <2>4
  <2>7. Longer(g[j], b, (base \o c) \o e)
    BY <2>2, <2>3, <2>4, <2>5, <2>6, LongerTwice DEF e
  <2>8. j \in 0..N
    BY <2>1
  <2> QED
    BY <2>1, <2>4, <2>6, <2>7, <2>8
<1>3. 0..N \subseteq S
  <2> HIDE DEF S
  <2> QED
    BY <1>1, <1>2, UpTo
<1>4. N \in 0..N
  OBVIOUS
<1> QED
  BY <1>3, <1>4

names1(k, names) == [i \in 1..Len(names) |-> strOf(k, names[i])]
names2(k, names) == [i \in 1..Len(names) |-> strOf(k, names[i]) \o dblOf(k)]

\* The items of exec_keys() and of exec_zquery() are bytes.
LEMMA ItemsOf ==
    ASSUME NEW k \in Nat, NEW names \in Seq(Nat)
    PROVE  /\ names1(k, names) \in [1..Len(names) -> Seq(Bytes)]
           /\ names2(k, names) \in [1..Len(names) -> Seq(Bytes)]
<1>1. ASSUME NEW i \in 1..Len(names)
      PROVE  strOf(k, names[i]) \in Seq(Bytes) /\ strOf(k, names[i]) \o dblOf(k) \in Seq(Bytes)
  <2> DEFINE s == strOf(k, names[i])
             d == dblOf(k)
  <2>1. names[i] \in Nat
    OBVIOUS
  <2>2. s \in Seq(Bytes) /\ d \in Seq(Bytes)
    BY <2>1, FieldsOf
  <2> HIDE DEF s, d
  <2>3. s \o d \in Seq(Bytes)
    BY <2>2
  <2> QED
    BY <2>2, <2>3 DEF s, d
<1>2. names1(k, names) \in [1..Len(names) -> Seq(Bytes)]
  BY <1>1 DEF names1
<1>3. names2(k, names) \in [1..Len(names) -> Seq(Bytes)]
  BY <1>1 DEF names2
<1> QED
  BY <1>2, <1>3

\* exec_keys() appends the header of an array and the chain of its names.
LEMMA KeysIs ==
    ASSUME NEW k \in Nat, NEW names \in Seq(Nat), NEW cat, Chain(cat, Len(names), names1(k, names)),
           NEW b \in Buffers(Bytes)
    PROVE  Longer(Keys(b, k, names), b, arrOf(k, Len(names)) \o cat[Len(names)])
<1> DEFINE N == Len(names)
           X == Buffers(Bytes)
           x == out_arr(b, k, Len(names))
           step == [i \in 1..N |-> [o \in X |-> out_str(o, k, names[i])]]
           Outs(o) == o = [i \in 0..Len(names) |->
                             IF i = 0 THEN out_arr(b, k, Len(names)) ELSE out_str(o[i - 1], k, names[i])]
           o == CHOOSE o_ : Outs(o_)
<1>1. N \in Nat /\ \A i \in 1..N : names[i] \in Nat
  OBVIOUS
<1>2. Longer(x, b, arrOf(k, N)) /\ arrOf(k, N) \in Seq(Bytes)
  BY <1>1, OutValues, FieldsOf
<1>3. x \in X
  BY <1>2 DEF Longer
<1>4. ASSUME NEW i \in 1..N, NEW a \in X
      PROVE  /\ step[i][a] = out_str(a, k, names[i])
             /\ Longer(step[i][a], a, names1(k, names)[i])
             /\ out_str(a, k, names[i]) \in X
  <2>1. step[i][a] = out_str(a, k, names[i])
    OBVIOUS
  <2>2. Longer(out_str(a, k, names[i]), a, strOf(k, names[i]))
    BY <1>1, OutValues
  <2>3. names1(k, names)[i] = strOf(k, names[i])
    BY DEF names1
  <2> HIDE DEF step
  <2> QED
    BY <2>1, <2>2, <2>3 DEF Longer
<1>5. Steps(step, N, X)
  <2>1. ASSUME NEW i \in 1..N
        PROVE  step[i] \in [X -> X]
    <3>1. step[i] = [a \in X |-> out_str(a, k, names[i])]
      OBVIOUS
    <3> HIDE DEF X, step
    <3> QED
      BY <1>4, <3>1
  <2> HIDE DEF X
  <2> QED
    BY <2>1 DEF Steps
<1>6. Keys(b, k, names) = o[N]
  BY DEF Keys
<1>7. Outs(o)
  <2> HIDE DEF step, X, x
  <2>1. PICK f : Iterates(f, N, X, x, step)
    BY <1>1, <1>3, <1>5, Recursion
  <2>2. f \in [0..N -> X] /\ f[0] = x
    BY <2>1 DEF Iterates
  <2>3. ASSUME NEW i \in 1..N
        PROVE  f[i] = out_str(f[i - 1], k, names[i])
    <3>1. i - 1 \in 0..N
      BY <1>1
    <3>2. f[i] = step[i][f[i - 1]]
      BY <2>1 DEF Iterates
    <3> QED
      BY <1>4, <2>2, <3>1, <3>2
  <2>4. \A i \in 0..N : i = 0 \/ i \in 1..N
    BY <1>1
  <2>5. \A i \in 0..N : f[i] = IF i = 0 THEN x ELSE out_str(f[i - 1], k, names[i])
    BY <2>2, <2>3, <2>4
  <2>6. Outs(f)
    BY <2>2, <2>5 DEF x
  <2> HIDE DEF Outs
  <2> QED
    BY <2>6
<1> HIDE DEF o, step, X
<1>8. o = [i \in 0..N |-> o[i]] /\ o[0] = x
  <2>1. o = [i \in 0..N |-> IF i = 0 THEN x ELSE out_str(o[i - 1], k, names[i])]
    BY <1>7
  <2> HIDE DEF Outs, x, N
  <2>2. 0 \in 0..N
    BY <1>1
  <2>3. o[0] = x
    BY <2>1, <2>2
  <2>4. o = [i \in 0..N |-> o[i]]
    BY <2>1
  <2> QED
    BY <2>3, <2>4
<1>9. ASSUME NEW i \in 1..N
      PROVE  o[i] = out_str(o[i - 1], k, names[i])
  <2>1. o = [j \in 0..N |-> IF j = 0 THEN x ELSE out_str(o[j - 1], k, names[j])]
    BY <1>7
  <2> HIDE DEF Outs, x
  <2>2. i \in 0..N /\ i # 0
    BY <1>1
  <2> HIDE DEF N
  <2> QED
    BY <2>1, <2>2
<1> HIDE DEF x, N
<1>10. Iterates(o, N, X, x, step)
  <2>1. \A i \in 1..N : o[i - 1] \in X => o[i] = step[i][o[i - 1]]
    BY <1>4, <1>9
  <2> QED
    BY <1>1, <1>3, <1>5, <1>8, <2>1, Iterating
<1> DEFINE item == names1(k, names)
<1>11. Chain(cat, N, item) /\ \A i \in 1..N, a \in X : Longer(step[i][a], a, item[i])
  BY <1>4 DEF N
<1> HIDE DEF item
<1>12. Longer(o[N], b, arrOf(k, N) \o cat[N])
  BY <1>1, <1>2, <1>10, <1>11, ChainAppended DEF X
<1> QED
  BY <1>6, <1>12 DEF N

\* out_end_arr() and response_end() put a number where room has been left for it.
Backfilled(f, a, x, h, y) ==
    f \in Buffers(Bytes) /\ f.data = x \o (h \o y) /\ (Tight(a) => Tight(f))

LEMMA BackfillIs ==
    ASSUME NEW a \in Buffers(Bytes), NEW x \in Seq(Bytes), NEW z \in Seq(Bytes), Len(z) = U32,
           NEW y \in Seq(Bytes), NEW k \in Nat, NEW n \in Nat, a.data = x \o (z \o y)
    PROVE  Backfilled(Backfill(a, Len(x), k, n), a, x, u32(k, n), y)
<1> DEFINE h == u32(k, n)
           d == a.data
           f == Backfill(a, Len(x), k, n)
<1>1. h \in Seq(Bytes) /\ Len(h) = U32
  BY Fields
<1>2. U32 \in Nat \ {0}
  BY WireAssumption
<1>3. a = [cap |-> a.cap, lo |-> a.lo, data |-> d] /\ a.cap \in Nat /\ a.lo \in Nat /\ d \in Seq(Bytes)
  BY DEF Buffers
<1>4. f = [cap |-> a.cap, lo |-> a.lo,
           data |-> SubSeq(d, 1, Len(x)) \o h \o SubSeq(d, Len(x) + U32 + 1, Len(d))]
  <2> DEFINE e == SubSeq(d, 1, Len(x)) \o h \o SubSeq(d, Len(x) + U32 + 1, Len(d))
  <2>1. f = [a EXCEPT !.data = e]
    BY DEF Backfill
  <2> HIDE DEF e, f, d
  <2>2. f = [cap |-> a.cap, lo |-> a.lo, data |-> e]
    BY <1>3, <2>1
  <2> QED
    BY <2>2 DEF e
<1> HIDE DEF h, d, f
<1> DEFINE zy == z \o y
<1>5. d = x \o zy /\ zy \in Seq(Bytes) /\ d = d \o <<>> /\ <<>> \in Seq(Bytes)
  <2>1. d = d \o <<>>
    BY <1>3
  <2> QED
    BY <2>1 DEF d
<1> HIDE DEF zy
<1>6. Len(d) = Len(x) + Len(zy)
  BY <1>5
<1>7. SubSeq(d, 1, Len(x)) = x
  BY <1>3, <1>5, <1>6, CommonFront DEF SplitBy
<1> DEFINE xz == x \o z
<1>8. xz \in Seq(Bytes) /\ Len(xz) = Len(x) + U32
  <2>1. xz \in Seq(Bytes) /\ Len(xz) = Len(x) + Len(z)
    BY ConcatProperties, Zenon
  <2> QED
    BY <2>1
<1>9. d = xz \o y
  <2>1. x \o (z \o y) = (x \o z) \o y
    OBVIOUS
  <2> QED
    BY <1>5, <2>1 DEF zy
<1> HIDE DEF xz
<1>10. Len(d) = Len(xz) + Len(y)
  BY <1>8, <1>9
<1> DEFINE r == SubSeq(d, Len(x) + U32 + 1, Len(d))
<1>11. r = y
  <2>1. r = SubSeq(d, Len(xz) + 1, Len(d))
    BY <1>8
  <2>2. r \in Seq(Bytes) /\ d = xz \o r
    <3>1. d \o <<>> = xz \o y
      BY <1>5, <1>9
    <3>2. Len(xz) <= Len(d)
      BY <1>8, <1>10
    <3>3. xz \in Seq(Bytes) /\ d \in Seq(Bytes) /\ <<>> \in Seq(Bytes)
      BY <1>3, <1>5, <1>8
    <3> HIDE DEF r
    <3>4. SplitBy(d, xz, y, <<>>, Bytes)
      BY <3>1, <3>2, <3>3, CommonFront
    <3> QED
      BY <2>1, <3>4 DEF SplitBy
  <2> HIDE DEF r
  <2> QED
    BY <1>8, <1>9, <2>2, CancelFront
<1>12. f.data = x \o (h \o y) /\ f \in Buffers(Bytes)
  <2>1. f = [cap |-> a.cap, lo |-> a.lo, data |-> x \o h \o y]
    BY <1>4, <1>7, <1>11
  <2>2. x \o h \o y = x \o (h \o y) /\ x \o h \o y \in Seq(Bytes)
    BY <1>1
  <2> QED
    BY <1>3, <2>1, <2>2 DEF Buffers
<1>13. Tight(a) => Tight(f)
  <2>1. Len(f.data) = Len(x) + Len(h) + Len(y)
    <3> DEFINE hy == h \o y
    <3>1. h \in Seq(Bytes)
      BY <1>1
    <3>2. hy \in Seq(Bytes)
      BY <3>1
    <3>3. Len(hy) = Len(h) + Len(y)
      BY <3>1
    <3> HIDE DEF hy
    <3>4. Len(x \o hy) = Len(x) + Len(hy)
      BY <3>2
    <3> QED
      BY <1>12, <3>3, <3>4 DEF hy
  <2>2. Len(f.data) = Len(d)
    BY <1>1, <1>8, <1>10, <2>1
  <2>3. f.lo = a.lo /\ f.cap = a.cap
    BY <1>4
  <2> QED
    BY <2>2, <2>3 DEF Tight, Fits, size, d
<1> QED
  BY <1>12, <1>13 DEF Backfilled, f, h

\* exec_zquery() appends the header of an array, filled in behind, and the
\* chain of its pairs.
LEMMA PairsAre ==
    ASSUME NEW k \in Nat, NEW names \in Seq(Nat), NEW cat, Chain(cat, Len(names), names2(k, names)),
           NEW b \in Buffers(Bytes)
    PROVE  Longer(ZQuery(b, k, names), b, arrOf(k, 2 * Len(names)) \o cat[Len(names)])
<1> DEFINE N == Len(names)
           X == Buffers(Bytes)
           x == out_begin_arr(b, k)
           step == [i \in 1..N |-> [o \in X |-> out_dbl(out_str(o, k, names[i]), k)]]
           Outs(o) == o = [i \in 0..Len(names) |->
                             IF i = 0 THEN out_begin_arr(b, k) ELSE out_dbl(out_str(o[i - 1], k, names[i]), k)]
           o == CHOOSE o_ : Outs(o_)
<1>1. N \in Nat /\ \A i \in 1..N : names[i] \in Nat
  OBVIOUS
<1>2. Longer(x, b, arrOf(k, 0)) /\ arrOf(k, 0) \in Seq(Bytes)
  BY OutValues, FieldsOf DEF out_begin_arr
<1>3. x \in X
  BY <1>2 DEF Longer
<1>4. ASSUME NEW i \in 1..N, NEW a \in X
      PROVE  /\ step[i][a] = out_dbl(out_str(a, k, names[i]), k)
             /\ Longer(step[i][a], a, names2(k, names)[i])
             /\ out_dbl(out_str(a, k, names[i]), k) \in X
  <2>1. step[i][a] = out_dbl(out_str(a, k, names[i]), k)
    OBVIOUS
  <2>2. Longer(out_dbl(out_str(a, k, names[i]), k), a, strOf(k, names[i]) \o dblOf(k))
    <3> DEFINE s == out_str(a, k, names[i])
    <3>1. names[i] \in Nat
      BY <1>1
    <3>2. Longer(s, a, strOf(k, names[i])) /\ strOf(k, names[i]) \in Seq(Bytes)
      BY <3>1, OutValues, FieldsOf
    <3> HIDE DEF s
    <3>3. s \in Buffers(Bytes)
      BY <3>2 DEF Longer
    <3>4. Longer(out_dbl(s, k), s, dblOf(k)) /\ dblOf(k) \in Seq(Bytes)
      BY <3>3, OutValues, FieldsOf
    <3> QED
      BY <3>2, <3>4, LongerTwice DEF s
  <2>3. names2(k, names)[i] = strOf(k, names[i]) \o dblOf(k)
    BY DEF names2
  <2> HIDE DEF step
  <2> QED
    BY <2>1, <2>2, <2>3 DEF Longer
<1>5. Steps(step, N, X)
  <2>1. ASSUME NEW i \in 1..N
        PROVE  step[i] \in [X -> X]
    <3>1. step[i] = [a \in X |-> out_dbl(out_str(a, k, names[i]), k)]
      OBVIOUS
    <3> HIDE DEF X, step
    <3> QED
      BY <1>4, <3>1
  <2> HIDE DEF X
  <2> QED
    BY <2>1 DEF Steps
<1>6. ZQuery(b, k, names) = Backfill(o[N], size(b) + 1, k, 2 * N)
  BY DEF ZQuery, out_end_arr
<1>7. Outs(o)
  <2> HIDE DEF step, X, x
  <2>1. PICK f : Iterates(f, N, X, x, step)
    BY <1>1, <1>3, <1>5, Recursion
  <2>2. f \in [0..N -> X] /\ f[0] = x
    BY <2>1 DEF Iterates
  <2>3. ASSUME NEW i \in 1..N
        PROVE  f[i] = out_dbl(out_str(f[i - 1], k, names[i]), k)
    <3>1. i - 1 \in 0..N
      BY <1>1
    <3>2. f[i] = step[i][f[i - 1]]
      BY <2>1 DEF Iterates
    <3> QED
      BY <1>4, <2>2, <3>1, <3>2
  <2>4. \A i \in 0..N : i = 0 \/ i \in 1..N
    BY <1>1
  <2>5. \A i \in 0..N : f[i] = IF i = 0 THEN x ELSE out_dbl(out_str(f[i - 1], k, names[i]), k)
    BY <2>2, <2>3, <2>4
  <2>6. Outs(f)
    BY <2>2, <2>5 DEF x
  <2> HIDE DEF Outs
  <2> QED
    BY <2>6
<1> HIDE DEF o, step, X
<1>8. o = [i \in 0..N |-> o[i]] /\ o[0] = x
  <2>1. o = [i \in 0..N |-> IF i = 0 THEN x ELSE out_dbl(out_str(o[i - 1], k, names[i]), k)]
    BY <1>7
  <2> HIDE DEF Outs, x, N
  <2>2. 0 \in 0..N
    BY <1>1
  <2>3. o[0] = x
    BY <2>1, <2>2
  <2>4. o = [i \in 0..N |-> o[i]]
    BY <2>1
  <2> QED
    BY <2>3, <2>4
<1>9. ASSUME NEW i \in 1..N
      PROVE  o[i] = out_dbl(out_str(o[i - 1], k, names[i]), k)
  <2>1. o = [j \in 0..N |-> IF j = 0 THEN x ELSE out_dbl(out_str(o[j - 1], k, names[j]), k)]
    BY <1>7
  <2> HIDE DEF Outs, x
  <2>2. i \in 0..N /\ i # 0
    BY <1>1
  <2> HIDE DEF N
  <2> QED
    BY <2>1, <2>2
<1> HIDE DEF x, N
<1>10. Iterates(o, N, X, x, step)
  <2>1. \A i \in 1..N : o[i - 1] \in X => o[i] = step[i][o[i - 1]]
    BY <1>4, <1>9
  <2> QED
    BY <1>1, <1>3, <1>5, <1>8, <2>1, Iterating
<1> DEFINE item == names2(k, names)
<1>11. Chain(cat, N, item) /\ \A i \in 1..N, a \in X : Longer(step[i][a], a, item[i])
  BY <1>4 DEF N
<1> HIDE DEF item
<1>12. Longer(o[N], b, arrOf(k, 0) \o cat[N])
  BY <1>1, <1>2, <1>10, <1>11, ChainAppended DEF X
<1> DEFINE a == o[N]
           y == cat[N]
           d == b.data
           t == tag(k, "arr")
           z == u32(k, 0)
           front == d \o t
<1>13. /\ t \in Seq(Bytes) /\ Len(t) = 1 /\ z \in Seq(Bytes) /\ Len(z) = U32
       /\ d \in Seq(Bytes) /\ y \in Seq(Bytes)
  <2>1. "arr" \in Tags /\ N \in 0..N
    BY <1>1 DEF Tags
  <2>2. y \in Seq(Bytes)
    BY <1>11, <2>1 DEF Chain
  <2>3. t \in Seq(Bytes) /\ Len(t) = 1
    BY <2>1, TagIs
  <2>4. z \in Seq(Bytes) /\ Len(z) = U32
    BY Fields
  <2>5. d \in Seq(Bytes)
    BY DEF Buffers
  <2> QED
    BY <2>2, <2>3, <2>4, <2>5
<1>14. a \in Buffers(Bytes) /\ a.data = d \o (t \o z \o y) /\ (Tight(b) => Tight(a))
  BY <1>12 DEF Longer, arrOf
<1> HIDE DEF a, y, d, t, z
<1>15. front \in Seq(Bytes) /\ Len(front) = Len(d) + 1 /\ a.data = front \o (z \o y)
  <2>1. d \in Seq(Bytes) /\ t \in Seq(Bytes) /\ z \in Seq(Bytes) /\ y \in Seq(Bytes)
    BY <1>13
  <2>2. d \o t \in Seq(Bytes) /\ Len(d \o t) = Len(d) + Len(t)
    BY <2>1
  <2> DEFINE zy == z \o y
  <2>3. t \o z \o y = t \o (z \o y) /\ zy \in Seq(Bytes)
    <3>1. Regrouped(t, z, y)
      BY <2>1, Regrouping
    <3>2. zy \in Seq(Bytes)
      BY <2>1
    <3> QED
      BY <3>1, <3>2 DEF Regrouped
  <2> HIDE DEF zy
  <2>4. d \o (t \o zy) = (d \o t) \o zy
    <3>1. Regrouped(d, t, zy)
      BY <2>1, <2>3, Regrouping
    <3> QED
      BY <3>1 DEF Regrouped
  <2> QED
    BY <1>13, <1>14, <2>2, <2>3, <2>4 DEF zy
<1> HIDE DEF front
<1> DEFINE f == Backfill(a, Len(front), k, 2 * N)
           u == u32(k, 2 * N)
<1>16. 2 * N \in Nat
  BY <1>1
<1>17. f \in Buffers(Bytes) /\ f.data = front \o (u \o y) /\ (Tight(a) => Tight(f))
  <2> DEFINE n == 2 * N
  <2>1. n \in Nat
    BY <1>16
  <2>2. /\ a \in Buffers(Bytes) /\ a.data = front \o (z \o y) /\ front \in Seq(Bytes)
        /\ z \in Seq(Bytes) /\ Len(z) = U32 /\ y \in Seq(Bytes)
    BY <1>13, <1>14, <1>15
  <2> HIDE DEF n
  <2>3. Backfilled(Backfill(a, Len(front), k, n), a, front, u32(k, n), y)
    BY <2>1, <2>2, BackfillIs
  <2> QED
    BY <2>3 DEF Backfilled, n
<1>18. u \in Seq(Bytes)
  BY <1>16, Fields
<1> HIDE DEF f, u
<1>19. front \o (u \o y) = d \o ((t \o u) \o y)
  <2>1. d \in Seq(Bytes) /\ t \in Seq(Bytes) /\ u \in Seq(Bytes) /\ y \in Seq(Bytes)
    BY <1>13, <1>18
  <2> DEFINE uy == u \o y
  <2>2. t \o u \o y = t \o (u \o y) /\ uy \in Seq(Bytes)
    BY <2>1
  <2> HIDE DEF uy
  <2>3. d \o (t \o uy) = (d \o t) \o uy
    <3>1. Regrouped(d, t, uy)
      BY <2>1, <2>2, Regrouping
    <3> QED
      BY <3>1 DEF Regrouped
  <2> QED
    BY <2>2, <2>3 DEF uy, front
<1>20. Longer(f, b, (t \o u) \o y)
  BY <1>14, <1>17, <1>19 DEF Longer, d
<1>21. ZQuery(b, k, names) = f
  <2>1. size(b) + 1 = Len(front)
    BY <1>15 DEF size, d
  <2> QED
    BY <1>6, <2>1 DEF f, a
<1> QED
  BY <1>20, <1>21 DEF arrOf, t, u, y, N

-----------------------------------------------------------------------------
(* print_res().                                                            *)

\* Where n values end that begin at `at`, if f says so of what follows them.
Ends(data, f, at, n) ==
    IF n = 0 THEN at
    ELSE IF at >= Len(data) THEN -1
    ELSE LET t == data[at + 1][2]
             body == at + Fixed(data, t)
             last == U32At(data, body - U32)
             next == IF body > Len(data) THEN -1
                     ELSE IF t = "arr" THEN f[body][last]
                     ELSE IF t \notin {"str", "err"} THEN body
                     ELSE IF body + last > Len(data) THEN -1 ELSE body + last
         IN  IF next = -1 THEN -1 ELSE f[next][n - 1]

EndsFrom(data, f, start) ==
    \A at, n \in Nat : at >= start => f[at][n] = Ends(data, f, at, n)

\* What every step of print_res() keeps: it goes forward or it fails.
Forward == {f \in [Nat -> [Nat -> Int]] : \A at, n \in Nat : f[at][n] = -1 \/ f[at][n] >= at}

\* What a byte carries are numbers.
LEMMA BytesOf ==
    ASSUME NEW e \in Bytes
    PROVE  e[1] \in Nat /\ e[4] \in Nat
BY DEF Bytes

\* Ends looks at f only behind `at`, and itself goes forward.
LEMMA EndsForward ==
    ASSUME NEW data \in Seq(Bytes), NEW f \in Forward, NEW at \in Nat, NEW n \in Nat
    PROVE  /\ Ends(data, f, at, n) \in Int
           /\ Ends(data, f, at, n) = -1 \/ Ends(data, f, at, n) >= at
           /\ \A g \in [Nat -> [Nat -> Int]] :
                 (\A p \in Nat : p > at => g[p] = f[p]) => Ends(data, g, at, n) = Ends(data, f, at, n)
<1> DEFINE t == data[at + 1][2]
           body == at + Fixed(data, t)
           last == U32At(data, body - U32)
           next(h) == IF body > Len(data) THEN -1
                      ELSE IF t = "arr" THEN h[body][last]
                      ELSE IF t \notin {"str", "err"} THEN body
                      ELSE IF body + last > Len(data) THEN -1 ELSE body + last
<1>1. U32 \in Nat \ {0} /\ W64 \in Nat \ {0} /\ Len(data) \in Nat
  BY WireAssumption
<1>2. CASE n = 0
  BY <1>2 DEF Ends
<1>3. CASE n # 0 /\ at >= Len(data)
  <2>1. \A h : Ends(data, h, at, n) = -1
    BY <1>3 DEF Ends
  <2> QED
    BY <2>1
<1>4. CASE n # 0 /\ ~(at >= Len(data))
  <2>1. \A h : Ends(data, h, at, n) = IF next(h) = -1 THEN -1 ELSE h[next(h)][n - 1]
    BY <1>4 DEF Ends
  <2>2. Fixed(data, t) \in Nat /\ Fixed(data, t) > 0
    <3> HIDE DEF t
    <3> QED
      BY <1>1 DEF Fixed
  <2>3. body \in Nat /\ body > at
    BY <2>2
  <2>4. (t = "arr" \/ t = "str" \/ t = "err") /\ body <= Len(data) => last \in Nat
    <3> SUFFICES ASSUME t = "arr" \/ t = "str" \/ t = "err", body <= Len(data)
                 PROVE  last \in Nat
      OBVIOUS
    <3>1. Fixed(data, t) = 1 + U32 \/ Fixed(data, t) = 1 + 2 * U32
      <4> HIDE DEF t
      <4> QED
        BY DEF Fixed
    <3>2. body - U32 + 1 \in 1..Len(data)
      BY <1>1, <3>1
    <3>3. data[body - U32 + 1] \in Bytes
      BY <3>2
    <3> QED
      BY <3>3, BytesOf DEF U32At
  <2> HIDE DEF t, body, last
  <2>5. /\ f \in [Nat -> [Nat -> Int]]
        /\ \A p, m \in Nat : f[p][m] \in Int /\ (f[p][m] = -1 \/ f[p][m] >= p)
    BY DEF Forward
  <2>6. next(f) = -1 \/ (next(f) \in Nat /\ next(f) > at)
    <3>1. CASE body > Len(data)
      BY <3>1
    <3>2. CASE body <= Len(data) /\ t = "arr"
      <4>1. next(f) = f[body][last] /\ last \in Nat
        BY <2>3, <1>1, <2>4, <3>2
      <4>2. f[body][last] \in Int /\ (f[body][last] = -1 \/ f[body][last] >= body)
        BY <2>3, <2>5, <4>1
      <4> QED
        BY <2>3, <4>1, <4>2
    <3>3. CASE body <= Len(data) /\ t # "arr" /\ t \notin {"str", "err"}
      BY <1>1, <2>3, <3>3
    <3>4. CASE body <= Len(data) /\ t # "arr" /\ t \in {"str", "err"}
      <4>1. last \in Nat
        BY <2>4, <3>4
      <4> QED
        BY <1>1, <2>3, <3>4, <4>1
    <3> QED
      BY <1>1, <2>3, <3>1, <3>2, <3>3, <3>4
  <2>7. ASSUME NEW g \in [Nat -> [Nat -> Int]], \A p \in Nat : p > at => g[p] = f[p]
        PROVE  next(g) = next(f)
    <3>1. g[body] = f[body]
      BY <2>3, <2>7
    <3> QED
      BY <3>1
  <2> HIDE DEF next
  <2>8. n - 1 \in Nat
    BY <1>4
  <2>9. ASSUME NEW g \in [Nat -> [Nat -> Int]], \A p \in Nat : p > at => g[p] = f[p]
        PROVE  Ends(data, g, at, n) = Ends(data, f, at, n)
    <3>1. next(g) = next(f)
      BY <2>7, <2>9
    <3>2. next(f) # -1 => g[next(f)] = f[next(f)]
      BY <2>6, <2>9
    <3> QED
      BY <2>1, <3>1, <3>2
  <2>10. Ends(data, f, at, n) \in Int /\ (Ends(data, f, at, n) = -1 \/ Ends(data, f, at, n) >= at)
    <3>1. CASE next(f) = -1
      BY <2>1, <3>1
    <3>2. CASE next(f) # -1
      <4> DEFINE e == f[next(f)][n - 1]
      <4>1. next(f) \in Nat /\ next(f) > at /\ e \in Int /\ (e = -1 \/ e >= next(f))
        BY <2>5, <2>6, <2>8, <3>2
      <4>2. Ends(data, f, at, n) = e
        BY <2>1, <3>2
      <4> HIDE DEF e
      <4> QED
        BY <4>1, <4>2
    <3> QED
      BY <3>1, <3>2
  <2> QED
    BY <2>9, <2>10
<1> QED
  BY <1>2, <1>3, <1>4

\* The recursion of print_res() ends: there is a function as it defines it.
LEMMA PrintExists ==
    ASSUME NEW data \in Seq(Bytes)
    PROVE  \E f \in Forward : EndsFrom(data, f, 0)
<1> DEFINE N == Len(data)
           S == {d \in 0..N : \E f \in Forward : EndsFrom(data, f, N - d)}
<1>1. N \in Nat
  OBVIOUS
<1>2. 0 \in S
  <2> DEFINE f == [at \in Nat |-> [n \in Nat |-> IF n = 0 THEN at ELSE -1]]
  <2>1. f \in [Nat -> [Nat -> Int]]
    OBVIOUS
  <2>2. \A at, n \in Nat : f[at][n] = IF n = 0 THEN at ELSE -1
    OBVIOUS
  <2> HIDE DEF f
  <2>3. f \in Forward
    <3>1. ASSUME NEW at \in Nat, NEW n \in Nat
          PROVE  f[at][n] = -1 \/ f[at][n] >= at
      <4>1. f[at][n] = at \/ f[at][n] = -1
        BY <2>2
      <4> QED
        BY <4>1
    <3> QED
      BY <2>1, <3>1 DEF Forward
  <2>4. \A at, n \in Nat : at >= N => Ends(data, f, at, n) = IF n = 0 THEN at ELSE -1
    BY DEF Ends
  <2>5. EndsFrom(data, f, N - 0)
    BY <1>1, <2>2, <2>4 DEF EndsFrom
  <2> QED
    BY <1>1, <2>3, <2>5
<1>3. ASSUME NEW d \in 0..N, d < N, d \in S
      PROVE  d + 1 \in S
  <2>1. PICK f \in Forward : EndsFrom(data, f, N - d)
    BY <1>3
  <2> DEFINE p == N - (d + 1)
             v == [n \in Nat |-> Ends(data, f, p, n)]
             g == [f EXCEPT ![p] = v]
  <2>2. p \in Nat /\ d + 1 \in 0..N /\ N - d = p + 1
    BY <1>1, <1>3
  <2> HIDE DEF p
  <2>3. f \in [Nat -> [Nat -> Int]] /\ \A at, n \in Nat : f[at][n] = -1 \/ f[at][n] >= at
    BY DEF Forward
  <2>4. \A n \in Nat : v[n] \in Int /\ (v[n] = -1 \/ v[n] >= p)
    BY <2>2, EndsForward
  <2>5. v \in [Nat -> Int]
    BY <2>4
  <2>6. \A n \in Nat : v[n] = Ends(data, f, p, n)
    OBVIOUS
  <2> HIDE DEF v
  <2>7. g \in [Nat -> [Nat -> Int]] /\ g[p] = v /\ \A at \in Nat : at # p => g[at] = f[at]
    BY <2>2, <2>3, <2>5
  <2> HIDE DEF g
  <2>8. g \in Forward
    <3>1. ASSUME NEW at \in Nat, NEW n \in Nat
          PROVE  g[at][n] = -1 \/ g[at][n] >= at
      BY <2>3, <2>4, <2>7
    <3> QED
      BY <2>7, <3>1 DEF Forward
  <2>9. ASSUME NEW at \in Nat, NEW n \in Nat, at >= p
        PROVE  g[at][n] = Ends(data, g, at, n)
    <3>1. Ends(data, g, at, n) = Ends(data, f, at, n)
      <4>1. \A q \in Nat : q > at => g[q] = f[q]
        BY <2>2, <2>7, <2>9
      <4> QED
        BY <2>7, <4>1, EndsForward
    <3>2. CASE at = p
      BY <2>6, <2>7, <3>1, <3>2
    <3>3. CASE at # p
      <4>1. at >= N - d
        BY <2>2, <2>9, <3>3
      <4>2. f[at][n] = Ends(data, f, at, n)
        BY <2>1, <4>1 DEF EndsFrom
      <4> QED
        BY <2>7, <3>1, <3>3, <4>2
    <3> QED
      BY <3>2, <3>3
  <2>10. EndsFrom(data, g, p)
    BY <2>9 DEF EndsFrom
  <2> HIDE DEF N
  <2> QED
    BY <2>2, <2>8, <2>10 DEF p
<1>4. N \in S
  <2> HIDE DEF S
  <2>1. 0..N \subseteq S
    BY <1>1, <1>2, <1>3, UpTo
  <2> QED
    BY <1>1, <2>1
<1>5. N - N = 0
  BY <1>1
<1> QED
  BY <1>4, <1>5

\* print_res() computes one of these functions.
LEMMA PrintIs ==
    ASSUME NEW data \in Seq(Bytes)
    PROVE  \E f : EndsFrom(data, f, 0) /\ print_res(data) = f[0][1]
<1> DEFINE Is(f) == f = [at \in Nat |-> [n \in Nat |-> Ends(data, f, at, n)]]
           f == CHOOSE f_ : Is(f_)
<1>1. Is(f)
  <2>1. PICK h \in Forward : EndsFrom(data, h, 0)
    BY PrintExists
  <2>2. h \in [Nat -> [Nat -> Int]]
    BY DEF Forward
  <2>3. ASSUME NEW at \in Nat
        PROVE  h[at] = [n \in Nat |-> Ends(data, h, at, n)]
    <3>1. \A n \in Nat : h[at][n] = Ends(data, h, at, n)
      BY <2>1 DEF EndsFrom
    <3> QED
      BY <2>2, <3>1
  <2>4. Is(h)
    BY <2>2, <2>3
  <2> HIDE DEF Is
  <2> QED
    BY <2>4
<1>2. print_res(data) = f[0][1]
  BY DEF print_res, Ends
<1> HIDE DEF f
<1>3. ASSUME NEW at \in Nat, NEW n \in Nat
      PROVE  f[at][n] = Ends(data, f, at, n)
  <2>1. f = [p \in Nat |-> [m \in Nat |-> Ends(data, f, p, m)]]
    BY <1>1
  <2>2. f[at] = [m \in Nat |-> Ends(data, f, at, m)]
    BY <2>1, Zenon
  <2> QED
    BY <2>2
<1> QED
  BY <1>2, <1>3 DEF EndsFrom

-----------------------------------------------------------------------------
(* print_res() reads what the out functions write.                         *)

\* One value after the other: where the rest ends is where all of it ends.
Reads(data, f, at, m) ==
    /\ data[at + 1][2] = "nil" => f[at][m + 1] = f[at + 1][m]
    /\ data[at + 1][2] \in {"int", "dbl"} /\ at + 1 + W64 <= Len(data) =>
          f[at][m + 1] = f[at + 1 + W64][m]
    /\ \A n \in Nat :
          /\ /\ data[at + 1][2] = "str" /\ data[at + 2][4] = n
             /\ at + 1 + U32 + n <= Len(data)
             => f[at][m + 1] = f[at + 1 + U32 + n][m]
          /\ /\ data[at + 1][2] = "err" /\ data[at + U32 + 2][4] = n
             /\ at + 1 + 2 * U32 + n <= Len(data)
             => f[at][m + 1] = f[at + 1 + 2 * U32 + n][m]
          /\ /\ data[at + 1][2] = "arr" /\ data[at + 2][4] = n
             /\ at + 1 + U32 <= Len(data) /\ f[at + 1 + U32][n] \in Nat
             => f[at][m + 1] = f[f[at + 1 + U32][n]][m]

\* The recursion of print_res(), one type of value at a time.
LEMMA ReadsValue ==
    ASSUME NEW data \in Seq(Bytes), NEW f, EndsFrom(data, f, 0),
           NEW at \in Nat, at < Len(data), NEW m \in Nat
    PROVE  Reads(data, f, at, m)
<1> DEFINE t == data[at + 1][2]
           body == at + Fixed(data, t)
           last == data[body - U32 + 1][4]
           next == IF body > Len(data) THEN -1
                   ELSE IF t = "arr" THEN f[body][last]
                   ELSE IF t \notin {"str", "err"} THEN body
                   ELSE IF body + last > Len(data) THEN -1 ELSE body + last
<1>1. U32 \in Nat \ {0} /\ W64 \in Nat \ {0} /\ Len(data) \in Nat
  BY WireAssumption
<1>3. f[at][m + 1] = IF next = -1 THEN -1 ELSE f[next][m]
  <2>1. f[at][m + 1] = Ends(data, f, at, m + 1)
    BY DEF EndsFrom
  <2>2. m + 1 # 0 /\ m + 1 - 1 = m /\ ~(at >= Len(data)) /\ m + 1 \in Nat
    BY <1>1
  <2>3. Ends(data, f, at, m + 1) = IF next = -1 THEN -1 ELSE f[next][m + 1 - 1]
    BY <2>2 DEF Ends, U32At
  <2> HIDE DEF next
  <2> QED
    BY <2>1, <2>2, <2>3
<1> HIDE DEF t
<1>4. ASSUME t = "nil"
      PROVE  f[at][m + 1] = f[at + 1][m]
  <2>1. body = at + 1
    BY <1>4 DEF Fixed
  <2>2. next = body
    BY <1>1, <1>4, <2>1
  <2> QED
    BY <1>3, <2>1, <2>2
<1>5. ASSUME t \in {"int", "dbl"}, at + 1 + W64 <= Len(data)
      PROVE  f[at][m + 1] = f[at + 1 + W64][m]
  <2>1. body = at + 1 + W64
    BY <1>1, <1>5 DEF Fixed
  <2>2. next = body
    BY <1>1, <1>5, <2>1
  <2> QED
    BY <1>1, <1>3, <2>1, <2>2
<1>6. ASSUME NEW n \in Nat, t = "str", data[at + 2][4] = n, at + 1 + U32 + n <= Len(data)
      PROVE  f[at][m + 1] = f[at + 1 + U32 + n][m]
  <2>1. body = at + 1 + U32 /\ body - U32 + 1 = at + 2
    BY <1>1, <1>6 DEF Fixed
  <2>2. last = n
    BY <1>6, <2>1
  <2> HIDE DEF last
  <2>3. next = at + 1 + U32 + n
    BY <1>1, <1>6, <2>1, <2>2
  <2> HIDE DEF next
  <2> QED
    BY <1>1, <1>3, <2>3
<1>7. ASSUME NEW n \in Nat, t = "err", data[at + U32 + 2][4] = n, at + 1 + 2 * U32 + n <= Len(data)
      PROVE  f[at][m + 1] = f[at + 1 + 2 * U32 + n][m]
  <2>1. body = at + 1 + 2 * U32 /\ body - U32 + 1 = at + U32 + 2
    BY <1>1, <1>7 DEF Fixed
  <2>2. last = n
    BY <1>7, <2>1
  <2> HIDE DEF last
  <2>3. next = at + 1 + 2 * U32 + n
    BY <1>1, <1>7, <2>1, <2>2
  <2> HIDE DEF next
  <2> QED
    BY <1>1, <1>3, <2>3
<1>8. ASSUME NEW n \in Nat, t = "arr", data[at + 2][4] = n,
             at + 1 + U32 <= Len(data), f[at + 1 + U32][n] \in Nat
      PROVE  f[at][m + 1] = f[f[at + 1 + U32][n]][m]
  <2>1. body = at + 1 + U32 /\ body - U32 + 1 = at + 2
    BY <1>1, <1>8 DEF Fixed
  <2>2. last = n
    BY <1>8, <2>1
  <2> HIDE DEF last
  <2>3. next = f[at + 1 + U32][n]
    BY <1>1, <1>8, <2>1, <2>2
  <2> HIDE DEF next
  <2> QED
    BY <1>1, <1>3, <1>8, <2>3
<1> QED
  BY <1>4, <1>5, <1>6, <1>7, <1>8 DEF t, Reads

\* How a value begins.
LEMMA Begins ==
    ASSUME NEW k \in Nat, NEW n \in Nat
    PROVE  /\ nilOf(k)[1][2] = "nil"
           /\ intOf(k)[1][2] = "int" /\ dblOf(k)[1][2] = "dbl"
           /\ strOf(k, n)[1][2] = "str" /\ strOf(k, n)[2][4] = n
           /\ errOf(k, n)[1][2] = "err" /\ errOf(k, n)[U32 + 2][4] = n
           /\ arrOf(k, n)[1][2] = "arr" /\ arrOf(k, n)[2][4] = n
<1> DEFINE h == u32(k, n)
           g == str(k, n)
           z == u32(k, 0)
           d == num(k)
<1>1. h \in Seq(Bytes) /\ Len(h) = U32 /\ g \in Seq(Bytes) /\ d \in Seq(Bytes)
  BY Fields
<1>2. z \in Seq(Bytes) /\ Len(z) = U32
  BY Fields
<1>3. h[1][4] = n
  <2>1. 1 \in 1..U32
    BY WireAssumption
  <2>2. h[1] = <<k, "u32", 1, n>>
    BY <2>1, Fields
  <2> QED
    BY <2>2
<1>4. U32 \in Nat \ {0}
  BY WireAssumption
<1> HIDE DEF h, g, z, d
<1>5. ASSUME NEW t \in Tags, NEW x \in Seq(Bytes)
      PROVE  /\ (tag(k, t) \o x)[1][2] = t
             /\ \A i \in 1..Len(x), j \in Nat : j = i + 1 => (tag(k, t) \o x)[j] = x[i]
  <2> DEFINE y == tag(k, t)
  <2>0. Len(y) = 1
    BY TagIs
  <2>1. y \in Seq(Bytes) /\ y[1] = <<k, t, 1, 0>>
    BY TagIs
  <2> HIDE DEF y
  <2>2. /\ \A i \in 1..Len(y) : (y \o x)[i] = y[i]
        /\ \A i \in 1..Len(x) : (y \o x)[Len(y) + i] = x[i]
    <3>1. y \in Seq(Bytes)
      BY <2>1
    <3> QED
      BY <3>1
  <2>3. (y \o x)[1] = y[1]
    BY <2>0, <2>2
  <2>4. ASSUME NEW i \in 1..Len(x), NEW j \in Nat, j = i + 1
        PROVE  (y \o x)[j] = x[i]
    <3>1. j = Len(y) + i
      BY <2>0, <2>4
    <3> QED
      BY <2>2, <3>1
  <2>5. <<k, t, 1, 0>>[2] = t
    OBVIOUS
  <2> QED
    BY <2>1, <2>3, <2>4, <2>5 DEF y
<1>6. "nil" \in Tags /\ "int" \in Tags /\ "dbl" \in Tags /\ "str" \in Tags /\ "err" \in Tags /\ "arr" \in Tags
  BY DEF Tags
<1> DEFINE Behind(t, x, i, j) == (tag(k, t) \o x)[j] = x[i]
<1>6a. ASSUME NEW t \in Tags, NEW x \in Seq(Bytes), NEW i \in 1..Len(x), NEW j \in Nat, j = i + 1
       PROVE  Behind(t, x, i, j)
  <2> DEFINE v == tag(k, t) \o x
  <2>1. \A ii \in 1..Len(x), jj \in Nat : jj = ii + 1 => v[jj] = x[ii]
    BY <1>5
  <2> HIDE DEF v
  <2>2. v[j] = x[i]
    BY <1>6a, <2>1
  <2> QED
    BY <2>2 DEF v
<1> HIDE DEF Behind
<1>7. ASSUME NEW x \in Seq(Bytes)
      PROVE  (h \o x)[1][4] = n /\ Len(h \o x) >= 1 /\ h \o x \in Seq(Bytes)
  <2>1. h \in Seq(Bytes) /\ Len(h) >= 1
    BY <1>1, <1>4
  <2>2. (h \o x)[1] = h[1] /\ Len(h \o x) >= 1 /\ h \o x \in Seq(Bytes)
    BY <2>1
  <2> QED
    BY <1>3, <2>2
<1>8. nilOf(k)[1][2] = "nil"
  <2>1. tag(k, "nil")[1] = <<k, "nil", 1, 0>>
    BY <1>6, TagIs
  <2> QED
    BY <2>1 DEF nilOf
<1>9. intOf(k)[1][2] = "int" /\ dblOf(k)[1][2] = "dbl"
  BY <1>1, <1>5, <1>6 DEF intOf, dblOf, d
<1>10. strOf(k, n)[1][2] = "str" /\ strOf(k, n)[2][4] = n
  <2> DEFINE x == h \o g
  <2>1. x \in Seq(Bytes) /\ x[1][4] = n /\ 1 \in 1..Len(x)
    BY <1>1, <1>7
  <2>2. strOf(k, n) = tag(k, "str") \o x
    BY DEF strOf, h, g
  <2> HIDE DEF x
  <2>3. (tag(k, "str") \o x)[1][2] = "str" /\ (tag(k, "str") \o x)[2] = x[1]
    <3>1. 2 \in Nat /\ 2 = 1 + 1
      OBVIOUS
    <3>2. (tag(k, "str") \o x)[1][2] = "str"
      BY <1>5, <1>6, <2>1
    <3>4. Behind("str", x, 1, 2)
      BY <1>6a, <1>6, <2>1, <3>1
    <3>3. (tag(k, "str") \o x)[2] = x[1]
      BY <3>4 DEF Behind
    <3> QED
      BY <3>2, <3>3
  <2> QED
    BY <2>1, <2>2, <2>3
<1>11. errOf(k, n)[1][2] = "err" /\ errOf(k, n)[U32 + 2][4] = n
  <2> DEFINE x == h \o g
             y == z \o x
  <2>1. x \in Seq(Bytes) /\ x[1][4] = n /\ 1 \in 1..Len(x)
    BY <1>1, <1>7
  <2>2. errOf(k, n) = tag(k, "err") \o y
    BY DEF errOf, h, g, z
  <2> HIDE DEF x
  <2>3. y \in Seq(Bytes) /\ y[U32 + 1] = x[1] /\ U32 + 1 \in 1..Len(y)
    <3>1. z \in Seq(Bytes)
      BY <1>2
    <3>2. y \in Seq(Bytes) /\ Len(y) = Len(z) + Len(x) /\ y[Len(z) + 1] = x[1]
      BY <2>1, <3>1
    <3> QED
      BY <1>2, <1>4, <2>1, <3>2
  <2> HIDE DEF y
  <2>4. (tag(k, "err") \o y)[1][2] = "err" /\ (tag(k, "err") \o y)[U32 + 2] = y[U32 + 1]
    <3>1. U32 + 2 \in Nat /\ U32 + 2 = (U32 + 1) + 1
      BY <1>4
    <3>2. (tag(k, "err") \o y)[1][2] = "err"
      BY <1>5, <1>6, <2>3
    <3>4. Behind("err", y, U32 + 1, U32 + 2)
      BY <1>6a, <1>6, <2>3, <3>1
    <3>3. (tag(k, "err") \o y)[U32 + 2] = y[U32 + 1]
      BY <3>4 DEF Behind
    <3> QED
      BY <3>2, <3>3
  <2> QED
    BY <2>1, <2>2, <2>3, <2>4
<1>12. arrOf(k, n)[1][2] = "arr" /\ arrOf(k, n)[2][4] = n
  <2>1. arrOf(k, n) = tag(k, "arr") \o h
    BY DEF arrOf, h
  <2>2. (tag(k, "arr") \o h)[1][2] = "arr" /\ (tag(k, "arr") \o h)[2] = h[1]
    <3>1. 1 \in 1..Len(h) /\ 2 \in Nat /\ 2 = 1 + 1
      BY <1>1, <1>4
    <3>2. (tag(k, "arr") \o h)[1][2] = "arr"
      BY <1>1, <1>5, <1>6
    <3>4. Behind("arr", h, 1, 2)
      BY <1>1, <1>6a, <1>6, <3>1
    <3>3. (tag(k, "arr") \o h)[2] = h[1]
      BY <3>4 DEF Behind
    <3> QED
      BY <3>2, <3>3
  <2> QED
    BY <1>3, <2>1, <2>2
<1> QED
  BY <1>8, <1>9, <1>10, <1>11, <1>12

\* Where the items of a chain are in it.
PlaceOf(cat, N, item, i) ==
    /\ Len(cat[i]) = Len(cat[i - 1]) + Len(item[i])
    /\ Len(cat[i]) <= Len(cat[N])
    /\ \A j \in 1..Len(item[i]) : cat[N][Len(cat[i - 1]) + j] = item[i][j]

\* An item of a chain is where the items before it end.
LEMMA ChainPlaces ==
    ASSUME NEW N \in Nat, NEW cat, NEW item, Chain(cat, N, item), NEW i \in 1..N
    PROVE  PlaceOf(cat, N, item, i)
<1> DEFINE Front(d) == \E rest \in Seq(Bytes) : cat[N] = cat[N - d] \o rest
           S == {d \in 0..N : Front(d)}
<1>1. /\ \A k \in 0..N : cat[k] \in Seq(Bytes)
      /\ \A k \in 1..N : cat[k] = cat[k - 1] \o item[k] /\ item[k] \in Seq(Bytes)
  BY DEF Chain
<1>2. 0 \in S
  <2>1. cat[N] \in Seq(Bytes)
    BY <1>1
  <2>2. cat[N] = cat[N] \o <<>> /\ <<>> \in Seq(Bytes) /\ N - 0 = N
    BY <2>1
  <2>3. Front(0)
    BY <2>2
  <2> HIDE DEF Front
  <2> QED
    BY <2>3
<1>3. ASSUME NEW d \in 0..N, d < N, d \in S
      PROVE  d + 1 \in S
  <2>1. PICK rest \in Seq(Bytes) : cat[N] = cat[N - d] \o rest
    BY <1>3
  <2>2. PICK k \in 1..N : k = N - d /\ k - 1 = N - (d + 1) /\ k - 1 \in 0..N
    BY <1>3
  <2> DEFINE c == cat[k - 1]
             e == item[k]
  <2>3. c \in Seq(Bytes) /\ e \in Seq(Bytes) /\ cat[k] = c \o e
    BY <1>1, <2>2
  <2> HIDE DEF c, e
  <2>4. (c \o e) \o rest = c \o (e \o rest) /\ e \o rest \in Seq(Bytes)
    BY <2>3
  <2>5. cat[N] = cat[N - (d + 1)] \o (e \o rest)
    BY <2>1, <2>2, <2>3, <2>4 DEF c
  <2>6. d + 1 \in 0..N
    BY <1>3
  <2> QED
    BY <2>4, <2>5, <2>6
<1>4. Front(N - i)
  <2> HIDE DEF Front
  <2>1. 0..N \subseteq S
    <3> HIDE DEF S
    <3> QED
      BY <1>2, <1>3, UpTo
  <2>2. N - i \in 0..N
    OBVIOUS
  <2> QED
    BY <2>1, <2>2
<1>5. PICK rest \in Seq(Bytes) : cat[N] = cat[i] \o rest
  <2>1. N - (N - i) = i
    OBVIOUS
  <2> QED
    BY <1>4, <2>1
<1> DEFINE c == cat[i - 1]
           e == item[i]
<1>6. c \in Seq(Bytes) /\ e \in Seq(Bytes) /\ cat[i] = c \o e
  <2>1. i - 1 \in 0..N
    OBVIOUS
  <2> QED
    BY <1>1, <2>1
<1> HIDE DEF c, e
<1>7. Len(c \o e) = Len(c) + Len(e) /\ c \o e \in Seq(Bytes)
  BY <1>6
<1> DEFINE ce == c \o e
<1> HIDE DEF ce
<1>8. Len(ce \o rest) = Len(ce) + Len(rest) /\ \A j \in 1..Len(ce) : (ce \o rest)[j] = ce[j]
  BY <1>7 DEF ce
<1>9. ASSUME NEW j \in 1..Len(e)
      PROVE  cat[N][Len(c) + j] = e[j]
  <2>1. (c \o e)[Len(c) + j] = e[j] /\ Len(c) + j \in 1..(Len(c) + Len(e))
    BY <1>6
  <2> QED
    BY <1>5, <1>6, <1>7, <1>8, <2>1 DEF ce
<1>10. Len(cat[N]) >= Len(cat[i])
  BY <1>5, <1>6, <1>7, <1>8 DEF ce
<1>11. Len(cat[i]) \in Nat /\ Len(cat[N]) \in Nat
  BY <1>1
<1> QED
  BY <1>6, <1>7, <1>9, <1>10, <1>11 DEF c, e, PlaceOf

\* The outputs of the commands.
Shape(s, k) ==
    \/ s = nilOf(k) \/ s = intOf(k) \/ s = dblOf(k)
    \/ \E n \in Nat : s = strOf(k, n) \/ s = errOf(k, n)
    \/ \E names \in Seq(Nat) : \E cat :
          \/ Chain(cat, Len(names), names1(k, names)) /\ s = arrOf(k, Len(names)) \o cat[Len(names)]
          \/ Chain(cat, Len(names), names2(k, names)) /\ s = arrOf(k, 2 * Len(names)) \o cat[Len(names)]

ListOf(s, k, per, N, cat) == s = arrOf(k, per * N) \o cat[N]

ReadsItem(s, f, e, per, m, at) ==
    at + Len(e) <= Len(s) /\ (\A j \in 1..Len(e) : s[at + j] = e[j])
       => f[at][m + per] = f[at + Len(e)][m]

\* An array of values is read to its end, if its items are, `per` values each.
LEMMA ReadsList ==
    ASSUME NEW k \in Nat, NEW per \in Nat, NEW N \in Nat, NEW cat, NEW item, Chain(cat, N, item),
           NEW s, ListOf(s, k, per, N, cat), NEW f, EndsFrom(s, f, 0),
           \A i \in 1..N, m \in Nat, at \in Nat : ReadsItem(s, f, item[i], per, m, at)
    PROVE  s \in Seq(Bytes) /\ f[0][1] = Len(s)
<1> DEFINE c == cat[N]
           a == arrOf(k, per * N)
           A == 1 + U32
<1>1. c \in Seq(Bytes) /\ \A i \in 0..N : cat[i] \in Seq(Bytes)
  BY DEF Chain
<1>2. per * N \in Nat
  OBVIOUS
<1>3. a \in Seq(Bytes) /\ Len(a) = A /\ a[1][2] = "arr" /\ a[2][4] = per * N
  <2> DEFINE M == per * N
  <2>1. M \in Nat
    BY <1>2
  <2> HIDE DEF M
  <2>2. arrOf(k, M) \in Seq(Bytes) /\ Len(arrOf(k, M)) = A
    BY <2>1, FieldsOf
  <2>3. arrOf(k, M)[1][2] = "arr" /\ arrOf(k, M)[2][4] = M
    BY <2>1, Begins
  <2> QED
    BY <2>2, <2>3 DEF M
<1>4. A \in Nat /\ A >= 2 /\ U32 \in Nat \ {0}
  BY WireAssumption
<1> DEFINE M == per * N
<1> HIDE DEF a, M
<1>5. /\ s \in Seq(Bytes) /\ Len(s) = A + Len(c)
      /\ s[1] = a[1] /\ s[2] = a[2] /\ \A j \in 1..Len(c) : s[A + j] = c[j]
  <2>1. a \in Seq(Bytes) /\ s = a \o c
    BY <1>3 DEF a, ListOf
  <2> HIDE DEF c, A
  <2>2. /\ s \in Seq(Bytes) /\ Len(s) = Len(a) + Len(c)
        /\ \A j \in 1..Len(a) : s[j] = a[j]
        /\ \A j \in 1..Len(c) : s[Len(a) + j] = c[j]
    <3> DEFINE ac == a \o c
    <3>1. c \in Seq(Bytes) /\ a \in Seq(Bytes)
      BY <1>1, <2>1
    <3>2. ac \in Seq(Bytes) /\ Len(ac) = Len(a) + Len(c)
      BY <3>1
    <3>3. \A j \in 1..Len(a) : ac[j] = a[j]
      BY <3>1
    <3>4. \A j \in 1..Len(c) : ac[Len(a) + j] = c[j]
      BY <3>1
    <3>5. s = ac
      BY <2>1
    <3> HIDE DEF ac
    <3> QED
      BY <3>2, <3>3, <3>4, <3>5
  <2>3. 1 \in 1..Len(a) /\ 2 \in 1..Len(a)
    BY <1>3, <1>4
  <2>4. s[1] = a[1] /\ s[2] = a[2]
    BY <2>2, <2>3
  <2>5. Len(a) = A
    BY <1>3
  <2> QED
    BY <2>2, <2>4, <2>5
<1> HIDE DEF A
<1>6. Len(c) \in Nat /\ Len(s) \in Nat /\ \A i \in 0..N : Len(cat[i]) \in Nat
  <2>1. c \in Seq(Bytes)
    BY <1>1
  <2>2. s \in Seq(Bytes)
    BY <1>5
  <2>3. \A i \in 0..N : cat[i] \in Seq(Bytes)
    BY <1>1
  <2>4. Len(c) \in Nat
    BY <2>1
  <2>5. Len(s) \in Nat
    BY <2>2
  <2>6. \A i \in 0..N : Len(cat[i]) \in Nat
    BY <2>3
  <2> QED
    BY <2>4, <2>5, <2>6
<1>0. ASSUME NEW L \in Nat
      PROVE  f[L][0] = L
  <2>1. f[L][0] = Ends(s, f, L, 0)
    BY DEF EndsFrom
  <2> QED
    BY <2>1 DEF Ends
<1> DEFINE Good(d) == f[A + Len(cat[N - d])][per * d] = Len(s)
           S == {d \in 0..N : Good(d)}
<1>7. 0 \in S
  <2>2. f[Len(s)][0] = Len(s)
    BY <1>0, <1>6
  <2>3. N - 0 = N /\ per * 0 = 0 /\ A + Len(cat[N]) = Len(s)
    <3>1. A + Len(c) = Len(s)
      BY <1>5
    <3> QED
      BY <3>1
  <2> HIDE DEF c
  <2>4. Good(0)
    BY <2>2, <2>3
  <2> HIDE DEF Good
  <2> QED
    BY <2>4
<1>8. ASSUME NEW d \in 0..N, d < N, d \in S
      PROVE  d + 1 \in S
  <2>1. PICK i \in 1..N : i = N - d /\ i - 1 = N - (d + 1) /\ i - 1 \in 0..N
    BY <1>8
  <2>2. /\ Len(cat[i]) = Len(cat[i - 1]) + Len(item[i])
        /\ Len(cat[i]) <= Len(c)
        /\ \A j \in 1..Len(item[i]) : c[Len(cat[i - 1]) + j] = item[i][j]
    <3>1. PlaceOf(cat, N, item, i)
      BY ChainPlaces
    <3> QED
      BY <3>1 DEF PlaceOf
  <2>3. Len(item[i]) \in Nat
    <3>1. item[i] \in Seq(Bytes)
      BY DEF Chain
    <3> QED
      BY <3>1
  <2> DEFINE at == A + Len(cat[i - 1])
             L == Len(item[i])
             C == Len(cat[i - 1])
  <2>4. C \in Nat /\ L \in Nat /\ C + L <= Len(c) /\ Len(cat[i]) = C + L
    BY <1>6, <2>1, <2>2, <2>3
  <2>5. at \in Nat /\ at + L <= Len(s)
    <3>1. Len(s) = A + Len(c) /\ A \in Nat
      BY <1>4, <1>5
    <3> HIDE DEF C, L, c
    <3> QED
      BY <1>6, <2>4, <3>1 DEF C
  <2>6. ASSUME NEW j \in 1..L
        PROVE  s[at + j] = item[i][j]
    <3>1. C + j \in 1..Len(c) /\ at + j = A + (C + j)
      <4>1. A \in Nat /\ at = A + C
        BY <1>4
      <4> HIDE DEF C, L, c, at
      <4> QED
        BY <1>6, <2>4, <4>1
    <3>2. s[A + (C + j)] = c[C + j]
      BY <1>5, <3>1
    <3>3. c[C + j] = item[i][j]
      BY <2>2
    <3> QED
      BY <3>1, <3>2, <3>3
  <2> DEFINE m == per * d
  <2>7. m \in Nat /\ m + per = per * (d + 1)
    OBVIOUS
  <2> HIDE DEF m
  <2>8. f[at][m + per] = f[at + L][m]
    <3>1. ReadsItem(s, f, item[i], per, m, at)
      BY <2>5, <2>7
    <3> QED
      BY <2>5, <2>6, <3>1 DEF ReadsItem
  <2>9. f[at + L][m] = Len(s)
    <3>1. at + L = A + Len(cat[i])
      <4>1. A \in Nat /\ at = A + C
        BY <1>4
      <4> HIDE DEF C, L, c, at
      <4> QED
        BY <2>4, <4>1
    <3> QED
      BY <1>8, <2>1, <3>1 DEF m
  <2>10. Good(d + 1)
    BY <2>1, <2>7, <2>8, <2>9
  <2>11. d + 1 \in 0..N
    BY <1>8
  <2> HIDE DEF Good
  <2> QED
    BY <2>10, <2>11
<1>9. Good(N)
  <2> HIDE DEF Good
  <2>1. 0..N \subseteq S
    <3> HIDE DEF S
    <3> QED
      BY <1>7, <1>8, UpTo
  <2> QED
    BY <2>1
<1>10. f[A][M] = Len(s)
  <2>1. N - N = 0 /\ cat[0] = <<>> /\ A + Len(<<>>) = A
    BY <1>4 DEF Chain
  <2> QED
    BY <1>9, <2>1 DEF M
<1>11. f[0][1] = f[Len(s)][0]
  <2>1. s[0 + 1][2] = "arr" /\ s[0 + 2][4] = M /\ 0 + 1 + U32 = A
    <3>1. 0 + 1 = 1 /\ 0 + 2 = 2
      OBVIOUS
    <3>2. s[1][2] = "arr" /\ s[2][4] = M
      BY <1>3, <1>5 DEF M
    <3> QED
      BY <1>4, <3>1, <3>2 DEF A
  <2>2. 0 < Len(s) /\ A <= Len(s) /\ 0 \in Nat /\ 0 + 1 = 1 /\ M \in Nat /\ Len(s) \in Nat
    <3>1. M \in Nat
      BY <1>2 DEF M
    <3>2. A \in Nat /\ A >= 2 /\ Len(s) = A + Len(c)
      BY <1>4, <1>5
    <3> HIDE DEF c
    <3> QED
      BY <1>6, <3>1, <3>2
  <2>3. Reads(s, f, 0, 0)
    BY <1>5, <2>2, ReadsValue
  <2>4. f[0][0 + 1] = f[f[0 + 1 + U32][M]][0]
    BY <1>10, <2>1, <2>2, <2>3 DEF Reads
  <2> QED
    BY <1>10, <2>1, <2>2, <2>4
<1>12. f[Len(s)][0] = Len(s)
  BY <1>0, <1>6
<1> QED
  BY <1>5, <1>11, <1>12

\* From `at` print_res() goes on behind the next n bytes, with a value less to read.
Skips(f, at, n, m) == f[at][m + 1] = f[at + n][m]

\* Where a string stands, it is read; likewise a number.
LEMMA ReadsString ==
    ASSUME NEW s \in Seq(Bytes), NEW f, EndsFrom(s, f, 0), NEW k \in Nat, NEW n \in Nat,
           NEW at \in Nat, NEW m \in Nat, at + Len(strOf(k, n)) <= Len(s),
           s[at + 1] = strOf(k, n)[1], s[at + 2] = strOf(k, n)[2]
    PROVE  Skips(f, at, Len(strOf(k, n)), m)
<1>1. Len(strOf(k, n)) = 1 + U32 + n
  BY FieldsOf
<1>2. strOf(k, n)[1][2] = "str" /\ strOf(k, n)[2][4] = n
  BY Begins
<1>3. U32 \in Nat /\ Len(s) \in Nat
  BY WireAssumption
<1> DEFINE L == Len(strOf(k, n))
<1> HIDE DEF L
<1>4. L = 1 + U32 + n /\ at + L <= Len(s)
  BY <1>1 DEF L
<1>5. at + L = at + 1 + U32 + n /\ at < Len(s) /\ at + 1 + U32 + n <= Len(s)
  BY <1>3, <1>4
<1>6. Reads(s, f, at, m)
  BY <1>5, ReadsValue
<1>7. f[at][m + 1] = f[at + 1 + U32 + n][m]
  BY <1>2, <1>5, <1>6 DEF Reads
<1>8. f[at][m + 1] = f[at + L][m]
  BY <1>5, <1>7
<1> QED
  BY <1>8 DEF Skips, L

\* Where a number stands, it is skipped.
LEMMA ReadsDouble ==
    ASSUME NEW s \in Seq(Bytes), NEW f, EndsFrom(s, f, 0), NEW k \in Nat,
           NEW at \in Nat, NEW m \in Nat, at + Len(dblOf(k)) <= Len(s), s[at + 1] = dblOf(k)[1]
    PROVE  Skips(f, at, Len(dblOf(k)), m)
<1>1. Len(dblOf(k)) = 1 + W64
  <2>1. 0 \in Nat
    OBVIOUS
  <2> QED
    BY <2>1, FieldsOf
<1>2. dblOf(k)[1][2] = "dbl"
  <2>1. 0 \in Nat
    OBVIOUS
  <2> QED
    BY <2>1, Begins
<1>3. W64 \in Nat /\ Len(s) \in Nat
  BY WireAssumption
<1> DEFINE L == Len(dblOf(k))
<1> HIDE DEF L
<1>4. L = 1 + W64 /\ at + L <= Len(s)
  BY <1>1 DEF L
<1>5. at + L = at + 1 + W64 /\ at < Len(s) /\ at + 1 + W64 <= Len(s)
  BY <1>3, <1>4
<1>6. Reads(s, f, at, m)
  BY <1>5, ReadsValue
<1>7. f[at][m + 1] = f[at + 1 + W64][m]
  BY <1>2, <1>5, <1>6 DEF Reads
<1>8. f[at][m + 1] = f[at + L][m]
  BY <1>5, <1>7
<1> QED
  BY <1>8 DEF Skips, L

\* Where an item of a list stands, print_res() skips its one or two values.
LEMMA ReadsNames ==
    ASSUME NEW s \in Seq(Bytes), NEW f, EndsFrom(s, f, 0), NEW k \in Nat, NEW names \in Seq(Nat),
           NEW i \in 1..Len(names), NEW m \in Nat, NEW at \in Nat
    PROVE  /\ ReadsItem(s, f, names1(k, names)[i], 1, m, at)
           /\ ReadsItem(s, f, names2(k, names)[i], 2, m, at)
<1> DEFINE n == names[i]
           v == strOf(k, n)
           d == dblOf(k)
<1>1. n \in Nat
  OBVIOUS
<1> HIDE DEF n
<1>2. v \in Seq(Bytes) /\ d \in Seq(Bytes)
  BY <1>1, FieldsOf
<1>3. Len(v) = 1 + U32 + n /\ Len(d) = 1 + W64
  BY <1>1, FieldsOf
<1>4. U32 \in Nat \ {0} /\ W64 \in Nat \ {0} /\ Len(s) \in Nat
  BY WireAssumption
<1>5. Len(v) \in Nat /\ Len(v) >= 2 /\ Len(d) \in Nat /\ Len(d) >= 1
  BY <1>1, <1>3, <1>4
<1>6. names1(k, names)[i] = v /\ names2(k, names)[i] = v \o d
  BY DEF names1, names2, n
<1>7. ASSUME at + Len(v) <= Len(s), \A j \in 1..Len(v) : s[at + j] = v[j], NEW q \in Nat
      PROVE  f[at][q + 1] = f[at + Len(v)][q]
  <2>1. s[at + 1] = v[1] /\ s[at + 2] = v[2]
    <3>1. 1 \in 1..Len(v) /\ 2 \in 1..Len(v)
      BY <1>5
    <3> HIDE DEF v
    <3> QED
      BY <1>7, <3>1
  <2>2. at + Len(strOf(k, n)) <= Len(s) /\ s[at + 1] = strOf(k, n)[1] /\ s[at + 2] = strOf(k, n)[2]
    BY <1>7, <2>1
  <2>3. Skips(f, at, Len(strOf(k, n)), q)
    BY <1>1, <1>7, <2>2, ReadsString
  <2> QED
    BY <2>3 DEF Skips
<1>8. ASSUME at + Len(v \o d) <= Len(s), \A j \in 1..Len(v \o d) : s[at + j] = (v \o d)[j]
      PROVE  f[at][m + 2] = f[at + Len(v \o d)][m]
  <2> HIDE DEF v, d
  <2>1. /\ Len(v \o d) = Len(v) + Len(d) /\ \A j \in 1..Len(v) : (v \o d)[j] = v[j]
        /\ \A j \in 1..Len(d) : (v \o d)[Len(v) + j] = d[j]
    <3>1. Len(v \o d) = Len(v) + Len(d)
      BY <1>2
    <3>2. \A j \in 1..Len(v) : (v \o d)[j] = v[j]
      BY <1>2
    <3>3. \A j \in 1..Len(d) : (v \o d)[Len(v) + j] = d[j]
      BY <1>2
    <3> QED
      BY <3>1, <3>2, <3>3
  <2> DEFINE vd == v \o d
             p == at + Len(v)
  <2>2. Len(vd) = Len(v) + Len(d) /\ at + Len(vd) <= Len(s)
    BY <1>8, <2>1
  <2>3. \A j \in 1..Len(v) : s[at + j] = v[j]
    <3>1. \A j \in 1..Len(v) : j \in 1..Len(vd)
      BY <1>5, <2>2
    <3> QED
      BY <1>8, <2>1, <3>1
  <2>4. s[p + 1] = d[1]
    <3>1. Len(v) + 1 \in 1..Len(vd) /\ 1 \in 1..Len(d) /\ at + (Len(v) + 1) = p + 1
      BY <1>5, <2>2
    <3>2. s[at + (Len(v) + 1)] = vd[Len(v) + 1]
      BY <1>8, <3>1
    <3>3. vd[Len(v) + 1] = d[1]
      BY <2>1, <3>1
    <3> QED
      BY <3>1, <3>2, <3>3
  <2>5. p \in Nat /\ p + Len(d) <= Len(s) /\ at + Len(v) <= Len(s) /\ p + Len(d) = at + Len(vd)
    BY <1>4, <1>5, <2>2
  <2>6. m + 1 \in Nat /\ m + 1 + 1 = m + 2
    OBVIOUS
  <2>7. f[at][m + 1 + 1] = f[p][m + 1]
    BY <1>7, <2>3, <2>5, <2>6
  <2> HIDE DEF p, vd
  <2>8. f[p][m + 1] = f[p + Len(d)][m]
    <3>1. p \in Nat /\ p + Len(dblOf(k)) <= Len(s) /\ s[p + 1] = dblOf(k)[1]
      BY <2>4, <2>5 DEF d
    <3>2. Skips(f, p, Len(dblOf(k)), m)
      BY <3>1, ReadsDouble
    <3> QED
      BY <3>2 DEF Skips, d
  <2> QED
    BY <2>5, <2>6, <2>7, <2>8 DEF vd
<1>9. ReadsItem(s, f, v, 1, m, at)
  <2> HIDE DEF v
  <2> QED
    BY <1>7 DEF ReadsItem
<1>10. ReadsItem(s, f, v \o d, 2, m, at)
  <2> HIDE DEF v, d
  <2> QED
    BY <1>8 DEF ReadsItem
<1> QED
  BY <1>6, <1>9, <1>10

\* Whatever a command outputs, print_res() reads all of it and no more.
LEMMA PrintsAll ==
    ASSUME NEW k \in Nat, NEW s, Shape(s, k)
    PROVE  s \in Seq(Bytes) /\ print_res(s) = Len(s)
<1>1. U32 \in Nat \ {0} /\ W64 \in Nat \ {0} /\ 0 \in Nat
  BY WireAssumption
<1>2. ASSUME NEW f, EndsFrom(s, f, 0), NEW L \in Nat
      PROVE  f[L][0] = L
  <2>1. f[L][0] = Ends(s, f, L, 0)
    BY <1>2 DEF EndsFrom
  <2> QED
    BY <2>1 DEF Ends
<1>3. ASSUME s \in Seq(Bytes),
             \A f : EndsFrom(s, f, 0) => f[0][1] = Len(s)
      PROVE  print_res(s) = Len(s)
  BY <1>3, PrintIs
<1>4. CASE s = nilOf(k) \/ s = intOf(k) \/ s = dblOf(k)
  <2>1. s \in Seq(Bytes) /\ (\/ s[1][2] = "nil" /\ Len(s) = 1
                             \/ s[1][2] \in {"int", "dbl"} /\ Len(s) = 1 + W64)
    <3>1. nilOf(k) \in Seq(Bytes) /\ Len(nilOf(k)) = 1 /\ nilOf(k)[1][2] = "nil"
      BY <1>1, FieldsOf, Begins
    <3>2. intOf(k) \in Seq(Bytes) /\ Len(intOf(k)) = 1 + W64 /\ intOf(k)[1][2] = "int"
      BY <1>1, FieldsOf, Begins
    <3>3. dblOf(k) \in Seq(Bytes) /\ Len(dblOf(k)) = 1 + W64 /\ dblOf(k)[1][2] = "dbl"
      BY <1>1, FieldsOf, Begins
    <3> QED
      BY <1>4, <3>1, <3>2, <3>3
  <2>2. ASSUME NEW f, EndsFrom(s, f, 0)
        PROVE  f[0][1] = Len(s)
    <3>1. 0 < Len(s) /\ Len(s) \in Nat /\ 0 + 1 = 1
      BY <1>1, <2>1
    <3>2. Reads(s, f, 0, 0)
      BY <2>1, <2>2, <3>1, ReadsValue
    <3>3. f[0][1] = f[Len(s)][0]
      BY <1>1, <2>1, <3>1, <3>2 DEF Reads
    <3> QED
      BY <1>2, <2>2, <3>1, <3>3
  <2> QED
    BY <1>3, <2>1, <2>2
<1>5. ASSUME NEW n \in Nat, s = strOf(k, n)
      PROVE  s \in Seq(Bytes) /\ print_res(s) = Len(s)
  <2>1. s \in Seq(Bytes) /\ Len(s) = 1 + U32 + n
    BY <1>5, FieldsOf
  <2>2. ASSUME NEW f, EndsFrom(s, f, 0)
        PROVE  f[0][1] = Len(s)
    <3>1. 0 + Len(s) = Len(s) /\ Len(s) \in Nat /\ 0 + 1 = 1 /\ 0 + 2 = 2
      BY <2>1
    <3>2. PICK at \in Nat : at = 0
      OBVIOUS
    <3>4. at + Len(strOf(k, n)) <= Len(s) /\ s[at + 1] = strOf(k, n)[1] /\ s[at + 2] = strOf(k, n)[2]
      BY <1>5, <3>1, <3>2
    <3>5. f[at][at + 1] = f[at + Len(strOf(k, n))][at]
      <4>1. s \in Seq(Bytes) /\ EndsFrom(s, f, 0)
        BY <2>1, <2>2
      <4>2. Skips(f, at, Len(strOf(k, n)), at)
        BY <3>4, <4>1, ReadsString
      <4> QED
        BY <4>2 DEF Skips
    <3>3. f[0][0 + 1] = f[0 + Len(s)][0]
      BY <1>5, <3>2, <3>5
    <3> QED
      BY <1>2, <2>2, <3>1, <3>3
  <2> QED
    BY <1>3, <2>1, <2>2
<1>6. ASSUME NEW n \in Nat, s = errOf(k, n)
      PROVE  s \in Seq(Bytes) /\ print_res(s) = Len(s)
  <2>1. s \in Seq(Bytes) /\ Len(s) = 1 + 2 * U32 + n /\ s[1][2] = "err" /\ s[U32 + 2][4] = n
    <3>1. errOf(k, n) \in Seq(Bytes) /\ Len(errOf(k, n)) = 1 + 2 * U32 + n
      BY FieldsOf
    <3>2. errOf(k, n)[1][2] = "err"
      BY Begins
    <3>3. errOf(k, n)[U32 + 2][4] = n
      BY Begins
    <3> QED
      BY <1>6, <3>1, <3>2, <3>3
  <2>2. ASSUME NEW f, EndsFrom(s, f, 0)
        PROVE  f[0][1] = Len(s)
    <3>1. /\ 0 < Len(s) /\ Len(s) \in Nat /\ 0 + 1 = 1 /\ 0 + U32 + 2 = U32 + 2
          /\ 0 + 1 + 2 * U32 + n = Len(s)
      BY <1>1, <2>1
    <3>2. Reads(s, f, 0, 0)
      BY <2>1, <2>2, <3>1, ReadsValue
    <3>3. 0 + 1 + 2 * U32 + n <= Len(s)
      BY <3>1
    <3>4. f[0][0 + 1] = f[0 + 1 + 2 * U32 + n][0]
      BY <2>1, <3>1, <3>2, <3>3 DEF Reads
    <3> QED
      BY <1>2, <2>2, <3>1, <3>4
  <2> QED
    BY <1>3, <2>1, <2>2
<1>7. ASSUME NEW names \in Seq(Nat), NEW cat, Chain(cat, Len(names), names1(k, names)),
             s = arrOf(k, Len(names)) \o cat[Len(names)]
      PROVE  s \in Seq(Bytes) /\ print_res(s) = Len(s)
  <2> DEFINE N == Len(names)
             item == names1(k, names)
  <2>1. N \in Nat /\ 1 * N = N /\ 1 \in Nat
    OBVIOUS
  <2>2. ListOf(s, k, 1, N, cat)
    BY <1>7, <2>1 DEF ListOf
  <2>3. s \in Seq(Bytes)
    <3> DEFINE x == arrOf(k, N)
               y == cat[N]
    <3>1. x \in Seq(Bytes)
      BY <2>1, FieldsOf
    <3>2. y \in Seq(Bytes)
      BY <1>7, <2>1 DEF Chain
    <3>3. s = x \o y
      BY <1>7
    <3> HIDE DEF x, y
    <3> QED
      BY <3>1, <3>2, <3>3
  <2>4. ASSUME NEW f, EndsFrom(s, f, 0)
        PROVE  f[0][1] = Len(s)
    <3>1. \A i \in 1..N, m \in Nat, at \in Nat : ReadsItem(s, f, item[i], 1, m, at)
      BY <2>3, <2>4, ReadsNames
    <3>2. Chain(cat, N, item)
      BY <1>7
    <3>3. N \in Nat /\ 1 \in Nat
      OBVIOUS
    <3> HIDE DEF item, N
    <3> QED
      BY <2>2, <2>4, <3>1, <3>2, <3>3, ReadsList
  <2> QED
    BY <1>3, <2>3, <2>4
<1>8. ASSUME NEW names \in Seq(Nat), NEW cat, Chain(cat, Len(names), names2(k, names)),
             s = arrOf(k, 2 * Len(names)) \o cat[Len(names)]
      PROVE  s \in Seq(Bytes) /\ print_res(s) = Len(s)
  <2> DEFINE N == Len(names)
             item == names2(k, names)
  <2>1. N \in Nat /\ 2 \in Nat /\ 2 * N \in Nat
    OBVIOUS
  <2>2. ListOf(s, k, 2, N, cat)
    BY <1>8, <2>1 DEF ListOf
  <2>3. s \in Seq(Bytes)
    <3> DEFINE x == arrOf(k, 2 * N)
               y == cat[N]
    <3>1. x \in Seq(Bytes)
      <4> DEFINE M == 2 * N
      <4>1. M \in Nat
        BY <2>1
      <4> HIDE DEF M
      <4>2. arrOf(k, M) \in Seq(Bytes)
        BY <4>1, FieldsOf
      <4> QED
        BY <4>2 DEF M
    <3>2. y \in Seq(Bytes)
      <4>1. cat \in [0..N -> Seq(Bytes)] /\ N \in 0..N
        BY <1>8, <2>1 DEF Chain
      <4> HIDE DEF N
      <4> QED
        BY <4>1
    <3>3. s = x \o y
      BY <1>8
    <3> HIDE DEF x, y
    <3> QED
      BY <3>1, <3>2, <3>3
  <2>4. ASSUME NEW f, EndsFrom(s, f, 0)
        PROVE  f[0][1] = Len(s)
    <3>1. \A i \in 1..N, m \in Nat, at \in Nat : ReadsItem(s, f, item[i], 2, m, at)
      BY <2>3, <2>4, ReadsNames
    <3>2. Chain(cat, N, item)
      BY <1>8
    <3> HIDE DEF item, N
    <3> QED
      BY <2>1, <2>2, <2>4, <3>1, <3>2, ReadsList
  <2> QED
    BY <1>3, <2>3, <2>4
<1> QED
  BY <1>4, <1>5, <1>6, <1>7, <1>8 DEF Shape

-----------------------------------------------------------------------------
(* Responses.                                                              *)

Outputs(k, r, s) ==
    Shape(s, k) /\ \A b \in Buffers(Bytes) : Longer(Output(b, k, r), b, s)

\* Every command appends some bytes of a known shape, whatever is in the
\* buffer before.
LEMMA OutputIs ==
    ASSUME NEW k \in Nat, NEW r \in Values
    PROVE  \E s : s \in Seq(Bytes) /\ Outputs(k, r, s)
<1> DEFINE Goal == \E s : s \in Seq(Bytes) /\ Outputs(k, r, s)
<1>1. \/ r.type = "nil" \/ r.type = "int" \/ r.type = "dbl"
      \/ (r.type = "str" \/ r.type = "err") /\ r.len \in Nat
      \/ (r.type = "keys" \/ r.type = "pairs") /\ r.names \in Seq(Nat)
  BY DEF Values
<1>2. ASSUME NEW s, Shape(s, k), \A b \in Buffers(Bytes) : Longer(Output(b, k, r), b, s)
      PROVE  Goal
  BY <1>2, PrintsAll DEF Outputs
<1> HIDE DEF Goal
<1>3. CASE r.type = "nil"
  <2>1. \A b \in Buffers(Bytes) : Longer(Output(b, k, r), b, nilOf(k))
    <3>1. \A b : Output(b, k, r) = out_nil(b, k)
      BY <1>3 DEF Output
    <3>2. 0 \in Nat
      OBVIOUS
    <3> QED
      BY <3>1, <3>2, OutValues
  <2>2. Shape(nilOf(k), k)
    BY DEF Shape
  <2>3. Goal
    BY <1>2, <2>1, <2>2
  <2> QED
    BY <2>3 DEF Goal
<1>4. CASE r.type = "int"
  <2>1. \A b \in Buffers(Bytes) : Longer(Output(b, k, r), b, intOf(k))
    <3>1. \A b : Output(b, k, r) = out_int(b, k)
      BY <1>4 DEF Output
    <3>2. 0 \in Nat
      OBVIOUS
    <3> QED
      BY <3>1, <3>2, OutValues
  <2>2. Shape(intOf(k), k)
    BY DEF Shape
  <2>3. Goal
    BY <1>2, <2>1, <2>2
  <2> QED
    BY <2>3 DEF Goal
<1>5. CASE r.type = "dbl"
  <2>1. \A b \in Buffers(Bytes) : Longer(Output(b, k, r), b, dblOf(k))
    <3>1. \A b : Output(b, k, r) = out_dbl(b, k)
      BY <1>5 DEF Output
    <3>2. 0 \in Nat
      OBVIOUS
    <3> QED
      BY <3>1, <3>2, OutValues
  <2>2. Shape(dblOf(k), k)
    BY DEF Shape
  <2>3. Goal
    BY <1>2, <2>1, <2>2
  <2> QED
    BY <2>3 DEF Goal
<1>6. CASE r.type = "str" /\ r.len \in Nat
  <2> DEFINE n == r.len
  <2>1. n \in Nat /\ \A b : Output(b, k, r) = out_str(b, k, n)
    BY <1>6 DEF Output
  <2> HIDE DEF n
  <2>2. \A b \in Buffers(Bytes) : Longer(Output(b, k, r), b, strOf(k, n))
    BY <2>1, OutValues
  <2>3. Shape(strOf(k, n), k)
    BY <2>1 DEF Shape
  <2>4. Goal
    BY <1>2, <2>2, <2>3
  <2> QED
    BY <2>4 DEF Goal
<1>7. CASE r.type = "err" /\ r.len \in Nat
  <2> DEFINE n == r.len
  <2>1. n \in Nat /\ \A b : Output(b, k, r) = out_err(b, k, n)
    BY <1>7 DEF Output
  <2> HIDE DEF n
  <2>2. \A b \in Buffers(Bytes) : Longer(Output(b, k, r), b, errOf(k, n))
    BY <2>1, OutValues
  <2>3. Shape(errOf(k, n), k)
    BY <2>1 DEF Shape
  <2>4. Goal
    BY <1>2, <2>2, <2>3
  <2> QED
    BY <2>4 DEF Goal
<1>8. CASE r.type = "keys" /\ r.names \in Seq(Nat)
  <2> DEFINE names == r.names
  <2>1. names \in Seq(Nat) /\ \A b : Output(b, k, r) = Keys(b, k, names)
    BY <1>8 DEF Output
  <2> HIDE DEF names
  <2>2. Len(names) \in Nat /\ names1(k, names) \in [1..Len(names) -> Seq(Bytes)]
    BY <2>1, ItemsOf
  <2>3. PICK cat : Chain(cat, Len(names), names1(k, names))
    BY <2>2, ChainExists
  <2> DEFINE s == arrOf(k, Len(names)) \o cat[Len(names)]
  <2>4. \A b \in Buffers(Bytes) : Longer(Output(b, k, r), b, s)
    BY <2>1, <2>3, KeysIs
  <2>5. Shape(s, k)
    BY <2>1, <2>3 DEF Shape
  <2> HIDE DEF s
  <2>6. Goal
    BY <1>2, <2>4, <2>5
  <2> QED
    BY <2>6 DEF Goal
<1>9. CASE r.type = "pairs" /\ r.names \in Seq(Nat)
  <2> DEFINE names == r.names
  <2>1. names \in Seq(Nat) /\ \A b : Output(b, k, r) = ZQuery(b, k, names)
    BY <1>9 DEF Output
  <2> HIDE DEF names
  <2>2. Len(names) \in Nat /\ names2(k, names) \in [1..Len(names) -> Seq(Bytes)]
    BY <2>1, ItemsOf
  <2>3. PICK cat : Chain(cat, Len(names), names2(k, names))
    BY <2>2, ChainExists
  <2> DEFINE s == arrOf(k, 2 * Len(names)) \o cat[Len(names)]
  <2>4. \A b \in Buffers(Bytes) : Longer(Output(b, k, r), b, s)
    BY <2>1, <2>3, PairsAre
  <2>5. Shape(s, k)
    BY <2>1, <2>3 DEF Shape
  <2> HIDE DEF s
  <2>6. Goal
    BY <1>2, <2>4, <2>5
  <2> QED
    BY <2>6 DEF Goal
<1> QED
  BY <1>1, <1>3, <1>4, <1>5, <1>6, <1>7, <1>8, <1>9 DEF Goal

\* What may be in a response to the request k, and the response itself.
Answers(k) ==
    {p \in {Output(NewBuffer, k, r).data : r \in Replies} : Len(p) <= MaxMsg}
        \cup {out_err(NewBuffer, k, ErrLen).data}

Response(k, p) == u32(k, Len(p)) \o p

\* A new buffer is empty, and has no gap.
LEMMA NewBufferIs == NewBuffer \in Buffers(Bytes) /\ NewBuffer.data = <<>> /\ Tight(NewBuffer)
<1>1. NewBuffer \in Buffers(Bytes) /\ NewBuffer.data = <<>>
  BY DEF NewBuffer, Buffers
<1>2. Tight(NewBuffer)
  BY DEF NewBuffer, Tight, Fits, size
<1> QED
  BY <1>1, <1>2

\* The error that replaces a response fits into a message.
LEMMA ErrorIs ==
    ASSUME NEW k \in Nat
    PROVE  /\ out_err(NewBuffer, k, ErrLen).data = errOf(k, ErrLen)
           /\ Len(errOf(k, ErrLen)) <= MaxMsg /\ Shape(errOf(k, ErrLen), k)
<1>1. ErrLen \in Nat /\ 1 + 2 * U32 + ErrLen <= MaxMsg
  BY WireAssumption
<1>2. Longer(out_err(NewBuffer, k, ErrLen), NewBuffer, errOf(k, ErrLen))
  BY <1>1, NewBufferIs, OutValues
<1>3. errOf(k, ErrLen) \in Seq(Bytes) /\ Len(errOf(k, ErrLen)) = 1 + 2 * U32 + ErrLen
  BY <1>1, FieldsOf
<1>4. <<>> \o errOf(k, ErrLen) = errOf(k, ErrLen)
  BY <1>3
<1>5. out_err(NewBuffer, k, ErrLen).data = errOf(k, ErrLen)
  BY <1>2, <1>4, NewBufferIs DEF Longer
<1>6. Shape(errOf(k, ErrLen), k)
  BY <1>1 DEF Shape
<1> QED
  BY <1>1, <1>3, <1>5, <1>6

\* What a command appends is what it writes to a new buffer.
LEMMA OutputNew ==
    ASSUME NEW k \in Nat, NEW r \in Values
    PROVE  LET s == Output(NewBuffer, k, r).data
           IN  /\ s \in Seq(Bytes) /\ Shape(s, k)
               /\ \A b \in Buffers(Bytes) : Longer(Output(b, k, r), b, s)
<1>0. PICK s : s \in Seq(Bytes) /\ Outputs(k, r, s)
  BY OutputIs
<1>1. Shape(s, k) /\ \A b \in Buffers(Bytes) : Longer(Output(b, k, r), b, s)
  BY <1>0 DEF Outputs
<1>2. Output(NewBuffer, k, r).data = <<>> \o s
  BY <1>1, NewBufferIs DEF Longer
<1>3. <<>> \o s = s
  BY <1>0
<1> QED
  BY <1>0, <1>1, <1>2, <1>3

\* Every answer fits into a message, and the client can print all of it.
LEMMA AnswersArePrinted ==
    ASSUME NEW k \in Nat, NEW p \in Answers(k)
    PROVE  p \in Seq(Bytes) /\ Len(p) \in Nat /\ Len(p) <= MaxMsg /\ print_res(p) = Len(p)
<1>1. CASE p = out_err(NewBuffer, k, ErrLen).data
  <2>1. Shape(p, k) /\ Len(p) <= MaxMsg
    BY <1>1, ErrorIs
  <2>2. p \in Seq(Bytes) /\ print_res(p) = Len(p)
    BY <2>1, PrintsAll
  <2>3. Len(p) \in Nat
    BY <2>2
  <2> QED
    BY <2>1, <2>2, <2>3
<1>2. ASSUME NEW r \in Replies, p = Output(NewBuffer, k, r).data, Len(p) <= MaxMsg
      PROVE  p \in Seq(Bytes) /\ Len(p) \in Nat /\ Len(p) <= MaxMsg /\ print_res(p) = Len(p)
  <2>1. r \in Values
    BY ConnectionAssumption
  <2>2. Shape(p, k)
    BY <1>2, <2>1, OutputNew
  <2>3. p \in Seq(Bytes) /\ print_res(p) = Len(p)
    BY <2>2, PrintsAll
  <2>4. Len(p) \in Nat
    BY <2>3
  <2> QED
    BY <1>2, <2>3, <2>4
<1> QED
  BY <1>1, <1>2 DEF Answers

\* response_begin(), exec_cmd() and response_end() append one whole response.
LEMMA ResponseIs ==
    ASSUME NEW k \in Nat, NEW b \in Buffers(Bytes), NEW r \in Replies
    PROVE  \E p \in Answers(k) :
              Longer(response_end(Output(response_begin(b, k), k, r), size(b), k), b, Response(k, p))
<1> DEFINE z == u32(k, 0)
           x == response_begin(b, k)
           o == Output(x, k, r)
           s == Output(NewBuffer, k, r).data
           d == b.data
<1>1. d \in Seq(Bytes) /\ size(b) = Len(d) /\ Len(d) \in Nat
  BY DEF Buffers, size
<1>2. z \in Seq(Bytes) /\ Len(z) = U32 /\ U32 \in Nat /\ MaxMsg \in Nat
  BY Fields, WireAssumption
<1> HIDE DEF z
<1>3. Longer(x, b, z)
  <2>1. <<>> \in Seq(Bytes) /\ Longer(b, b, <<>>)
    BY LongerNot
  <2>2. Longer(b ++ z, b, <<>> \o z)
    BY <1>2, <2>1, LongerBy
  <2>3. <<>> \o z = z
    BY <1>2
  <2> QED
    BY <2>2, <2>3 DEF response_begin, z
<1>4. x \in Buffers(Bytes)
  BY <1>3 DEF Longer
<1> HIDE DEF x
<1>5. s \in Seq(Bytes) /\ Longer(o, x, s)
  <2>1. r \in Values
    BY ConnectionAssumption
  <2> QED
    BY <1>4, <2>1, OutputNew
<1>6. Longer(o, b, z \o s)
  BY <1>2, <1>3, <1>4, <1>5, LongerTwice
<1>7. ASSUME NEW c, NEW p \in Seq(Bytes), Longer(c, b, z \o p)
      PROVE  /\ size(c) - size(b) - U32 = Len(p)
             /\ Longer(Backfill(c, size(b), k, Len(p)), b, Response(k, p))
  <2>1. c \in Buffers(Bytes) /\ c.data = d \o (z \o p) /\ (Tight(b) => Tight(c))
    BY <1>7 DEF Longer
  <2> DEFINE zp == z \o p
  <2>2. zp \in Seq(Bytes) /\ Len(zp) = Len(z) + Len(p)
    <3>1. z \in Seq(Bytes)
      BY <1>2
    <3> QED
      BY <3>1
  <2> HIDE DEF zp
  <2>3. Len(d \o zp) = Len(d) + Len(zp)
    <3>1. d \in Seq(Bytes) /\ zp \in Seq(Bytes)
      BY <1>1, <2>2
    <3> HIDE DEF d
    <3> QED
      BY <3>1
  <2>4. size(c) - size(b) - U32 = Len(p)
    <3>1. size(c) = Len(d \o zp)
      BY <2>1 DEF size, zp
    <3>2. Len(p) \in Nat
      OBVIOUS
    <3> HIDE DEF d
    <3> QED
      BY <1>1, <1>2, <2>2, <2>3, <3>1, <3>2
  <2> DEFINE n == Len(p)
             f == Backfill(c, Len(d), k, n)
  <2>5. n \in Nat
    OBVIOUS
  <2> HIDE DEF n
  <2>6. f \in Buffers(Bytes) /\ f.data = d \o (u32(k, n) \o p) /\ (Tight(c) => Tight(f))
    <3>1. c \in Buffers(Bytes) /\ c.data = d \o (z \o p) /\ (Tight(b) => Tight(c))
      BY <2>1
    <3>2. z \in Seq(Bytes) /\ Len(z) = U32 /\ d \in Seq(Bytes)
      BY <1>1, <1>2
    <3> HIDE DEF d
    <3>3. Backfilled(f, c, d, u32(k, n), p)
      BY <3>1, <3>2, <2>5, BackfillIs
    <3> QED
      BY <3>3 DEF Backfilled
  <2>7. Longer(f, b, u32(k, n) \o p)
    BY <2>1, <2>6 DEF Longer
  <2> QED
    BY <1>1, <2>4, <2>7 DEF Response, n
<1> HIDE DEF o, s
<1>8. CASE Len(s) <= MaxMsg
  <2>1. s \in Answers(k)
    BY <1>8 DEF Answers, s
  <2>2. size(o) - size(b) - U32 = Len(s)
    BY <1>5, <1>6, <1>7
  <2>3. response_end(o, size(b), k) = Backfill(o, size(b), k, Len(s))
    BY <1>8, <2>2 DEF response_end
  <2>4. Longer(Backfill(o, size(b), k, Len(s)), b, Response(k, s))
    BY <1>5, <1>6, <1>7
  <2> QED
    BY <2>1, <2>3, <2>4 DEF o, x
<1>9. CASE ~(Len(s) <= MaxMsg)
  <2> DEFINE q == BufResize(o, size(b) + U32)
             e == errOf(k, ErrLen)
             c == out_err(q, k, ErrLen)
  <2>1. size(o) - size(b) - U32 = Len(s)
    BY <1>5, <1>6, <1>7
  <2>2. Longer(q, b, z)
    <3>1. o \in Buffers(Bytes) /\ o.data = d \o (z \o s) /\ (Tight(b) => Tight(o))
      BY <1>6 DEF Longer
    <3> DEFINE dz == d \o z
    <3>2. dz \in Seq(Bytes) /\ Len(dz) = Len(d) + Len(z) /\ d \o (z \o s) = dz \o s
      <4>1. z \in Seq(Bytes) /\ d \in Seq(Bytes) /\ s \in Seq(Bytes)
        BY <1>1, <1>2, <1>5
      <4> HIDE DEF d
      <4> QED
        BY <4>1
    <3> HIDE DEF dz
    <3>3. Len(dz \o s) = Len(dz) + Len(s) /\ dz \o s \in Seq(Bytes) /\ Len(s) \in Nat /\ Len(dz) \in Nat
      BY <1>5, <3>2
    <3>4. SubSeq(o.data, 1, Len(dz)) = dz
      <4> DEFINE od == o.data
      <4>1. od = dz \o s /\ od \in Seq(Bytes) /\ od = od \o <<>> /\ <<>> \in Seq(Bytes)
        <5>1. od = dz \o s /\ od \in Seq(Bytes)
          BY <3>1, <3>2, <3>3
        <5> HIDE DEF od
        <5>2. od = od \o <<>>
          BY <5>1
        <5> QED
          BY <5>1, <5>2
      <4> HIDE DEF od
      <4>2. Len(dz) <= Len(od)
        BY <3>3, <4>1
      <4>3. od \o <<>> = dz \o s
        BY <4>1
      <4>4. SubSeq(od, 1, Len(dz)) = dz
        BY <1>5, <3>2, <4>1, <4>2, <4>3, CommonFront DEF SplitBy
      <4> QED
        BY <4>4 DEF od
    <3>5. size(b) + U32 = Len(dz) /\ Len(dz) <= size(o)
      <4>1. size(o) = Len(dz \o s)
        BY <3>1, <3>2 DEF size
      <4>2. size(b) + U32 = Len(dz)
        BY <1>1, <1>2, <3>2
      <4> QED
        BY <3>3, <4>1, <4>2
    <3>6. q \in Buffers(Bytes) /\ q.data = dz /\ (Tight(o) => Tight(q))
      <4>1. LET a == BufResize(o, Len(dz))
            IN  a \in Buffers(Bytes) /\ a.data = SubSeq(o.data, 1, Len(dz)) /\ (Tight(o) => Tight(a))
        BY <3>1, <3>3, <3>5, ResizeShrinks
      <4> QED
        BY <3>4, <3>5, <4>1
    <3> QED
      BY <3>1, <3>6 DEF Longer, dz
  <2>3. q \in Buffers(Bytes)
    BY <2>2 DEF Longer
  <2> HIDE DEF q
  <2>4. Longer(c, b, z \o e) /\ e \in Seq(Bytes)
    <3>1. ErrLen \in Nat
      BY WireAssumption
    <3>2. Longer(c, q, e) /\ e \in Seq(Bytes)
      BY <2>3, <3>1, OutValues, FieldsOf
    <3> HIDE DEF c, e
    <3> QED
      BY <1>2, <2>2, <2>3, <3>2, LongerTwice
  <2>5. e \in Answers(k)
    BY ErrorIs DEF Answers
  <2> HIDE DEF c, e
  <2>6. response_end(o, size(b), k) = Backfill(c, size(b), k, size(c) - size(b) - U32)
    BY <1>9, <2>1 DEF response_end, c, q
  <2>7. size(c) - size(b) - U32 = Len(e) /\ Longer(Backfill(c, size(b), k, Len(e)), b, Response(k, e))
    BY <1>7, <2>4
  <2> QED
    BY <2>5, <2>6, <2>7 DEF o, x
<1> QED
  BY <1>8, <1>9

-----------------------------------------------------------------------------
(* What is under way in one direction: whole messages, one after the other. *)

\* The bytes s are a message of M[a + 1], ..., and one of M[b].
Carries(s, M, a, b) ==
    /\ a \in Nat /\ b \in Nat /\ a <= b
    /\ \E rest \in [a..b -> Seq(Bytes)] :
          /\ rest[a] = s /\ rest[b] = <<>>
          /\ \A k \in (a + 1)..b : \E m \in M[k] : rest[k - 1] = m \o rest[k]

Messages(M) == \A k \in Nat : M[k] \subseteq Seq(Bytes)

\* Nothing is under way at the beginning ...
LEMMA CarriesNothing ==
    ASSUME NEW M, NEW a \in Nat
    PROVE  Carries(<<>>, M, a, a)
<1> DEFINE rest == [k \in a..a |-> <<>>]
<1>1. rest \in [a..a -> Seq(Bytes)] /\ rest[a] = <<>>
  OBVIOUS
<1>2. \A k \in (a + 1)..a : \E m \in M[k] : rest[k - 1] = m \o rest[k]
  OBVIOUS
<1> HIDE DEF rest
<1>3. a <= a
  OBVIOUS
<1> QED
  BY <1>1, <1>2, <1>3 DEF Carries

\* ... nor when as many have arrived as were sent.
LEMMA CarriesIs ==
    ASSUME NEW s, NEW M, NEW a, NEW b, Carries(s, M, a, b)
    PROVE  a \in Nat /\ b \in Nat /\ a <= b /\ s \in Seq(Bytes) /\ (a = b => s = <<>>)
<1>1. a \in Nat /\ b \in Nat /\ a <= b
  BY DEF Carries
<1>2. PICK rest \in [a..b -> Seq(Bytes)] : rest[a] = s /\ rest[b] = <<>>
  BY DEF Carries
<1>3. a \in a..b
  BY <1>1
<1> QED
  BY <1>1, <1>2, <1>3

\* One more is sent ...
LEMMA CarriesMore ==
    ASSUME NEW s, NEW M, Messages(M), NEW a, NEW b, Carries(s, M, a, b), NEW m \in M[b + 1]
    PROVE  Carries(s \o m, M, a, b + 1)
<1>1. a \in Nat /\ b \in Nat /\ a <= b /\ m \in Seq(Bytes)
  BY DEF Carries, Messages
<1>2. PICK rest \in [a..b -> Seq(Bytes)] :
         /\ rest[a] = s /\ rest[b] = <<>>
         /\ \A k \in (a + 1)..b : \E x \in M[k] : rest[k - 1] = x \o rest[k]
  BY DEF Carries
<1> DEFINE more == [k \in a..(b + 1) |-> IF k <= b THEN rest[k] \o m ELSE <<>>]
<1>3. more \in [a..(b + 1) -> Seq(Bytes)]
  <2>1. ASSUME NEW k \in a..(b + 1), k <= b
        PROVE  rest[k] \o m \in Seq(Bytes)
    <3>1. rest[k] \in Seq(Bytes)
      BY <1>1, <2>1
    <3> QED
      BY <1>1, <3>1
  <2> QED
    BY <2>1
<1>4. more[a] = s \o m /\ more[b + 1] = <<>>
  <2>1. a \in a..(b + 1) /\ b + 1 \in a..(b + 1) /\ a <= b /\ ~(b + 1 <= b)
    BY <1>1
  <2> QED
    BY <1>2, <2>1
<1>5. ASSUME NEW k \in (a + 1)..(b + 1)
      PROVE  \E x \in M[k] : more[k - 1] = x \o more[k]
  <2>1. CASE k = b + 1
    <3>1. more[k - 1] = <<>> \o m /\ more[k] = <<>>
      BY <1>1, <1>2, <2>1
    <3>2. <<>> \o m = m \o <<>>
      BY <1>1
    <3> QED
      BY <2>1, <3>1, <3>2
  <2>2. CASE k # b + 1
    <3>1. k \in (a + 1)..b /\ k \in a..b /\ k - 1 \in a..b
      BY <1>1, <2>2
    <3>2. PICK x \in M[k] : rest[k - 1] = x \o rest[k]
      BY <1>2, <3>1
    <3>3. more[k - 1] = rest[k - 1] \o m /\ more[k] = rest[k] \o m
      BY <1>1, <3>1
    <3> DEFINE y == rest[k]
    <3>4. x \in Seq(Bytes) /\ y \in Seq(Bytes)
      BY <1>1, <3>1 DEF Messages
    <3> HIDE DEF y
    <3>5. (x \o y) \o m = x \o (y \o m)
      <4>1. Regrouped(x, y, m)
        BY <1>1, <3>4, Regrouping
      <4> QED
        BY <4>1 DEF Regrouped
    <3> QED
      BY <3>2, <3>3, <3>5 DEF y
  <2> QED
    BY <2>1, <2>2
<1>6. b + 1 \in Nat /\ a <= b + 1
  BY <1>1
<1> HIDE DEF more
<1> QED
  BY <1>1, <1>3, <1>4, <1>5, <1>6 DEF Carries

\* ... and the first is received.
LEMMA CarriesFirst ==
    ASSUME NEW s, NEW M, NEW a, NEW b, Carries(s, M, a, b), a # b
    PROVE  \E m \in M[a + 1], t \in Seq(Bytes) : s = m \o t /\ Carries(t, M, a + 1, b)
<1>1. a \in Nat /\ b \in Nat /\ a <= b
  BY DEF Carries
<1>2. PICK rest \in [a..b -> Seq(Bytes)] :
         /\ rest[a] = s /\ rest[b] = <<>>
         /\ \A k \in (a + 1)..b : \E x \in M[k] : rest[k - 1] = x \o rest[k]
  BY DEF Carries
<1>3. a + 1 \in Nat /\ a + 1 <= b /\ a + 1 \in (a + 1)..b /\ (a + 1) - 1 = a /\ a + 1 \in a..b
  BY <1>1
<1>4. PICK m \in M[a + 1] : rest[a] = m \o rest[a + 1]
  BY <1>2, <1>3
<1> DEFINE tail == [k \in (a + 1)..b |-> rest[k]]
<1>5. tail \in [(a + 1)..b -> Seq(Bytes)] /\ tail[a + 1] = rest[a + 1] /\ tail[b] = <<>>
  BY <1>1, <1>2, <1>3
<1>6. ASSUME NEW k \in (a + 1 + 1)..b
      PROVE  \E x \in M[k] : tail[k - 1] = x \o tail[k]
  <2>1. k \in (a + 1)..b /\ k - 1 \in (a + 1)..b
    BY <1>1
  <2>2. tail[k - 1] = rest[k - 1] /\ tail[k] = rest[k]
    BY <2>1
  <2> HIDE DEF tail
  <2> QED
    BY <1>2, <2>1, <2>2
<1> HIDE DEF tail
<1>7. Carries(rest[a + 1], M, a + 1, b)
  BY <1>1, <1>3, <1>5, <1>6 DEF Carries
<1>8. rest[a + 1] \in Seq(Bytes)
  BY <1>3
<1> QED
  BY <1>2, <1>4, <1>7, <1>8

\* What may be under way for each request, and for each response.
Asked == [k \in Nat |->
    {Request(k, cmd, n).data : cmd \in {c \in Commands : RequestSize(c) <= MaxMsg}, n \in Nat}]
Answered == [k \in Nat |-> {Response(k, p) : p \in Answers(k)}]

\* A message of either kind: a header, and as many bytes as it says.
Framed(k, p) == u32(k, Len(p)) \o p

\* A message is as long as its header and its payload.
LEMMA FramedIs ==
    ASSUME NEW k \in Nat, NEW p \in Seq(Bytes)
    PROVE  /\ u32(k, Len(p)) \in Seq(Bytes) /\ Len(u32(k, Len(p))) = U32
           /\ Framed(k, p) \in Seq(Bytes) /\ Len(p) \in Nat /\ Len(Framed(k, p)) = U32 + Len(p)
<1> DEFINE h == u32(k, Len(p))
<1>1. Len(p) \in Nat
  OBVIOUS
<1>2. h \in Seq(Bytes) /\ Len(h) = U32
  BY <1>1, Fields
<1>3. h \in Seq(Bytes)
  BY <1>2
<1> HIDE DEF h
<1>4. h \o p \in Seq(Bytes) /\ Len(h \o p) = Len(h) + Len(p)
  BY <1>3
<1> QED
  BY <1>1, <1>2, <1>4 DEF Framed, h

\* Every request is framed, is not too long, and names itself in its first byte.
LEMMA AskedIs ==
    /\ Messages(Asked)
    /\ \A k \in Nat : \A m \in Asked[k] :
          \E p \in Seq(Bytes) : m = Framed(k, p) /\ Len(p) <= MaxMsg /\ Len(p) >= U32 /\ p[1][1] = k
<1>1. ASSUME NEW k \in Nat, NEW m \in Asked[k]
      PROVE  \E p \in Seq(Bytes) : m = Framed(k, p) /\ Len(p) <= MaxMsg /\ Len(p) >= U32 /\ p[1][1] = k
  <2>1. PICK cmd \in Commands, n \in Nat : m = Request(k, cmd, n).data /\ RequestSize(cmd) <= MaxMsg
    BY DEF Asked
  <2>2. cmd \in Seq(Nat)
    BY ConnectionAssumption
  <2>3. RequestSize(cmd) >= U32
    BY <2>2, RequestIs
  <2>4. PICK p \in Seq(Bytes) :
           /\ Request(k, cmd, n).data = u32(k, RequestSize(cmd)) \o p
           /\ Len(p) = RequestSize(cmd) /\ p[1][1] = k
    BY <2>2, RequestIs
  <2> QED
    BY <2>1, <2>3, <2>4 DEF Framed
<1>2. ASSUME NEW k \in Nat, NEW m \in Asked[k]
      PROVE  m \in Seq(Bytes)
  BY <1>1, FramedIs
<1> QED
  BY <1>1, <1>2 DEF Messages

\* Every response is framed, and holds an answer.
LEMMA AnsweredIs ==
    /\ Messages(Answered)
    /\ \A k \in Nat : \A m \in Answered[k] : \E p \in Answers(k) : m = Framed(k, p)
    /\ \A k \in Nat : \A p \in Answers(k) : Response(k, p) \in Answered[k]
<1>1. \A k \in Nat : \A m \in Answered[k] : \E p \in Answers(k) : m = Framed(k, p)
  BY DEF Answered, Response, Framed
<1>2. \A k \in Nat : \A p \in Answers(k) : Response(k, p) \in Answered[k]
  BY DEF Answered
<1>3. ASSUME NEW k \in Nat, NEW m \in Answered[k]
      PROVE  m \in Seq(Bytes)
  <2>1. PICK p \in Answers(k) : m = Framed(k, p)
    BY <1>1
  <2>2. p \in Seq(Bytes)
    BY AnswersArePrinted
  <2> QED
    BY <2>1, <2>2, FramedIs
<1> QED
  BY <1>1, <1>2, <1>3 DEF Messages

\* The bytes s, of which there are enough for a header, and those behind it begin
\* with a message.
Starts(s, u, k, p, t) ==
    s \in Seq(Bytes) /\ u \in Seq(Bytes) /\ s \o u = Framed(k, p) \o t /\ Len(s) >= U32

\* Whoever has read the first bytes of a message finds its length in them, and
\* its payload as soon as there are that many.
LEMMA ReadsMessage ==
    ASSUME NEW k \in Nat, NEW p \in Seq(Bytes), NEW t \in Seq(Bytes), NEW s, NEW u,
           Starts(s, u, k, p, t)
    PROVE  /\ U32At(s, 0) = Len(p)
           /\ U32 + Len(p) <= Len(s) =>
                 LET r == SubSeq(s, U32 + Len(p) + 1, Len(s))
                 IN  r \in Seq(Bytes) /\ t = r \o u /\ SubSeq(s, U32 + 1, U32 + Len(p)) = p
                     /\ Len(s) = U32 + Len(p) + Len(r)
<1> DEFINE h == u32(k, Len(p))
           m == Framed(k, p)
<1>0. h \in Seq(Bytes) /\ Len(h) = U32 /\ m = h \o p /\ m \in Seq(Bytes) /\ Len(m) = U32 + Len(p)
      /\ Len(p) \in Nat /\ U32 \in Nat \ {0}
  BY FramedIs, WireAssumption DEF Framed
<1>1. h \in Seq(Bytes) /\ m \in Seq(Bytes) /\ m = h \o p
  BY <1>0
<1>1a. s \in Seq(Bytes) /\ u \in Seq(Bytes) /\ Len(s) >= U32
  BY DEF Starts
<1>1b. s \in Seq(Bytes) /\ u \in Seq(Bytes)
  BY <1>1a
<1>2. U32At(s, 0) = Len(p)
  <2> DEFINE r == SubSeq(s, Len(h) + 1, Len(s))
  <2>1. s = h \o r /\ r \in Seq(Bytes)
    <3> DEFINE c == p \o t
    <3> HIDE DEF h, m
    <3>1. c \in Seq(Bytes) /\ (h \o p) \o t = h \o c
      BY <1>1
    <3> HIDE DEF c
    <3>2. s \o u = h \o c
      BY <1>1, <3>1 DEF Starts, m
    <3>3. Len(h) <= Len(s)
      BY <1>0, <1>1a
    <3> QED
      BY <1>1, <1>1b, <3>1, <3>2, <3>3, CommonFront DEF SplitBy
  <2> HIDE DEF r
  <2>2. U32At(<<>> \o (h \o r), Len(<<>>)) = Len(p)
    <3>1. <<>> \in Seq(Bytes) /\ r \in Seq(Bytes) /\ Len(p) \in Nat
      BY <1>0, <2>1
    <3> QED
      BY <3>1, ReadField DEF h
  <2>3. h \o r \in Seq(Bytes)
    <3> HIDE DEF h
    <3> QED
      BY <1>1, <2>1
  <2>4. <<>> \o (h \o r) = h \o r
    BY <2>3
  <2> QED
    BY <2>1, <2>2, <2>4
<1> HIDE DEF m, h
<1>3. ASSUME U32 + Len(p) <= Len(s)
      PROVE  LET r == SubSeq(s, U32 + Len(p) + 1, Len(s))
             IN  r \in Seq(Bytes) /\ t = r \o u /\ SubSeq(s, U32 + 1, U32 + Len(p)) = p
                 /\ Len(s) = U32 + Len(p) + Len(r)
  <2>1. s \o u = m \o t
    BY DEF Starts, m
  <2> DEFINE r == SubSeq(s, Len(m) + 1, Len(s))
  <2>2. r \in Seq(Bytes) /\ s = m \o r /\ t = r \o u
    <3>1. m \in Seq(Bytes)
      BY <1>1
    <3>2. Len(m) <= Len(s)
      BY <1>0, <1>3
    <3> QED
      <4>1. SplitBy(s, m, t, u, Bytes)
        BY <1>1b, <2>1, <3>1, <3>2, CommonFront
      <4> QED
        BY <4>1 DEF SplitBy
  <2> HIDE DEF r
  <2>3. r \in Seq(Bytes) /\ s = m \o r
    BY <2>2
  <2>4. Len(m \o r) = Len(m) + Len(r) /\ \A i \in 1..Len(m) : (m \o r)[i] = m[i]
    BY <1>1, <2>3
  <2>5. Len(h \o p) = Len(h) + Len(p) /\ \A i \in 1..Len(p) : (h \o p)[Len(h) + i] = p[i]
    BY <1>1
  <2> DEFINE q == SubSeq(s, U32 + 1, U32 + Len(p))
  <2>6. q \in Seq(Bytes) /\ Len(q) = Len(p) /\ \A i \in 1..Len(p) : q[i] = s[U32 + i]
    BY <1>0, <1>1a, <1>3
  <2>7. ASSUME NEW i \in 1..Len(p)
        PROVE  q[i] = p[i]
    <3>1. U32 + i \in 1..Len(m)
      BY <1>0
    <3>2. m[U32 + i] = p[i]
      BY <1>0, <2>5
    <3>3. s[U32 + i] = m[U32 + i]
      BY <2>3, <2>4, <3>1
    <3> QED
      BY <2>6, <3>2, <3>3
  <2> HIDE DEF q
  <2>8. q = p
    BY <2>6, <2>7, SeqEqual
  <2>9. Len(s) = U32 + Len(p) + Len(r)
    BY <1>0, <2>3, <2>4
  <2> QED
    BY <1>0, <2>2, <2>8, <2>9 DEF r, q
<1> QED
  BY <1>2, <1>3

-----------------------------------------------------------------------------
(* The types, with what the variables of one process have to do with each  *)
(* other.                                                                  *)

\* What the client has of a response: the front of its buffer.
Got == IF cpc \in {"header", "payload"} THEN SubSeq(rbuf.data, 1, size(rbuf) - need) ELSE <<>>

Counts ==
    /\ ahead \in 1..MaxAhead /\ awaited \in 0..ahead
    /\ asked \in 0..Rounds /\ signals \in 0..Signals
    /\ cpc \in {"prompt", "send", "sent", "header", "payload", "killed"}
    /\ errno \in {"none", "EINTR", "other"}
    /\ awaited <= asked
    /\ cpc = "prompt" => awaited = 0
    /\ cpc \in {"header", "payload"} => awaited > 0

Writer ==
    /\ wbuf \in Seq(Bytes)
    /\ cpc \notin {"send", "killed"} => wbuf = <<>>

Reader ==
    /\ rbuf \in Buffers(Bytes \cup {Zero}) /\ Tight(rbuf) /\ need \in 0..size(rbuf)
    /\ Got \in Seq(Bytes)
    /\ cpc = "header" => size(rbuf) = U32
    /\ cpc = "payload" => need <= size(rbuf) - U32 /\ size(rbuf) = U32 + U32At(rbuf.data, 0)

Ending ==
    /\ end \in {"open", "fin", "rst"}
    /\ spc \in {"poll", "parse", "write", "close", "closed", "undefined"}
    /\ end # "open" <=> spc = "closed"
    /\ end = "rst" => down = <<>>
    /\ cpc = "killed" => end = "rst"

Sockets ==
    /\ up \in Seq(Bytes) /\ Len(up) <= SockCap
    /\ down \in Seq(Bytes) /\ Len(down) <= SockCap

ConnOK ==
    /\ incoming \in Buffers(Bytes) /\ outgoing \in Buffers(Bytes)
    /\ want_write \in BOOLEAN /\ want_close \in BOOLEAN

Types == Counts /\ Writer /\ Reader /\ Ending /\ Sockets /\ ConnOK

\* The constants are numbers.
LEMMA ConstantsAre ==
    /\ U32 \in Nat \ {0} /\ MaxMsg \in Nat \ {0} /\ SockCap \in Nat \ {0}
    /\ ReadMax \in Nat \ {0} /\ MaxAhead \in Nat \ {0} /\ Rounds \in Nat /\ Signals \in Nat
BY WireAssumption, ConnectionAssumption

\* buf_consume(), also in a buffer that has been written past its end.
LEMMA ConsumeFront ==
    ASSUME NEW B, NEW b \in Buffers(B), NEW n \in 0..size(b)
    PROVE  LET a == BufConsume(b, n)
           IN  /\ a \in Buffers(B) /\ a.data = SubSeq(b.data, n + 1, Len(b.data))
               /\ Fits(b) => Fits(a)
               /\ a.data = <<>> => a.lo = 0
<1> DEFINE d == b.data
           r == SubSeq(d, n + 1, Len(d))
           a == BufConsume(b, n)
<1>1. b.cap \in Nat /\ b.lo \in Nat /\ d \in Seq(B) /\ size(b) = Len(d) /\ Len(d) \in Nat /\ n \in 0..Len(d)
  BY DEF Buffers, size
<1>2. r \in Seq(B) /\ Len(r) = Len(d) - n
  BY <1>1, CutInTwo DEF Cut
<1>3. a = [cap |-> b.cap, lo |-> IF n = Len(d) THEN 0 ELSE b.lo + n, data |-> r]
  BY <1>1 DEF BufConsume
<1> HIDE DEF a, r, d
<1>4. a.data = r /\ a.cap = b.cap /\ (n = Len(d) => a.lo = 0) /\ (n # Len(d) => a.lo = b.lo + n)
  BY <1>3
<1>5. a \in Buffers(B)
  BY <1>1, <1>2, <1>3 DEF Buffers
<1>6. Fits(b) => Fits(a)
  <2>1. size(a) = Len(d) - n
    BY <1>2, <1>4 DEF size
  <2> QED
    BY <1>1, <1>4, <2>1 DEF Fits
<1>7. a.data = <<>> => a.lo = 0
  <2>1. a.data = <<>> => Len(r) = 0
    BY <1>4
  <2> QED
    BY <1>1, <1>2, <1>4, <2>1
<1> QED
  BY <1>4, <1>5, <1>6, <1>7 DEF a, r, d

\* The client gives up.
LEMMA FailTypes ==
    ASSUME Counts, Fail, ahead' = ahead, asked' = asked, signals' = signals,
           errno' \in {"none", "EINTR", "other"}
    PROVE  Counts' /\ Writer' /\ Reader' /\ Got' = <<>>
<1>1. Counts'
  BY DEF Counts, Fail
<1>2. Writer'
  BY DEF Writer, Fail
<1>3. Got' = <<>>
  BY DEF Got, Fail
<1>4. Reader'
  <2>1. NewBuffer \in Buffers(Bytes \cup {Zero}) /\ Tight(NewBuffer) /\ 0 \in 0..size(NewBuffer)
    BY DEF NewBuffer, Buffers, Tight, Fits, size
  <2> QED
    BY <1>3, <2>1 DEF Reader, Fail
<1> QED
  BY <1>1, <1>2, <1>3, <1>4

\* The types hold initially.
LEMMA InitTypes == Init => Types
<1> SUFFICES ASSUME Init
             PROVE  Types
  OBVIOUS
<1>1. NewBuffer \in Buffers(Bytes \cup {Zero}) /\ NewBuffer \in Buffers(Bytes) /\ Tight(NewBuffer)
      /\ 0 \in 0..size(NewBuffer)
  BY DEF NewBuffer, Buffers, Tight, Fits, size
<1>2. Counts
  BY ConstantsAre DEF Init, Counts
<1>3. Writer /\ Ending
  BY DEF Init, Writer, Ending
<1>3a. ConnOK
  BY <1>1 DEF Init, ConnOK
<1>4. Sockets
  BY ConstantsAre DEF Init, Sockets
<1>5. Reader
  <2>1. Got = <<>>
    BY DEF Init, Got
  <2> QED
    BY <1>1, <2>1 DEF Init, Reader
<1> QED
  BY <1>2, <1>3, <1>3a, <1>4, <1>5 DEF Types

-----------------------------------------------------------------------------
(* The steps of the client.                                                *)

\* send_req() builds a request, and the types hold.
LEMMA AskTypes ==
    ASSUME Types, NEW cmd \in Commands, NEW nstr \in Nat, Ask(cmd, nstr)
    PROVE  /\ Types' /\ Got' = Got
           /\ wbuf = <<>> /\ wbuf' \in Asked[asked + 1]
<1> USE DEF Types
<1>1. Counts'
  BY ConstantsAre DEF Ask, Counts
<1>2. wbuf = <<>>
  BY DEF Ask, Writer
<1>3. wbuf' \in Asked[asked + 1]
  <2>1. asked + 1 \in Nat
    BY DEF Counts
  <2> QED
    BY <2>1 DEF Ask, Asked
<1>4. wbuf' \in Seq(Bytes)
  <2>1. asked + 1 \in Nat
    BY DEF Counts
  <2> QED
    BY <1>3, <2>1, AskedIs DEF Messages
<1>5. Writer'
  BY <1>4 DEF Ask, Writer
<1>6. Got = <<>> /\ Got' = <<>>
  BY DEF Ask, Got
<1>7. Reader'
  BY <1>6 DEF Ask, Reader
<1>8. Ending' /\ Sockets' /\ ConnOK'
  BY DEF Ask, Ending, Sockets, ConnOK, socket, server
<1> QED
  BY <1>1, <1>2, <1>3, <1>5, <1>6, <1>7, <1>8

\* A command that is too long changes nothing but the prompt.
LEMMA AskTooMuchTypes ==
    ASSUME Types, NEW cmd \in Commands, AskTooMuch(cmd)
    PROVE  Types' /\ Got = <<>> /\ Got' = <<>>
<1> USE DEF Types
<1>1. Counts'
  BY ConstantsAre DEF AskTooMuch, Counts
<1>2. Writer'
  BY DEF AskTooMuch, Writer
<1>3. Got = <<>> /\ Got' = <<>>
  BY DEF AskTooMuch, Got
<1>4. Reader'
  BY <1>3 DEF AskTooMuch, Reader
<1>5. Ending' /\ Sockets' /\ ConnOK'
  BY DEF AskTooMuch, Ending, Sockets, ConnOK, socket, server
<1> QED
  BY <1>1, <1>2, <1>3, <1>4, <1>5

\* SendSome: n bytes leave wbuf.
LEMMA SendSomeTypes ==
    ASSUME Types, SendSome
    PROVE  /\ Types' /\ Got = <<>> /\ Got' = <<>>
           /\ end = "open" => end' = "open" /\ down' = down /\ up \o wbuf = up' \o wbuf'
           /\ end # "open" => end' # "open" /\ down' = <<>>
<1> USE DEF Types
<1>1. Counts'
  BY DEF SendSome, Counts
<1>2. PICK n \in 1..Len(wbuf) :
         /\ wbuf' = SubSeq(wbuf, n + 1, Len(wbuf))
         /\ IF end = "open"
            THEN /\ Len(up) + n <= SockCap
                 /\ up' = up \o SubSeq(wbuf, 1, n)
                 /\ UNCHANGED <<down, end>>
            ELSE /\ end' = "rst" /\ down' = <<>>
                 /\ UNCHANGED up
  BY DEF SendSome
<1> DEFINE x == SubSeq(wbuf, 1, n)
<1>3. wbuf \in Seq(Bytes) /\ up \in Seq(Bytes) /\ n \in 0..Len(wbuf)
  BY DEF Writer, Sockets
<1>4. wbuf = x \o wbuf' /\ x \in Seq(Bytes) /\ wbuf' \in Seq(Bytes) /\ Len(x) = n
  BY <1>2, <1>3, CutInTwo DEF Cut
<1>5. Writer'
  BY <1>4 DEF SendSome, Writer
<1>6. Got = <<>> /\ Got' = <<>>
  BY DEF SendSome, Got
<1>7. Reader'
  BY <1>6 DEF SendSome, Reader
<1>8. ConnOK'
  BY DEF SendSome, ConnOK, server
<1>9. Ending'
  BY <1>2 DEF SendSome, Ending, server
<1>10. Sockets'
  <2>1. CASE end = "open"
    <3>1. up' = up \o x /\ Len(up) + n <= SockCap /\ down' = down
      BY <1>2, <2>1
    <3> HIDE DEF x
    <3>2. x \in Seq(Bytes)
      BY <1>4
    <3>3. up \o x \in Seq(Bytes) /\ Len(up \o x) = Len(up) + Len(x)
      BY <1>3, <3>2
    <3> QED
      BY <1>4, <3>1, <3>3 DEF Sockets
  <2>2. CASE end # "open"
    <3>1. up' = up /\ down' = <<>>
      BY <1>2, <2>2
    <3>2. Len(<<>>) <= SockCap /\ <<>> \in Seq(Bytes)
      BY ConstantsAre
    <3> QED
      BY <3>1, <3>2 DEF Sockets
  <2> QED
    BY <2>1, <2>2
<1>11. ASSUME end = "open"
       PROVE  end' = "open" /\ down' = down /\ up \o wbuf = up' \o wbuf'
  <2>1. up' = up \o x /\ down' = down /\ end' = end
    BY <1>2, <1>11
  <2> HIDE DEF x
  <2>2. x \in Seq(Bytes) /\ wbuf' \in Seq(Bytes) /\ up \in Seq(Bytes)
    BY <1>3, <1>4
  <2> DEFINE w == wbuf'
  <2>3. w \in Seq(Bytes) /\ wbuf = x \o w
    BY <1>4, <2>2
  <2> HIDE DEF w
  <2>4. up \o (x \o w) = (up \o x) \o w
    BY <2>2, <2>3
  <2> QED
    BY <1>11, <2>1, <2>3, <2>4 DEF w
<1>12. end # "open" => end' # "open" /\ down' = <<>>
  BY <1>2
<1> QED
  BY <1>1, <1>5, <1>6, <1>7, <1>8, <1>9, <1>10, <1>11, <1>12

\* A write() fails.
LEMMA SendFailsTypes ==
    ASSUME Types, SendFails
    PROVE  Types' /\ end = "rst" /\ Got' = <<>> /\ cpc' \in {"prompt", "killed"}
<1> USE DEF Types
<1>1. CASE Fail
  <2>1. Counts' /\ Writer' /\ Reader' /\ Got' = <<>>
    <3>1. errno' \in {"none", "EINTR", "other"} /\ ahead' = ahead /\ asked' = asked /\ signals' = signals
      BY DEF SendFails, Counts
    <3> QED
      BY <1>1, <3>1, FailTypes
  <2>2. Ending' /\ Sockets' /\ ConnOK' /\ end = "rst" /\ cpc' \in {"prompt", "killed"}
    BY <1>1 DEF SendFails, Fail, Ending, Sockets, ConnOK, socket, server
  <2> QED
    BY <2>1, <2>2
<1>2. CASE cpc' = "killed" /\ UNCHANGED <<awaited, wbuf, rbuf, need>>
  <2>1. Counts'
    BY <1>2 DEF SendFails, Counts
  <2>2. Writer'
    BY <1>2 DEF SendFails, Writer
  <2>3. Got' = <<>>
    BY <1>2 DEF Got
  <2>4. Reader'
    BY <1>2, <2>3 DEF SendFails, Reader
  <2>5. Ending' /\ Sockets' /\ ConnOK' /\ end = "rst"
    BY <1>2 DEF SendFails, Ending, Sockets, ConnOK, socket, server
  <2> QED
    BY <1>2, <2>1, <2>2, <2>3, <2>4, <2>5
<1> QED
  BY <1>1, <1>2 DEF SendFails

\* read_res() makes room for the header.
LEMMA ReadHeaderTypes ==
    ASSUME Types, ReadHeader
    PROVE  Types' /\ Got = <<>> /\ Got' = <<>>
<1> USE DEF Types
<1>1. Counts'
  BY DEF ReadHeader, Counts
<1>2. Writer'
  BY DEF ReadHeader, Writer
<1>3. Ending' /\ Sockets' /\ ConnOK'
  BY DEF ReadHeader, Ending, Sockets, ConnOK, socket, server
<1>4. rbuf' \in Buffers(Bytes \cup {Zero}) /\ Tight(rbuf') /\ size(rbuf') = U32
  <2>1. NewBuffer \in Buffers(Bytes \cup {Zero}) /\ Tight(NewBuffer) /\ size(NewBuffer) = 0
    BY DEF NewBuffer, Buffers, Tight, Fits, size
  <2>2. U32 \in Nat /\ U32 > size(NewBuffer) /\ Zero \in Bytes \cup {Zero}
    BY <2>1, ConstantsAre
  <2> DEFINE B == Bytes \cup {Zero}
  <2> HIDE DEF B
  <2>3. LET a == BufResize(NewBuffer, U32)
        IN  a \in Buffers(B) /\ Tight(a) /\ size(a) = U32
    BY <2>1, <2>2, ResizeGrows DEF B
  <2> QED
    BY <2>3 DEF ReadHeader, B
<1>5. Got = <<>> /\ Got' = <<>>
  <2>1. size(rbuf') - need' = 0
    BY <1>4, ConstantsAre DEF ReadHeader
  <2>2. Got' = SubSeq(rbuf'.data, 1, size(rbuf') - need')
    BY DEF ReadHeader, Got
  <2>3. SubSeq(rbuf'.data, 1, 0) = <<>>
    <3>1. rbuf'.data \in Seq(Bytes \cup {Zero})
      BY <1>4 DEF Buffers
    <3> QED
      BY <3>1
  <2>4. Got' = <<>>
    BY <2>1, <2>2, <2>3
  <2>5. Got = <<>>
    BY DEF ReadHeader, Got
  <2> QED
    BY <2>4, <2>5
<1>6. Reader'
  <2>1. need' \in 0..size(rbuf')
    BY <1>4, ConstantsAre DEF ReadHeader
  <2> QED
    BY <1>4, <1>5, <2>1 DEF ReadHeader, Reader
<1> QED
  BY <1>1, <1>2, <1>3, <1>5, <1>6

\* The front of a concatenation.
LEMMA FrontOf ==
    ASSUME NEW S, NEW m \in Seq(S), NEW c \in Seq(S)
    PROVE  SubSeq(m \o c, 1, Len(m)) = m
<1> DEFINE s == m \o c
<1>1. s \in Seq(S) /\ Len(s) = Len(m) + Len(c) /\ \A i \in 1..Len(m) : s[i] = m[i]
  OBVIOUS
<1> HIDE DEF s
<1> DEFINE f == SubSeq(s, 1, Len(m))
<1>2. Len(m) \in 0..Len(s)
  BY <1>1
<1>3. f \in Seq(S) /\ Len(f) = Len(m)
  BY <1>1, <1>2, CutInTwo DEF Cut
<1>4. ASSUME NEW i \in 1..Len(m)
      PROVE  f[i] = m[i]
  <2>1. f[i] = s[i]
    BY <1>1, <1>2
  <2> QED
    BY <1>1, <2>1
<1> HIDE DEF f
<1>5. f = m
  BY <1>3, <1>4, SeqEqual
<1> QED
  BY <1>5 DEF f, s

\* What concatenation does to the length and to the first element.
LEMMA Joined ==
    ASSUME NEW S, NEW m \in Seq(S), NEW c \in Seq(S)
    PROVE  /\ m \o c \in Seq(S) /\ Len(m \o c) = Len(m) + Len(c)
           /\ Len(m) > 0 => (m \o c)[1] = m[1]
OBVIOUS

\* n bytes x in the place of those behind the first `at`.
Overwritten(B, d, at, n, x) ==
    LET f == SubSeq(d, 1, at)
        e == f \o x \o SubSeq(d, at + n + 1, Len(d))
    IN  /\ e \in Seq(B) /\ Len(e) = Len(d)
        /\ SubSeq(e, 1, at + n) = f \o x
        /\ at > 0 => e[1] = d[1]

\* Bytes from the socket go where the front of the buffer ends.
LEMMA ReadInto ==
    ASSUME NEW B, NEW d \in Seq(B), NEW at \in 0..Len(d), NEW n \in 0..(Len(d) - at),
           NEW x \in Seq(B), Len(x) = n
    PROVE  Overwritten(B, d, at, n, x)
<1> DEFINE f == SubSeq(d, 1, at)
           g == SubSeq(d, at + n + 1, Len(d))
           m == f \o x
           e == m \o g
<1>1. f \in Seq(B) /\ Len(f) = at /\ (at > 0 => f[1] = d[1])
  <2>1. f \in Seq(B) /\ Len(f) = at
    BY CutInTwo DEF Cut
  <2>2. at > 0 => f[1] = d[1]
    OBVIOUS
  <2> QED
    BY <2>1, <2>2
<1>2. g \in Seq(B) /\ Len(g) = Len(d) - (at + n)
  <2>1. at + n \in 0..Len(d)
    OBVIOUS
  <2> DEFINE k == at + n
  <2> HIDE DEF k
  <2>2. k \in 0..Len(d)
    BY <2>1 DEF k
  <2>3. SubSeq(d, k + 1, Len(d)) \in Seq(B) /\ Len(SubSeq(d, k + 1, Len(d))) = Len(d) - k
    BY <2>2, CutInTwo DEF Cut
  <2> QED
    BY <2>3 DEF k
<1> HIDE DEF f, g
<1>3. f \in Seq(B) /\ g \in Seq(B)
  BY <1>1, <1>2
<1>4. m \in Seq(B) /\ Len(m) = Len(f) + Len(x) /\ (Len(f) > 0 => m[1] = f[1])
  <2>1. x \in Seq(B)
    OBVIOUS
  <2>2. f \o x \in Seq(B)
    BY <1>3, <2>1, Joined, Zenon
  <2>3. Len(f \o x) = Len(f) + Len(x)
    BY <1>3, <2>1, Joined, Zenon
  <2>4. Len(f) > 0 => (f \o x)[1] = f[1]
    BY <1>3, <2>1, Joined
  <2> QED
    BY <2>2, <2>3, <2>4
<1> HIDE DEF m
<1>5. m \in Seq(B)
  BY <1>4
<1>6. e \in Seq(B) /\ Len(e) = Len(m) + Len(g) /\ (Len(m) > 0 => e[1] = m[1])
  BY <1>3, <1>5, Joined
<1>7. SubSeq(e, 1, Len(m)) = m
  BY <1>3, <1>5, FrontOf
<1> HIDE DEF e
<1>8. Len(e) = Len(d) /\ Len(m) = at + n
  BY <1>1, <1>2, <1>4, <1>6
<1>9. at > 0 => e[1] = d[1]
  BY <1>1, <1>4, <1>6, <1>8
<1> QED
  BY <1>6, <1>7, <1>8, <1>9 DEF Overwritten, e, m, f, g

\* One read() of readn() moves bytes from the socket to what the client has.
LEMMA ReadSomeTypes ==
    ASSUME Types, ReadSome
    PROVE  Types' /\ Got \o down = Got' \o down'
<1> USE DEF Types
<1> DEFINE n == Min2(need, Len(down))
           at == size(rbuf) - need
           d == rbuf.data
           x == SubSeq(down, 1, n)
           f == SubSeq(d, 1, at)
           e == f \o x \o SubSeq(d, at + n + 1, Len(d))
           B == Bytes \cup {Zero}
<1>1. /\ d \in Seq(B) /\ rbuf.lo \in Nat /\ rbuf.cap \in Nat
      /\ rbuf = [cap |-> rbuf.cap, lo |-> rbuf.lo, data |-> d]
  BY DEF Reader, Buffers
<1>2. size(rbuf) = Len(d) /\ Len(d) \in Nat /\ need \in 0..Len(d) /\ need > 0
  BY <1>1 DEF Reader, size, ReadSome, Reading
<1>3. down \in Seq(Bytes) /\ Len(down) \in Nat /\ Len(down) <= SockCap
  BY DEF Sockets
<1>4. n \in 0..Len(down) /\ n <= need /\ at \in 0..Len(d) /\ n \in 0..(Len(d) - at) /\ need - n \in Nat
      /\ Len(d) - (need - n) = at + n
  BY <1>2, <1>3 DEF Min2
<1>5. rbuf' = [rbuf EXCEPT !.data = e] /\ down' = SubSeq(down, n + 1, Len(down)) /\ need' = need - n
      /\ cpc' = cpc /\ cpc \in {"header", "payload"}
  BY DEF ReadSome, Reading
<1> DEFINE rest == SubSeq(down, n + 1, Len(down))
<1>6. down = x \o rest /\ x \in Seq(Bytes) /\ rest \in Seq(Bytes) /\ Len(x) = n
      /\ Len(rest) = Len(down) - n
  BY <1>3, <1>4, CutInTwo DEF Cut
<1> HIDE DEF n, x, rest, B
<1>7. x \in Seq(B) /\ Bytes \subseteq B
  BY <1>6 DEF B
<1> HIDE DEF at, d
<1>8. /\ e \in Seq(B) /\ Len(e) = Len(d)
      /\ SubSeq(e, 1, at + n) = f \o x
      /\ at > 0 => e[1] = d[1]
  <2>1. Overwritten(B, d, at, n, x)
    BY <1>1, <1>4, <1>6, <1>7, ReadInto
  <2> QED
    BY <2>1 DEF Overwritten
<1> HIDE DEF e
<1>9. rbuf' = [cap |-> rbuf.cap, lo |-> rbuf.lo, data |-> e]
  BY <1>1, <1>5
<1>10. Got = f
  BY <1>5 DEF Got, at, d
<1>11. size(rbuf') = Len(d) /\ rbuf'.data = e
  BY <1>8, <1>9 DEF size
<1>12. Got' = f \o x
  <2>1. Got' = SubSeq(rbuf'.data, 1, size(rbuf') - need')
    BY <1>5 DEF Got
  <2>2. size(rbuf') - need' = at + n
    BY <1>4, <1>5, <1>11
  <2> QED
    BY <1>8, <1>11, <2>1, <2>2
<1>13. f \in Seq(Bytes)
  BY <1>10 DEF Reader
<1> HIDE DEF f
<1>14. f \o x \in Seq(Bytes) /\ f \o (x \o rest) = (f \o x) \o rest
  <2>1. x \in Seq(Bytes) /\ rest \in Seq(Bytes)
    BY <1>6
  <2> QED
    BY <1>13, <2>1
<1>15. Got \o down = Got' \o down'
  BY <1>5, <1>6, <1>10, <1>12, <1>14 DEF rest
<1>16. Counts'
  BY DEF ReadSome, Counts
<1>17. Writer'
  BY DEF ReadSome, Writer
<1>18. Ending'
  <2>1. end # "rst"
    BY DEF ReadSome, Ending
  <2> QED
    BY <2>1 DEF ReadSome, Ending, server
<1>19. ConnOK'
  BY DEF ReadSome, ConnOK, server
<1>20. Sockets'
  <2>1. down' \in Seq(Bytes) /\ Len(down') <= SockCap
    <3>1. down' = rest
      BY <1>5 DEF rest
    <3>2. Len(down) - n <= SockCap
      BY <1>3, <1>4, ConstantsAre
    <3> QED
      BY <1>6, <3>1, <3>2
  <2> QED
    BY <2>1 DEF ReadSome, Sockets
<1>21. Reader'
  <2>1. rbuf' \in Buffers(B) /\ Tight(rbuf')
    <3>1. rbuf.lo = 0 /\ rbuf.lo + Len(d) <= rbuf.cap
      BY <1>2 DEF Reader, Tight, Fits
    <3>2. rbuf'.lo = rbuf.lo /\ rbuf'.cap = rbuf.cap
      BY <1>9
    <3>3. Tight(rbuf')
      BY <1>11, <3>1, <3>2 DEF Tight, Fits
    <3> QED
      BY <1>1, <1>8, <1>9, <3>3 DEF Buffers
  <2>2. need' \in 0..size(rbuf')
    BY <1>2, <1>4, <1>5, <1>11
  <2>3. Got' \in Seq(Bytes)
    BY <1>12, <1>14
  <2>4. cpc' = "header" => size(rbuf') = U32
    BY <1>2, <1>5, <1>11 DEF Reader
  <2>5. ASSUME cpc' = "payload"
        PROVE  need' <= size(rbuf') - U32 /\ size(rbuf') = U32 + U32At(rbuf'.data, 0)
    <3>1. need <= Len(d) - U32 /\ Len(d) = U32 + U32At(d, 0)
      BY <1>2, <1>5, <2>5 DEF Reader, d
    <3>2. at > 0
      BY <1>2, <3>1, ConstantsAre DEF at
    <3>3. U32At(e, 0) = U32At(d, 0)
      BY <1>8, <3>2 DEF U32At
    <3>4. size(rbuf') = U32 + U32At(rbuf'.data, 0)
      BY <1>11, <3>1, <3>3
    <3>5. need' <= size(rbuf') - U32
      <4>1. need' = need - n /\ size(rbuf') = Len(d)
        BY <1>5, <1>11
      <4>2. need \in Nat /\ n \in Nat /\ Len(d) \in Nat /\ U32 \in Nat
        BY <1>2, <1>3, <1>4, ConstantsAre
      <4> HIDE DEF Types
      <4> QED
        BY <3>1, <4>1, <4>2
    <3> QED
      BY <3>4, <3>5
  <2> QED
    BY <2>1, <2>2, <2>3, <2>4, <2>5 DEF Reader, B
<1> QED
  BY <1>15, <1>16, <1>17, <1>18, <1>19, <1>20, <1>21

\* A read() is interrupted.
LEMMA ReadInterruptedTypes ==
    ASSUME Types, ReadInterrupted
    PROVE  Types' /\ Got' = Got
<1> USE DEF Types
<1>1. Counts'
  BY ConstantsAre DEF ReadInterrupted, Counts
<1>2. Got' = Got
  BY DEF ReadInterrupted, Got
<1>3. Writer' /\ Reader'
  BY <1>2 DEF ReadInterrupted, Writer, Reader
<1>4. Ending' /\ Sockets' /\ ConnOK'
  BY DEF ReadInterrupted, Ending, Sockets, ConnOK, socket, server
<1> QED
  BY <1>1, <1>2, <1>3, <1>4

\* A read() finds the end of the connection: nothing is left in the socket.
LEMMA ReadEndsTypes ==
    ASSUME Types, ReadEOF \/ ReadError
    PROVE  Types' /\ end # "open" /\ down = <<>> /\ Got' = <<>>
<1> USE DEF Types
<1>1. /\ Fail /\ errno' \in {"none", "EINTR", "other"}
      /\ ahead' = ahead /\ asked' = asked /\ signals' = signals
  BY DEF ReadEOF, ReadError, Counts
<1>2. Counts' /\ Writer' /\ Reader' /\ Got' = <<>>
  BY <1>1, FailTypes
<1>3. UNCHANGED <<socket, server>>
  BY DEF ReadEOF, ReadError
<1>4. Sockets' /\ ConnOK'
  BY <1>3 DEF Sockets, ConnOK, socket, server
<1>5. Ending'
  BY <1>1, <1>3 DEF Ending, Fail, socket, server
<1>6. end # "open" /\ down = <<>>
  BY DEF ReadEOF, ReadError, Ending
<1> QED
  BY <1>2, <1>4, <1>5, <1>6

\* The client has the whole header.
LEMMA ReadPayloadTypes ==
    ASSUME Types, ReadPayload
    PROVE  /\ Types'
           /\ Got \in Seq(Bytes) /\ Got = rbuf.data /\ Len(Got) = U32
           /\ U32At(Got, 0) <= MaxMsg => Got' = Got /\ awaited' = awaited /\ cpc' = "payload"
<1> USE DEF Types
<1> DEFINE d == rbuf.data
           n == U32At(d, 0)
           B == Bytes \cup {Zero}
<1>1. cpc = "header" /\ need = 0 /\ size(rbuf) = U32 /\ rbuf \in Buffers(B) /\ Tight(rbuf)
  BY DEF ReadPayload, Reader
<1>2. d \in Seq(B) /\ Len(d) = U32
  BY <1>1 DEF Buffers, size
<1>3. Got = d
  <2>1. Got = SubSeq(d, 1, Len(d))
    <3>1. size(rbuf) - need = Len(d)
      BY <1>1, <1>2, ConstantsAre
    <3> QED
      BY <1>1, <3>1 DEF Got
  <2>2. SubSeq(d, 1, Len(d)) = d
    <3> HIDE DEF d, B
    <3> QED
      BY <1>2
  <2> QED
    BY <2>1, <2>2
<1>4. d \in Seq(Bytes)
  BY <1>3 DEF Reader
<1>5. n \in Nat
  <2>1. d[1] \in Bytes
    BY <1>2, <1>4, ConstantsAre
  <2> QED
    BY <2>1, BytesOf DEF U32At
<1>6. Ending' /\ Sockets' /\ ConnOK'
  BY DEF ReadPayload, Fail, Ending, Sockets, ConnOK, socket, server
<1>7. CASE n > MaxMsg
  <2>1. Fail /\ ahead' = ahead /\ asked' = asked /\ signals' = signals /\ errno' \in {"none", "EINTR", "other"}
    BY <1>7 DEF ReadPayload, Counts
  <2>2. Counts' /\ Writer' /\ Reader'
    BY <2>1, FailTypes
  <2>3. ~(U32At(Got, 0) <= MaxMsg)
    BY <1>3, <1>5, <1>7, ConstantsAre
  <2> QED
    BY <1>2, <1>3, <1>4, <1>6, <2>2, <2>3
<1>8. CASE ~(n > MaxMsg)
  <2>1. cpc' = "payload" /\ rbuf' = BufResize(rbuf, U32 + n) /\ need' = n /\ awaited' = awaited /\ wbuf' = wbuf
        /\ ahead' = ahead /\ asked' = asked /\ signals' = signals /\ errno' = errno
    BY <1>8 DEF ReadPayload
  <2>2. rbuf' \in Buffers(B) /\ Tight(rbuf') /\ size(rbuf') = U32 + n /\ SubSeq(rbuf'.data, 1, U32) = d
    <3> DEFINE all == U32 + n
    <3>1. all \in Nat
      BY <1>5, ConstantsAre
    <3> HIDE DEF n
    <3>2. CASE n = 0
      <4>1. all <= size(rbuf) /\ all = U32
        BY <1>1, <3>2, ConstantsAre
      <4> HIDE DEF all
      <4>2. LET a == BufResize(rbuf, all)
            IN  /\ a \in Buffers(B) /\ a.data = SubSeq(rbuf.data, 1, all) /\ size(a) = all
                /\ Tight(rbuf) => Tight(a)
        BY <1>1, <3>1, <4>1, ResizeShrinks
      <4>3. rbuf' = BufResize(rbuf, all)
        BY <2>1 DEF all
      <4>4. SubSeq(d, 1, U32) = d
        <5> HIDE DEF d, B
        <5> QED
          BY <1>2
      <4>5. rbuf'.data = d /\ rbuf' \in Buffers(B) /\ Tight(rbuf') /\ size(rbuf') = all
        BY <1>1, <4>1, <4>2, <4>3, <4>4
      <4> QED
        BY <4>4, <4>5 DEF all
    <3>3. CASE n # 0
      <4>1. all > size(rbuf)
        BY <1>1, <1>5, <3>3, ConstantsAre
      <4>2. Zero \in B
        OBVIOUS
      <4> HIDE DEF all, B
      <4>3. LET a == BufResize(rbuf, all)
            IN  /\ a \in Buffers(B) /\ Tight(a) /\ size(a) = all
                /\ SubSeq(a.data, 1, size(rbuf)) = rbuf.data
        BY <1>1, <3>1, <4>1, <4>2, ResizeGrows
      <4> QED
        BY <1>1, <2>1, <4>3 DEF all
    <3> QED
      BY <3>2, <3>3
  <2> DEFINE r == rbuf'.data
  <2>3. r \in Seq(B) /\ Len(r) = U32 + n
    BY <2>2 DEF Buffers, size
  <2>4. U32At(r, 0) = n
    <3>1. U32 \in 1..Len(r)
      BY <1>5, <2>3, ConstantsAre
    <3>2. SubSeq(r, 1, U32)[1] = r[1]
      <4>1. r \in Seq(B)
        BY <2>3
      <4> HIDE DEF r, B
      <4> QED
        BY <3>1, <4>1
    <3>3. r[1] = d[1]
      BY <2>2, <3>2
    <3> HIDE DEF r, d
    <3> QED
      BY <3>3 DEF U32At
  <2>5. Got' = d
    <3>1. size(rbuf') - need' = U32
      BY <1>5, <2>1, <2>2, ConstantsAre
    <3>2. Got' = SubSeq(rbuf'.data, 1, size(rbuf') - need')
      BY <2>1 DEF Got
    <3> QED
      BY <2>2, <3>1, <3>2
  <2>6. Reader'
    <3>1. need' \in 0..size(rbuf') /\ need' <= size(rbuf') - U32
      BY <1>5, <2>1, <2>2, ConstantsAre
    <3>2. size(rbuf') = U32 + U32At(rbuf'.data, 0)
      BY <2>2, <2>4
    <3> HIDE DEF r, n, d
    <3> QED
      BY <1>4, <2>1, <2>2, <2>5, <3>1, <3>2 DEF Reader, B
  <2>7. Counts'
    BY <1>1, <2>1 DEF Counts
  <2>8. Writer'
    BY <1>1, <2>1 DEF Writer
  <2> QED
    BY <1>2, <1>3, <1>4, <1>6, <2>1, <2>5, <2>6, <2>7, <2>8
<1> QED
  BY <1>7, <1>8

\* The client has the whole response.
LEMMA PrintResponseTypes ==
    ASSUME Types, PrintResponse
    PROVE  /\ Types' /\ Got' = <<>>
           /\ Got \in Seq(Bytes) /\ Got = rbuf.data /\ size(rbuf) = Len(Got)
           /\ Len(Got) = U32 + U32At(Got, 0) /\ Len(Got) >= U32
<1> USE DEF Types
<1> DEFINE d == rbuf.data
           B == Bytes \cup {Zero}
<1>1. cpc = "payload" /\ need = 0 /\ rbuf \in Buffers(B) /\ need <= size(rbuf) - U32
      /\ size(rbuf) = U32 + U32At(d, 0)
  BY DEF PrintResponse, Reader
<1>2. d \in Seq(B) /\ size(rbuf) = Len(d) /\ Len(d) \in Nat
  BY <1>1 DEF Buffers, size
<1>3. Got = d
  <2>1. Got = SubSeq(d, 1, Len(d))
    <3>1. size(rbuf) - need = Len(d)
      BY <1>1, <1>2
    <3> QED
      BY <1>1, <3>1 DEF Got
  <2>2. SubSeq(d, 1, Len(d)) = d
    <3> HIDE DEF d, B
    <3> QED
      BY <1>2
  <2> QED
    BY <2>1, <2>2
<1>4. d \in Seq(Bytes)
  BY <1>3 DEF Reader
<1>5. Len(d) = U32 + U32At(d, 0) /\ Len(d) >= U32
  BY <1>1, <1>2, ConstantsAre
<1>6. Ending' /\ Sockets' /\ ConnOK'
  BY DEF PrintResponse, Fail, Ending, Sockets, ConnOK, socket, server
<1>7. CASE Fail
  <2>1. ahead' = ahead /\ asked' = asked /\ signals' = signals /\ errno' \in {"none", "EINTR", "other"}
    BY DEF PrintResponse, Counts
  <2>2. Counts' /\ Writer' /\ Reader' /\ Got' = <<>>
    BY <1>7, <2>1, FailTypes
  <2> QED
    BY <1>2, <1>3, <1>4, <1>5, <1>6, <2>2
<1>8. CASE ~Fail
  <2>1. /\ awaited' = awaited - 1 /\ cpc' = IF awaited > 1 THEN "sent" ELSE "prompt"
        /\ rbuf' = NewBuffer /\ wbuf' = wbuf /\ need' = need
        /\ ahead' = ahead /\ asked' = asked /\ signals' = signals /\ errno' = errno
    BY <1>8 DEF PrintResponse
  <2>2. Counts'
    BY <1>1, <2>1 DEF Counts
  <2>3. Writer'
    BY <1>1, <2>1 DEF Writer
  <2>4. cpc' \notin {"header", "payload"}
    BY <2>1
  <2>5. Got' = <<>>
    BY <2>4 DEF Got
  <2>6. Reader'
    <3>1. NewBuffer \in Buffers(B) /\ Tight(NewBuffer) /\ 0 \in 0..size(NewBuffer)
      BY DEF NewBuffer, Buffers, Tight, Fits, size
    <3> QED
      BY <1>1, <2>1, <2>4, <2>5, <3>1 DEF Reader
  <2> QED
    BY <1>2, <1>3, <1>4, <1>5, <1>6, <2>2, <2>3, <2>5, <2>6
<1> QED
  BY <1>7, <1>8

-----------------------------------------------------------------------------
(* The steps of the server.                                                *)

\* What the server does is nothing to the client's variables.
LEMMA ClientUnchanged ==
    ASSUME Types, UNCHANGED client
    PROVE  Counts' /\ Writer' /\ Reader' /\ Got' = Got
<1>1. Counts'
  BY DEF Types, Counts, client
<1>2. Writer'
  BY DEF Types, Writer, client
<1>3. Got' = Got
  BY DEF Got, client
<1>4. Reader'
  BY <1>3 DEF Types, Reader, client
<1> QED
  BY <1>1, <1>2, <1>3, <1>4

\* handle_read() moves bytes from the socket to the buffer, which gets no gap.
LEMMA ServerReadTypes ==
    ASSUME Types, ServerRead
    PROVE  /\ Types' /\ Got' = Got
           /\ incoming.data \o up = incoming'.data \o up'
           /\ incoming.data \in Seq(Bytes) /\ up' \in Seq(Bytes) /\ incoming'.data \in Seq(Bytes)
           /\ Tight(incoming) => Tight(incoming') /\ spc' = "parse"
<1> USE DEF Types
<1> DEFINE n == Min2(ReadMax, Len(up))
           x == SubSeq(up, 1, n)
           rest == SubSeq(up, n + 1, Len(up))
           i == incoming.data
<1>1. up \in Seq(Bytes) /\ Len(up) \in Nat /\ Len(up) <= SockCap
  BY DEF Sockets
<1>2. n \in 0..Len(up)
  BY <1>1, ConstantsAre DEF Min2
<1>3. up = x \o rest /\ x \in Seq(Bytes) /\ rest \in Seq(Bytes) /\ Len(rest) = Len(up) - n
  BY <1>1, <1>2, CutInTwo DEF Cut
<1>4. incoming' = BufAppend(incoming, x) /\ up' = rest
  BY DEF ServerRead
<1>5. incoming \in Buffers(Bytes) /\ i \in Seq(Bytes)
  BY DEF ConnOK, Buffers
<1> HIDE DEF n, x, rest, i
<1>6. incoming' \in Buffers(Bytes) /\ incoming'.data = i \o x /\ (Tight(incoming) => Tight(incoming'))
  <2>1. LET a == BufAppend(incoming, x)
        IN  a \in Buffers(Bytes) /\ a.data = incoming.data \o x /\ (Tight(incoming) => Tight(a))
    BY <1>3, <1>5, AppendBehind
  <2> QED
    BY <1>4, <2>1 DEF i
<1>7. i \o (x \o rest) = (i \o x) \o rest
  <2>1. i \in Seq(Bytes) /\ x \in Seq(Bytes) /\ rest \in Seq(Bytes)
    BY <1>3, <1>5
  <2> QED
    BY <2>1
<1>8. incoming.data \o up = incoming'.data \o up'
  BY <1>3, <1>4, <1>6, <1>7 DEF i
<1>9. Counts' /\ Writer' /\ Reader' /\ Got' = Got
  BY ClientUnchanged DEF ServerRead
<1>10. Ending'
  BY DEF ServerRead, Ending, client
<1>11. Sockets'
  <2>1. Len(up) - n <= SockCap
    BY <1>1, <1>2, ConstantsAre
  <2>2. up' \in Seq(Bytes) /\ Len(up') <= SockCap
    BY <1>3, <1>4, <2>1
  <2> QED
    BY <2>2 DEF ServerRead, Sockets
<1>12. ConnOK'
  BY <1>6 DEF ServerRead, ConnOK
<1>13. incoming'.data \in Seq(Bytes)
  BY <1>6 DEF Buffers
<1>14. Tight(incoming') => spc' = "parse"
  BY DEF ServerRead, Tight
<1> QED
  BY <1>3, <1>4, <1>5, <1>6, <1>8, <1>9, <1>10, <1>11, <1>12, <1>13, <1>14 DEF i

\* What parse_req() accepts has at least the number of strings in it.
LEMMA ParsedIsLong ==
    ASSUME NEW d, parse_req(d)
    PROVE  U32 <= Len(d)
BY ConstantsAre DEF parse_req

\* A request is taken from the buffer and its response put into the other.
LEMMA TryOneRequestTypes ==
    ASSUME Types, TryOneRequest
    PROVE  /\ Types' /\ Got' = Got /\ end = "open"
           /\ incoming.data \in Seq(Bytes) /\ Len(incoming.data) >= U32
           /\ U32 + U32At(incoming.data, 0) <= Len(incoming.data)
           /\ incoming'.data = SubSeq(incoming.data, U32 + U32At(incoming.data, 0) + 1, Len(incoming.data))
           /\ incoming'.data \in Seq(Bytes)
           /\ Payload[1][1] \in Nat
           /\ \E p \in Answers(Payload[1][1]) : Longer(outgoing', outgoing, Response(Payload[1][1], p))
           /\ Fits(incoming) => Fits(incoming')
           /\ incoming'.data = <<>> => incoming'.lo = 0
           /\ Fits(outgoing') => spc' = "parse"
<1> USE DEF Types
<1> DEFINE d == incoming.data
           n == U32At(d, 0)
           k == Payload[1][1]
<1>1. incoming \in Buffers(Bytes) /\ outgoing \in Buffers(Bytes) /\ d \in Seq(Bytes)
  BY DEF ConnOK, Buffers
<1>2. Len(d) >= U32 /\ U32 + n <= Len(d) /\ size(incoming) = Len(d) /\ Len(d) \in Nat
  BY <1>1 DEF TryOneRequest, Complete, HasHeader, len, size
<1>3. n \in Nat
  <2>1. d[1] \in Bytes
    BY <1>1, <1>2, ConstantsAre
  <2> QED
    BY <2>1, BytesOf DEF U32At
<1>4. k \in Nat
  <2> DEFINE q == SubSeq(d, U32 + 1, U32 + n)
  <2>1. Payload = q
    BY DEF Payload, len
  <2>2. U32 <= Len(q)
    BY <2>1, ParsedIsLong DEF TryOneRequest
  <2>3. q \in Seq(Bytes)
    <3> DEFINE l == U32 + n
    <3>1. l \in Nat /\ U32 + 1 \in Nat /\ l <= Len(d) /\ U32 + 1 >= 1
      BY <1>2, <1>3, ConstantsAre
    <3> HIDE DEF l, d
    <3>2. SubSeq(d, U32 + 1, l) \in Seq(Bytes)
      BY <1>1, <3>1
    <3> QED
      BY <3>2 DEF l
  <2> HIDE DEF q, n
  <2>4. q[1] \in Bytes
    BY <2>2, <2>3, ConstantsAre
  <2> QED
    BY <2>1, <2>4, BytesOf
<1>5. PICK r \in Replies :
         outgoing' = response_end(Output(response_begin(outgoing, k), k, r), size(outgoing), k)
  BY DEF TryOneRequest
<1> HIDE DEF k
<1>6. PICK p \in Answers(k) : Longer(outgoing', outgoing, Response(k, p))
  BY <1>1, <1>4, <1>5, ResponseIs
<1>7. outgoing' \in Buffers(Bytes)
  BY <1>6 DEF Longer
<1> DEFINE all == U32 + n
<1>8. all \in 0..size(incoming)
  BY <1>2, <1>3, ConstantsAre
<1> HIDE DEF all
<1>9. LET a == BufConsume(incoming, all)
      IN  /\ a \in Buffers(Bytes) /\ a.data = SubSeq(incoming.data, all + 1, Len(incoming.data))
          /\ Fits(incoming) => Fits(a)
          /\ a.data = <<>> => a.lo = 0
  BY <1>1, <1>8, ConsumeFront
<1>10. incoming' = BufConsume(incoming, all)
  BY DEF TryOneRequest, all, len
<1>11. incoming' \in Buffers(Bytes) /\ incoming'.data \in Seq(Bytes)
  BY <1>9, <1>10 DEF Buffers
<1>12. Counts' /\ Writer' /\ Reader' /\ Got' = Got
  BY ClientUnchanged DEF TryOneRequest
<1>13. Ending' /\ end = "open"
  BY DEF TryOneRequest, Ending, client, socket
<1>14. Sockets'
  BY DEF TryOneRequest, Sockets, socket
<1>15. ConnOK'
  BY <1>7, <1>11 DEF TryOneRequest, ConnOK
<1>16. Fits(outgoing') => spc' = "parse"
  BY DEF TryOneRequest
<1>17. Types'
  BY <1>12, <1>13, <1>14, <1>15
<1>18. \E x \in Answers(Payload[1][1]) : Longer(outgoing', outgoing, Response(Payload[1][1], x))
  BY <1>6 DEF k
<1>19. Payload[1][1] \in Nat
  BY <1>4 DEF k
<1>20. /\ incoming'.data = SubSeq(d, U32 + n + 1, Len(d))
       /\ Fits(incoming) => Fits(incoming')
       /\ incoming'.data = <<>> => incoming'.lo = 0
  BY <1>9, <1>10 DEF all
<1> QED
  BY <1>1, <1>2, <1>11, <1>12, <1>13, <1>16, <1>17, <1>18, <1>19, <1>20

\* try_one_request() returns false, or the socket becomes writable.
LEMMA StopParsingTypes ==
    ASSUME Types, StopParsing \/ ServerPollOut
    PROVE  Types' /\ Got' = Got /\ UNCHANGED <<client, socket, incoming, outgoing>> /\ spc' # "undefined"
<1> USE DEF Types
<1>1. UNCHANGED <<client, socket, incoming, outgoing>> /\ spc \in {"parse", "poll"}
  BY DEF StopParsing, ServerPollOut
<1>2. Counts' /\ Writer' /\ Reader' /\ Got' = Got
  BY <1>1, ClientUnchanged
<1>3. spc' \in {"write", "close", "poll"}
  BY DEF StopParsing, ServerPollOut
<1>4. Ending'
  BY <1>1, <1>3 DEF Ending, client, socket
<1>5. Sockets'
  BY <1>1 DEF Sockets, socket
<1>6. want_write' \in BOOLEAN /\ want_close' \in BOOLEAN
  <2>1. CASE StopParsing
    <3>1. want_write' \in BOOLEAN
      BY <2>1 DEF StopParsing
    <3>2. want_close' = TRUE \/ want_close' = FALSE
      BY <2>1 DEF StopParsing, Complete, HasHeader
    <3> QED
      BY <3>1, <3>2
  <2>2. CASE ServerPollOut
    BY <2>2 DEF ServerPollOut, ConnOK
  <2> QED
    BY <2>1, <2>2
<1>7. ConnOK'
  BY <1>1, <1>6 DEF ConnOK
<1> QED
  BY <1>1, <1>2, <1>3, <1>4, <1>5, <1>7

\* handle_write() moves bytes from the buffer to the socket.
LEMMA ServerWriteTypes ==
    ASSUME Types, ServerWrite
    PROVE  /\ Types' /\ Got' = Got /\ end' = end /\ UNCHANGED <<up, incoming>>
           /\ down \o outgoing.data = down' \o outgoing'.data
           /\ outgoing.data \in Seq(Bytes) /\ outgoing'.data \in Seq(Bytes)
           /\ Fits(outgoing) => Fits(outgoing')
           /\ outgoing'.data = <<>> => outgoing'.lo = 0
           /\ spc' # "undefined"
<1> USE DEF Types
<1> DEFINE n == Min2(SockCap - Len(down), size(outgoing))
           d == outgoing.data
           x == SubSeq(d, 1, n)
           rest == SubSeq(d, n + 1, Len(d))
<1>1. outgoing \in Buffers(Bytes) /\ d \in Seq(Bytes) /\ size(outgoing) = Len(d) /\ Len(d) \in Nat
  BY DEF ConnOK, Buffers, size
<1>2. down \in Seq(Bytes) /\ Len(down) \in Nat /\ Len(down) <= SockCap
  BY DEF Sockets
<1>3. n \in 0..Len(d) /\ n <= SockCap - Len(down) /\ n \in 0..size(outgoing)
  BY <1>1, <1>2, ConstantsAre DEF Min2
<1>4. d = x \o rest /\ x \in Seq(Bytes) /\ rest \in Seq(Bytes) /\ Len(x) = n
  BY <1>1, <1>3, CutInTwo DEF Cut
<1>5. down' = down \o x /\ outgoing' = BufConsume(outgoing, n)
  BY DEF ServerWrite
<1> HIDE DEF n, x
<1>6. LET a == BufConsume(outgoing, n)
      IN  /\ a \in Buffers(Bytes) /\ a.data = SubSeq(outgoing.data, n + 1, Len(outgoing.data))
          /\ Fits(outgoing) => Fits(a)
          /\ a.data = <<>> => a.lo = 0
  BY <1>1, <1>3, ConsumeFront
<1>7. /\ outgoing' \in Buffers(Bytes) /\ outgoing'.data = rest
      /\ Fits(outgoing) => Fits(outgoing')
      /\ outgoing'.data = <<>> => outgoing'.lo = 0
  BY <1>5, <1>6
<1> HIDE DEF rest
<1>8. down \o (x \o rest) = (down \o x) \o rest /\ down \o x \in Seq(Bytes)
  <2>1. x \in Seq(Bytes) /\ rest \in Seq(Bytes)
    BY <1>4
  <2>2. down \in Seq(Bytes)
    BY <1>2
  <2> QED
    BY <2>1, <2>2
<1>9. Len(down \o x) = Len(down) + Len(x)
  <2>1. x \in Seq(Bytes) /\ down \in Seq(Bytes)
    BY <1>2, <1>4
  <2> QED
    BY <2>1, Joined
<1>10. down \o outgoing.data = down' \o outgoing'.data
  BY <1>4, <1>5, <1>7, <1>8
<1>11. Counts' /\ Writer' /\ Reader' /\ Got' = Got
  BY ClientUnchanged DEF ServerWrite
<1>12. spc' \in {"close", "poll"} /\ spc = "write" /\ end' = end /\ cpc' = cpc /\ up' = up /\ incoming' = incoming
       /\ want_close' = want_close /\ want_write' \in BOOLEAN
  BY DEF ServerWrite, client
<1>13. Ending'
  BY <1>12 DEF Ending
<1>14. Sockets'
  <2>1. Len(down \o x) <= SockCap
    BY <1>2, <1>3, <1>4, <1>9, ConstantsAre
  <2> QED
    BY <1>5, <1>8, <1>12, <2>1 DEF Sockets
<1>15. ConnOK'
  BY <1>7, <1>12 DEF ConnOK
<1>16. outgoing'.data \in Seq(Bytes)
  BY <1>4, <1>7
<1> QED
  BY <1>1, <1>7, <1>10, <1>11, <1>12, <1>13, <1>14, <1>15, <1>16

\* conn_destroy() throws everything away but, perhaps, what is in the socket.
LEMMA ServerCloseTypes ==
    ASSUME Types, ServerClose
    PROVE  /\ Types' /\ Got' = Got /\ end = "open" /\ end' # "open" /\ UNCHANGED client
           /\ (up = <<>> /\ down' = down) \/ down' = <<>>
           /\ Tight(incoming') /\ Tight(outgoing') /\ spc' # "undefined"
<1> USE DEF Types
<1>1. NewBuffer \in Buffers(Bytes) /\ Tight(NewBuffer)
  BY NewBufferIs
<1>2. Counts' /\ Writer' /\ Reader' /\ Got' = Got
  BY ClientUnchanged DEF ServerClose
<1>3. end = "open" /\ end' # "open" /\ spc' = "closed" /\ UNCHANGED client
      /\ ((up = <<>> /\ down' = down) \/ down' = <<>>)
  BY DEF ServerClose, Ending
<1>4. Ending'
  <2>1. end' \in {"fin", "rst"} /\ (end' = "rst" => down' = <<>>)
    BY DEF ServerClose
  <2>2. cpc' # "killed"
    BY <1>3 DEF Ending, client
  <2> QED
    BY <1>3, <2>1, <2>2 DEF Ending
<1>5. Sockets'
  <2>1. <<>> \in Seq(Bytes) /\ Len(<<>>) <= SockCap
    BY ConstantsAre
  <2> QED
    BY <1>3, <2>1 DEF ServerClose, Sockets
<1>6. ConnOK'
  BY <1>1 DEF ServerClose, ConnOK
<1>7. Tight(incoming') /\ Tight(outgoing')
  BY <1>1 DEF ServerClose
<1> QED
  BY <1>2, <1>3, <1>4, <1>5, <1>6, <1>7

\* A stuttering step.
LEMMA UnchangedTypes ==
    ASSUME Types, UNCHANGED vars
    PROVE  Types' /\ Got' = Got
<1>1. UNCHANGED <<client, socket, server>>
  BY DEF vars
<1>2. Counts' /\ Writer' /\ Reader' /\ Got' = Got
  BY <1>1, ClientUnchanged
<1>3. Ending' /\ Sockets' /\ ConnOK'
  BY <1>1 DEF Types, Ending, Sockets, ConnOK, client, socket, server
<1> QED
  BY <1>2, <1>3 DEF Types

\* The steps, one by one.
LEMMA StepIs ==
    ASSUME Next
    PROVE  \/ \E cmd \in Commands, nstr \in Nat : Ask(cmd, nstr)
           \/ \E cmd \in Commands : AskTooMuch(cmd)
           \/ SendSome \/ SendFails \/ ReadHeader \/ ReadSome \/ ReadInterrupted
           \/ (ReadEOF \/ ReadError) \/ ReadPayload \/ PrintResponse
           \/ ServerRead \/ TryOneRequest \/ (StopParsing \/ ServerPollOut)
           \/ ServerWrite \/ ServerClose
<1>1. ASSUME NEW cmd \in Commands, NEW nstr \in {Len(cmd) - 1, Len(cmd), Len(cmd) + 1}
      PROVE  nstr \in Nat
  <2>1. cmd \in Seq(Nat) /\ cmd # <<>>
    BY ConnectionAssumption
  <2>2. Len(cmd) \in Nat \ {0}
    BY <2>1
  <2> QED
    BY <1>1, <2>2
<1> QED
  BY <1>1 DEF Next, ClientStep, ServerStep

\* The types, and what the variables of one process have to do with each
\* other, hold in every behaviour.
THEOREM TypesInvariant == Spec => []Types
<1>1. ASSUME Types, [Next]_vars
      PROVE  Types'
  <2>1. CASE Next
    BY <1>1, <2>1, StepIs, AskTypes, AskTooMuchTypes, SendSomeTypes, SendFailsTypes, ReadHeaderTypes,
       ReadSomeTypes, ReadInterruptedTypes, ReadEndsTypes, ReadPayloadTypes, PrintResponseTypes,
       ServerReadTypes, TryOneRequestTypes, StopParsingTypes, ServerWriteTypes, ServerCloseTypes
  <2>2. CASE UNCHANGED vars
    BY <1>1, <2>2, UnchangedTypes
  <2> QED
    BY <1>1, <2>1, <2>2
<1> QED
  BY <1>1, InitTypes, PTL DEF Spec

\* A buffer of written bytes holds no byte that nobody has written.
LEMMA NoJunk ==
    ASSUME NEW b \in Buffers(Bytes \cup {Zero})
    PROVE  b.cap \in Nat /\ b.lo \in Nat /\ \A i \in 1..size(b) : b.data[i] # Junk
<1>1. b.cap \in Nat /\ b.lo \in Nat /\ b.data \in Seq(Bytes \cup {Zero})
  BY DEF Buffers
<1>2. Junk \notin Bytes \cup {Zero}
  BY WireAssumption, InitCapAssumption
<1> DEFINE B == Bytes \cup {Zero}
           d == b.data
<1> HIDE DEF B, d
<1>3. d \in Seq(B) /\ Junk \notin B
  BY <1>1, <1>2 DEF B, d
<1>4. \A i \in 1..Len(d) : d[i] # Junk
  BY <1>3
<1> QED
  BY <1>1, <1>4 DEF size, d

\* The types are those of Connection.
LEMMA TypesAreRight == Types => TypeOK
<1> SUFFICES ASSUME Types
             PROVE  TypeOK
  OBVIOUS
<1> USE DEF Types
<1>1. /\ ahead \in 1..MaxAhead /\ awaited \in 0..ahead
      /\ cpc \in {"prompt", "send", "sent", "header", "payload", "killed"}
      /\ asked \in 0..Rounds /\ signals \in 0..Signals
      /\ errno \in {"none", "EINTR", "other"}
  BY DEF Counts
<1>2. incoming \in Buffers(Bytes \cup {Zero}) /\ outgoing \in Buffers(Bytes \cup {Zero})
  <2>1. ASSUME NEW b \in Buffers(Bytes)
        PROVE  b \in Buffers(Bytes \cup {Zero})
    <3> DEFINE B == Bytes \cup {Zero}
    <3>1. \A s \in Seq(Bytes) : s \in Seq(B)
      <4>1. Bytes \subseteq B
        OBVIOUS
      <4> HIDE DEF B
      <4> QED
        BY <4>1
    <3> HIDE DEF B
    <3>2. b \in Buffers(B)
      BY <3>1 DEF Buffers
    <3> QED
      BY <3>2 DEF B
  <2> QED
    BY <2>1 DEF ConnOK
<1>3. \A b \in {rbuf, incoming, outgoing} :
         b.cap \in Nat /\ b.lo \in Nat /\ \A i \in 1..size(b) : b.data[i] # Junk
  BY <1>2, NoJunk DEF Reader
<1>4. Fits(rbuf) /\ need \in 0..size(rbuf)
  BY DEF Reader, Tight
<1>5. Len(up) <= SockCap /\ Len(down) <= SockCap
  BY DEF Sockets
<1>6. /\ end \in {"open", "fin", "rst"} /\ (end # "open" <=> spc = "closed")
      /\ spc \in {"poll", "parse", "write", "close", "closed", "undefined"}
  BY DEF Ending
<1>7. want_write \in BOOLEAN /\ want_close \in BOOLEAN
  BY DEF ConnOK
<1> QED
  BY <1>1, <1>3, <1>4, <1>5, <1>6, <1>7 DEF TypeOK

\* TypeOK is an invariant: in particular no byte that nobody has written is in
\* any buffer, and readn() never writes behind the end of the client's.
THEOREM ConnectionTypeCorrect == Spec => []TypeOK
BY TypesInvariant, TypesAreRight, PTL

-----------------------------------------------------------------------------
(* What is under way, in both directions.                                  *)

\* Of the requests that have been begun the server has executed e; t is what
\* it has not sent.
Between(e, t) ==
    /\ e \in 0..asked /\ t \in Seq(Bytes)
    /\ Carries((Got \o down) \o t, Answered, asked - awaited, e)
    /\ end = "open" => /\ t = outgoing.data
                       /\ Carries((incoming.data \o up) \o wbuf, Asked, e, asked)

InFlight == \E e, t : Between(e, t)

Shown ==
    /\ shown.bytes # <<>> => shown.of \in Nat /\ shown.bytes \in Answers(shown.of)
    /\ cpc = "prompt" /\ end = "open" => shown.of = asked

\* With one request at a time no buffer of the server has a gap in front of
\* its data when something is appended.
Single ==
    ahead = 1 => /\ spc # "undefined"
                 /\ Tight(incoming) /\ Fits(outgoing)
                 /\ outgoing.data = <<>> => outgoing.lo = 0

IInv == Types /\ InFlight /\ Shown /\ Single

\* Nothing is the concatenation of nothing else.
LEMMA NoParts ==
    ASSUME NEW S, NEW x \in Seq(S), NEW y \in Seq(S), NEW z \in Seq(S), (x \o y) \o z = <<>>
    PROVE  x = <<>> /\ y = <<>> /\ z = <<>>
<1> DEFINE xy == x \o y
<1>1. xy \in Seq(S) /\ Len(xy) = Len(x) + Len(y)
  BY Joined
<1> HIDE DEF xy
<1>2. Len(xy \o z) = Len(xy) + Len(z)
  BY <1>1, Joined
<1>3. Len(xy \o z) = 0
  BY DEF xy
<1>4. Len(x) \in Nat /\ Len(y) \in Nat /\ Len(z) \in Nat
  OBVIOUS
<1>5. Len(x) = 0 /\ Len(y) = 0 /\ Len(z) = 0
  BY <1>1, <1>2, <1>3, <1>4
<1> QED
  BY <1>5, EmptySeq

\* Concatenation is associative.
LEMMA Regroup ==
    ASSUME NEW S, NEW x \in Seq(S), NEW y \in Seq(S), NEW z \in Seq(S)
    PROVE  (x \o y) \o z = x \o (y \o z) /\ x \o y \in Seq(S) /\ (x \o y) \o z \in Seq(S)
OBVIOUS

\* The variables that hold bytes, and how many responses have been read.
LEMMA BytesAre ==
    ASSUME Types
    PROVE  /\ Got \in Seq(Bytes) /\ down \in Seq(Bytes) /\ up \in Seq(Bytes) /\ wbuf \in Seq(Bytes)
           /\ incoming.data \in Seq(Bytes) /\ outgoing.data \in Seq(Bytes)
           /\ asked \in Nat /\ awaited \in Nat /\ asked - awaited \in 0..asked
<1>1. Got \in Seq(Bytes) /\ down \in Seq(Bytes) /\ up \in Seq(Bytes) /\ wbuf \in Seq(Bytes)
  BY DEF Types, Reader, Sockets, Writer
<1>2. incoming.data \in Seq(Bytes) /\ outgoing.data \in Seq(Bytes)
  BY DEF Types, ConnOK, Buffers
<1>3. asked \in Nat /\ awaited \in Nat /\ asked - awaited \in 0..asked
  BY ConstantsAre DEF Types, Counts
<1> QED
  BY <1>1, <1>2, <1>3

\* Nothing is under way while the client waits for nothing.
LEMMA Idle ==
    ASSUME Types, NEW e, NEW t, Between(e, t), awaited = 0
    PROVE  /\ e = asked /\ Got = <<>> /\ down = <<>> /\ t = <<>>
           /\ end = "open" => incoming.data = <<>> /\ up = <<>> /\ wbuf = <<>>
<1>1. e \in 0..asked /\ t \in Seq(Bytes) /\ Carries((Got \o down) \o t, Answered, asked - awaited, e)
  BY DEF Between
<1>2. asked - awaited <= e
  BY <1>1, CarriesIs
<1>3. e = asked /\ asked - awaited = e
  BY <1>1, <1>2, BytesAre
<1>4. (Got \o down) \o t = <<>>
  BY <1>1, <1>3, CarriesIs
<1>5. Got = <<>> /\ down = <<>> /\ t = <<>>
  BY <1>1, <1>4, BytesAre, NoParts
<1>6. ASSUME end = "open"
      PROVE  incoming.data = <<>> /\ up = <<>> /\ wbuf = <<>>
  <2>1. Carries((incoming.data \o up) \o wbuf, Asked, e, asked)
    BY <1>6 DEF Between
  <2>2. (incoming.data \o up) \o wbuf = <<>>
    BY <1>3, <2>1, CarriesIs
  <2> QED
    BY <2>2, BytesAre, NoParts
<1> QED
  BY <1>3, <1>5, <1>6

\* The client has the header of the response that it waits for.
LEMMA FirstAnswer ==
    ASSUME Types, NEW e, NEW t, Between(e, t), Len(Got) >= U32
    PROVE  \E p \in Answers(asked - awaited + 1) :
              /\ U32At(Got, 0) = Len(p)
              /\ Len(Got) = U32 + Len(p) =>
                    /\ SubSeq(Got, U32 + 1, Len(Got)) = p
                    /\ Carries((<<>> \o down) \o t, Answered, asked - awaited + 1, e)
<1> DEFINE a == asked - awaited
           u == down \o t
<1>1. e \in 0..asked /\ t \in Seq(Bytes) /\ Carries((Got \o down) \o t, Answered, a, e) /\ a \in Nat
  BY BytesAre DEF Between
<1>2. Got \in Seq(Bytes) /\ down \in Seq(Bytes)
  BY BytesAre
<1>3. u \in Seq(Bytes) /\ (Got \o down) \o t = Got \o u
  BY <1>1, <1>2, Regroup
<1>4. a # e
  <2> SUFFICES ASSUME a = e
               PROVE  FALSE
    OBVIOUS
  <2>1. (Got \o down) \o t = <<>>
    BY <1>1, CarriesIs
  <2>2. Got = <<>>
    BY <1>1, <1>2, <2>1, NoParts
  <2>3. Len(Got) = 0
    BY <2>2
  <2> QED
    BY <2>3, ConstantsAre
<1>5. PICK m \in Answered[a + 1], r \in Seq(Bytes) : Got \o u = m \o r /\ Carries(r, Answered, a + 1, e)
  BY <1>1, <1>3, <1>4, CarriesFirst
<1>6. a + 1 \in Nat
  BY <1>1
<1>7. PICK p \in Answers(a + 1) : m = Framed(a + 1, p)
  BY <1>5, <1>6, AnsweredIs
<1>8. p \in Seq(Bytes) /\ Len(p) \in Nat
  BY <1>6, AnswersArePrinted
<1>9. Starts(Got, u, a + 1, p, r)
  BY <1>2, <1>3, <1>5, <1>7 DEF Starts
<1> HIDE DEF u
<1>10. U32At(Got, 0) = Len(p)
  BY <1>5, <1>6, <1>8, <1>9, ReadsMessage
<1>11. ASSUME Len(Got) = U32 + Len(p)
       PROVE  /\ SubSeq(Got, U32 + 1, Len(Got)) = p
              /\ Carries((<<>> \o down) \o t, Answered, a + 1, e)
  <2>1. U32 + Len(p) <= Len(Got) /\ Len(Got) \in Nat
    BY <1>2, <1>8, <1>11, ConstantsAre
  <2> DEFINE q == SubSeq(Got, U32 + Len(p) + 1, Len(Got))
  <2>2. q \in Seq(Bytes) /\ r = q \o u /\ SubSeq(Got, U32 + 1, U32 + Len(p)) = p
        /\ Len(Got) = U32 + Len(p) + Len(q)
    BY <1>5, <1>6, <1>8, <1>9, <2>1, ReadsMessage
  <2> HIDE DEF q
  <2>3. q = <<>>
    <3>1. Len(q) \in Nat
      BY <2>2
    <3>2. Len(q) = 0
      BY <1>8, <1>11, <2>2, <3>1, ConstantsAre
    <3> QED
      BY <2>2, <3>2, EmptySeq
  <2>4. <<>> \o u = u /\ <<>> \o down = down
    BY <1>2, <1>3
  <2>5. r = (<<>> \o down) \o t
    BY <2>2, <2>3, <2>4 DEF u
  <2> QED
    BY <1>5, <1>11, <2>2, <2>5
<1> QED
  BY <1>7, <1>10, <1>11

\* The inductive invariant holds initially.
LEMMA InitInv == Init => IInv
<1> SUFFICES ASSUME Init
             PROVE  IInv
  OBVIOUS
<1>1. Types
  BY InitTypes
<1>2. InFlight
  <2>1. Got = <<>> /\ asked = 0 /\ awaited = 0 /\ down = <<>> /\ outgoing.data = <<>>
        /\ incoming.data = <<>> /\ up = <<>> /\ wbuf = <<>>
    BY NewBufferIs DEF Init, Got
  <2>2. (<<>> \o <<>>) \o <<>> = <<>>
    OBVIOUS
  <2>3. Carries(<<>>, Answered, 0, 0) /\ Carries(<<>>, Asked, 0, 0)
    BY CarriesNothing
  <2>4. 0 - 0 = 0 /\ 0 \in 0..0 /\ <<>> \in Seq(Bytes)
    OBVIOUS
  <2>5. Between(0, <<>>)
    BY <2>1, <2>2, <2>3, <2>4 DEF Between
  <2> QED
    BY <2>5 DEF InFlight
<1>3. Shown
  BY DEF Init, Shown
<1>4. Single
  BY NewBufferIs DEF Init, Single, Tight
<1> QED
  BY <1>1, <1>2, <1>3, <1>4 DEF IInv

\* A step that moves no byte past the ones that are counted.
LEMMA FlowSame ==
    ASSUME NEW e, NEW t, Between(e, t), asked' = asked, awaited' = awaited, end' = end,
           Got' \o down' = Got \o down, outgoing' = outgoing,
           (incoming'.data \o up') \o wbuf' = (incoming.data \o up) \o wbuf
    PROVE  Between(e, t)'
BY DEF Between

\* When the connection has ended and nothing is left of what was sent, the
\* client may wait for whatever it likes.
LEMMA FlowGone ==
    ASSUME Types', end' # "open", down' = <<>>, Got' = <<>>
    PROVE  InFlight'
<1>0. PICK a : a = asked' - awaited'
  OBVIOUS
<1>1. a \in 0..asked' /\ a \in Nat
  <2>1. asked' \in Nat /\ awaited' \in Nat /\ awaited' <= asked'
    BY ConstantsAre DEF Types, Counts
  <2> QED
    <3> DEFINE x == asked'
               y == awaited'
    <3>1. x \in Nat /\ y \in Nat /\ y <= x /\ a = x - y
      BY <1>0, <2>1
    <3> HIDE DEF x, y
    <3>2. a \in 0..x /\ a \in Nat
      BY <3>1
    <3> QED
      BY <3>2 DEF x
<1>2. Carries(<<>>, Answered, a, a)
  BY <1>1, CarriesNothing
<1>3. (<<>> \o <<>>) \o <<>> = <<>> /\ <<>> \in Seq(Bytes)
  OBVIOUS
<1>4. Between(a, <<>>)'
  BY <1>0, <1>1, <1>2, <1>3 DEF Between
<1> QED
  BY <1>4 DEF InFlight

\* A request is built: one more is under way.
LEMMA AskFlow ==
    ASSUME IInv, NEW cmd \in Commands, NEW nstr \in Nat, Ask(cmd, nstr)
    PROVE  IInv'
<1>1. Types /\ Types' /\ Got' = Got /\ wbuf = <<>> /\ wbuf' \in Asked[asked + 1]
  BY AskTypes DEF IInv
<1>2. PICK e, t : Between(e, t)
  BY DEF IInv, InFlight
<1>3. asked' = asked + 1 /\ awaited' = awaited + 1 /\ UNCHANGED <<socket, server, shown, ahead>> /\ cpc' = "send"
  BY DEF Ask
<1>4. asked' - awaited' = asked - awaited /\ asked \in Nat
  BY <1>1, <1>3, BytesAre
<1>5. down' = down /\ end' = end /\ up' = up /\ incoming' = incoming /\ outgoing' = outgoing /\ spc' = spc
  BY <1>3 DEF socket, server
<1>6. e \in 0..asked' /\ t \in Seq(Bytes)
  BY <1>2, <1>3, <1>4 DEF Between
<1>7. Carries((Got' \o down') \o t, Answered, asked' - awaited', e)
  BY <1>1, <1>2, <1>4, <1>5 DEF Between
<1>8. ASSUME end' = "open"
      PROVE  /\ t = outgoing'.data
             /\ Carries((incoming'.data \o up') \o wbuf', Asked, e, asked')
  <2>1. t = outgoing.data /\ Carries((incoming.data \o up) \o wbuf, Asked, e, asked)
    BY <1>2, <1>5, <1>8 DEF Between
  <2> DEFINE s == incoming.data \o up
  <2>2. s \in Seq(Bytes)
    BY <1>1, BytesAre, Regroup
  <2> HIDE DEF s
  <2>3. s \o <<>> = s
    BY <2>2
  <2>4. Carries(s, Asked, e, asked)
    BY <1>1, <2>1, <2>3 DEF s
  <2>5. Carries(s \o wbuf', Asked, e, asked + 1)
    BY <1>1, <2>4, AskedIs, CarriesMore
  <2> QED
    BY <1>3, <1>5, <2>1, <2>5 DEF s
<1>9. InFlight'
  BY <1>6, <1>7, <1>8 DEF InFlight, Between
<1>10. Shown'
  BY <1>3 DEF IInv, Shown
<1>11. Single'
  BY <1>3, <1>5 DEF IInv, Single
<1> QED
  BY <1>1, <1>9, <1>10, <1>11 DEF IInv

\* A command that is too long is counted on both sides: nothing was under way.
LEMMA AskTooMuchFlow ==
    ASSUME IInv, NEW cmd \in Commands, AskTooMuch(cmd)
    PROVE  IInv'
<1>1. Types /\ Types' /\ Got = <<>> /\ Got' = <<>>
  BY AskTooMuchTypes DEF IInv
<1>2. PICK e, t : Between(e, t)
  BY DEF IInv, InFlight
<1>3. /\ cpc = "prompt" /\ asked' = asked + 1 /\ awaited' = awaited /\ wbuf' = wbuf
      /\ shown' = [of |-> asked + 1, bytes |-> <<>>] /\ ahead' = ahead
      /\ UNCHANGED <<socket, server>>
  BY DEF AskTooMuch
<1>4. down' = down /\ end' = end /\ up' = up /\ incoming' = incoming /\ outgoing' = outgoing /\ spc' = spc
  BY <1>3 DEF socket, server
<1>5. awaited = 0
  BY <1>1, <1>3 DEF Types, Counts
<1>6. /\ e = asked /\ down = <<>> /\ t = <<>>
      /\ end = "open" => incoming.data = <<>> /\ up = <<>> /\ wbuf = <<>>
  BY <1>1, <1>2, <1>5, Idle
<1>6a. PICK n : n = asked + 1
  OBVIOUS
<1>7. n \in Nat /\ asked' - awaited' = n /\ n \in 0..asked' /\ asked' = n
  BY <1>6a, <1>1, <1>3, <1>5, BytesAre
<1>8. Carries(<<>>, Answered, n, n) /\ Carries(<<>>, Asked, n, n)
  BY <1>7, CarriesNothing
<1>9. (<<>> \o <<>>) \o <<>> = <<>> /\ <<>> \in Seq(Bytes)
  OBVIOUS
<1>10. end = "open" => t = outgoing.data
  BY <1>2 DEF Between
<1>11. Between(n, <<>>)'
  <2>1. Carries((Got' \o down') \o <<>>, Answered, asked' - awaited', n)
    BY <1>1, <1>4, <1>6, <1>7, <1>8, <1>9
  <2>2. end' = "open" => /\ <<>> = outgoing'.data
                         /\ Carries((incoming'.data \o up') \o wbuf', Asked, n, asked')
    BY <1>3, <1>4, <1>6, <1>7, <1>8, <1>9, <1>10
  <2> QED
    BY <1>7, <1>9, <2>1, <2>2 DEF Between
<1>12. InFlight'
  BY <1>11 DEF InFlight
<1>13. Shown'
  BY <1>3 DEF Shown
<1>14. Single'
  BY <1>3, <1>4 DEF IInv, Single
<1> QED
  BY <1>1, <1>12, <1>13, <1>14 DEF IInv

\* Bytes move from the client to the socket; if the server has closed it, they
\* are lost, and what the client has not read with them.
LEMMA SendSomeFlow ==
    ASSUME IInv, SendSome
    PROVE  IInv'
<1>1. /\ Types /\ Types' /\ Got = <<>> /\ Got' = <<>>
      /\ end = "open" => end' = "open" /\ down' = down /\ up \o wbuf = up' \o wbuf'
      /\ end # "open" => end' # "open" /\ down' = <<>>
  BY SendSomeTypes DEF IInv
<1>2. PICK e, t : Between(e, t)
  BY DEF IInv, InFlight
<1>3. UNCHANGED <<ahead, asked, awaited, shown, server>> /\ cpc' \in {"sent", "send"}
  BY DEF SendSome
<1>4. incoming' = incoming /\ outgoing' = outgoing /\ spc' = spc
  BY <1>3 DEF server
<1>5. InFlight'
  <2>1. CASE end = "open"
    <3>1. (incoming'.data \o up') \o wbuf' = (incoming.data \o up) \o wbuf
      <4> DEFINE i == incoming.data
      <4>1. i \in Seq(Bytes) /\ up \in Seq(Bytes) /\ wbuf \in Seq(Bytes)
        BY <1>1, BytesAre
      <4>2. up' \in Seq(Bytes) /\ wbuf' \in Seq(Bytes)
        BY <1>1 DEF Types, Sockets, Writer
      <4> HIDE DEF i
      <4> DEFINE u == up'
                 w == wbuf'
      <4>2a. u \in Seq(Bytes) /\ w \in Seq(Bytes)
        BY <4>2
      <4>3. Regrouped(i, up, wbuf)
        BY <4>1, Regrouping
      <4> HIDE DEF u, w
      <4>4. Regrouped(i, u, w)
        BY <4>1, <4>2a, Regrouping
      <4> QED
        BY <1>1, <1>4, <2>1, <4>3, <4>4 DEF Regrouped, i, u, w
    <3>2. Between(e, t)'
      BY <1>1, <1>2, <1>3, <1>4, <2>1, <3>1, FlowSame
    <3> QED
      BY <3>2 DEF InFlight
  <2>2. CASE end # "open"
    BY <1>1, <2>2, FlowGone
  <2> QED
    BY <2>1, <2>2
<1>6. Shown'
  BY <1>3 DEF IInv, Shown
<1>7. Single'
  BY <1>3, <1>4 DEF IInv, Single
<1> QED
  BY <1>1, <1>5, <1>6, <1>7 DEF IInv

\* The client gives up, and only when the connection has ended.
LEMMA FailFlow ==
    ASSUME IInv, SendFails \/ ReadEOF \/ ReadError
    PROVE  IInv'
<1>1. Types /\ Types' /\ Got' = <<>> /\ end # "open" /\ down = <<>>
  <2>1. CASE SendFails
    <3>1. Types /\ Types' /\ end = "rst" /\ Got' = <<>>
      BY <2>1, SendFailsTypes DEF IInv
    <3> QED
      BY <3>1 DEF Types, Ending
  <2>2. CASE ReadEOF \/ ReadError
    BY <2>2, ReadEndsTypes DEF IInv
  <2> QED
    BY <2>1, <2>2
<1>2. UNCHANGED <<ahead, shown, socket, server>>
  BY DEF SendFails, ReadEOF, ReadError
<1>3. down' = down /\ end' = end /\ incoming' = incoming /\ outgoing' = outgoing /\ spc' = spc
  BY <1>2 DEF socket, server
<1>4. InFlight'
  BY <1>1, <1>3, FlowGone
<1>5. Shown'
  BY <1>1, <1>2, <1>3 DEF IInv, Shown
<1>6. Single'
  BY <1>2, <1>3 DEF IInv, Single
<1> QED
  BY <1>1, <1>4, <1>5, <1>6 DEF IInv

\* Bytes move from the socket to the client.
LEMMA ReadFlow ==
    ASSUME IInv, ReadHeader \/ ReadSome \/ ReadInterrupted
    PROVE  IInv'
<1>1. Types /\ Types' /\ Got \o down = Got' \o down'
  <2>1. CASE ReadHeader
    <3>1. Types /\ Types' /\ Got = <<>> /\ Got' = <<>> /\ down' = down
      BY <2>1, ReadHeaderTypes DEF IInv, ReadHeader, socket
    <3> QED
      BY <3>1
  <2>2. CASE ReadSome
    BY <2>2, ReadSomeTypes DEF IInv
  <2>3. CASE ReadInterrupted
    <3>1. Types /\ Types' /\ Got' = Got /\ down' = down
      BY <2>3, ReadInterruptedTypes DEF IInv, ReadInterrupted, socket
    <3> QED
      BY <3>1
  <2> QED
    BY <2>1, <2>2, <2>3
<1>2. PICK e, t : Between(e, t)
  BY DEF IInv, InFlight
<1>3. UNCHANGED <<ahead, asked, awaited, wbuf, shown, up, end, server>> /\ cpc' # "prompt"
  BY DEF ReadHeader, ReadSome, ReadInterrupted, Reading, socket
<1>4. incoming' = incoming /\ outgoing' = outgoing /\ spc' = spc
  BY <1>3 DEF server
<1>5. InFlight'
  <2>1. Between(e, t)'
    BY <1>1, <1>2, <1>3, <1>4, FlowSame
  <2> QED
    BY <2>1 DEF InFlight
<1>6. Shown'
  BY <1>3 DEF IInv, Shown
<1>7. Single'
  BY <1>3, <1>4 DEF IInv, Single
<1> QED
  BY <1>1, <1>5, <1>6, <1>7 DEF IInv

\* The length in a header is legal.
LEMMA ReadPayloadFlow ==
    ASSUME IInv, ReadPayload
    PROVE  IInv'
<1>1. /\ Types /\ Types' /\ Len(Got) = U32
      /\ U32At(Got, 0) <= MaxMsg => Got' = Got /\ awaited' = awaited /\ cpc' = "payload"
  BY ReadPayloadTypes DEF IInv
<1>2. PICK e, t : Between(e, t)
  BY DEF IInv, InFlight
<1>3. Got' = Got /\ awaited' = awaited /\ cpc' = "payload"
  <2>1. Len(Got) >= U32
    BY <1>1, ConstantsAre
  <2>2. PICK p \in Answers(asked - awaited + 1) : U32At(Got, 0) = Len(p)
    BY <1>1, <1>2, <2>1, FirstAnswer
  <2>3. asked - awaited + 1 \in Nat
    BY <1>1, BytesAre
  <2>4. Len(p) <= MaxMsg
    BY <2>3, AnswersArePrinted
  <2> QED
    BY <1>1, <2>2, <2>4
<1>4. UNCHANGED <<ahead, asked, shown, socket, server>>
  BY DEF ReadPayload
<1>5. down' = down /\ up' = up /\ end' = end /\ incoming' = incoming /\ outgoing' = outgoing /\ spc' = spc
  BY <1>4 DEF socket, server
<1>6. wbuf' = wbuf
  <2>1. wbuf = <<>>
    BY <1>1 DEF Types, Writer, ReadPayload
  <2> QED
    BY <2>1 DEF ReadPayload, Fail
<1>7. InFlight'
  <2>1. Between(e, t)'
    BY <1>2, <1>3, <1>4, <1>5, <1>6, FlowSame
  <2> QED
    BY <2>1 DEF InFlight
<1>8. Shown'
  BY <1>3, <1>4 DEF IInv, Shown
<1>9. Single'
  BY <1>4, <1>5 DEF IInv, Single
<1> QED
  BY <1>1, <1>7, <1>8, <1>9 DEF IInv

\* The payload is one whole answer, to the request the client waits for.
LEMMA PrintResponseFlow ==
    ASSUME IInv, PrintResponse
    PROVE  IInv'
<1> DEFINE k == asked - awaited + 1
<1>1. /\ Types /\ Types' /\ Got' = <<>> /\ Got = rbuf.data /\ size(rbuf) = Len(Got)
      /\ Len(Got) = U32 + U32At(Got, 0) /\ Len(Got) >= U32
  BY PrintResponseTypes DEF IInv
<1>2. PICK e, t : Between(e, t)
  BY DEF IInv, InFlight
<1>3. PICK p \in Answers(k) :
         /\ U32At(Got, 0) = Len(p)
         /\ Len(Got) = U32 + Len(p) =>
               /\ SubSeq(Got, U32 + 1, Len(Got)) = p
               /\ Carries((<<>> \o down) \o t, Answered, k, e)
  BY <1>1, <1>2, FirstAnswer
<1>4. SubSeq(rbuf.data, U32 + 1, size(rbuf)) = p /\ Carries((<<>> \o down) \o t, Answered, k, e)
  BY <1>1, <1>3
<1>5. k \in Nat /\ awaited > 0
  BY <1>1, BytesAre DEF Types, Counts, PrintResponse
<1>6. print_res(p) = Len(p)
  BY <1>5, AnswersArePrinted
<1>7. /\ shown' = [of |-> k, bytes |-> p] /\ awaited' = awaited - 1
      /\ cpc' = IF awaited > 1 THEN "sent" ELSE "prompt"
      /\ UNCHANGED <<wbuf, ahead, asked, socket, server>>
  BY <1>4, <1>6 DEF PrintResponse
<1>8. down' = down /\ up' = up /\ end' = end /\ incoming' = incoming /\ outgoing' = outgoing /\ spc' = spc
  BY <1>7 DEF socket, server
<1>9. asked' - awaited' = k
  BY <1>1, <1>7, BytesAre
<1>10. InFlight'
  <2>1. Carries((Got' \o down') \o t, Answered, asked' - awaited', e)
    BY <1>1, <1>4, <1>8, <1>9
  <2>2. end' = "open" => /\ t = outgoing'.data
                         /\ Carries((incoming'.data \o up') \o wbuf', Asked, e, asked')
    BY <1>2, <1>7, <1>8 DEF Between
  <2>3. e \in 0..asked' /\ t \in Seq(Bytes)
    BY <1>2, <1>7 DEF Between
  <2> QED
    BY <2>1, <2>2, <2>3 DEF InFlight, Between
<1>11. Shown'
  <2>1. shown'.bytes # <<>> => shown'.of \in Nat /\ shown'.bytes \in Answers(shown'.of)
    BY <1>5, <1>7
  <2>2. cpc' = "prompt" => shown'.of = asked'
    <3>1. cpc' = "prompt" => awaited = 1
      BY <1>1, <1>5, <1>7, BytesAre
    <3> QED
      BY <1>1, <1>7, <3>1, BytesAre
  <2> QED
    BY <2>1, <2>2 DEF Shown
<1>12. Single'
  BY <1>7, <1>8 DEF IInv, Single
<1> QED
  BY <1>1, <1>10, <1>11, <1>12 DEF IInv

\* Bytes move from the socket to the server.
LEMMA ServerReadFlow ==
    ASSUME IInv, ServerRead
    PROVE  IInv'
<1>1. /\ Types /\ Types' /\ Got' = Got
      /\ incoming.data \o up = incoming'.data \o up'
      /\ Tight(incoming) => Tight(incoming') /\ spc' = "parse"
  BY ServerReadTypes DEF IInv
<1>2. PICK e, t : Between(e, t)
  BY DEF IInv, InFlight
<1>3. UNCHANGED <<client, down, end, outgoing>>
  BY DEF ServerRead
<1>4. ahead' = ahead /\ asked' = asked /\ awaited' = awaited /\ wbuf' = wbuf /\ shown' = shown /\ cpc' = cpc
  BY <1>3 DEF client
<1>5. InFlight'
  <2>1. Between(e, t)'
    BY <1>1, <1>2, <1>3, <1>4, FlowSame
  <2> QED
    BY <2>1 DEF InFlight
<1>6. Shown'
  BY <1>3, <1>4 DEF IInv, Shown
<1>7. Single'
  BY <1>1, <1>3, <1>4 DEF IInv, Single
<1> QED
  BY <1>1, <1>5, <1>6, <1>7 DEF IInv

\* The first request in the buffer is the next one of the client, all of it
\* and no more.
LEMMA FirstRequest ==
    ASSUME Types, NEW e, NEW t, Between(e, t), TryOneRequest
    PROVE  /\ Payload[1][1] = e + 1 /\ e + 1 \in 0..asked /\ e \in Nat
           /\ Carries((incoming'.data \o up) \o wbuf, Asked, e + 1, asked)
<1> DEFINE s == incoming.data
           u == up \o wbuf
           q == incoming'.data
<1>1. /\ end = "open" /\ s \in Seq(Bytes) /\ Len(s) >= U32
      /\ U32 + U32At(s, 0) <= Len(s)
      /\ q = SubSeq(s, U32 + U32At(s, 0) + 1, Len(s))
      /\ q \in Seq(Bytes)
  BY TryOneRequestTypes
<1>2. e \in 0..asked /\ e \in Nat /\ asked \in Nat /\ Carries((s \o up) \o wbuf, Asked, e, asked)
  BY <1>1, BytesAre DEF Between
<1>3. up \in Seq(Bytes) /\ wbuf \in Seq(Bytes)
  BY BytesAre
<1> HIDE DEF s, q
<1>4. u \in Seq(Bytes) /\ (s \o up) \o wbuf = s \o u /\ (q \o up) \o wbuf = q \o u
  <2>1. s \in Seq(Bytes) /\ q \in Seq(Bytes)
    BY <1>1
  <2>2. u \in Seq(Bytes)
    BY <1>3, Joined
  <2>3. Regrouped(s, up, wbuf)
    BY <1>3, <2>1, Regrouping
  <2>4. Regrouped(q, up, wbuf)
    BY <1>3, <2>1, Regrouping
  <2> QED
    BY <2>2, <2>3, <2>4 DEF Regrouped
<1> HIDE DEF u
<1>5. e # asked
  <2> SUFFICES ASSUME e = asked
               PROVE  FALSE
    OBVIOUS
  <2>1. (s \o up) \o wbuf = <<>>
    BY <1>2, CarriesIs
  <2>2. s = <<>>
    BY <1>1, <1>3, <2>1, NoParts
  <2>3. Len(s) = 0
    BY <2>2
  <2> QED
    BY <1>1, <2>3, ConstantsAre
<1>6. PICK m \in Asked[e + 1], r \in Seq(Bytes) : s \o u = m \o r /\ Carries(r, Asked, e + 1, asked)
  BY <1>2, <1>4, <1>5, CarriesFirst
<1>7. e + 1 \in Nat /\ e + 1 \in 0..asked
  BY <1>2, <1>5
<1>8. PICK p \in Seq(Bytes) : m = Framed(e + 1, p) /\ p[1][1] = e + 1
  BY <1>6, <1>7, AskedIs
<1>9. Starts(s, u, e + 1, p, r)
  BY <1>1, <1>4, <1>6, <1>8 DEF Starts
<1>10. U32At(s, 0) = Len(p)
  BY <1>6, <1>7, <1>8, <1>9, ReadsMessage
<1>11. r = q \o u /\ SubSeq(s, U32 + 1, U32 + Len(p)) = p
  <2>1. U32 + Len(p) <= Len(s)
    BY <1>1, <1>10
  <2>2. LET x == SubSeq(s, U32 + Len(p) + 1, Len(s))
        IN  r = x \o u /\ SubSeq(s, U32 + 1, U32 + Len(p)) = p
    BY <1>6, <1>7, <1>8, <1>9, <2>1, ReadsMessage
  <2>3. q = SubSeq(s, U32 + Len(p) + 1, Len(s))
    BY <1>1, <1>10
  <2> QED
    BY <2>2, <2>3
<1>12. Payload = p
  BY <1>10, <1>11 DEF Payload, len, s
<1>13. Carries((q \o up) \o wbuf, Asked, e + 1, asked)
  BY <1>4, <1>6, <1>11
<1> QED
  BY <1>2, <1>7, <1>8, <1>12, <1>13 DEF q

\* One request is taken away and its response appended: the server is one
\* request further.  A client that waits has sent no other and has read all
\* responses before, so one buffer is empty before, the other behind.
LEMMA TryOneRequestFlow ==
    ASSUME IInv, TryOneRequest
    PROVE  IInv'
<1>1. /\ Types /\ Types' /\ Got' = Got /\ end = "open"
      /\ incoming'.data \in Seq(Bytes)
      /\ Fits(incoming) => Fits(incoming')
      /\ incoming'.data = <<>> => incoming'.lo = 0
      /\ Fits(outgoing') => spc' = "parse"
  BY TryOneRequestTypes DEF IInv
<1>2. PICK e, t : Between(e, t)
  BY DEF IInv, InFlight
<1>3. Payload[1][1] = e + 1 /\ e + 1 \in 0..asked /\ e \in Nat
      /\ Carries((incoming'.data \o up) \o wbuf, Asked, e + 1, asked)
  BY <1>1, <1>2, FirstRequest
<1>4. PICK p \in Answers(e + 1) : Longer(outgoing', outgoing, Response(e + 1, p))
  <2>1. \E p \in Answers(Payload[1][1]) : Longer(outgoing', outgoing, Response(Payload[1][1], p))
    BY <1>1, TryOneRequestTypes
  <2> QED
    BY <1>3, <2>1
<1>5. /\ t = outgoing.data /\ t \in Seq(Bytes) /\ e \in 0..asked
      /\ Carries((Got \o down) \o t, Answered, asked - awaited, e)
  BY <1>1, <1>2 DEF Between
<1> DEFINE m == Response(e + 1, p)
           o == outgoing'.data
<1>6. m \in Answered[e + 1] /\ m \in Seq(Bytes) /\ o = t \o m /\ (Tight(outgoing) => Tight(outgoing'))
  <2>1. e + 1 \in Nat
    BY <1>3
  <2>2. m \in Answered[e + 1]
    BY <2>1, AnsweredIs
  <2> HIDE DEF m
  <2>3. m \in Seq(Bytes)
    BY <2>1, <2>2, AnsweredIs DEF Messages
  <2>4. o = t \o m /\ (Tight(outgoing) => Tight(outgoing'))
    BY <1>4, <1>5 DEF Longer, m
  <2> QED
    BY <2>2, <2>3, <2>4
<1> HIDE DEF m, o
<1>7. UNCHANGED <<client, socket>>
  BY DEF TryOneRequest
<1>8. /\ ahead' = ahead /\ asked' = asked /\ awaited' = awaited /\ wbuf' = wbuf /\ shown' = shown /\ cpc' = cpc
      /\ up' = up /\ down' = down /\ end' = end
  BY <1>7 DEF client, socket
<1> DEFINE gd == Got \o down
<1>9. gd \in Seq(Bytes)
  BY <1>1, BytesAre, Regroup
<1> HIDE DEF gd
<1>10. (gd \o t) \o m = gd \o o /\ o \in Seq(Bytes)
  <2>1. m \in Seq(Bytes) /\ t \in Seq(Bytes)
    BY <1>5, <1>6
  <2>2. (gd \o t) \o m = gd \o (t \o m) /\ t \o m \in Seq(Bytes)
    BY <1>9, <2>1, Regroup, Joined
  <2> QED
    BY <1>6, <2>2
<1>11. Carries(gd \o o, Answered, asked - awaited, e + 1)
  <2>1. Carries((gd \o t) \o m, Answered, asked - awaited, e + 1)
    BY <1>5, <1>6, AnsweredIs, CarriesMore DEF gd
  <2> QED
    BY <1>10, <2>1
<1>12. InFlight'
  <2>1. PICK f : f = e + 1
    OBVIOUS
  <2>2. PICK x : x = outgoing'.data
    OBVIOUS
  <2>3. Carries((Got' \o down') \o x, Answered, asked' - awaited', f)
    BY <1>1, <1>8, <1>11, <2>1, <2>2 DEF gd, o
  <2>4. Carries((incoming'.data \o up') \o wbuf', Asked, f, asked')
    BY <1>3, <1>8, <2>1
  <2>5. f \in 0..asked' /\ x \in Seq(Bytes)
    BY <1>3, <1>8, <1>10, <2>1, <2>2 DEF o
  <2>6. Between(f, x)'
    BY <2>2, <2>3, <2>4, <2>5 DEF Between
  <2> QED
    BY <2>6 DEF InFlight
<1>13. Shown'
  BY <1>8 DEF IInv, Shown
<1>14. Single'
  <2> SUFFICES ASSUME ahead = 1
               PROVE  spc' # "undefined" /\ Tight(incoming') /\ Tight(outgoing')
    BY <1>8 DEF Single, Tight
  <2>1. spc # "undefined" /\ Tight(incoming) /\ Fits(outgoing) /\ (outgoing.data = <<>> => outgoing.lo = 0)
    BY DEF IInv, Single
  <2>2. asked - awaited <= e
    BY <1>5, CarriesIs
  <2>3. asked \in Nat /\ awaited \in Nat /\ awaited <= 1
    BY <1>1, ConstantsAre DEF Types, Counts
  <2>4. e + 1 = asked /\ asked - awaited = e
    BY <1>3, <2>2, <2>3
  <2>5. Tight(outgoing')
    <3>1. (Got \o down) \o t = <<>>
      BY <1>5, <2>4, CarriesIs
    <3>2. t = <<>>
      BY <1>1, <1>5, <3>1, BytesAre, NoParts
    <3>3. Tight(outgoing)
      BY <1>5, <2>1, <3>2 DEF Tight
    <3> QED
      BY <1>6, <3>3
  <2>6. Tight(incoming')
    <3>1. (incoming'.data \o up) \o wbuf = <<>>
      BY <1>3, <2>4, CarriesIs
    <3>2. incoming'.data = <<>>
      BY <1>1, <3>1, BytesAre, NoParts
    <3> QED
      BY <1>1, <2>1, <3>2 DEF Tight
  <2>7. spc' = "parse"
    BY <1>1, <2>5 DEF Tight
  <2> QED
    BY <2>5, <2>6, <2>7
<1> QED
  BY <1>1, <1>12, <1>13, <1>14 DEF IInv

\* Nothing moves.
LEMMA StopParsingFlow ==
    ASSUME IInv, StopParsing \/ ServerPollOut
    PROVE  IInv'
<1>1. Types /\ Types' /\ Got' = Got /\ UNCHANGED <<client, socket, incoming, outgoing>> /\ spc' # "undefined"
  BY StopParsingTypes DEF IInv
<1>2. PICK e, t : Between(e, t)
  BY DEF IInv, InFlight
<1>3. /\ ahead' = ahead /\ asked' = asked /\ awaited' = awaited /\ wbuf' = wbuf /\ shown' = shown /\ cpc' = cpc
      /\ up' = up /\ down' = down /\ end' = end
  BY <1>1 DEF client, socket
<1>4. InFlight'
  <2>1. Between(e, t)'
    BY <1>1, <1>2, <1>3, FlowSame
  <2> QED
    BY <2>1 DEF InFlight
<1>5. Shown'
  BY <1>3 DEF IInv, Shown
<1>6. Single'
  BY <1>1, <1>3 DEF IInv, Single
<1> QED
  BY <1>1, <1>4, <1>5, <1>6 DEF IInv

\* Bytes move from the server to the socket.
LEMMA ServerWriteFlow ==
    ASSUME IInv, ServerWrite
    PROVE  IInv'
<1>1. /\ Types /\ Types' /\ Got' = Got /\ end' = end /\ UNCHANGED <<up, incoming>>
      /\ down \o outgoing.data = down' \o outgoing'.data
      /\ outgoing.data \in Seq(Bytes) /\ outgoing'.data \in Seq(Bytes)
      /\ Fits(outgoing) => Fits(outgoing')
      /\ outgoing'.data = <<>> => outgoing'.lo = 0
      /\ spc' # "undefined"
  BY ServerWriteTypes DEF IInv
<1>2. PICK e, t : Between(e, t)
  BY DEF IInv, InFlight
<1>3. UNCHANGED client /\ end = "open"
  BY <1>1 DEF ServerWrite, Types, Ending
<1>4. ahead' = ahead /\ asked' = asked /\ awaited' = awaited /\ wbuf' = wbuf /\ shown' = shown /\ cpc' = cpc
  BY <1>3 DEF client
<1>5. t = outgoing.data /\ e \in 0..asked
      /\ Carries((Got \o down) \o t, Answered, asked - awaited, e)
      /\ Carries((incoming.data \o up) \o wbuf, Asked, e, asked)
  BY <1>2, <1>3 DEF Between
<1>6. (Got \o down) \o t = (Got \o down') \o outgoing'.data
  <2> DEFINE x == outgoing'.data
             dn == down'
  <2>1. Got \in Seq(Bytes) /\ down \in Seq(Bytes) /\ t \in Seq(Bytes) /\ x \in Seq(Bytes) /\ dn \in Seq(Bytes)
    BY <1>1, <1>5, BytesAre DEF Types, Sockets
  <2>2. down \o t = dn \o x
    BY <1>1, <1>5
  <2> HIDE DEF x, dn
  <2>3. Regrouped(Got, down, t)
    BY <2>1, Regrouping
  <2>4. Regrouped(Got, dn, x)
    BY <2>1, Regrouping
  <2>5. (Got \o down) \o t = (Got \o dn) \o x
    BY <2>2, <2>3, <2>4 DEF Regrouped
  <2> QED
    BY <2>5 DEF x, dn
<1>7. InFlight'
  <2>1. PICK x : x = outgoing'.data
    OBVIOUS
  <2>2. Carries((Got' \o down') \o x, Answered, asked' - awaited', e)
    BY <1>1, <1>4, <1>5, <1>6, <2>1
  <2>3. Carries((incoming'.data \o up') \o wbuf', Asked, e, asked') /\ e \in 0..asked'
    BY <1>1, <1>4, <1>5
  <2>4. Between(e, x)'
    BY <1>1, <2>1, <2>2, <2>3 DEF Between
  <2> QED
    BY <2>4 DEF InFlight
<1>8. Shown'
  BY <1>1, <1>4 DEF IInv, Shown
<1>9. Single'
  BY <1>1, <1>4 DEF IInv, Single
<1> QED
  BY <1>1, <1>7, <1>8, <1>9 DEF IInv

\* The server stops: what it has not sent will never be.
LEMMA ServerCloseFlow ==
    ASSUME IInv, ServerClose
    PROVE  IInv'
<1>1. /\ Types /\ Types' /\ Got' = Got /\ end' # "open" /\ UNCHANGED client
      /\ down' = down \/ down' = <<>>
      /\ Tight(incoming') /\ Tight(outgoing') /\ spc' # "undefined"
  BY ServerCloseTypes DEF IInv
<1>2. PICK e, t : Between(e, t)
  BY DEF IInv, InFlight
<1>3. ahead' = ahead /\ asked' = asked /\ awaited' = awaited /\ shown' = shown /\ cpc' = cpc
  BY <1>1 DEF client
<1>4. t \in Seq(Bytes) /\ e \in 0..asked /\ Carries((Got \o down) \o t, Answered, asked - awaited, e)
  BY <1>2 DEF Between
<1>5. \E x : x \in Seq(Bytes) /\ (Got \o down') \o x = (Got \o down) \o t
  <2>1. CASE down' = down
    BY <1>4, <2>1
  <2>2. CASE down' = <<>>
    <3> DEFINE x == down \o t
    <3>1. Got \in Seq(Bytes) /\ down \in Seq(Bytes)
      BY <1>1, BytesAre
    <3>2. x \in Seq(Bytes) /\ (Got \o down) \o t = Got \o x
      BY <1>4, <3>1, Regroup, Joined
    <3>3. Got \o <<>> = Got
      BY <3>1
    <3> HIDE DEF x
    <3> QED
      BY <2>2, <3>2, <3>3
  <2> QED
    BY <1>1, <2>1, <2>2
<1>6. PICK x : x \in Seq(Bytes) /\ (Got \o down') \o x = (Got \o down) \o t
  BY <1>5
<1>7. InFlight'
  <2>1. Between(e, x)'
    BY <1>1, <1>3, <1>4, <1>6 DEF Between
  <2> QED
    BY <2>1 DEF InFlight
<1>8. Shown'
  BY <1>1, <1>3 DEF IInv, Shown
<1>9. Single'
  BY <1>1 DEF Single, Tight
<1> QED
  BY <1>1, <1>7, <1>8, <1>9 DEF IInv

\* In every behaviour the two directions carry whole messages, in order, from
\* what has been read to what has been asked.
THEOREM ConnectionInvariant == Spec => []IInv
<1>1. ASSUME IInv, [Next]_vars
      PROVE  IInv'
  <2>1. CASE Next
    BY <1>1, <2>1, StepIs, AskFlow, AskTooMuchFlow, SendSomeFlow, FailFlow, ReadFlow, ReadPayloadFlow,
       PrintResponseFlow, ServerReadFlow, TryOneRequestFlow, StopParsingFlow, ServerWriteFlow,
       ServerCloseFlow
  <2>2. CASE UNCHANGED vars
    <3>1. Types' /\ Got' = Got
      BY <1>1, <2>2, UnchangedTypes DEF IInv
    <3>2. UNCHANGED <<client, socket, server>>
      BY <2>2 DEF vars
    <3>3. InFlight'
      <4>1. PICK e, t : Between(e, t)
        BY <1>1 DEF IInv, InFlight
      <4>2. /\ asked' = asked /\ awaited' = awaited /\ end' = end /\ outgoing' = outgoing
            /\ incoming' = incoming /\ up' = up /\ wbuf' = wbuf /\ down' = down
        BY <3>2 DEF client, socket, server
      <4>3. Between(e, t)'
        BY <3>1, <4>1, <4>2, FlowSame
      <4> QED
        BY <4>3 DEF InFlight
    <3>4. Shown' /\ Single'
      BY <1>1, <3>2 DEF IInv, Shown, Single, client, socket, server
    <3> QED
      BY <3>1, <3>3, <3>4 DEF IInv
  <2> QED
    BY <1>1, <2>1, <2>2
<1> QED
  BY <1>1, InitInv, PTL DEF Spec

\* InStep is an invariant: the client never prints anything but the whole
\* response to the request it waits for, fails only when the connection has
\* ended, and at the prompt nothing is left over.
THEOREM ClientInStep == Spec => []InStep
<1>1. IInv => InStep
  <2> SUFFICES ASSUME IInv
               PROVE  InStep
    OBVIOUS
  <2>1. ASSUME shown.bytes # <<>>
        PROVE  \/ shown.bytes = out_err(NewBuffer, shown.of, ErrLen).data
               \/ \E r \in Replies : shown.bytes = Output(NewBuffer, shown.of, r).data
    BY <2>1 DEF IInv, Shown, Answers
  <2>2. ASSUME cpc = "prompt", end = "open"
        PROVE  /\ shown.of = asked
               /\ up = <<>> /\ down = <<>> /\ size(incoming) = 0 /\ size(outgoing) = 0
    <3>1. shown.of = asked /\ awaited = 0
      BY <2>2 DEF IInv, Shown, Types, Counts
    <3>2. PICK e, t : Between(e, t)
      BY DEF IInv, InFlight
    <3>3. down = <<>> /\ t = <<>> /\ incoming.data = <<>> /\ up = <<>>
      BY <2>2, <3>1, <3>2, Idle DEF IInv
    <3>4. outgoing.data = <<>>
      BY <2>2, <3>2, <3>3 DEF Between
    <3> QED
      BY <3>1, <3>3, <3>4 DEF size
  <2> QED
    BY <2>1, <2>2 DEF InStep
<1> QED
  BY <1>1, ConnectionInvariant, PTL

\* AppendsFitWhenWaiting is an invariant: against a client that waits for each
\* response no append leaves the allocation, though buf_append() forgets the
\* gap in front of the data when it reallocates.
THEOREM WaitingClientsAreSafe == Spec => []AppendsFitWhenWaiting
<1>1. IInv => AppendsFitWhenWaiting
  BY DEF IInv, Single, AppendsFitWhenWaiting
<1> QED
  BY <1>1, ConnectionInvariant, PTL
=============================================================================
