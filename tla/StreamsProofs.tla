---------------------------- MODULE StreamsProofs ----------------------------
(***************************************************************************)
(* What the event loop does to the bytes of its connections and why it     *)
(* closes them, for any number of clients, requests and sizes of reads and *)
(* sockets.  The units in a buffer are consecutive numbers; a buffer goes  *)
(* on where the one in front of it ends.                                   *)
(***************************************************************************)
EXTENDS EventLoopProofs

\* The units m, m + 1, ... in this order.
IsRun(s, m) == \A i \in 1..Len(s) : s[i] = m + i - 1

\* Of n units that were sent those of d requests are executed: the others are
\* in the server's buffer, then in the socket.
Unexecuted(incoming, rx, d, n) ==
    /\ IsRun(incoming, 2 * d + 1)
    /\ IsRun(rx, 2 * d + 1 + Len(incoming))
    /\ 2 * d + Len(incoming) + Len(rx) = n

\* The first of the d responses are with the client, the next on their way.
Sent(tx, g, d) ==
    /\ IsRun(g, 1)
    /\ IsRun(tx, Len(g) + 1)
    /\ Len(g) + Len(tx) <= d

\* The others are in the server's buffer.
Unsent(outgoing, tx, g, d) ==
    /\ IsRun(outgoing, Len(g) + Len(tx) + 1)
    /\ Len(g) + Len(tx) + Len(outgoing) = d

\* A client that waits to be accepted, or will.
Waiting(c) == client[c] = "new" \/ c \in Range(backlog)

\* The streams of one connection.  Only a client that has closed its socket
\* leaves an error or an end of file.
Flow(c) ==
    /\ Sent(sock[c].tx, got[c], done[c])
    /\ client[c] # "closed" => sock[c].err = "none" /\ ~sock[c].fin
    /\ Waiting(c) => done[c] = 0 /\ Unexecuted(<<>>, sock[c].rx, 0, nsent[c])
    /\ c \in Live => Unexecuted(conn[c].incoming, sock[c].rx, done[c], nsent[c])
    /\ c \in Live /\ sock[c].err = "none" =>
          Unsent(conn[c].outgoing, sock[c].tx, got[c], done[c])

Flows == \A c \in Clients : Flow(c)

-----------------------------------------------------------------------------
(* Runs.                                                                   *)

LEMMA RunAppend ==
    ASSUME NEW s \in Seq(Nat), NEW m \in Nat, IsRun(s, m)
    PROVE  /\ Append(s, m + Len(s)) \in Seq(Nat) /\ Len(Append(s, m + Len(s))) = Len(s) + 1
           /\ IsRun(Append(s, m + Len(s)), m)
<1> DEFINE t == Append(s, m + Len(s))
<1>1. /\ Len(s) \in Nat /\ m + Len(s) \in Nat
      /\ t \in Seq(Nat) /\ Len(t) = Len(s) + 1
      /\ \A i \in 1..Len(s) : t[i] = s[i]
      /\ t[Len(s) + 1] = m + Len(s)
  OBVIOUS
<1> HIDE DEF t
<1>2. \A i \in 1..Len(t) : i \in 1..Len(s) \/ i = Len(s) + 1
  BY <1>1
<1>3. IsRun(t, m)
  BY <1>1, <1>2 DEF IsRun
<1> QED
  BY <1>1, <1>3 DEF t

LEMMA RunTail ==
    ASSUME NEW s \in Seq(Nat), s # <<>>, NEW m \in Nat, IsRun(s, m)
    PROVE  /\ Head(s) = m /\ Tail(s) \in Seq(Nat) /\ Len(Tail(s)) = Len(s) - 1
           /\ IsRun(Tail(s), m + 1) /\ Len(s) \in Nat \ {0}
<1> DEFINE t == Tail(s)
<1>1. /\ Len(s) \in Nat \ {0} /\ Head(s) = s[1]
      /\ t \in Seq(Nat) /\ Len(t) = Len(s) - 1
      /\ \A i \in 1..Len(t) : t[i] = s[i + 1]
  OBVIOUS
<1> HIDE DEF t
<1>2. \A i \in 1..Len(t) : i + 1 \in 1..Len(s)
  BY <1>1
<1>3. IsRun(t, m + 1)
  BY <1>1, <1>2 DEF IsRun
<1>4. Head(s) = m
  BY <1>1 DEF IsRun
<1> QED
  BY <1>1, <1>3, <1>4 DEF t

LEMMA RunParts ==
    ASSUME NEW s \in Seq(Nat), NEW m \in Nat, IsRun(s, m), NEW n \in 0..Len(s)
    PROVE  /\ SubSeq(s, 1, n) \in Seq(Nat) /\ Len(SubSeq(s, 1, n)) = n
           /\ IsRun(SubSeq(s, 1, n), m)
           /\ SubSeq(s, n + 1, Len(s)) \in Seq(Nat) /\ Len(SubSeq(s, n + 1, Len(s))) = Len(s) - n
           /\ IsRun(SubSeq(s, n + 1, Len(s)), m + n)
<1> DEFINE a == SubSeq(s, 1, n)
           b == SubSeq(s, n + 1, Len(s))
<1>1. Len(s) \in Nat /\ \A i \in 1..Len(s) : s[i] \in Nat
  OBVIOUS
<1>2. a = [i \in 1..n |-> s[i]] /\ b = [i \in 1..(Len(s) - n) |-> s[i + n]]
  BY <1>1
<1>3. /\ a \in Seq(Nat) /\ Len(a) = n /\ \A i \in 1..n : a[i] = s[i] /\ i \in 1..Len(s)
      /\ b \in Seq(Nat) /\ Len(b) = Len(s) - n
      /\ \A i \in 1..(Len(s) - n) : b[i] = s[i + n] /\ i + n \in 1..Len(s)
  BY <1>1, <1>2
<1> HIDE DEF a, b
<1>4. IsRun(a, m)
  BY <1>3 DEF IsRun
<1>5. IsRun(b, m + n)
  BY <1>1, <1>3 DEF IsRun
<1> QED
  BY <1>3, <1>4, <1>5 DEF a, b

LEMMA RunConcat ==
    ASSUME NEW s \in Seq(Nat), NEW t \in Seq(Nat), NEW m \in Nat,
           IsRun(s, m), IsRun(t, m + Len(s))
    PROVE  s \o t \in Seq(Nat) /\ Len(s \o t) = Len(s) + Len(t) /\ IsRun(s \o t, m)
<1> DEFINE u == s \o t
<1>1. /\ Len(s) \in Nat /\ Len(t) \in Nat
      /\ u \in Seq(Nat) /\ Len(u) = Len(s) + Len(t)
      /\ \A i \in 1..(Len(s) + Len(t)) : u[i] = IF i <= Len(s) THEN s[i] ELSE t[i - Len(s)]
  BY ConcatProperties
<1> HIDE DEF u
<1>2. \A i \in 1..Len(u) : IF i <= Len(s) THEN i \in 1..Len(s) ELSE i - Len(s) \in 1..Len(t)
  BY <1>1
<1>3. ASSUME NEW i \in 1..Len(u) PROVE u[i] = m + i - 1
  <2>1. CASE i <= Len(s)
    BY <1>1, <1>2, <2>1 DEF IsRun
  <2>2. CASE ~(i <= Len(s))
    <3>1. u[i] = t[i - Len(s)] /\ i - Len(s) \in 1..Len(t)
      BY <1>1, <1>2, <2>2
    <3>2. t[i - Len(s)] = m + Len(s) + (i - Len(s)) - 1
      BY <3>1 DEF IsRun
    <3> QED
      BY <1>1, <3>1, <3>2
  <2> QED
    BY <2>1, <2>2
<1>4. IsRun(u, m)
  BY <1>3 DEF IsRun
<1> QED
  BY <1>1, <1>4 DEF u

LEMMA RunIsNumbers ==
    ASSUME NEW s \in Seq(Nat), NEW m \in Nat, NEW n \in Nat, IsRun(s, m), Len(s) = n + 1 - m
    PROVE  s = Numbers(m, n)
<1>1. Len(s) \in Nat /\ s = [i \in 1..Len(s) |-> s[i]]
  OBVIOUS
<1> QED
  BY <1>1 DEF IsRun, Numbers

LEMMA EmptyRun == \A m : IsRun(<<>>, m) /\ <<>> \in Seq(Nat) /\ Len(<<>>) = 0
BY DEF IsRun

-----------------------------------------------------------------------------
(* The streams.                                                            *)

LEMMA UnitArrives ==
    ASSUME NEW i \in Seq(Nat), NEW x \in Seq(Nat), NEW d \in Nat, NEW n \in Nat,
           Unexecuted(i, x, d, n)
    PROVE  Unexecuted(i, Append(x, n + 1), d, n + 1)
<1>1. PICK a \in Nat, b \in Nat : a = Len(i) /\ b = Len(x)
  OBVIOUS
<1>2. IsRun(i, 2 * d + 1) /\ IsRun(x, 2 * d + 1 + a) /\ 2 * d + a + b = n
  BY <1>1 DEF Unexecuted
<1>3. 2 * d + 1 + a \in Nat /\ n + 1 = (2 * d + 1 + a) + b /\ 2 * d + a + (b + 1) = n + 1
  BY <1>2
<1>4. Len(Append(x, n + 1)) = b + 1 /\ IsRun(Append(x, n + 1), 2 * d + 1 + a)
  BY <1>1, <1>2, <1>3, RunAppend
<1> QED
  BY <1>1, <1>2, <1>3, <1>4 DEF Unexecuted

LEMMA UnitsRead ==
    ASSUME NEW i \in Seq(Nat), NEW x \in Seq(Nat), NEW d \in Nat, NEW n \in Nat,
           Unexecuted(i, x, d, n), NEW k \in 0..Len(x)
    PROVE  Unexecuted(i \o SubSeq(x, 1, k), SubSeq(x, k + 1, Len(x)), d, n)
<1> DEFINE y == SubSeq(x, 1, k)
           z == SubSeq(x, k + 1, Len(x))
<1>1. PICK a \in Nat, b \in Nat : a = Len(i) /\ b = Len(x)
  OBVIOUS
<1>2. IsRun(i, 2 * d + 1) /\ IsRun(x, 2 * d + 1 + a) /\ 2 * d + a + b = n
  BY <1>1 DEF Unexecuted
<1>3. 2 * d + 1 + a \in Nat /\ 2 * d + 1 \in Nat /\ k \in 0..b
      /\ 2 * d + 1 + a + k = 2 * d + 1 + (a + k) /\ 2 * d + (a + k) + (b - k) = n
  BY <1>1, <1>2
<1>4. /\ y \in Seq(Nat) /\ Len(y) = k /\ IsRun(y, 2 * d + 1 + a)
      /\ z \in Seq(Nat) /\ Len(z) = b - k /\ IsRun(z, 2 * d + 1 + a + k)
  BY <1>1, <1>2, <1>3, RunParts
<1> HIDE DEF y, z
<1>5. Len(i \o y) = a + k /\ IsRun(i \o y, 2 * d + 1)
  BY <1>1, <1>2, <1>3, <1>4, RunConcat
<1>6. Unexecuted(i \o y, z, d, n)
  BY <1>3, <1>4, <1>5 DEF Unexecuted
<1> QED
  BY <1>6 DEF y, z

LEMMA RequestLeaves ==
    ASSUME NEW i \in Seq(Nat), NEW x \in Seq(Nat), NEW d \in Nat, NEW n \in Nat,
           Unexecuted(i, x, d, n), Len(i) >= 2
    PROVE  /\ Request(i[1]) = d + 1
           /\ Unexecuted(SubSeq(i, 3, Len(i)), x, d + 1, n)
<1> DEFINE y == SubSeq(i, 3, Len(i))
<1>1. PICK a \in Nat, b \in Nat : a = Len(i) /\ b = Len(x)
  OBVIOUS
<1>2. IsRun(i, 2 * d + 1) /\ IsRun(x, 2 * d + 1 + a) /\ 2 * d + a + b = n /\ a >= 2
  BY <1>1 DEF Unexecuted
<1>3. 2 * d + 1 \in Nat /\ 2 * d + 1 + 2 = 2 * (d + 1) + 1 /\ 2 \in 0..a
      /\ 2 * d + 1 + a = 2 * (d + 1) + 1 + (a - 2) /\ 2 * (d + 1) + (a - 2) + b = n
  BY <1>2
<1>4. y \in Seq(Nat) /\ Len(y) = a - 2 /\ IsRun(y, 2 * d + 1 + 2)
  <2>1. y = SubSeq(i, 2 + 1, Len(i)) /\ 2 \in 0..Len(i) /\ IsRun(i, 2 * d + 1)
    BY <1>1, <1>2
  <2> HIDE DEF y
  <2>2. y \in Seq(Nat) /\ Len(y) = Len(i) - 2 /\ IsRun(y, 2 * d + 1 + 2)
    BY <1>3, <2>1, RunParts
  <2> QED
    BY <1>1, <2>2
<1> HIDE DEF y
<1>5. Unexecuted(y, x, d + 1, n)
  <2>1. IsRun(y, 2 * (d + 1) + 1) /\ IsRun(x, 2 * (d + 1) + 1 + (a - 2))
    BY <1>2, <1>3, <1>4
  <2> QED
    BY <1>1, <1>3, <1>4, <2>1 DEF Unexecuted
<1>6. i[1] = 2 * d + 1
  BY <1>1, <1>2 DEF IsRun
<1>7. (2 * d + 1 + 1) \div 2 = d + 1
  OBVIOUS
<1> QED
  BY <1>5, <1>6, <1>7 DEF Request, y

LEMMA UnexecutedIs ==
    ASSUME NEW i \in Seq(Nat), NEW x \in Seq(Nat), NEW d \in Nat, NEW n \in Nat,
           Unexecuted(i, x, d, n)
    PROVE  /\ i \o x = Numbers(2 * d + 1, n)
           /\ Len(i) < 2 /\ x = <<>> => d = n \div 2
<1>1. PICK a \in Nat, b \in Nat : a = Len(i) /\ b = Len(x)
  OBVIOUS
<1>2. IsRun(i, 2 * d + 1) /\ IsRun(x, 2 * d + 1 + a) /\ 2 * d + a + b = n
  BY <1>1 DEF Unexecuted
<1>3. 2 * d + 1 \in Nat /\ a + b = n + 1 - (2 * d + 1)
  BY <1>2
<1>4. i \o x \in Seq(Nat) /\ Len(i \o x) = a + b /\ IsRun(i \o x, 2 * d + 1)
  BY <1>1, <1>2, <1>3, RunConcat
<1>5. i \o x = Numbers(2 * d + 1, n)
  BY <1>3, <1>4, RunIsNumbers
<1>6. ASSUME Len(i) < 2, x = <<>> PROVE d = n \div 2
  <2>1. b = 0 /\ (a = 0 \/ a = 1)
    BY <1>1, <1>6
  <2> QED
    BY <1>2, <2>1
<1> QED
  BY <1>5, <1>6

LEMMA ResponseAdded ==
    ASSUME NEW o \in Seq(Nat), NEW t \in Seq(Nat), NEW g \in Seq(Nat), NEW d \in Nat
    PROVE  /\ Sent(t, g, d) => Sent(t, g, d + 1)
           /\ Unsent(o, t, g, d) => Unsent(Append(o, d + 1), t, g, d + 1)
<1>1. PICK a \in Nat, b \in Nat, e \in Nat : a = Len(g) /\ b = Len(t) /\ e = Len(o)
  OBVIOUS
<1>2. ASSUME Sent(t, g, d) PROVE Sent(t, g, d + 1)
  <2>1. a + b <= d
    BY <1>1, <1>2 DEF Sent
  <2>2. a + b <= d + 1
    BY <2>1
  <2> QED
    BY <1>1, <1>2, <2>2 DEF Sent
<1>3. ASSUME Unsent(o, t, g, d) PROVE Unsent(Append(o, d + 1), t, g, d + 1)
  <2>1. IsRun(o, a + b + 1) /\ a + b + e = d
    BY <1>1, <1>3 DEF Unsent
  <2>2. a + b + 1 \in Nat /\ d + 1 = (a + b + 1) + e /\ a + b + (e + 1) = d + 1
    BY <2>1
  <2>3. Len(Append(o, d + 1)) = e + 1 /\ IsRun(Append(o, d + 1), a + b + 1)
    BY <1>1, <2>1, <2>2, RunAppend
  <2> QED
    BY <1>1, <2>2, <2>3 DEF Unsent
<1> QED
  BY <1>2, <1>3

LEMMA ResponsesWritten ==
    ASSUME NEW o \in Seq(Nat), NEW t \in Seq(Nat), NEW g \in Seq(Nat), NEW d \in Nat,
           Sent(t, g, d), Unsent(o, t, g, d), NEW k \in 0..Len(o)
    PROVE  /\ Sent(t \o SubSeq(o, 1, k), g, d)
           /\ Unsent(SubSeq(o, k + 1, Len(o)), t \o SubSeq(o, 1, k), g, d)
           /\ Len(t \o SubSeq(o, 1, k)) = Len(t) + k
<1> DEFINE y == SubSeq(o, 1, k)
           z == SubSeq(o, k + 1, Len(o))
<1>1. PICK a \in Nat, b \in Nat, e \in Nat : a = Len(g) /\ b = Len(t) /\ e = Len(o)
  OBVIOUS
<1>2. /\ IsRun(o, a + b + 1) /\ a + b + e = d
      /\ IsRun(g, 1) /\ IsRun(t, a + 1)
  BY <1>1 DEF Sent, Unsent
<1>0. k \in Nat /\ k \in 0..e /\ k <= e
  BY <1>1
<1>3. /\ a + b + 1 \in Nat /\ a + 1 \in Nat /\ a + 1 + b = a + b + 1
      /\ a + b + 1 + k = a + (b + k) + 1 /\ a + (b + k) + (e - k) = d /\ a + (b + k) <= d
  BY <1>0, <1>2
<1>4. /\ y \in Seq(Nat) /\ Len(y) = k /\ IsRun(y, a + b + 1)
      /\ z \in Seq(Nat) /\ Len(z) = e - k /\ IsRun(z, a + b + 1 + k)
  BY <1>0, <1>1, <1>2, <1>3, RunParts
<1> HIDE DEF y, z
<1>5. Len(t \o y) = b + k /\ IsRun(t \o y, a + 1)
  BY <1>1, <1>2, <1>3, <1>4, RunConcat
<1>6. Sent(t \o y, g, d) /\ Unsent(z, t \o y, g, d) /\ Len(t \o y) = Len(t) + k
  BY <1>1, <1>2, <1>3, <1>4, <1>5 DEF Sent, Unsent
<1> QED
  BY <1>6 DEF y, z

LEMMA ResponseReceived ==
    ASSUME NEW o \in Seq(Nat), NEW t \in Seq(Nat), NEW g \in Seq(Nat), NEW d \in Nat,
           Sent(t, g, d), t # <<>>
    PROVE  /\ Sent(Tail(t), Append(g, Head(t)), d)
           /\ Unsent(o, t, g, d) => Unsent(o, Tail(t), Append(g, Head(t)), d)
           /\ Len(Append(g, Head(t))) + Len(Tail(t)) = Len(g) + Len(t)
<1> DEFINE h == Append(g, Head(t))
           u == Tail(t)
<1>1. PICK a \in Nat, b \in Nat, e \in Nat : a = Len(g) /\ b = Len(t) /\ e = Len(o)
  OBVIOUS
<1>2. IsRun(g, 1) /\ IsRun(t, a + 1) /\ a + b <= d
  BY <1>1 DEF Sent
<1>3. /\ Head(t) = a + 1 /\ u \in Seq(Nat) /\ Len(u) = b - 1 /\ IsRun(u, a + 1 + 1)
      /\ b \in Nat \ {0}
  BY <1>1, <1>2, RunTail
<1>4. h \in Seq(Nat) /\ Len(h) = a + 1 /\ IsRun(h, 1)
  <2>1. Head(t) = 1 + Len(g)
    BY <1>1, <1>3
  <2> QED
    BY <1>1, <1>2, <2>1, RunAppend
<1> HIDE DEF h, u
<1>5. (a + 1) + (b - 1) = a + b
  BY <1>3
<1>6. Sent(u, h, d)
  BY <1>2, <1>3, <1>4, <1>5 DEF Sent
<1>7. Unsent(o, t, g, d) => Unsent(o, u, h, d)
  BY <1>1, <1>3, <1>4, <1>5 DEF Unsent
<1>8. Len(h) + Len(u) = Len(g) + Len(t)
  BY <1>1, <1>3, <1>4, <1>5
<1> QED
  BY <1>6, <1>7, <1>8 DEF h, u

LEMMA NothingOnItsWay ==
    ASSUME NEW t \in Seq(Nat), NEW g \in Seq(Nat), NEW d \in Nat, Sent(t, g, d)
    PROVE  /\ Sent(<<>>, g, d)
           /\ d = 0 => Unsent(<<>>, t, g, d)
<1>1. PICK a \in Nat, b \in Nat : a = Len(g) /\ b = Len(t)
  OBVIOUS
<1>2. IsRun(g, 1) /\ IsRun(t, a + 1) /\ a + b <= d
  BY <1>1 DEF Sent
<1>3. a + 0 <= d /\ (d = 0 => a + b + 0 = d)
  BY <1>2
<1> QED
  BY <1>1, <1>2, <1>3, EmptyRun DEF Sent, Unsent

LEMMA ResponsesAre ==
    ASSUME NEW o \in Seq(Nat), NEW t \in Seq(Nat), NEW g \in Seq(Nat), NEW d \in Nat,
           Sent(t, g, d)
    PROVE  /\ g = Numbers(1, Len(g)) /\ Len(g) <= d
           /\ Unsent(o, t, g, d) => g \o t \o o = Numbers(1, d)
<1>1. PICK a \in Nat, b \in Nat, e \in Nat : a = Len(g) /\ b = Len(t) /\ e = Len(o)
  OBVIOUS
<1>2. IsRun(g, 1) /\ IsRun(t, a + 1) /\ a + b <= d
  BY <1>1 DEF Sent
<1>3. a <= d /\ a = a + 1 - 1 /\ a + 1 = 1 + a
  BY <1>2
<1>4. g = Numbers(1, a)
  BY <1>1, <1>2, <1>3, RunIsNumbers
<1>5. ASSUME Unsent(o, t, g, d) PROVE g \o t \o o = Numbers(1, d)
  <2>1. IsRun(o, a + b + 1) /\ a + b + e = d
    BY <1>1, <1>5 DEF Unsent
  <2>2. g \o t \in Seq(Nat) /\ Len(g \o t) = a + b /\ IsRun(g \o t, 1)
    BY <1>1, <1>2, <1>3, RunConcat
  <2>3. a + b + 1 = 1 + (a + b) /\ (a + b) + e = d + 1 - 1
    BY <2>1
  <2> DEFINE u == (g \o t) \o o
  <2>4. u \in Seq(Nat) /\ Len(u) = (a + b) + e /\ IsRun(u, 1)
    <3> DEFINE s == g \o t
    <3>1. s \in Seq(Nat) /\ Len(s) = a + b /\ IsRun(s, 1) /\ IsRun(o, 1 + Len(s))
      BY <2>1, <2>2, <2>3
    <3> HIDE DEF s
    <3>2. s \o o \in Seq(Nat) /\ Len(s \o o) = Len(s) + Len(o) /\ IsRun(s \o o, 1)
      BY <3>1, RunConcat
    <3> QED
      BY <1>1, <3>1, <3>2 DEF s
  <2> HIDE DEF u
  <2>5. Len(u) = d + 1 - 1
    BY <2>3, <2>4
  <2>6. u = Numbers(1, d)
    BY <2>4, <2>5, RunIsNumbers
  <2> QED
    BY <2>6 DEF u
<1> QED
  BY <1>1, <1>3, <1>4, <1>5


-----------------------------------------------------------------------------
(* Clients and kernel.                                                     *)

LEMMA FlowTypes ==
    ASSUME Inv, NEW c \in Clients
    PROVE  /\ conn[c].incoming \in Seq(Nat) /\ conn[c].outgoing \in Seq(Nat)
           /\ sock[c].rx \in Seq(Nat) /\ sock[c].tx \in Seq(Nat) /\ got[c] \in Seq(Nat)
           /\ nsent[c] \in Nat /\ done[c] \in Nat
           /\ sock \in [Clients -> SockRecord] /\ conn \in [Clients -> ConnRecord]
           /\ got \in [Clients -> Seq(Nat)] /\ nsent \in [Clients -> Nat] /\ done \in [Clients -> Nat]
           /\ client \in [Clients -> {"new", "open", "closed"}]
<1>1. /\ sock \in [Clients -> SockRecord] /\ conn \in [Clients -> ConnRecord]
      /\ got \in [Clients -> Seq(Nat)] /\ nsent \in [Clients -> Nat] /\ done \in [Clients -> Nat]
      /\ client \in [Clients -> {"new", "open", "closed"}]
  BY TypesSplit DEF Inv, WorldTyped, ServerTyped
<1>2. sock[c] \in SockRecord /\ conn[c] \in ConnRecord
  BY <1>1
<1>3. /\ conn[c].incoming \in Seq(Nat) /\ conn[c].outgoing \in Seq(Nat)
      /\ sock[c].rx \in Seq(Nat) /\ sock[c].tx \in Seq(Nat) /\ got[c] \in Seq(Nat)
  BY <1>1, <1>2 DEF SockRecord, ConnRecord
<1> QED
  BY <1>1, <1>3

\* A connection whose bytes a step leaves alone.
LEMMA FlowKept ==
    ASSUME NEW c, Flow(c), sock'[c] = sock[c], nsent'[c] = nsent[c], done'[c] = done[c],
           got'[c] = got[c], conn'[c].incoming = conn[c].incoming,
           conn'[c].outgoing = conn[c].outgoing,
           client'[c] # "closed" => client[c] # "closed",
           Waiting(c)' => Waiting(c), c \in Live' => c \in Live
    PROVE  Flow(c)'
BY DEF Flow

\* A step that touches no byte at all.
LEMMA FlowsKept ==
    ASSUME Flows, UNCHANGED <<kernel, sock, done>>,
           \A c \in Clients : /\ conn'[c].fd = conn[c].fd
                              /\ conn'[c].incoming = conn[c].incoming
                              /\ conn'[c].outgoing = conn[c].outgoing
    PROVE  Flows'
<1> SUFFICES ASSUME NEW c \in Clients PROVE Flow(c)'
  BY DEF Flows
<1>1. (Waiting(c)' <=> Waiting(c)) /\ Live' = Live
  BY DEF Waiting, kernel, Live
<1> QED
  BY <1>1, FlowKept DEF Flows, kernel

LEMMA ConnectFlows == ASSUME Inv, Flows, NEW c \in Clients, Connect(c) PROVE Flows'
<1> SUFFICES ASSUME NEW d \in Clients PROVE Flow(d)'
  BY DEF Flows
<1>1. /\ client[c] = "new" /\ client' = [client EXCEPT ![c] = "open"]
      /\ backlog' = Append(backlog, c)
      /\ UNCHANGED <<nsent, got, sock, conn, done>>
  BY DEF Connect, tables
<1>2. client \in [Clients -> {"new", "open", "closed"}] /\ backlog \in Seq(Clients)
  BY DEF Inv, TypeOK
<1>3. Range(backlog') = Range(backlog) \cup {c}
  <2>1. c \notin Range(backlog) /\ IsInjective(backlog)
    BY <1>1 DEF Inv, Fresh
  <2> QED
    BY <1>1, <1>2, <2>1, AppendOneMore
<1>4. (Waiting(d)' => Waiting(d)) /\ Live' = Live
  BY <1>1, <1>2, <1>3 DEF Waiting, Live
<1>5. client'[d] # "closed" => client[d] # "closed"
  BY <1>1, <1>2
<1> QED
  BY <1>1, <1>4, <1>5, FlowKept DEF Flows

LEMMA SendFlows == ASSUME Inv, Flows, NEW c \in Clients, Send(c) PROVE Flows'
<1> SUFFICES ASSUME NEW d \in Clients PROVE Flow(d)'
  BY DEF Flows
<1> DEFINE r == Append(sock[c].rx, nsent[c] + 1)
<1>1. /\ nsent' = [nsent EXCEPT ![c] = @ + 1]
      /\ sock' = [sock EXCEPT ![c].rx = r]
      /\ UNCHANGED <<client, backlog, got, conn, done>>
  BY DEF Send, tables
<1>2. /\ sock[c].rx \in Seq(Nat) /\ conn[c].incoming \in Seq(Nat)
      /\ nsent[c] \in Nat /\ done[c] \in Nat
      /\ sock \in [Clients -> SockRecord] /\ nsent \in [Clients -> Nat]
  BY FlowTypes
<1>3. (Waiting(d)' <=> Waiting(d)) /\ Live' = Live
  BY <1>1 DEF Waiting, Live
<1>4. c \in Live => Unexecuted(conn[c].incoming, r, done[c], nsent[c] + 1)
  BY <1>2, UnitArrives DEF Flows, Flow
<1>5. Waiting(c) => done[c] = 0 /\ Unexecuted(<<>>, r, 0, nsent[c] + 1)
  BY <1>2, UnitArrives, EmptyRun DEF Flows, Flow
<1> HIDE DEF r
<1>6. /\ sock'[c].rx = r /\ sock'[c].tx = sock[c].tx /\ sock'[c].err = sock[c].err
      /\ sock'[c].fin = sock[c].fin /\ nsent'[c] = nsent[c] + 1
      /\ d # c => sock'[d] = sock[d] /\ nsent'[d] = nsent[d]
  BY <1>1, <1>2 DEF SockRecord
<1>7. CASE d # c
  BY <1>1, <1>3, <1>6, <1>7, FlowKept DEF Flows
<1>8. CASE d = c
  BY <1>1, <1>3, <1>4, <1>5, <1>6, <1>8 DEF Flows, Flow
<1> QED
  BY <1>7, <1>8

LEMMA ReceiveFlows ==
    ASSUME Inv, Flows, NEW c \in Clients, Receive(c)
    PROVE  /\ Flows'
           /\ \A d \in Clients : /\ Len(got'[d]) + Len(sock'[d].tx) = Len(got[d]) + Len(sock[d].tx)
                                 /\ sock'[d].err = sock[d].err /\ sock'[d].fin = sock[d].fin
                                 /\ sock'[d].rx = sock[d].rx
<1> DEFINE g == Append(got[c], Head(sock[c].tx))
           t == Tail(sock[c].tx)
<1>1. /\ sock[c].tx # <<>>
      /\ got' = [got EXCEPT ![c] = g] /\ sock' = [sock EXCEPT ![c].tx = t]
      /\ UNCHANGED <<client, backlog, nsent, conn, done>>
  BY DEF Receive, tables
<1>2. /\ sock[c].tx \in Seq(Nat) /\ got[c] \in Seq(Nat) /\ conn[c].outgoing \in Seq(Nat)
      /\ done[c] \in Nat /\ sock \in [Clients -> SockRecord] /\ got \in [Clients -> Seq(Nat)]
  BY FlowTypes
<1>3. Flow(c)
  BY DEF Flows
<1>4. Sent(t, g, done[c]) /\ Len(g) + Len(t) = Len(got[c]) + Len(sock[c].tx)
  BY <1>1, <1>2, <1>3, ResponseReceived DEF Flow
<1>5. c \in Live /\ sock[c].err = "none" => Unsent(conn[c].outgoing, t, g, done[c])
  BY <1>1, <1>2, <1>3, ResponseReceived DEF Flow
<1> HIDE DEF g, t
<1>6. /\ sock'[c].tx = t /\ sock'[c].rx = sock[c].rx /\ sock'[c].err = sock[c].err
      /\ sock'[c].fin = sock[c].fin /\ got'[c] = g
      /\ \A d \in Clients : d # c => sock'[d] = sock[d] /\ got'[d] = got[d]
  BY <1>1, <1>2 DEF SockRecord
<1>7. \A d \in Clients : (Waiting(d)' <=> Waiting(d)) /\ Live' = Live
  BY <1>1 DEF Waiting, Live
<1>8. ASSUME NEW d \in Clients PROVE Flow(d)'
  <2>1. CASE d # c
    BY <1>1, <1>6, <1>7, <2>1, FlowKept DEF Flows
  <2>2. CASE d = c
    BY <1>1, <1>3, <1>4, <1>5, <1>6, <1>7, <2>2 DEF Flow
  <2> QED
    BY <2>1, <2>2
<1> QED
  BY <1>4, <1>6, <1>8 DEF Flows

\* An error of a connection empties what is on its way to the client.
LEMMA HangupFlows ==
    ASSUME Inv, Flows, NEW c \in Clients, Hangup(c)
    PROVE  /\ Flows'
           /\ \A d \in Clients : d # c => sock'[d] = sock[d]
           /\ \/ sock'[c].err # "none"
              \/ /\ sock'[c].err = sock[c].err /\ sock'[c].fin
                 /\ sock'[c].rx = sock[c].rx /\ sock'[c].tx = sock[c].tx
<1>1. /\ client' = [client EXCEPT ![c] = "closed"]
      /\ UNCHANGED <<backlog, nsent, got, conn, done>>
  BY DEF Hangup, tables
<1>2. /\ sock[c].tx \in Seq(Nat) /\ got[c] \in Seq(Nat) /\ done[c] \in Nat
      /\ sock \in [Clients -> SockRecord] /\ client \in [Clients -> {"new", "open", "closed"}]
  BY FlowTypes
<1>3. Flow(c)
  BY DEF Flows
<1>4. /\ \A d \in Clients : d # c => sock'[d] = sock[d] /\ client'[d] = client[d]
      /\ client'[c] = "closed"
  BY <1>1, <1>2 DEF Hangup
<1>5. \A d \in Clients : (Waiting(d)' => Waiting(d)) /\ Live' = Live
  BY <1>1, <1>4 DEF Waiting, Live
<1>6. \/ /\ sock'[c].tx = <<>> /\ sock'[c].rx = sock[c].rx /\ sock'[c].err = "reset"
      \/ /\ sock'[c].tx = sock[c].tx /\ sock'[c].rx = sock[c].rx
         /\ sock'[c].err = sock[c].err /\ sock'[c].fin
  <2>1. CASE sock[c].tx = <<>>
    <3>1. sock' = [sock EXCEPT ![c] = [sock[c] EXCEPT !.fin = TRUE]]
      BY <2>1 DEF Hangup
    <3> QED
      BY <1>2, <3>1 DEF SockRecord
  <2>2. CASE sock[c].tx # <<>>
    <3>1. sock' = [sock EXCEPT ![c] = [sock[c] EXCEPT !.err = "reset", !.tx = <<>>]]
      BY <2>2 DEF Hangup
    <3> QED
      BY <1>2, <3>1 DEF SockRecord
  <2> QED
    BY <2>1, <2>2
<1>7. Sent(<<>>, got[c], done[c])
  BY <1>2, <1>3, NothingOnItsWay DEF Flow
<1>8. Flow(c)'
  BY <1>1, <1>3, <1>4, <1>5, <1>6, <1>7 DEF Flow
<1>9. ASSUME NEW d \in Clients, d # c PROVE Flow(d)'
  BY <1>1, <1>4, <1>5, <1>9, FlowKept DEF Flows
<1> QED
  BY <1>4, <1>6, <1>8, <1>9 DEF Flows

LEMMA ResetFlows ==
    ASSUME Inv, Flows, NEW c \in Clients, Reset(c)
    PROVE  /\ Flows'
           /\ \A d \in Clients : d # c => sock'[d] = sock[d]
           /\ sock'[c].err # "none"
<1>1. /\ client[c] = "closed"
      /\ sock' = [sock EXCEPT ![c].err = "pipe", ![c].tx = <<>>]
      /\ UNCHANGED <<client, backlog, nsent, got, conn, done>>
  BY DEF Reset, kernel, tables
<1>2. /\ sock[c].tx \in Seq(Nat) /\ got[c] \in Seq(Nat) /\ done[c] \in Nat
      /\ sock \in [Clients -> SockRecord]
  BY FlowTypes
<1>3. Flow(c)
  BY DEF Flows
<1>4. /\ \A d \in Clients : d # c => sock'[d] = sock[d]
      /\ sock'[c].err = "pipe" /\ sock'[c].tx = <<>> /\ sock'[c].rx = sock[c].rx
  <2>1. sock' = [sock EXCEPT ![c] = [sock[c] EXCEPT !.err = "pipe", !.tx = <<>>]]
    BY <1>1, <1>2
  <2> QED
    BY <1>2, <2>1 DEF SockRecord
<1>5. \A d \in Clients : (Waiting(d)' => Waiting(d)) /\ Live' = Live
  BY <1>1 DEF Waiting, Live
<1>6. Sent(<<>>, got[c], done[c])
  BY <1>2, <1>3, NothingOnItsWay DEF Flow
<1>7. Flow(c)'
  BY <1>1, <1>3, <1>4, <1>5, <1>6 DEF Flow
<1>8. ASSUME NEW d \in Clients, d # c PROVE Flow(d)'
  BY <1>1, <1>4, <1>5, <1>8, FlowKept DEF Flows
<1> QED
  BY <1>4, <1>7, <1>8 DEF Flows

-----------------------------------------------------------------------------
(* The server.                                                             *)

LEMMA AcceptFlows ==
    ASSUME Inv, Flows, Accept
    PROVE  /\ Flows'
           /\ \A d \in Live : conn'[d] = conn[d]
           /\ \E c \in Clients, f \in FreeFds : fd2conn' = [fd2conn EXCEPT ![f] = c]
<1>0. backlog \in Seq(Clients) /\ backlog # <<>>
  BY DEF Accept, Inv, TypeOK
<1> PICK c \in Clients : c = Head(backlog)
  BY <1>0
<1>1. PICK f \in FreeFds :
            /\ fd2conn' = [fd2conn EXCEPT ![f] = c]
            /\ conn' = [conn EXCEPT ![c] = [NullConn EXCEPT
                           !.fd = f, !.want_read = TRUE, !.last_active_ms = now]]
  BY DEF Accept
<1>2. /\ backlog' = Tail(backlog)
      /\ UNCHANGED <<client, nsent, got, sock, done>>
  BY DEF Accept
<1>3. /\ conn \in [Clients -> ConnRecord]
      /\ sock[c].tx \in Seq(Nat) /\ got[c] \in Seq(Nat) /\ done[c] \in Nat
  BY FlowTypes
<1>4. /\ conn'[c].incoming = <<>> /\ conn'[c].outgoing = <<>>
      /\ \A d \in Clients : d # c => conn'[d] = conn[d]
  BY <1>1, <1>3 DEF NullConn
<1>5. c \in Range(backlog) /\ \A d \in Range(backlog') : d \in Range(backlog)
  <2> DEFINE t == Tail(backlog)
  <2>1. /\ c = backlog[1] /\ 1 \in DOMAIN backlog
        /\ DOMAIN t = 1..(Len(backlog) - 1) /\ DOMAIN backlog = 1..Len(backlog)
        /\ Len(backlog) \in Nat \ {0}
        /\ \A i \in 1..(Len(backlog) - 1) : t[i] = backlog[i + 1]
    BY <1>0
  <2> HIDE DEF t
  <2>2. \A i \in 1..(Len(backlog) - 1) : i + 1 \in 1..Len(backlog)
    BY <2>1
  <2>3. backlog' = t
    BY <1>2 DEF t
  <2> QED
    BY <2>1, <2>2, <2>3 DEF Range
<1>6. c \notin Live /\ Waiting(c) /\ Flow(c)
  BY <1>5 DEF Inv, Fresh, Flows, Waiting
<1>7. \A d \in Clients : Waiting(d)' => Waiting(d)
  BY <1>2, <1>5 DEF Waiting
<1>8. \A d \in Clients : d # c => (d \in Live' <=> d \in Live)
  BY <1>4 DEF Live
<1>9. done[c] = 0 /\ Unexecuted(<<>>, sock[c].rx, 0, nsent[c])
      /\ Unsent(<<>>, sock[c].tx, got[c], 0)
  BY <1>3, <1>6, NothingOnItsWay DEF Flow
<1>10. Flow(c)'
  BY <1>2, <1>4, <1>6, <1>7, <1>9 DEF Flow
<1>11. ASSUME NEW d \in Clients, d # c PROVE Flow(d)'
  BY <1>2, <1>4, <1>7, <1>8, <1>11, FlowKept DEF Flows
<1> QED
  BY <1>1, <1>4, <1>6, <1>10, <1>11 DEF Flows, Live

LEMMA ReadFlows ==
    ASSUME Inv, Flows, NEW f, ServeRead(f)
    PROVE  /\ Flows'
           /\ \A d \in Clients : sock'[d].err = sock[d].err
<1>1. Serve(f) /\ (ReadData(fd2conn[f]) \/ ReadNothing(fd2conn[f]))
  BY DEF ServeRead
<1>2. PICK c \in Clients : c = fd2conn[f] /\ c \in Live
  BY <1>1, ServeFacts DEF Live
<1>3. UNCHANGED <<client, script, nsent, got, backlog, done>>
  BY <1>1 DEF Serve, kernel
<1>4. /\ conn[c].incoming \in Seq(Nat) /\ sock[c].rx \in Seq(Nat)
      /\ nsent[c] \in Nat /\ done[c] \in Nat
      /\ conn \in [Clients -> ConnRecord] /\ sock \in [Clients -> SockRecord]
  BY FlowTypes
<1>5. CASE ReadNothing(c)
  <2>1. /\ conn' = [conn EXCEPT ![c] = [@ EXCEPT !.last_active_ms = now,
                       !.want_close = conn[c].want_close \/ sock[c].fin \/ sock[c].err # "none"]]
        /\ sock' = sock
    BY <1>5 DEF ReadNothing
  <2>2. \A d \in Clients : /\ conn'[d].fd = conn[d].fd
                           /\ conn'[d].incoming = conn[d].incoming
                           /\ conn'[d].outgoing = conn[d].outgoing
    BY <1>4, <2>1 DEF ConnRecord
  <2> QED
    BY <1>3, <2>1, <2>2, FlowsKept DEF kernel
<1>6. CASE ReadData(c)
  <2> DEFINE n == Min2(ReadMax, Len(sock[c].rx))
             i == conn[c].incoming \o SubSeq(sock[c].rx, 1, n)
             x == SubSeq(sock[c].rx, n + 1, Len(sock[c].rx))
  <2>1. n \in 0..Len(sock[c].rx)
    BY <1>4, LoopAssumption DEF Min2
  <2>2. /\ conn' = [conn EXCEPT ![c] = [@ EXCEPT !.last_active_ms = now, !.incoming = i]]
        /\ sock' = [sock EXCEPT ![c].rx = x]
    BY <1>6 DEF ReadData
  <2> HIDE DEF n
  <2>3. Unexecuted(i, x, done[c], nsent[c])
    BY <1>2, <1>4, <2>1, UnitsRead DEF Flows, Flow
  <2> HIDE DEF i, x
  <2>4. /\ conn'[c].incoming = i /\ conn'[c].outgoing = conn[c].outgoing /\ conn'[c].fd = conn[c].fd
        /\ sock'[c].rx = x /\ sock'[c].tx = sock[c].tx /\ sock'[c].err = sock[c].err
        /\ sock'[c].fin = sock[c].fin
        /\ \A d \in Clients : d # c => conn'[d] = conn[d] /\ sock'[d] = sock[d]
    BY <1>4, <2>2 DEF ConnRecord, SockRecord
  <2>5. \A d \in Clients : (Waiting(d)' <=> Waiting(d)) /\ (d \in Live' <=> d \in Live)
    BY <1>3, <2>4 DEF Waiting, Live
  <2>6. ~Waiting(c)
    BY <1>2 DEF Inv, Fresh, Waiting
  <2>7. Flow(c)'
    BY <1>3, <2>3, <2>4, <2>5, <2>6 DEF Flows, Flow
  <2>8. ASSUME NEW d \in Clients, d # c PROVE Flow(d)'
    BY <1>3, <2>4, <2>5, <2>8, FlowKept DEF Flows
  <2> QED
    BY <2>4, <2>7, <2>8 DEF Flows
<1> QED
  BY <1>1, <1>2, <1>5, <1>6

LEMMA TryOneRequestFlows == ASSUME Inv, Flows, TryOneRequest PROVE Flows'
<1>1. pc = "parse" /\ Executable(Current, conn[Current].incoming)
      /\ UNCHANGED <<client, script, nsent, got, backlog, sock>>
  BY DEF TryOneRequest, kernel
<1>2. PICK c \in Clients : c = Current /\ c \in Live
  BY <1>1, CurrentFacts DEF Live
<1>3. /\ conn[c].incoming \in Seq(Nat) /\ conn[c].outgoing \in Seq(Nat)
      /\ sock[c].rx \in Seq(Nat) /\ sock[c].tx \in Seq(Nat) /\ got[c] \in Seq(Nat)
      /\ nsent[c] \in Nat /\ done[c] \in Nat
      /\ conn \in [Clients -> ConnRecord] /\ done \in [Clients -> Nat]
  BY FlowTypes
<1> DEFINE i == conn[c].incoming
           rest == SubSeq(i, 3, Len(i))
           o == Append(conn[c].outgoing, Request(i[1]))
<1>4. /\ conn' = [conn EXCEPT ![c] = [@ EXCEPT !.incoming = rest, !.outgoing = o]]
      /\ done' = [done EXCEPT ![c] = @ + 1]
  BY <1>2 DEF TryOneRequest
<1>5. Flow(c) /\ Unexecuted(i, sock[c].rx, done[c], nsent[c]) /\ Len(i) >= 2
  BY <1>1, <1>2 DEF Flows, Flow, Executable
<1>6. Request(i[1]) = done[c] + 1 /\ Unexecuted(rest, sock[c].rx, done[c] + 1, nsent[c])
  BY <1>3, <1>5, RequestLeaves
<1>7. /\ Sent(sock[c].tx, got[c], done[c] + 1)
      /\ sock[c].err = "none" => Unsent(o, sock[c].tx, got[c], done[c] + 1)
  <2>1. o = Append(conn[c].outgoing, done[c] + 1)
    BY <1>6
  <2> QED
    BY <1>2, <1>3, <1>5, <2>1, ResponseAdded DEF Flow
<1> HIDE DEF rest, o
<1>8. /\ conn'[c].incoming = rest /\ conn'[c].outgoing = o /\ done'[c] = done[c] + 1
      /\ conn'[c].fd = conn[c].fd
      /\ \A d \in Clients : d # c => conn'[d] = conn[d] /\ done'[d] = done[d]
  BY <1>3, <1>4 DEF ConnRecord
<1>9. \A d \in Clients : (Waiting(d)' <=> Waiting(d)) /\ (d \in Live' <=> d \in Live)
  BY <1>1, <1>8 DEF Waiting, Live
<1>10. ~Waiting(c)
  BY <1>2 DEF Inv, Fresh, Waiting
<1>11. Flow(c)'
  BY <1>1, <1>5, <1>6, <1>7, <1>8, <1>9, <1>10 DEF Flow
<1>12. ASSUME NEW d \in Clients, d # c PROVE Flow(d)'
  BY <1>1, <1>8, <1>9, <1>12, FlowKept DEF Flows
<1> QED
  BY <1>11, <1>12 DEF Flows

LEMMA DestroyFlows ==
    ASSUME Inv, Flows, NEW c \in Live, Destroy(c), UNCHANGED <<kernel, sock, done, now>>
    PROVE  /\ Flows' /\ \A d \in Live : d # c => conn'[d].fd # 0
           /\ fd2conn' = [fd2conn EXCEPT ![conn[c].fd] = NoConn]
<1>1. /\ Live' = Live \ {c} /\ \A d \in Clients : d # c => conn'[d] = conn[d]
      /\ fd2conn' = [fd2conn EXCEPT ![conn[c].fd] = NoConn]
  BY DestroyTables
<1>2. \A d \in Clients : Waiting(d)' <=> Waiting(d)
  BY DEF Waiting, kernel
<1>3. Flow(c)'
  BY <1>1, <1>2 DEF Flows, Flow, Live, kernel
<1>4. ASSUME NEW d \in Clients, d # c PROVE Flow(d)'
  BY <1>1, <1>2, <1>4, FlowKept DEF Flows, kernel
<1> QED
  BY <1>1, <1>3, <1>4 DEF Flows, Live

-----------------------------------------------------------------------------
(* Why a connection is closed.                                             *)

\* As many responses as the socket has room for have been handed to it.
Flushed(c) == Len(got[c]) + Len(sock[c].tx) >= Min2(done[c], SndBuf)

\* Why the server wants to close the connection it serves.
Reason(c) ==
    \/ sock[c].err # "none"
    \/ /\ sock[c].fin /\ sock[c].rx = <<>>
       /\ conn[c].outgoing = <<>> /\ Len(conn[c].incoming) < 2
    \/ Rejects(c, conn[c].incoming) /\ (pc = "close" => Flushed(c))

WantsForAReason ==
    pc \in {"write", "close"} /\ conn[Current].want_close => Reason(Current)

\* An error that poll() has reported stays.
ErrorsStay ==
    \A f \in Pending(ready.revents) :
        "err" \in ready.revents[f] => sock[fd2conn[f]].err # "none"

LEMMA ErrorsKept ==
    ASSUME Inv, ErrorsStay,
           \A f \in Pending(ready'.revents) :
              /\ f \in Pending(ready.revents)
              /\ ready'.revents[f] = ready.revents[f] /\ fd2conn'[f] = fd2conn[f],
           \A d \in Clients : sock[d].err # "none" => sock'[d].err # "none"
    PROVE  ErrorsStay'
<1> SUFFICES ASSUME NEW f \in Pending(ready'.revents), "err" \in ready'.revents[f]
             PROVE  sock'[fd2conn'[f]].err # "none"
  BY DEF ErrorsStay
<1>1. f \in Pending(ready.revents) /\ "err" \in ready.revents[f] /\ fd2conn'[f] = fd2conn[f]
  OBVIOUS
<1>2. fd2conn[f] \in Clients
  BY <1>1 DEF Inv, Phases
<1> QED
  BY <1>1, <1>2 DEF ErrorsStay

\* Clients and kernel cannot make a reason go away.
LEMMA ReasonsKept ==
    ASSUME Inv, WantsForAReason, ErrorsStay, UNCHANGED <<server, script>>,
           \A d \in Clients :
              /\ sock[d].err # "none" => sock'[d].err # "none"
              /\ \/ sock'[d].err # "none"
                 \/ /\ sock[d].fin => sock'[d].fin /\ sock'[d].rx = sock[d].rx
                    /\ Len(got'[d]) + Len(sock'[d].tx) = Len(got[d]) + Len(sock[d].tx)
    PROVE  WantsForAReason' /\ ErrorsStay'
<1>1. ErrorsStay'
  BY ErrorsKept DEF server, tables
<1>2. WantsForAReason'
  <2>1. SUFFICES ASSUME pc \in {"write", "close"}, conn[Current].want_close
                 PROVE  Reason(Current)'
    BY DEF WantsForAReason, server, tables, Current
  <2>2. PICK c \in Clients : c = Current
    BY <2>1, CurrentFacts DEF Live
  <2>3. Reason(c)
    BY <2>1, <2>2 DEF WantsForAReason
  <2>4. Reason(c)'
    BY <2>3 DEF Reason, Flushed, Rejects, Command, server, tables
  <2> QED
    BY <2>2, <2>4 DEF Current, server, tables
<1> QED
  BY <1>1, <1>2

\* The whole invariant of this module.
Streams == Flows /\ WantsForAReason /\ ErrorsStay

\* A step of the loop that touches no byte, no error and no descriptor that
\* is pending, and leads to where nothing is being closed.
LEMMA QuietStep ==
    ASSUME Inv, Streams, UNCHANGED <<kernel, sock, done, conn>>,
           pc' \notin {"write", "close"},
           \A f \in Pending(ready'.revents) :
              /\ f \in Pending(ready.revents)
              /\ ready'.revents[f] = ready.revents[f] /\ fd2conn'[f] = fd2conn[f]
    PROVE  Streams'
<1>1. Flows'
  BY FlowsKept DEF Streams
<1>2. ErrorsStay'
  BY ErrorsKept DEF Streams
<1> QED
  BY <1>1, <1>2 DEF Streams, WantsForAReason

LEMMA TickStreams == ASSUME Inv, Streams, Tick PROVE Streams' /\ conn' = conn
<1>1. UNCHANGED <<server, script, kernel, sock, done>> /\ conn' = conn
  BY DEF Tick, server, kernel, tables
<1>2. Flows'
  BY <1>1, FlowsKept DEF Streams
<1> QED
  BY <1>1, <1>2, ReasonsKept DEF Streams, kernel

LEMMA EnvironmentStreams ==
    ASSUME Inv, Streams, NEW c \in Clients,
           Connect(c) \/ Send(c) \/ Receive(c) \/ Hangup(c) \/ Reset(c)
    PROVE  Streams' /\ conn' = conn
<1>1. UNCHANGED <<server, script>> /\ conn' = conn
  BY DEF Connect, Send, Receive, Hangup, Reset, server, kernel, tables
<1>2. CASE Connect(c)
  <2>1. sock' = sock /\ got' = got
    BY <1>2 DEF Connect
  <2> QED
    BY <1>1, <1>2, <2>1, ConnectFlows, ReasonsKept DEF Streams
<1>3. CASE Send(c)
  <2>1. Flows'
    BY <1>3, SendFlows DEF Streams
  <2>2. /\ client[c] = "open" /\ got' = got
        /\ sock' = [sock EXCEPT ![c].rx = Append(@, nsent[c] + 1)]
    BY <1>3 DEF Send
  <2>3. sock \in [Clients -> SockRecord]
    BY FlowTypes
  <2>4. ~sock[c].fin
    BY <2>2 DEF Streams, Flows, Flow
  <2>5. /\ sock'[c].err = sock[c].err /\ sock'[c].tx = sock[c].tx
        /\ \A d \in Clients : d # c => sock'[d] = sock[d]
    BY <2>2, <2>3 DEF SockRecord
  <2> QED
    BY <1>1, <2>1, <2>2, <2>4, <2>5, ReasonsKept DEF Streams
<1>4. CASE Receive(c)
  BY <1>1, <1>4, ReceiveFlows, ReasonsKept DEF Streams
<1>5. CASE Hangup(c)
  <2>1. got' = got
    BY <1>5 DEF Hangup
  <2> QED
    BY <1>1, <1>5, <2>1, HangupFlows, ReasonsKept DEF Streams
<1>6. CASE Reset(c)
  <2>1. got' = got
    BY <1>6 DEF Reset, kernel
  <2> QED
    BY <1>1, <1>6, <2>1, ResetFlows, ReasonsKept DEF Streams
<1> QED
  BY <1>1, <1>2, <1>3, <1>4, <1>5, <1>6

LEMMA PollStreams ==
    ASSUME Inv, Streams, PollEnter \/ PollReturn \/ PollInterrupted
    PROVE  Streams'
<1>1. UNCHANGED <<kernel, sock, done, conn, fd2conn>>
  BY DEF PollEnter, PollReturn, PollInterrupted, tables
<1>2. CASE PollEnter \/ PollInterrupted
  <2>1. ready' = ready /\ pc' \notin {"write", "close"}
    BY <1>2 DEF PollEnter, PollInterrupted
  <2> QED
    BY <1>1, <2>1, QuietStep
<1>3. CASE PollReturn
  <2>1. Flows'
    BY <1>1, FlowsKept DEF Streams
  <2>2. pc' = "accept"
    BY <1>3 DEF PollReturn
  <2>3. PICK spurious :
          ready' = [listen |-> backlog # <<>>,
                    revents |-> [f \in Fds |->
                       IF fd2conn[f] = NoConn THEN {}
                       ELSE Events(fd2conn[f]) \cup
                            (IF fd2conn[f] \in spurious /\ conn[fd2conn[f]].want_read
                             THEN {"in"} ELSE {})],
                    conn |-> fd2conn]
    BY <1>3 DEF PollReturn
  <2>4. \A f \in Fds : "err" \in ready'.revents[f] =>
            fd2conn[f] # NoConn /\ "err" \in Events(fd2conn[f])
    BY <2>3
  <2>5. \A c : "err" \in Events(c) => sock[c].err # "none"
    BY DEF Events
  <2>6. ErrorsStay'
    BY <1>1, <2>4, <2>5 DEF ErrorsStay, Pending
  <2> QED
    BY <2>1, <2>2, <2>6 DEF Streams, WantsForAReason
<1> QED
  BY <1>2, <1>3

LEMMA AcceptStreams ==
    ASSUME Inv, Streams, Accept \/ AcceptNothing
    PROVE  Streams' /\ \A d \in Live : conn'[d].fd # 0
<1>1. /\ ready' = [ready EXCEPT !.listen = FALSE] /\ pc' = NextPhase(ready.revents)
      /\ sock' = sock
  BY DEF Accept, AcceptNothing
<1>2. pc' \in {"serve", "timers"} /\ ready'.revents = ready.revents
  BY <1>1 DEF NextPhase, Inv, TypeOK
<1>3. CASE AcceptNothing
  <2>1. UNCHANGED <<kernel, sock, done, conn, fd2conn>>
    BY <1>3 DEF AcceptNothing, tables
  <2> QED
    BY <1>2, <2>1, QuietStep DEF Live
<1>4. CASE Accept
  <2>1. Flows' /\ \A d \in Live : conn'[d] = conn[d]
    BY <1>4, AcceptFlows DEF Streams
  <2>2. PICK c \in Clients, f \in FreeFds : fd2conn' = [fd2conn EXCEPT ![f] = c]
    BY <1>4, AcceptFlows DEF Streams
  <2>3. \A g \in Pending(ready.revents) : fd2conn'[g] = fd2conn[g]
    <3>1. \A g \in Pending(ready.revents) : fd2conn[g] \in Clients /\ g \in Fds
      BY DEF Inv, Phases, Pending
    <3>2. fd2conn[f] = NoConn /\ NoConn \notin Clients
      BY LoopAssumption DEF FreeFds
    <3>3. fd2conn \in [Fds -> Clients \cup {NoConn}]
      BY DEF Inv, TypeOK
    <3> QED
      BY <2>2, <3>1, <3>2, <3>3
  <2>4. ErrorsStay'
    BY <1>1, <1>2, <2>3, ErrorsKept DEF Streams
  <2> QED
    BY <1>2, <2>1, <2>4 DEF Streams, WantsForAReason, Live
<1> QED
  BY <1>3, <1>4

LEMMA ServeStreams ==
    ASSUME Inv, Streams, NEW f, ServeRead(f) \/ ServeWrite(f)
    PROVE  Streams' /\ \A d \in Live : conn'[d].fd # 0
<1>1. Serve(f)
  BY DEF ServeRead, ServeWrite
<1>2. PICK c \in Clients : c = fd2conn[f] /\ c \in Live /\ Settled(c)
  BY <1>1, ServeFacts DEF Live
<1>3. /\ "in" \in ready.revents[f] => conn[c].want_read
      /\ conn \in [Clients -> ConnRecord]
  BY <1>1, <1>2, ServeFacts
<1>4. /\ UNCHANGED <<kernel, fd2conn, done, ready>> /\ cur' = f
  BY <1>1 DEF Serve
<1>5. Current' = c
  BY <1>2, <1>4 DEF Current
<1>6. CASE ServeWrite(f)
  <2>1. /\ conn' = [conn EXCEPT ![c] = [@ EXCEPT !.last_active_ms = now]] /\ sock' = sock
    BY <1>2, <1>6 DEF ServeWrite
  <2>2. /\ \A d \in Clients : /\ conn'[d].fd = conn[d].fd
                              /\ conn'[d].incoming = conn[d].incoming
                              /\ conn'[d].outgoing = conn[d].outgoing
        /\ ~conn'[c].want_close
    BY <1>2, <1>3, <2>1 DEF ConnRecord, Settled
  <2>3. Flows'
    BY <1>4, <2>1, <2>2, FlowsKept DEF Streams
  <2>4. ErrorsStay'
    BY <1>4, <2>1, ErrorsKept DEF Streams
  <2> QED
    BY <1>5, <2>2, <2>3, <2>4 DEF Streams, WantsForAReason, Live
<1>7. CASE ServeRead(f)
  <2>1. Flows' /\ \A d \in Clients : sock'[d].err = sock[d].err
    BY <1>7, ReadFlows DEF Streams
  <2>2. ErrorsStay'
    BY <1>4, <2>1, ErrorsKept DEF Streams
  <2>3. CASE ReadData(c)
    <3> DEFINE i == conn[c].incoming \o SubSeq(sock[c].rx, 1, Min2(ReadMax, Len(sock[c].rx)))
    <3>1. /\ pc' = "parse"
          /\ conn' = [conn EXCEPT ![c] = [@ EXCEPT !.last_active_ms = now, !.incoming = i]]
      BY <2>3 DEF ReadData
    <3> HIDE DEF i
    <3>2. \A d \in Clients : conn'[d].fd = conn[d].fd
      BY <1>3, <3>1 DEF ConnRecord
    <3> QED
      BY <2>1, <2>2, <3>1, <3>2 DEF Streams, WantsForAReason, Live
  <2>4. CASE ReadNothing(c)
    <3>1. sock[c].rx = <<>> /\ sock' = sock
      BY <2>4 DEF ReadNothing
    <3>2. /\ \A d \in Clients : conn'[d].fd = conn[d].fd
          /\ conn'[c].incoming = conn[c].incoming /\ conn'[c].outgoing = conn[c].outgoing
      BY <1>3, <2>4 DEF ConnRecord, ReadNothing
    <3>2a. conn'[c].want_close => conn[c].want_close \/ sock[c].fin \/ sock[c].err # "none"
      <4>1. SUFFICES ASSUME ~(conn[c].want_close \/ sock[c].fin \/ sock[c].err # "none")
                     PROVE  ~conn'[c].want_close
        OBVIOUS
      <4>2. (conn[c].want_close \/ sock[c].fin \/ sock[c].err # "none") = FALSE
        BY <4>1
      <4>3. conn' = [conn EXCEPT ![c] = [@ EXCEPT !.last_active_ms = now, !.want_close = FALSE]]
        BY <2>4, <4>2, Zenon DEF ReadNothing
      <4> QED
        BY <1>3, <4>3 DEF ConnRecord
    <3>3. ~conn[c].want_close /\ conn[c].outgoing = <<>> /\ Len(conn[c].incoming) < 2
      <4>1. ~conn[c].want_close /\ conn[c].outgoing = <<>>
        BY <1>2, <1>3, <1>7 DEF Settled, ServeRead
      <4>2. conn[c].incoming \in Seq(Nat)
        BY FlowTypes
      <4>3. ~(Len(conn[c].incoming) >= 2)
        BY <1>2, <4>2 DEF Settled, Executable, Rejects
      <4> QED
        BY <4>1, <4>2, <4>3
    <3>4. conn'[c].want_close => Reason(c)'
      BY <3>1, <3>2, <3>2a, <3>3 DEF Reason
    <3> QED
      BY <1>5, <2>1, <2>2, <3>2, <3>4 DEF Streams, WantsForAReason, Live
  <2> QED
    BY <1>2, <1>7, <2>3, <2>4 DEF ServeRead
<1> QED
  BY <1>6, <1>7

\* What has been handed to the socket: all responses when none is left in the
\* buffer, else as many as the socket holds.
LEMMA EmptyFlushes ==
    ASSUME Inv, NEW c \in Clients, Unsent(<<>>, sock[c].tx, got[c], done[c])
    PROVE  Flushed(c)
<1>1. PICK a \in Nat, b \in Nat, d \in Nat, m \in Nat :
          a = Len(got[c]) /\ b = Len(sock[c].tx) /\ d = done[c] /\ m = SndBuf
  BY FlowTypes, LoopAssumption
<1>2. a + b + 0 = d
  BY <1>1, EmptyRun DEF Unsent
<1>3. a + b >= Min2(d, m)
  BY <1>2 DEF Min2
<1> QED
  BY <1>1, <1>3 DEF Flushed

LEMMA FullFlushes ==
    ASSUME NEW g \in Seq(Nat), NEW t \in Seq(Nat), NEW o \in Seq(Nat), NEW d \in Nat,
           Len(t) <= SndBuf, Unsent(o, t, g, d)
    PROVE  Len(g) + (Len(t) + Min2(SndBuf - Len(t), Len(o))) >= Min2(d, SndBuf)
<1>1. PICK a \in Nat, b \in Nat, e \in Nat, m \in Nat :
          a = Len(g) /\ b = Len(t) /\ e = Len(o) /\ m = SndBuf
  BY LoopAssumption
<1>2. b <= m /\ a + b + e = d
  BY <1>1 DEF Unsent
<1>3. a + (b + Min2(m - b, e)) >= Min2(d, m)
  BY <1>2 DEF Min2
<1> QED
  BY <1>1, <1>3

LEMMA TryOneRequestStreams ==
    ASSUME Inv, Streams, TryOneRequest
    PROVE  Streams' /\ \A d \in Live : conn'[d].fd # 0
<1>1. Flows'
  BY TryOneRequestFlows DEF Streams
<1>2. pc = "parse" /\ pc' = "parse" /\ ready' = ready /\ fd2conn' = fd2conn /\ sock' = sock
  BY DEF TryOneRequest, ParseNext
<1>3. ErrorsStay'
  BY <1>2, ErrorsKept DEF Streams
<1>4. PICK c \in Clients : c = Current
  BY <1>2, CurrentFacts DEF Live
<1> DEFINE i == SubSeq(conn[c].incoming, 3, Len(conn[c].incoming))
           o == Append(conn[c].outgoing, Request(conn[c].incoming[1]))
<1>5. conn' = [conn EXCEPT ![c] = [@ EXCEPT !.incoming = i, !.outgoing = o]]
  BY <1>4 DEF TryOneRequest
<1>6. conn \in [Clients -> ConnRecord]
  BY FlowTypes
<1> HIDE DEF i, o
<1>7. \A d \in Clients : conn'[d].fd = conn[d].fd
  BY <1>5, <1>6 DEF ConnRecord
<1> QED
  BY <1>1, <1>2, <1>3, <1>7 DEF Streams, WantsForAReason, Live

LEMMA StopParsingStreams ==
    ASSUME Inv, Streams, StopParsing
    PROVE  Streams' /\ \A d \in Live : conn'[d].fd # 0
<1>1. pc = "parse"
      /\ UNCHANGED <<kernel, sock, now, fd2conn, idle, idle_list, db, done, wake, ready, cur>>
  BY DEF StopParsing
<1>2. PICK c \in Clients : c = Current /\ c \in Live
  BY <1>1, CurrentFacts DEF Live
<1>3. conn \in [Clients -> ConnRecord] /\ ServedMode(c)
  BY <1>1, <1>2, CurrentFacts
<1> DEFINE answers == conn[c].outgoing # <<>>
           rejects == Rejects(c, conn[c].incoming)
<1>4. /\ conn' = [conn EXCEPT ![c] = [@ EXCEPT
                    !.want_close = conn[c].want_close \/ rejects,
                    !.want_read = conn[c].want_read /\ ~answers,
                    !.want_write = conn[c].want_write \/ answers]]
      /\ pc' = IF answers THEN "write" ELSE "close"
  BY <1>2 DEF StopParsing
<1>5. ~conn[c].want_close /\ conn[c].want_read /\ ~conn[c].want_write
  BY <1>1, <1>3 DEF ServedMode
<1>6. rejects \in BOOLEAN /\ answers \in BOOLEAN
  BY DEF Rejects
<1>7. /\ \A d \in Clients : /\ conn'[d].fd = conn[d].fd
                            /\ conn'[d].incoming = conn[d].incoming
                            /\ conn'[d].outgoing = conn[d].outgoing
      /\ conn'[c].want_close <=> rejects
  BY <1>3, <1>4, <1>5, <1>6 DEF ConnRecord
<1>8. Flows'
  BY <1>1, <1>7, FlowsKept DEF Streams
<1>9. ErrorsStay'
  BY <1>1, ErrorsKept DEF Streams
<1>10. conn'[c].want_close => Reason(c)'
  <2>1. SUFFICES ASSUME rejects PROVE Reason(c)'
    BY <1>7
  <2>2. Rejects(c, conn[c].incoming)'
    BY <1>1, <1>7, <2>1 DEF Rejects, Command, kernel
  <2>3. CASE conn[c].outgoing # <<>>
    BY <1>4, <2>2, <2>3 DEF Reason
  <2>4. CASE conn[c].outgoing = <<>> /\ sock[c].err = "none"
    <3>1. Unsent(<<>>, sock[c].tx, got[c], done[c])
      BY <1>2, <2>4 DEF Streams, Flows, Flow
    <3>2. Flushed(c)
      BY <3>1, EmptyFlushes
    <3>3. Flushed(c)'
      BY <1>1, <3>2 DEF Flushed, kernel
    <3> QED
      BY <2>2, <3>3 DEF Reason
  <2>5. CASE sock[c].err # "none"
    BY <1>1, <2>5 DEF Reason
  <2> QED
    BY <2>3, <2>4, <2>5
<1>11. Current' = c
  BY <1>1, <1>2 DEF Current
<1> QED
  BY <1>7, <1>8, <1>9, <1>10, <1>11 DEF Streams, WantsForAReason, Live

LEMMA WriteStreams ==
    ASSUME Inv, Streams, Write
    PROVE  Streams' /\ \A d \in Live : conn'[d].fd # 0
<1>1. pc = "write"
      /\ UNCHANGED <<kernel, now, fd2conn, idle, idle_list, db, done, wake, ready, cur>>
  BY DEF Write
<1>2. PICK c \in Clients : c = Current /\ c \in Live
  BY <1>1, CurrentFacts DEF Live
<1>3. conn \in [Clients -> ConnRecord] /\ sock \in [Clients -> SockRecord] /\ ServedMode(c)
      /\ Len(sock[c].tx) <= SndBuf
  BY <1>1, <1>2, CurrentFacts
<1>4. /\ conn[c].outgoing \in Seq(Nat) /\ sock[c].tx \in Seq(Nat) /\ got[c] \in Seq(Nat)
      /\ done[c] \in Nat
  BY FlowTypes
<1>5. Current' = c
  BY <1>1, <1>2 DEF Current
<1>6. CASE WriteSome(c)
  <2> DEFINE n == Min2(SndBuf - Len(sock[c].tx), Len(conn[c].outgoing))
             rest == SubSeq(conn[c].outgoing, n + 1, Len(conn[c].outgoing))
             sent == sock[c].tx \o SubSeq(conn[c].outgoing, 1, n)
  <2>1. /\ sock' = [sock EXCEPT ![c].tx = sent] /\ pc' = "close" /\ sock[c].err = "none"
        /\ conn' = [conn EXCEPT ![c] = [@ EXCEPT
                      !.outgoing = rest,
                      !.want_read = conn[c].want_read \/ rest = <<>>,
                      !.want_write = conn[c].want_write /\ rest # <<>>]]
    BY <1>6 DEF WriteSome
  <2>2. n \in 0..Len(conn[c].outgoing) /\ n = Min2(SndBuf - Len(sock[c].tx), Len(conn[c].outgoing))
    <3>1. PICK a \in Nat, b \in Nat, m \in Nat :
              a = Len(sock[c].tx) /\ b = Len(conn[c].outgoing) /\ m = SndBuf
      BY <1>4, LoopAssumption
    <3>2. a <= m /\ n = Min2(m - a, b)
      BY <1>3, <3>1
    <3>3. m - a \in Nat
      BY <3>2
    <3>4. n \in Nat /\ n <= b
      BY <3>2, <3>3, Min2Least
    <3> QED
      BY <3>1, <3>4
  <2> HIDE DEF n
  <2>3. Sent(sock[c].tx, got[c], done[c]) /\ Unsent(conn[c].outgoing, sock[c].tx, got[c], done[c])
    BY <1>2, <2>1 DEF Streams, Flows, Flow
  <2>4. /\ Sent(sent, got[c], done[c]) /\ Unsent(rest, sent, got[c], done[c])
        /\ Len(sent) = Len(sock[c].tx) + n
    BY <1>4, <2>2, <2>3, ResponsesWritten
  <2>5. Len(got[c]) + Len(sent) >= Min2(done[c], SndBuf)
    <3>1. Len(got[c]) + (Len(sock[c].tx) + n) >= Min2(done[c], SndBuf)
      BY <1>3, <1>4, <2>2, <2>3, FullFlushes
    <3> QED
      BY <2>4, <3>1
  <2> HIDE DEF rest, sent
  <2>6. /\ conn'[c].incoming = conn[c].incoming /\ conn'[c].outgoing = rest
        /\ conn'[c].fd = conn[c].fd /\ conn'[c].want_close = conn[c].want_close
        /\ sock'[c].tx = sent /\ sock'[c].rx = sock[c].rx /\ sock'[c].err = sock[c].err
        /\ sock'[c].fin = sock[c].fin
        /\ \A d \in Clients : d # c => conn'[d] = conn[d] /\ sock'[d] = sock[d]
    BY <1>3, <2>1 DEF ConnRecord, SockRecord
  <2>7. \A d \in Clients : (Waiting(d)' <=> Waiting(d)) /\ (d \in Live' <=> d \in Live)
    BY <1>1, <2>6 DEF Waiting, Live, kernel
  <2>8. Flow(c)'
    BY <1>1, <2>4, <2>6, <2>7 DEF Streams, Flows, Flow, kernel
  <2>9. ASSUME NEW d \in Clients, d # c PROVE Flow(d)'
    BY <1>1, <2>6, <2>7, <2>9, FlowKept DEF Streams, Flows, kernel
  <2>10. ErrorsStay'
    BY <1>1, <2>6, ErrorsKept DEF Streams
  <2>11. conn'[c].want_close => Reason(c)'
    <3>1. SUFFICES ASSUME conn[c].want_close PROVE Reason(c)'
      BY <2>6
    <3>2. Reason(c)
      BY <1>1, <1>2, <3>1 DEF Streams, WantsForAReason
    <3>3. Rejects(c, conn[c].incoming)
      BY <1>1, <1>3, <2>1, <3>2 DEF Reason, ServedMode
    <3>4. Rejects(c, conn[c].incoming)'
      BY <1>1, <2>6, <3>3 DEF Rejects, Command, kernel
    <3>5. Flushed(c)'
      BY <1>1, <2>5, <2>6 DEF Flushed, kernel
    <3> QED
      BY <3>4, <3>5 DEF Reason
  <2> QED
    BY <1>5, <2>6, <2>8, <2>9, <2>10, <2>11 DEF Streams, Flows, WantsForAReason, Live
<1>7. CASE WriteError(c) \/ WriteKilled(c)
  <2>1. /\ sock' = sock
        /\ \/ pc' = "dead"
           \/ sock[c].err = "reset"
        /\ conn' = conn \/ conn' = [conn EXCEPT ![c].want_close = TRUE]
    BY <1>7 DEF WriteError, WriteKilled
  <2>2. \A d \in Clients : /\ conn'[d].fd = conn[d].fd
                           /\ conn'[d].incoming = conn[d].incoming
                           /\ conn'[d].outgoing = conn[d].outgoing
    <3>1. CASE conn' = [conn EXCEPT ![c].want_close = TRUE]
      <4>1. conn' = [conn EXCEPT ![c] = [conn[c] EXCEPT !.want_close = TRUE]]
        BY <3>1
      <4> QED
        BY <1>3, <4>1 DEF ConnRecord
    <3> QED
      BY <2>1, <3>1
  <2>3. Flows'
    BY <1>1, <2>1, <2>2, FlowsKept DEF Streams
  <2>4. ErrorsStay'
    BY <1>1, <2>1, ErrorsKept DEF Streams
  <2>5. pc' = "dead" \/ Reason(c)'
    BY <2>1 DEF Reason
  <2> QED
    BY <1>5, <2>2, <2>3, <2>4, <2>5 DEF Streams, WantsForAReason, Live
<1> QED
  BY <1>2, <1>6, <1>7 DEF Write

\* The reasons that ClosedForAReason names.
Justified(c) ==
    \/ sock[c].err # "none"
    \/ sock[c].fin /\ sock[c].rx = <<>> /\ conn[c].outgoing = <<>>
       /\ done[c] = nsent[c] \div 2
    \/ Rejects(c, conn[c].incoming)
       /\ Len(got[c]) + Len(sock[c].tx) >= Min2(done[c], SndBuf)
    \/ conn[c].last_active_ms + IdleTimeout <= now

LEMMA CloseStreams ==
    ASSUME Inv, Streams, Close
    PROVE  Streams' /\ \A d \in Live : conn'[d].fd = 0 => Justified(d)
<1>1. /\ pc = "close" /\ cur' = 0 /\ ready' = Served(cur)
      /\ pc' = NextPhase(Served(cur).revents)
      /\ UNCHANGED <<kernel, sock, now, db, done, wake>>
  BY DEF Close
<1>2. PICK c \in Clients : c = Current /\ c \in Live /\ conn[c].fd = cur
  BY <1>1, CurrentFacts DEF Live
<1>3. cur \in Pending(ready.revents)
  BY <1>1, CurrentFacts
<1>4. ready.revents \in [Fds -> SUBSET {"in", "out", "err"}]
      /\ ready \in [listen : BOOLEAN, revents : [Fds -> SUBSET {"in", "out", "err"}],
                    conn : [Fds -> Clients \cup {NoConn}]]
  BY DEF Inv, TypeOK
<1>5. /\ \A f \in Pending(ready'.revents) :
            f \in Pending(ready.revents) /\ f # cur /\ ready'.revents[f] = ready.revents[f]
      /\ pc' \in {"serve", "timers"}
  <2>1. Served(cur) = [ready EXCEPT !.revents = [ready.revents EXCEPT ![cur] = {}],
                                    !.conn = [ready.conn EXCEPT ![cur] = NoConn]]
    BY DEF Served
  <2>2. ready'.revents = [ready.revents EXCEPT ![cur] = {}]
    BY <1>1, <1>4, <2>1
  <2> QED
    BY <1>1, <1>3, <1>4, <2>2 DEF Pending, NextPhase
<1>6. CASE conn[c].want_close \/ "err" \in ready.revents[cur]
  <2>1. Destroy(c)
    BY <1>2, <1>6 DEF Close
  <2>2. /\ Flows' /\ \A d \in Live : d # c => conn'[d].fd # 0
        /\ fd2conn' = [fd2conn EXCEPT ![cur] = NoConn]
    BY <1>1, <1>2, <2>1, DestroyFlows DEF Streams
  <2>3. \A f \in Pending(ready'.revents) : fd2conn'[f] = fd2conn[f]
    BY <1>5, <2>2 DEF Inv, TypeOK, Pending
  <2>4. ErrorsStay'
    BY <1>1, <1>5, <2>3, ErrorsKept DEF Streams
  <2>5. Justified(c)
    <3>1. CASE "err" \in ready.revents[cur]
      BY <1>2, <1>3, <3>1 DEF Streams, ErrorsStay, Current, Justified
    <3>2. CASE conn[c].want_close
      <4>1. Reason(c)
        BY <1>1, <1>2, <3>2 DEF Streams, WantsForAReason
      <4>2. CASE /\ sock[c].fin /\ sock[c].rx = <<>>
                 /\ conn[c].outgoing = <<>> /\ Len(conn[c].incoming) < 2
        <5>1. Unexecuted(conn[c].incoming, sock[c].rx, done[c], nsent[c])
          BY <1>2 DEF Streams, Flows, Flow
        <5>2. /\ conn[c].incoming \in Seq(Nat) /\ sock[c].rx \in Seq(Nat)
              /\ done[c] \in Nat /\ nsent[c] \in Nat
          BY FlowTypes
        <5>3. done[c] = nsent[c] \div 2
          BY <4>2, <5>1, <5>2, UnexecutedIs
        <5> QED
          BY <4>2, <5>3 DEF Justified
      <4>3. CASE Rejects(c, conn[c].incoming) /\ Flushed(c)
        BY <4>3 DEF Justified, Flushed
      <4> QED
        BY <1>1, <4>1, <4>2, <4>3 DEF Reason, Justified
    <3> QED
      BY <1>6, <3>1, <3>2
  <2> QED
    BY <1>5, <2>2, <2>4, <2>5 DEF Streams, WantsForAReason
<1>7. CASE ~(conn[c].want_close \/ "err" \in ready.revents[cur])
  <2>1. UNCHANGED tables
    BY <1>2, <1>7 DEF Close
  <2>2. conn' = conn /\ fd2conn' = fd2conn
    BY <2>1 DEF tables
  <2>3. Streams'
    BY <1>1, <1>5, <2>2, QuietStep
  <2> QED
    BY <2>2, <2>3 DEF Live
<1> QED
  BY <1>6, <1>7

LEMMA TimersStreams ==
    ASSUME Inv, Streams, CloseIdle \/ ExpireKeys
    PROVE  Streams' /\ \A d \in Live : conn'[d].fd = 0 => Justified(d)
<1>1. pc = "timers" /\ pc' \in {"timers", "prepare"}
      /\ UNCHANGED <<kernel, sock, now, done, ready>>
  BY DEF CloseIdle, ExpireKeys
<1>2. Pending(ready.revents) = {}
  BY <1>1 DEF Inv, Phases
<1>3. CASE ExpireKeys
  <2>1. conn' = conn
    BY <1>3 DEF ExpireKeys, tables
  <2> QED
    BY <1>1, <1>2, <2>1, QuietStep DEF Live
<1>4. CASE CloseIdle
  <2>1. PICK c \in Oldest : Overdue(c) /\ Destroy(c)
    BY <1>4 DEF CloseIdle
  <2>2. c \in Live
    BY OldestIsOldest
  <2>3. Flows' /\ \A d \in Live : d # c => conn'[d].fd # 0
    BY <1>1, <2>1, <2>2, DestroyFlows DEF Streams
  <2>4. ErrorsStay'
    BY <1>1, <1>2 DEF ErrorsStay
  <2> QED
    BY <1>1, <2>1, <2>3, <2>4 DEF Streams, WantsForAReason, Justified, Overdue
<1> QED
  BY <1>3, <1>4

-----------------------------------------------------------------------------

LEMMA InitStreams == ASSUME Init PROVE Streams
<1>1. /\ pc = "prepare" /\ Live = {} /\ backlog = <<>>
      /\ \A f \in Fds : ready.revents[f] = {}
  BY DEF Init, Live, NullConn, NoEvents
<1>2. WantsForAReason /\ ErrorsStay
  BY <1>1 DEF WantsForAReason, ErrorsStay, Pending
<1>3. ASSUME NEW c \in Clients PROVE Flow(c)
  <2>1. /\ sock[c] = [rx |-> <<>>, tx |-> <<>>, fin |-> FALSE, err |-> "none"]
        /\ got[c] = <<>> /\ done[c] = 0 /\ nsent[c] = 0
    BY DEF Init
  <2>2. Sent(<<>>, <<>>, 0)
    BY EmptyRun DEF Sent
  <2>3. Unexecuted(<<>>, <<>>, 0, 0)
    BY EmptyRun DEF Unexecuted
  <2> QED
    BY <1>1, <2>1, <2>2, <2>3 DEF Flow
<1> QED
  BY <1>2, <1>3 DEF Streams, Flows

LEMMA NextStreams ==
    ASSUME Inv, Streams, [Next]_vars
    PROVE  Streams' /\ \A d \in Live : conn'[d].fd = 0 => Justified(d)
<1>1. ASSUME NEW c \in Clients, Connect(c) \/ Send(c) \/ Receive(c) \/ Hangup(c) \/ Reset(c)
      PROVE  Streams' /\ conn' = conn
  BY <1>1, EnvironmentStreams
<1>2. CASE Tick
  <2>1. Streams' /\ conn' = conn
    BY <1>2, TickStreams
  <2> QED
    BY <2>1 DEF Live
<1>3. CASE PollEnter \/ PollReturn \/ PollInterrupted
  <2>1. conn' = conn
    BY <1>3 DEF PollEnter, PollReturn, PollInterrupted, tables
  <2> QED
    BY <1>3, <2>1, PollStreams DEF Live
<1>4. CASE Accept \/ AcceptNothing
  BY <1>4, AcceptStreams
<1>5. ASSUME NEW f \in Fds, ServeRead(f) \/ ServeWrite(f)
      PROVE  Streams' /\ \A d \in Live : conn'[d].fd # 0
  BY <1>5, ServeStreams
<1>6. CASE TryOneRequest \/ StopParsing \/ Write
  BY <1>6, TryOneRequestStreams, StopParsingStreams, WriteStreams
<1>7. CASE Close
  BY <1>7, CloseStreams
<1>8. CASE CloseIdle \/ ExpireKeys
  BY <1>8, TimersStreams
<1>9. CASE UNCHANGED vars
  <2>1. UNCHANGED <<server, script, kernel, sock, done, conn>>
    BY <1>9 DEF vars, server, kernel, tables
  <2>2. Flows'
    BY <2>1, FlowsKept DEF Streams
  <2>3. WantsForAReason' /\ ErrorsStay'
    BY <2>1, ReasonsKept DEF Streams, kernel
  <2> QED
    BY <2>1, <2>2, <2>3 DEF Streams, Live
<1>10. \A c \in Live : conn[c].fd # 0
  BY DEF Live
<1> QED
  BY <1>1, <1>2, <1>3, <1>4, <1>5, <1>6, <1>7, <1>8, <1>9, <1>10 DEF Next, ServerStep

\* The inductive invariant of the streams, on top of that of the loop.
THEOREM StreamInvariant == Spec => [](Inv /\ Streams)
<1>1. Init => Inv /\ Streams
  BY InitInv, InitStreams
<1>2. (Inv /\ Streams) /\ [Next]_vars => (Inv /\ Streams)'
  BY NextInv, NextStreams
<1> QED
  BY <1>1, <1>2, PTL DEF Spec

\* No byte of a request and no response is lost, repeated or reordered while a
\* connection is up, and what a client has got is a prefix of its responses.
THEOREM StreamsCorrect == Spec => []StreamsIntact
<1>1. ASSUME Inv, Streams PROVE StreamsIntact
  <2> SUFFICES ASSUME NEW c \in Clients
               PROVE  /\ c \in Live =>
                            conn[c].incoming \o sock[c].rx = Numbers(2 * done[c] + 1, nsent[c])
                      /\ c \in Live /\ client[c] = "open" =>
                            got[c] \o sock[c].tx \o conn[c].outgoing = Numbers(1, done[c])
                      /\ got[c] = Numbers(1, Len(got[c])) /\ Len(got[c]) <= done[c]
    BY DEF StreamsIntact
  <2>1. /\ conn[c].incoming \in Seq(Nat) /\ conn[c].outgoing \in Seq(Nat)
        /\ sock[c].rx \in Seq(Nat) /\ sock[c].tx \in Seq(Nat) /\ got[c] \in Seq(Nat)
        /\ nsent[c] \in Nat /\ done[c] \in Nat
    BY <1>1, FlowTypes
  <2>2. Flow(c)
    BY <1>1 DEF Streams, Flows
  <2>3. ASSUME c \in Live
        PROVE  conn[c].incoming \o sock[c].rx = Numbers(2 * done[c] + 1, nsent[c])
    <3> DEFINE i == conn[c].incoming
               x == sock[c].rx
    <3>1. Unexecuted(i, x, done[c], nsent[c])
      BY <2>2, <2>3 DEF Flow
    <3>2. i \in Seq(Nat) /\ x \in Seq(Nat) /\ done[c] \in Nat /\ nsent[c] \in Nat
      BY <2>1
    <3> HIDE DEF i, x
    <3>3. i \o x = Numbers(2 * done[c] + 1, nsent[c])
      BY <3>1, <3>2, UnexecutedIs
    <3> QED
      BY <3>3 DEF i, x
  <2>4. Sent(sock[c].tx, got[c], done[c])
    BY <2>2 DEF Flow
  <2>5. c \in Live /\ client[c] = "open" => Unsent(conn[c].outgoing, sock[c].tx, got[c], done[c])
    BY <2>2 DEF Flow
  <2>6. got[c] = Numbers(1, Len(got[c])) /\ Len(got[c]) <= done[c]
    BY <2>1, <2>4, ResponsesAre
  <2>7. Unsent(conn[c].outgoing, sock[c].tx, got[c], done[c])
           => got[c] \o sock[c].tx \o conn[c].outgoing = Numbers(1, done[c])
    BY <2>1, <2>4, ResponsesAre
  <2> QED
    BY <2>3, <2>5, <2>6, <2>7
<1> QED
  BY <1>1, StreamInvariant, PTL

\* A connection is closed for a reason only, and its requests are executed, or
\* its responses handed to the socket, before.
THEOREM ReasonsCorrect == Spec => ClosedForAReason
<1>1. ASSUME Inv, Streams, [Next]_vars
      PROVE  [\A c \in Live : conn'[c].fd = 0 =>
                \/ sock[c].err # "none"
                \/ sock[c].fin /\ sock[c].rx = <<>> /\ conn[c].outgoing = <<>>
                   /\ done[c] = nsent[c] \div 2
                \/ Rejects(c, conn[c].incoming)
                   /\ Len(got[c]) + Len(sock[c].tx) >= Min2(done[c], SndBuf)
                \/ conn[c].last_active_ms + IdleTimeout <= now]_vars
  BY <1>1, NextStreams DEF Justified
<1> QED
  BY <1>1, StreamInvariant, PTL DEF ClosedForAReason, Spec
=============================================================================
