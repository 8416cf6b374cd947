------------------------------ MODULE EventLoop ------------------------------
(***************************************************************************)
(* The server's event loop, src/src/server.cpp: poll(), handle_accept(),   *)
(* handle_read(), handle_write(), conn_destroy(), next_timer_ms() and      *)
(* process_timers(), against clients and a kernel that move between any    *)
(* two system calls.                                                       *)
(*                                                                         *)
(* Bytes are abstracted to units.  A request is two units, its length      *)
(* header and its payload; unit u of a client's stream belongs to request  *)
(* (u + 1) \div 2.  A response is one unit, the number of the request it   *)
(* answers.  What a client sends is its script, a sequence of commands.    *)
(* Of the database only what the timers see is kept: which keys exist and  *)
(* when they expire.                                                       *)
(***************************************************************************)
EXTENDS Integers, Sequences, FiniteSets, SequencesExt, DList

CONSTANTS
    Clients,         \* each of them makes at most one connection
    NoConn,          \* the NULL of fd2conn, and of the links of the idle list
    IdleHead,        \* g_data.idle_list, the node that is no connection
    MaxFd,           \* connection descriptors are 1..MaxFd
    Scripts,         \* the command sequences a client may send
    Keys,            \* keys of the commands
    NoTTL,           \* a key without an item in the TTL heap
    ReadMax,         \* units one read() returns at most (64 KB in the code)
    SndBuf,          \* units the kernel's send buffer holds
    IdleTimeout,     \* K_IDLE_TIMEOUT_MS
    MaxWorks,        \* k_max_works of process_timers
    T32,             \* 2^32: the modulus of the cast to int32_t
    SpuriousPoll,    \* BOOLEAN: may poll() report a socket with no data?
    MaxTime          \* bound: the clock stops there

\* What a request asks for: one of the commands that the timers notice, a
\* payload that cannot be parsed, or a length that is not legal.
Commands ==
    [op : {"set", "del", "pexpire", "persist"}, key : Keys, ms : Nat]
    \cup [op : {"bad", "long"}]

ASSUME LoopAssumption ==
    /\ NoConn \notin Clients /\ IdleHead \notin Clients /\ IdleHead # NoConn
    /\ MaxFd \in Nat \ {0} /\ ReadMax \in Nat \ {0} /\ SndBuf \in Nat \ {0}
    /\ IdleTimeout \in Nat /\ MaxWorks \in Nat \ {0} /\ MaxTime \in Nat
    /\ NoTTL \notin Nat
    /\ T32 \in Nat /\ 2 * IdleTimeout < T32
    /\ SpuriousPoll \in BOOLEAN
    /\ Scripts \subseteq Seq(Commands)

VARIABLES
    \* the clients and the kernel (external)
    client,     \* client[c]: "new", "open" or "closed"
    script,     \* script[c]: the commands c sends
    nsent,      \* nsent[c]: units c has sent
    got,        \* got[c]: response units c has received
    sock,       \* sock[c]: receive and send buffer, FIN and RST received
    backlog,    \* connections waiting for accept()
    now,        \* the monotonic clock, in ms
    \* the server
    fd2conn,    \* g_data.fd2conn
    conn,       \* the Conn object of each client
    idle,       \* the links of the nodes of g_data.idle_list
    idle_list,  \* history: the connections in the order of that list
    db,         \* the keys in g_data.db |-> their value in g_data.ttl_heap
    done,       \* history: done[c] requests of c have been executed
    pc,         \* where the loop of main() is
    wake,       \* the time at which poll() gives up, or Forever
    ready,      \* poll's answer: of listenfd, and for each descriptor its
                \* events and (history) the connection it belonged to
    cur         \* the descriptor being served, or 0

kernel == <<client, script, nsent, got, backlog>>
tables == <<fd2conn, conn, idle, idle_list>>
vars == <<client, script, nsent, got, sock, backlog, now, fd2conn, conn,
          idle, idle_list, db, done, pc, wake, ready, cur>>

Forever == -1
Fds == 1..MaxFd
MinOf(S) == CHOOSE m \in S : \A n \in S : m <= n

NullConn == [fd |-> 0, want_read |-> FALSE, want_write |-> FALSE,
             want_close |-> FALSE, incoming |-> <<>>, outgoing |-> <<>>,
             last_active_ms |-> 0]

Nodes == Clients \cup {IdleHead}

NoEvents == [listen |-> FALSE, revents |-> [f \in Fds |-> {}],
             conn |-> [f \in Fds |-> NoConn]]

Live == {c \in Clients : conn[c].fd # 0}

Init ==
    /\ client = [c \in Clients |-> "new"]
    /\ script \in [Clients -> Scripts]
    /\ nsent = [c \in Clients |-> 0]
    /\ got = [c \in Clients |-> <<>>]
    /\ sock = [c \in Clients |->
                  [rx |-> <<>>, tx |-> <<>>, fin |-> FALSE, err |-> "none"]]
    /\ backlog = <<>>
    /\ now = 0
    /\ fd2conn = [f \in Fds |-> NoConn]
    /\ conn = [c \in Clients |-> NullConn]
    /\ idle = dlist_init(Unlinked(Nodes, NoConn), IdleHead)
    /\ idle_list = <<>>
    /\ db = <<>>
    /\ done = [c \in Clients |-> 0]
    /\ pc = "prepare"
    /\ wake = Forever
    /\ ready = NoEvents
    /\ cur = 0

-----------------------------------------------------------------------------
(* Clients, kernel and clock (external).                                   *)

Connect(c) ==
    /\ client[c] = "new"
    /\ client' = [client EXCEPT ![c] = "open"]
    /\ backlog' = Append(backlog, c)
    /\ UNCHANGED <<script, nsent, got, sock, now, tables, db, done, pc, wake, ready, cur>>

\* The connection exists for the client from connect() on; once the server
\* has closed its end the client's data go nowhere.
Send(c) ==
    /\ client[c] = "open"
    /\ nsent[c] < 2 * Len(script[c])
    /\ c \in Live \/ \E i \in 1..Len(backlog) : backlog[i] = c
    /\ nsent' = [nsent EXCEPT ![c] = @ + 1]
    /\ sock' = [sock EXCEPT ![c].rx = Append(@, nsent[c] + 1)]
    /\ UNCHANGED <<client, script, got, backlog, now, tables, db, done, pc, wake, ready, cur>>

Receive(c) ==
    /\ client[c] = "open"
    /\ sock[c].tx # <<>>
    /\ got' = [got EXCEPT ![c] = Append(@, Head(sock[c].tx))]
    /\ sock' = [sock EXCEPT ![c].tx = Tail(@)]
    /\ UNCHANGED <<client, script, nsent, backlog, now, tables, db, done, pc, wake, ready, cur>>

\* close() by the client: FIN, or RST when responses are left unread.
Hangup(c) ==
    /\ client[c] = "open"
    /\ client' = [client EXCEPT ![c] = "closed"]
    /\ sock' = [sock EXCEPT ![c] =
                   IF @.tx = <<>> THEN [@ EXCEPT !.fin = TRUE]
                                  ELSE [@ EXCEPT !.err = "reset", !.tx = <<>>]]
    /\ UNCHANGED <<script, nsent, got, backlog, now, tables, db, done, pc, wake, ready, cur>>

\* The peer's kernel answers data for a closed socket with RST; a socket that
\* had received a FIN then fails with EPIPE, and write() raises SIGPIPE.
Reset(c) ==
    /\ client[c] = "closed" /\ c \in Live
    /\ sock[c].fin /\ sock[c].err = "none" /\ sock[c].tx # <<>>
    /\ sock' = [sock EXCEPT ![c].err = "pipe", ![c].tx = <<>>]
    /\ UNCHANGED <<kernel, now, tables, db, done, pc, wake, ready, cur>>

\* process_timers() reads the clock once: for it, time stands still.
Tick ==
    /\ now < MaxTime
    /\ pc # "timers"
    /\ now' = now + 1
    /\ UNCHANGED <<kernel, sock, tables, db, done, pc, wake, ready, cur>>

-----------------------------------------------------------------------------
(* poll().                                                                 *)

\* The int32_t that the cast of a non-negative 64-bit value gives.
Int32(n) == IF 2 * (n % T32) < T32 THEN n % T32 ELSE (n % T32) - T32

\* The root of g_data.ttl_heap, as a set of at most one value.
HeapRoot ==
    LET vals == {db[k] : k \in DOMAIN db} \ {NoTTL}
    IN  IF vals = {} THEN {} ELSE {MinOf(vals)}

\* The first connection of the idle list, skipping its head, if there is one.
Oldest == IF dlist_empty(idle, IdleHead) THEN {} ELSE {idle.next[IdleHead]}

IdleDeadlines == {conn[c].last_active_ms + IdleTimeout : c \in Oldest}

\* Mutants of NextTimers: one of the two sources is forgotten.
NextTimers_IdleOnly == IdleDeadlines

NextTimers_HeapOnly == HeapRoot

\* The deadlines next_timer_ms() compares: the head of the idle list and the
\* root of the TTL heap.
NextTimers == HeapRoot \cup IdleDeadlines

next_timer_ms ==
    IF NextTimers = {} THEN -1
    ELSE IF MinOf(NextTimers) <= now THEN 0
    ELSE Int32(MinOf(NextTimers) - now)

\* poll_args and the timeout are computed; poll() is entered.  A negative
\* timeout means no timeout.
PollEnter ==
    /\ pc = "prepare"
    /\ wake' = IF next_timer_ms < 0 THEN Forever ELSE now + next_timer_ms
    /\ pc' = "poll"
    /\ UNCHANGED <<kernel, sock, now, tables, db, done, ready, cur>>

Events(c) ==
    LET s == sock[c]
        quiet == s.rx = <<>> /\ ~s.fin /\ s.err = "none"
    IN  (IF conn[c].want_read /\ ~quiet THEN {"in"} ELSE {})
        \cup (IF conn[c].want_write /\ (Len(s.tx) < SndBuf \/ s.err # "none")
              THEN {"out"} ELSE {})
        \cup (IF s.err # "none" THEN {"err"} ELSE {})

\* revents of poll_args, whose connections are those of fd2conn.
PollReturn ==
    /\ pc = "poll"
    /\ \E spurious \in {{}} \cup (IF SpuriousPoll THEN {{c} : c \in Live} ELSE {}) :
          ready' = [listen |-> backlog # <<>>,
                    revents |-> [f \in Fds |->
                       IF fd2conn[f] = NoConn THEN {}
                       ELSE Events(fd2conn[f]) \cup
                            (IF fd2conn[f] \in spurious /\ conn[fd2conn[f]].want_read
                             THEN {"in"} ELSE {})],
                    conn |-> fd2conn]
    /\ \/ ready'.listen
       \/ \E f \in Fds : ready'.revents[f] # {}
       \/ wake # Forever /\ wake <= now
    /\ pc' = "accept"
    /\ UNCHANGED <<kernel, sock, now, tables, db, done, wake, cur>>

\* EINTR: the loop starts over.
PollInterrupted ==
    /\ pc = "poll"
    /\ pc' = "prepare"
    /\ UNCHANGED <<kernel, sock, now, tables, db, done, wake, ready, cur>>

-----------------------------------------------------------------------------
(* handle_accept().                                                        *)

FreeFds == {f \in Fds : fd2conn[f] = NoConn}

\* The descriptors that poll() has reported and that are not served yet.
Pending(revents) == {f \in Fds : revents[f] # {}}

\* Mutant of NextPhase: `i <= poll_args.size()`.
NextPhase_OneTooMany(revents) == "serve"

NextPhase(revents) == IF Pending(revents) = {} THEN "timers" ELSE "serve"

Served(f) == [ready EXCEPT !.revents[f] = {}, !.conn[f] = NoConn]

\* accept() gives the oldest connection the lowest free descriptor.
Accept ==
    /\ pc = "accept" /\ ready.listen /\ backlog # <<>>
    /\ \E f \in FreeFds :
          /\ \A g \in FreeFds : f <= g
          /\ LET c == Head(backlog)
             IN  /\ fd2conn' = [fd2conn EXCEPT ![f] = c]
                 /\ conn' = [conn EXCEPT ![c] = [NullConn EXCEPT
                                !.fd = f, !.want_read = TRUE, !.last_active_ms = now]]
                 /\ idle' = dlist_insert_before(idle, IdleHead, c)
                 /\ idle_list' = Append(idle_list, c)
    /\ backlog' = Tail(backlog)
    /\ ready' = [ready EXCEPT !.listen = FALSE]
    /\ pc' = NextPhase(ready.revents)
    /\ UNCHANGED <<client, script, nsent, got, sock, now, db, done, wake, cur>>

\* Nobody has connected; or accept() fails, for want of descriptors or for
\* other reasons, and the connection stays in the backlog.
AcceptNothing ==
    /\ pc = "accept"
    /\ ready' = [ready EXCEPT !.listen = FALSE]
    /\ pc' = NextPhase(ready.revents)
    /\ UNCHANGED <<kernel, sock, now, tables, db, done, wake, cur>>

-----------------------------------------------------------------------------
(* Serving the ready connections, in the order of poll_args.               *)

Min2(m, n) == IF m < n THEN m ELSE n

Request(unit) == (unit + 1) \div 2

Command(c, unit) == script[c][Request(unit)]

\* The connection that fd2conn gives for the descriptor being served.
Current == fd2conn[cur]

\* Mutant of Restart: activity does not move the connection in the list.
Restart_InPlace(c) == UNCHANGED <<idle, idle_list>>

\* The idle timer of the connection starts again: to the end of the list.
Restart(c) ==
    /\ idle' = dlist_insert_before(dlist_detach(idle, c), IdleHead, c)
    /\ idle_list' = Append(RemoveFirst(idle_list, c), c)

\* What a command does to the keys and their timers (exec.cpp).
Exec(keys, cmd) ==
    CASE cmd.op = "set"     -> [k \in DOMAIN keys \cup {cmd.key} |->
                                   IF k \in DOMAIN keys THEN keys[k] ELSE NoTTL]
      [] cmd.op = "del"     -> [k \in DOMAIN keys \ {cmd.key} |-> keys[k]]
      [] cmd.op = "pexpire" -> [k \in DOMAIN keys |->
                                   IF k = cmd.key THEN now + cmd.ms ELSE keys[k]]
      [] cmd.op = "persist" -> [k \in DOMAIN keys |->
                                   IF k = cmd.key THEN NoTTL ELSE keys[k]]

\* A request is executed when it is complete, its length is legal and its
\* payload can be parsed.
Executable(c, units) ==
    /\ Len(units) >= 2
    /\ Command(c, units[1]).op \notin {"bad", "long"}

\* The connection is given up if what is left starts with an illegal length,
\* or is a complete request that cannot be parsed.
Rejects(c, units) ==
    \/ units # <<>> /\ Command(c, units[1]).op = "long"
    \/ Len(units) >= 2 /\ Command(c, units[1]).op = "bad"

\* Mutant of ReadNothing: EAGAIN is treated as any other error.
ReadNothing_AnyError(c) ==
    /\ sock[c].rx = <<>>
    /\ conn' = [conn EXCEPT ![c].last_active_ms = now, ![c].want_close = TRUE]
    /\ pc' = "close"
    /\ UNCHANGED sock

\* handle_read() without data: end of file and errors close the connection,
\* EAGAIN does not.
ReadNothing(c) ==
    /\ sock[c].rx = <<>>
    /\ conn' = [conn EXCEPT ![c] = [@ EXCEPT
                   !.last_active_ms = now,
                   !.want_close = conn[c].want_close \/ sock[c].fin \/ sock[c].err # "none"]]
    /\ pc' = "close"
    /\ UNCHANGED sock

\* handle_read() with data.
ReadData(c) ==
    LET n == Min2(ReadMax, Len(sock[c].rx))
    IN  /\ sock[c].rx # <<>>
        /\ conn' = [conn EXCEPT ![c] = [@ EXCEPT
                       !.last_active_ms = now,
                       !.incoming = conn[c].incoming \o SubSeq(sock[c].rx, 1, n)]]
        /\ sock' = [sock EXCEPT ![c].rx = SubSeq(@, n + 1, Len(@))]
        /\ pc' = "parse"

\* The next descriptor of poll_args that poll() has reported.
Serve(f) ==
    /\ pc = "serve"
    /\ f \in Pending(ready.revents) /\ \A g \in Pending(ready.revents) : f <= g
    /\ cur' = f
    /\ Restart(fd2conn[f])
    /\ UNCHANGED <<kernel, now, fd2conn, db, done, wake, ready>>

ServeRead(f) ==
    /\ Serve(f)
    /\ "in" \in ready.revents[f]
    /\ ReadData(fd2conn[f]) \/ ReadNothing(fd2conn[f])

ServeWrite(f) ==
    /\ Serve(f)
    /\ "in" \notin ready.revents[f]
    /\ conn' = [conn EXCEPT ![fd2conn[f]].last_active_ms = now]
    /\ pc' = IF "out" \in ready.revents[f] THEN "write" ELSE "close"
    /\ UNCHANGED sock

\* Mutant of ParseNext: `if` instead of `while`.
ParseNext_Once(c) == IF conn[c].outgoing # <<>> THEN "write" ELSE "close"

\* `while (try_one_request(conn));`
ParseNext(c) == "parse"

\* try_one_request(): the request is executed, its response begins behind
\* those of the requests before it.
TryOneRequest ==
    LET c == Current
        units == conn[c].incoming
    IN  /\ pc = "parse" /\ Executable(c, units)
        /\ db' = Exec(db, Command(c, units[1]))
        /\ done' = [done EXCEPT ![c] = @ + 1]
        /\ conn' = [conn EXCEPT ![c] = [@ EXCEPT
                       !.incoming = SubSeq(units, 3, Len(units)),
                       !.outgoing = Append(conn[c].outgoing, Request(units[1]))]]
        /\ pc' = ParseNext(c)
        /\ UNCHANGED <<kernel, sock, now, fd2conn, idle, idle_list, wake, ready, cur>>

\* No executable request is left; a response is tried without waiting for
\* poll() to report the socket writable.
StopParsing ==
    LET c == Current
        answers == conn[c].outgoing # <<>>
    IN  /\ pc = "parse" /\ ~Executable(c, conn[c].incoming)
        /\ conn' = [conn EXCEPT ![c] = [@ EXCEPT
                       !.want_close = conn[c].want_close \/ Rejects(c, conn[c].incoming),
                       !.want_read = conn[c].want_read /\ ~answers,
                       !.want_write = conn[c].want_write \/ answers]]
        /\ pc' = IF answers THEN "write" ELSE "close"
        /\ UNCHANGED <<kernel, sock, now, fd2conn, idle, idle_list, db, done, wake, ready, cur>>

\* Mutants of WriteSome: a short write is taken for a complete one; the
\* intention to write survives the last byte; one write() is all there is.
WriteSome_DropsRest(c) ==
    LET n == Min2(SndBuf - Len(sock[c].tx), Len(conn[c].outgoing))
    IN  /\ sock[c].err = "none"
        /\ sock' = [sock EXCEPT ![c].tx = @ \o SubSeq(conn[c].outgoing, 1, n)]
        /\ conn' = [conn EXCEPT ![c].outgoing = <<>>, ![c].want_read = TRUE,
                                ![c].want_write = FALSE]
        /\ pc' = "close"

WriteSome_StaysWriting(c) ==
    LET n == Min2(SndBuf - Len(sock[c].tx), Len(conn[c].outgoing))
        rest == SubSeq(conn[c].outgoing, n + 1, Len(conn[c].outgoing))
    IN  /\ sock[c].err = "none"
        /\ sock' = [sock EXCEPT ![c].tx = @ \o SubSeq(conn[c].outgoing, 1, n)]
        /\ conn' = [conn EXCEPT ![c].outgoing = rest,
                                ![c].want_read = @ \/ rest = <<>>]
        /\ pc' = "close"

WriteSome_Once(c) ==
    LET n == Min2(SndBuf - Len(sock[c].tx), Len(conn[c].outgoing))
        rest == SubSeq(conn[c].outgoing, n + 1, Len(conn[c].outgoing))
    IN  /\ sock[c].err = "none"
        /\ sock' = [sock EXCEPT ![c].tx = @ \o SubSeq(conn[c].outgoing, 1, n)]
        /\ conn' = [conn EXCEPT ![c].outgoing = rest, ![c].want_read = TRUE,
                                ![c].want_write = FALSE]
        /\ pc' = "close"

\* handle_write(): what fits into the kernel's buffer is sent.
WriteSome(c) ==
    LET n == Min2(SndBuf - Len(sock[c].tx), Len(conn[c].outgoing))
        rest == SubSeq(conn[c].outgoing, n + 1, Len(conn[c].outgoing))
    IN  /\ sock[c].err = "none"
        /\ sock' = [sock EXCEPT ![c].tx = @ \o SubSeq(conn[c].outgoing, 1, n)]
        /\ conn' = [conn EXCEPT ![c] = [@ EXCEPT
                       !.outgoing = rest,
                       !.want_read = conn[c].want_read \/ rest = <<>>,
                       !.want_write = conn[c].want_write /\ rest # <<>>]]
        /\ pc' = "close"

WriteError(c) ==
    /\ sock[c].err = "reset"
    /\ conn' = [conn EXCEPT ![c].want_close = TRUE]
    /\ pc' = "close"
    /\ UNCHANGED sock

\* SIGPIPE has its default action: the process ends.
WriteKilled(c) ==
    /\ sock[c].err = "pipe"
    /\ pc' = "dead"
    /\ UNCHANGED <<conn, sock>>

Write ==
    /\ pc = "write"
    /\ WriteSome(Current) \/ WriteError(Current) \/ WriteKilled(Current)
    /\ UNCHANGED <<kernel, now, fd2conn, idle, idle_list, db, done, wake, ready, cur>>

\* conn_destroy(): the node of the connection is gone with it.
Destroy(c) ==
    /\ fd2conn' = [fd2conn EXCEPT ![conn[c].fd] = NoConn]
    /\ conn' = [conn EXCEPT ![c] = NullConn]
    /\ idle' = LET l == dlist_detach(idle, c)
               IN  [prev |-> [l.prev EXCEPT ![c] = NoConn],
                    next |-> [l.next EXCEPT ![c] = NoConn]]
    /\ idle_list' = RemoveFirst(idle_list, c)

\* The end of the loop body: close on error or server intention.
Close ==
    /\ pc = "close"
    /\ IF conn[Current].want_close \/ "err" \in ready.revents[cur]
       THEN Destroy(Current)
       ELSE UNCHANGED tables
    /\ ready' = Served(cur)
    /\ cur' = 0
    /\ pc' = NextPhase(Served(cur).revents)
    /\ UNCHANGED <<kernel, sock, now, db, done, wake>>

-----------------------------------------------------------------------------
(* process_timers().                                                       *)

Overdue(c) == conn[c].last_active_ms + IdleTimeout <= now

\* The loop takes the first connection of the list while it is overdue.
CloseIdle ==
    /\ pc = "timers"
    /\ \E c \in Oldest : Overdue(c) /\ Destroy(c)
    /\ UNCHANGED <<kernel, sock, now, db, done, pc, wake, ready, cur>>

Expired == {k \in DOMAIN db : db[k] # NoTTL /\ db[k] < now}

\* Keys leave in the order of their deadlines, at most MaxWorks at a time;
\* the heap's choice among equal deadlines is left open.
ExpireKeys ==
    /\ pc = "timers"
    /\ \A c \in Oldest : ~Overdue(c)
    /\ \E removed \in SUBSET Expired :
          /\ Cardinality(removed) = Min2(MaxWorks, Cardinality(Expired))
          /\ \A k \in removed, l \in Expired \ removed : db[k] <= db[l]
          /\ db' = [k \in DOMAIN db \ removed |-> db[k]]
    /\ pc' = "prepare"
    /\ UNCHANGED <<kernel, sock, now, tables, done, wake, ready, cur>>

-----------------------------------------------------------------------------

ServerStep ==
    \/ PollEnter \/ PollReturn \/ Accept \/ AcceptNothing
    \/ \E f \in Fds : ServeRead(f) \/ ServeWrite(f)
    \/ TryOneRequest \/ StopParsing \/ Write \/ Close
    \/ CloseIdle \/ ExpireKeys

Next ==
    \/ \E c \in Clients : Connect(c) \/ Send(c) \/ Receive(c) \/ Hangup(c) \/ Reset(c)
    \/ Tick
    \/ ServerStep
    \/ PollInterrupted

Spec == Init /\ [][Next]_vars

\* The server's thread runs; signals do not interrupt every poll(); time
\* passes (up to MaxTime) although Tick is not enabled at every step of a busy
\* loop; a client reads the responses that have arrived, and
\* the kernel of one that has closed its socket answers them with RST.
\* Nobody has to connect, send or hang up.
FairSpec ==
    /\ Spec
    /\ WF_vars(ServerStep)
    /\ SF_vars(PollReturn)
    /\ SF_vars(Tick)
    /\ \A c \in Clients : WF_vars(Receive(c)) /\ WF_vars(Reset(c))

-----------------------------------------------------------------------------
(* Properties.                                                             *)

TypeOK ==
    /\ client \in [Clients -> {"new", "open", "closed"}]
    /\ script \in [Clients -> Scripts]
    /\ nsent \in [Clients -> Nat] /\ done \in [Clients -> Nat]
    /\ got \in [Clients -> Seq(Nat)]
    /\ sock \in [Clients -> [rx : Seq(Nat), tx : Seq(Nat), fin : BOOLEAN,
                             err : {"none", "reset", "pipe"}]]
    /\ backlog \in Seq(Clients) /\ idle_list \in Seq(Clients)
    /\ now \in 0..MaxTime
    /\ fd2conn \in [Fds -> Clients \cup {NoConn}]
    /\ conn \in [Clients -> [fd : {0} \cup Fds,
                    want_read : BOOLEAN, want_write : BOOLEAN, want_close : BOOLEAN,
                    incoming : Seq(Nat), outgoing : Seq(Nat), last_active_ms : Nat]]
    /\ DOMAIN db \subseteq Keys /\ \A k \in DOMAIN db : db[k] \in Nat \cup {NoTTL}
    /\ idle \in [prev : [Nodes -> Nodes \cup {NoConn}], next : [Nodes -> Nodes \cup {NoConn}]]
    /\ pc \in {"prepare", "poll", "accept", "serve", "parse", "write", "close", "timers", "dead"}
    /\ wake \in Nat \cup {Forever}
    /\ ready \in [listen : BOOLEAN, revents : [Fds -> SUBSET {"in", "out", "err"}],
                  conn : [Fds -> Clients \cup {NoConn}]]
    /\ cur \in {0} \cup Fds
    /\ pc = "serve" => Pending(ready.revents) # {}
    /\ pc \in {"parse", "write", "close"} => cur \in Pending(ready.revents)

\* An answer of poll() is used for the connection it was given for, though a
\* connection is accepted, in a descriptor that another may have had, and others
\* are served and destroyed between poll() and the handling of the answer; and
\* the three assertions of the loop (server.cpp:69, 446 and 451) hold.
AnswersStayValid ==
    /\ \A f \in Pending(ready.revents) :
          LET c == ready.conn[f]
          IN  /\ fd2conn[f] = c /\ c \in Live /\ conn[c].fd = f
              /\ cur # f /\ "in" \in ready.revents[f] => conn[c].want_read
              /\ cur # f /\ "out" \in ready.revents[f] => conn[c].want_write
    /\ pc = "write" => conn[Current].outgoing # <<>>

\* The tables agree: a descriptor belongs to one connection, and the idle
\* list - its links as well as the order they stand for - has every live
\* connection once, the one that has been idle longest first, which is what
\* lets next_timer_ms() and process_timers() look at its first one only.
TablesAgree ==
    /\ \A f \in Fds, c \in Clients : fd2conn[f] = c <=> conn[c].fd = f
    /\ IsInjective(idle_list) /\ Range(idle_list) = Live
    /\ Represents(idle, IdleHead, idle_list)
    /\ \A i, j \in 1..Len(idle_list) :
          i < j => conn[idle_list[i]].last_active_ms <= conn[idle_list[j]].last_active_ms

Numbers(m, n) == [i \in 1..(n + 1 - m) |-> m + i - 1]

\* Nothing is lost, repeated or reordered on a connection while it is up: the
\* requests executed, the bytes buffered by the server and those in the
\* socket are exactly what the client has sent, and the responses received,
\* in flight and buffered are those of the executed requests, in order.  A
\* connection that has been cut down has given a prefix of them.
StreamsIntact ==
    \A c \in Clients :
        /\ c \in Live =>
              conn[c].incoming \o sock[c].rx = Numbers(2 * done[c] + 1, nsent[c])
        /\ c \in Live /\ client[c] = "open" =>
              got[c] \o sock[c].tx \o conn[c].outgoing = Numbers(1, done[c])
        /\ got[c] = Numbers(1, Len(got[c])) /\ Len(got[c]) <= done[c]

\* Whenever the server goes to sleep it waits, on each connection, for the one
\* thing that makes progress: for room if responses are left to be sent, else
\* for data - and then it has no executable request left in its buffer, for
\* which no event would ever come.
WaitsForTheRightThing ==
    pc = "poll" =>
        \A c \in Live :
            /\ conn[c].want_write <=> conn[c].outgoing # <<>>
            /\ conn[c].want_read <=> conn[c].outgoing = <<>>
            /\ ~conn[c].want_close
            /\ ~Executable(c, conn[c].incoming)
            /\ ~Rejects(c, conn[c].incoming)

\* All deadlines, of connections and of keys.
Deadlines ==
    {conn[c].last_active_ms + IdleTimeout : c \in Live}
    \cup ({db[k] : k \in DOMAIN db} \ {NoTTL})

\* poll() does not sleep past any deadline, nor does it wake up without one:
\* it gives up at the earliest of them all, or at once if that has passed.
SleepsUntilDeadline ==
    pc = "poll" =>
        IF Deadlines = {} THEN wake = Forever
        ELSE \/ wake = MinOf(Deadlines)
             \/ MinOf(Deadlines) < wake /\ wake <= now

\* A connection goes away for a reason only: its peer has left, it has sent
\* something that cannot be executed, or it has been idle for the whole
\* timeout.  None of its requests that could be executed is left behind when
\* the peer has left in an orderly way; and before a connection is given up
\* for what it has sent, the responses to the good requests have been handed
\* to the kernel, as many as it had room for.
ClosedForAReason ==
    [][\A c \in Live :
          conn'[c].fd = 0 =>
              \/ sock[c].err # "none"
              \/ sock[c].fin /\ sock[c].rx = <<>> /\ conn[c].outgoing = <<>>
                 /\ done[c] = nsent[c] \div 2
              \/ Rejects(c, conn[c].incoming)
                 /\ Len(got[c]) + Len(sock[c].tx) >= Min2(done[c], SndBuf)
              \/ conn[c].last_active_ms + IdleTimeout <= now]_vars

\* process_timers() looks at the first connection of the idle list only. Yet,
\* whatever connections came, were active and went before, each one that it
\* closes has been idle for as long as any other, and when it is done with the
\* list no connection is left whose time is over, wherever in the list it is.
IdlestTimeOut ==
    [][pc = "timers" =>
          /\ \A c, d \in Live :
                conn'[c].fd = 0 => conn[c].last_active_ms <= conn[d].last_active_ms
          /\ pc' # "timers" =>
                \A c \in Live : conn[c].last_active_ms + IdleTimeout > now]_vars

\* A complete, legal request of a client that stays is executed, unless the
\* connection is cut down.
RequestsExecuted ==
    \A c \in Clients, i \in 1..2 :
        c \in Live /\ nsent[c] >= 2 * i
            ~> done[c] >= i \/ c \notin Live \/ pc = "dead"

\* The answer to an executed request reaches a client that reads.
ResponsesArrive ==
    \A c \in Clients, i \in 1..2 :
        c \in Live /\ done[c] >= i
            ~> Len(got[c]) >= i \/ c \notin Live \/ client[c] = "closed" \/ pc = "dead"

\* A connection whose peer falls silent, or hangs up, is given up.
SilentConnsClosed ==
    \A c \in Clients :
        c \in Live /\ (client[c] = "closed" \/ conn[c].last_active_ms + IdleTimeout <= MaxTime)
            ~> \/ c \notin Live \/ pc = "dead"
               \/ client[c] # "closed" /\ conn[c].last_active_ms + IdleTimeout > MaxTime

\* A key whose time has come is removed, unless a command sets it another.
ExpiredKeysRemoved ==
    \A k \in Keys :
        k \in DOMAIN db /\ db[k] # NoTTL /\ db[k] < MaxTime
            ~> k \notin DOMAIN db \/ db[k] = NoTTL \/ db[k] >= MaxTime \/ pc = "dead"

\* `return -1 if for 'no timeout'` (server.cpp:291): poll() sleeps without a
\* timeout only when there is no timer.
NoTimeoutMeansNoTimer == pc = "poll" /\ wake = Forever => Deadlines = {}

\* "close connfd on error or server intention" (server.cpp:455): an error of
\* one connection ends that connection, not the server.
ServerSurvives == pc # "dead"
=============================================================================
