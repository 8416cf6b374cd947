----------------------------- MODULE Connection ------------------------------
(***************************************************************************)
(* One conversation, byte by byte: the client of src/src/client.cpp, with  *)
(* the loops readn() and writen() of common.cpp, against the framing of    *)
(* the server (server.cpp: handle_read(), try_one_request(),               *)
(* response_begin(), response_end(), handle_write()), over two sockets     *)
(* that take and give as many bytes as they like, with the buffers of both *)
(* sides.                                                                  *)
(***************************************************************************)
EXTENDS Wire

CONSTANTS
    ReadMax,     \* bytes one read() of the server returns at most, 64 KB
    SockCap,     \* bytes a socket holds
    Commands,    \* commands, those that are too long to be sent included
    Replies,     \* what they output, before response_end()
    MaxAhead,    \* requests a client may send before it reads; client.cpp: 1
    Rounds,      \* bound: requests in a behaviour
    Signals      \* bound: signals that interrupt a read() of the client

Values == [type : {"nil", "int", "dbl"}] \cup [type : {"str", "err"}, len : Nat]
             \cup [type : {"keys", "pairs"}, names : Seq(Nat)]

ASSUME ConnectionAssumption ==
    /\ {ReadMax, SockCap, MaxAhead} \subseteq Nat \ {0}
    /\ Commands \subseteq Seq(Nat) \ {<<>>}
    /\ Replies \subseteq Values
    /\ {Rounds, Signals} \subseteq Nat

VARIABLES
    \* the client
    ahead,      \* how many requests this client sends before it reads
    cpc,        \* where it is
    asked,      \* requests it has begun
    awaited,    \* responses it still expects
    wbuf,       \* bytes that writen() has to write
    rbuf,       \* the Buffer of read_res()
    need,       \* bytes that readn() has to read
    errno,
    signals,    \* bound: signals so far
    shown,      \* history: the last command that ended, and the response
                \* printed; none for one that was never sent
    \* the two directions of the socket
    up, down,
    end,        \* what ends `down`: "open", "fin" or "rst"
    \* the server
    spc,        \* where it is with this connection
    incoming, outgoing,     \* the Buffers of the Conn
    want_write,             \* and its intentions: want_read is ~want_write
    want_close

client == <<ahead, cpc, asked, awaited, wbuf, rbuf, need, errno, signals, shown>>
socket == <<up, down, end>>
server == <<spc, incoming, outgoing, want_write, want_close>>
vars == <<client, socket, server>>

Min2(m, n) == IF m < n THEN m ELSE n

Init ==
    /\ ahead \in 1..MaxAhead
    /\ cpc = "prompt" /\ asked = 0 /\ awaited = 0
    /\ wbuf = <<>> /\ rbuf = NewBuffer /\ need = 0
    /\ errno = "none" /\ signals = 0 /\ shown = [of |-> 0, bytes |-> <<>>]
    /\ up = <<>> /\ down = <<>> /\ end = "open"
    /\ spc = "poll" /\ incoming = NewBuffer /\ outgoing = NewBuffer
    /\ want_write = FALSE /\ want_close = FALSE

-----------------------------------------------------------------------------
(* The client.  client_tx() fails by going back to the prompt.             *)

Fail ==
    /\ cpc' = "prompt"
    /\ awaited' = 0
    /\ wbuf' = <<>> /\ rbuf' = NewBuffer /\ need' = 0

\* send_req(): the request is built.  client.cpp does so at the prompt only,
\* and with the right number of strings; other clients may go on before they
\* read, and may be wrong.
Ask(cmd, nstr) ==
    /\ cpc = "prompt" \/ (cpc = "sent" /\ awaited < ahead)
    /\ asked < Rounds
    /\ RequestSize(cmd) <= MaxMsg
    /\ asked' = asked + 1
    /\ awaited' = awaited + 1
    /\ wbuf' = Request(asked + 1, cmd, nstr).data
    /\ cpc' = "send"
    /\ UNCHANGED <<ahead, rbuf, need, errno, signals, shown, socket, server>>

\* send_req() gives up on a command that is too long before it sends a byte.
AskTooMuch(cmd) ==
    /\ cpc = "prompt"
    /\ asked < Rounds
    /\ RequestSize(cmd) > MaxMsg
    /\ asked' = asked + 1
    /\ shown' = [of |-> asked + 1, bytes |-> <<>>]
    /\ UNCHANGED <<ahead, cpc, awaited, wbuf, rbuf, need, errno, signals, socket, server>>

\* One write() of writen(); to a socket the server has closed it succeeds once.
SendSome ==
    /\ cpc = "send" /\ end # "rst"
    /\ \E n \in 1..Len(wbuf) :
          /\ wbuf' = SubSeq(wbuf, n + 1, Len(wbuf))
          /\ IF end = "open"
             THEN /\ Len(up) + n <= SockCap
                  /\ up' = up \o SubSeq(wbuf, 1, n)
                  /\ UNCHANGED <<down, end>>
             ELSE /\ end' = "rst" /\ down' = <<>>
                  /\ UNCHANGED up
    /\ cpc' = IF wbuf' = <<>> THEN "sent" ELSE "send"
    /\ UNCHANGED <<ahead, asked, awaited, rbuf, need, errno, signals, shown, server>>

\* write() fails and send_req() with it - or SIGPIPE ends the client.
SendFails ==
    /\ cpc = "send" /\ end = "rst"
    /\ Fail \/ (cpc' = "killed" /\ UNCHANGED <<awaited, wbuf, rbuf, need>>)
    /\ UNCHANGED <<ahead, asked, errno, signals, shown, socket, server>>

\* read_res() begins: room for the header.
ReadHeader ==
    /\ cpc = "sent" /\ awaited > 0
    /\ cpc' = "header"
    /\ rbuf' = BufResize(NewBuffer, U32)
    /\ need' = U32
    /\ errno' = "none"
    /\ UNCHANGED <<ahead, asked, awaited, wbuf, signals, shown, socket, server>>

Reading == cpc \in {"header", "payload"} /\ need > 0

\* One read() of readn(): the bytes go where the rest of the buffer begins.
ReadSome ==
    /\ Reading /\ down # <<>>
    /\ LET n == Min2(need, Len(down))
           at == size(rbuf) - need
       IN  /\ rbuf' = [rbuf EXCEPT !.data =
                          SubSeq(@, 1, at) \o SubSeq(down, 1, n) \o SubSeq(@, at + n + 1, Len(@))]
           /\ down' = SubSeq(down, n + 1, Len(down))
           /\ need' = need - n
    /\ UNCHANGED <<ahead, cpc, asked, awaited, wbuf, errno, signals, shown, up, end, server>>

\* readn() goes on after a signal ...
ReadInterrupted ==
    /\ Reading /\ down = <<>> /\ signals < Signals
    /\ errno' = "EINTR"
    /\ signals' = signals + 1
    /\ UNCHANGED <<ahead, cpc, asked, awaited, wbuf, rbuf, need, shown, socket, server>>

\* ... and, since end of file leaves errno as it is, also at end of file when
\* a signal came before; else read_res() fails.
ReadEOF ==
    /\ Reading /\ down = <<>> /\ end = "fin"
    /\ errno # "EINTR"
    /\ Fail
    /\ UNCHANGED <<ahead, asked, errno, signals, shown, socket, server>>

ReadError ==
    /\ Reading /\ end = "rst"
    /\ errno' = "other"
    /\ Fail
    /\ UNCHANGED <<ahead, asked, signals, shown, socket, server>>

\* The header is there: is the length legal, then room for the payload.
ReadPayload ==
    /\ cpc = "header" /\ need = 0
    /\ LET len == U32At(rbuf.data, 0)
       IN  IF len > MaxMsg THEN Fail
           ELSE /\ cpc' = "payload"
                /\ rbuf' = BufResize(rbuf, U32 + len)
                /\ need' = len
                /\ UNCHANGED <<awaited, wbuf>>
    /\ UNCHANGED <<ahead, asked, errno, signals, shown, socket, server>>

\* print_res(), which must consume the payload, neither more nor less; then
\* the prompt, or the next response.
PrintResponse ==
    /\ cpc = "payload" /\ need = 0
    /\ LET payload == SubSeq(rbuf.data, U32 + 1, size(rbuf))
       IN  IF print_res(payload) # Len(payload) THEN Fail /\ UNCHANGED shown
           ELSE /\ shown' = [of |-> asked - awaited + 1, bytes |-> payload]
                /\ awaited' = awaited - 1
                /\ cpc' = IF awaited > 1 THEN "sent" ELSE "prompt"
                /\ rbuf' = NewBuffer
                /\ UNCHANGED <<wbuf, need>>
    /\ UNCHANGED <<ahead, asked, errno, signals, socket, server>>

-----------------------------------------------------------------------------
(* The server.                                                             *)

\* handle_read(): what is in the socket is appended - if it can be.
ServerRead ==
    /\ spc = "poll" /\ ~want_write /\ up # <<>>
    /\ LET n == Min2(ReadMax, Len(up))
       IN  /\ incoming' = BufAppend(incoming, SubSeq(up, 1, n))
           /\ up' = SubSeq(up, n + 1, Len(up))
    /\ spc' = IF Fits(incoming') THEN "parse" ELSE "undefined"
    /\ UNCHANGED <<client, down, end, outgoing, want_write, want_close>>

len == U32At(incoming.data, 0)

HasHeader == size(incoming) >= U32

Complete == HasHeader /\ len <= MaxMsg /\ U32 + len <= size(incoming)

Payload == SubSeq(incoming.data, U32 + 1, U32 + len)

\* try_one_request(), whatever exec_cmd() answers.
TryOneRequest ==
    /\ spc = "parse" /\ Complete /\ parse_req(Payload)
    /\ \E r \in Replies :
          LET k == Payload[1][1]
          IN  outgoing' = response_end(Output(response_begin(outgoing, k), k, r), size(outgoing), k)
    /\ incoming' = BufConsume(incoming, U32 + len)
    /\ spc' = IF Fits(outgoing') THEN "parse" ELSE "undefined"
    /\ UNCHANGED <<client, socket, want_write, want_close>>

\* try_one_request() returns false: for want of bytes, or for good.
StopParsing ==
    /\ spc = "parse" /\ ~(Complete /\ parse_req(Payload))
    /\ want_close' = (Complete \/ (HasHeader /\ len > MaxMsg))
    /\ want_write' = (size(outgoing) > 0)
    /\ spc' = IF size(outgoing) > 0 THEN "write" ELSE IF want_close' THEN "close" ELSE "poll"
    /\ UNCHANGED <<client, socket, incoming, outgoing>>

\* poll() reports room for a response.
ServerPollOut ==
    /\ spc = "poll" /\ want_write /\ Len(down) < SockCap
    /\ spc' = "write"
    /\ UNCHANGED <<client, socket, incoming, outgoing, want_write, want_close>>

\* Mutant of ServerWrite: one write() is all there is.
ServerWrite_Once ==
    /\ spc = "write"
    /\ LET n == Min2(SockCap - Len(down), size(outgoing))
       IN  /\ down' = down \o SubSeq(outgoing.data, 1, n)
           /\ outgoing' = BufConsume(outgoing, n)
    /\ want_write' = FALSE
    /\ spc' = IF want_close THEN "close" ELSE "poll"
    /\ UNCHANGED <<client, up, end, incoming, want_close>>

\* handle_write(): what the socket takes, perhaps nothing.
ServerWrite ==
    /\ spc = "write"
    /\ LET n == Min2(SockCap - Len(down), size(outgoing))
       IN  /\ down' = down \o SubSeq(outgoing.data, 1, n)
           /\ outgoing' = BufConsume(outgoing, n)
    /\ want_write' = (size(outgoing') > 0)
    /\ spc' = IF want_close THEN "close" ELSE "poll"
    /\ UNCHANGED <<client, up, end, incoming, want_close>>

\* conn_destroy(), by intention or because the connection has been idle; the
\* client gets a reset when it has sent what nobody read.
ServerClose ==
    /\ spc \in {"poll", "close"}
    /\ spc' = "closed"
    /\ end' = IF up = <<>> THEN "fin" ELSE "rst"
    /\ down' = IF up = <<>> THEN down ELSE <<>>
    /\ up' = <<>> /\ incoming' = NewBuffer /\ outgoing' = NewBuffer
    /\ want_write' = FALSE /\ want_close' = FALSE
    /\ UNCHANGED client

-----------------------------------------------------------------------------

ClientStep ==
    \/ SendSome \/ SendFails \/ ReadHeader \/ ReadSome \/ ReadEOF \/ ReadError
    \/ ReadPayload \/ PrintResponse

ServerStep ==
    \/ ServerRead \/ TryOneRequest \/ StopParsing \/ ServerPollOut \/ ServerWrite
    \/ (spc = "close" /\ ServerClose)

Next ==
    \/ \E cmd \in Commands :
          AskTooMuch(cmd) \/ \E nstr \in {Len(cmd) - 1, Len(cmd), Len(cmd) + 1} : Ask(cmd, nstr)
    \/ ClientStep \/ ReadInterrupted
    \/ ServerStep \/ ServerClose

Spec == Init /\ [][Next]_vars

\* Both processes run; nobody has to type a command, to interrupt the client or
\* to give up on the connection.
FairSpec == Spec /\ WF_vars(ClientStep) /\ WF_vars(ServerStep)

-----------------------------------------------------------------------------
(* Properties.                                                             *)

TypeOK ==
    /\ ahead \in 1..MaxAhead /\ awaited \in 0..ahead
    /\ cpc \in {"prompt", "send", "sent", "header", "payload", "killed"}
    /\ asked \in 0..Rounds /\ signals \in 0..Signals
    /\ errno \in {"none", "EINTR", "other"}
    /\ \A b \in {rbuf, incoming, outgoing} :
          b.cap \in Nat /\ b.lo \in Nat /\ \A i \in 1..size(b) : b.data[i] # Junk
    /\ Fits(rbuf) /\ need \in 0..size(rbuf)
    /\ Len(up) <= SockCap /\ Len(down) <= SockCap
    /\ end \in {"open", "fin", "rst"} /\ (end # "open" <=> spc = "closed")
    /\ spc \in {"poll", "parse", "write", "close", "closed", "undefined"}
    /\ want_write \in BOOLEAN /\ want_close \in BOOLEAN

\* The client never takes one response, or a part of one, for another: what
\* it prints is the whole response to the request it is waiting for, whatever
\* the sizes, the cuts between reads and the failures before; and it reports a
\* failure only when the connection has ended.  At the prompt nothing is left
\* over that the next command could be answered with.
InStep ==
    /\ shown.bytes # <<>> =>
          \/ shown.bytes = out_err(NewBuffer, shown.of, ErrLen).data
          \/ \E r \in Replies : shown.bytes = Output(NewBuffer, shown.of, r).data
    /\ cpc = "prompt" /\ end = "open" =>
          /\ shown.of = asked
          /\ up = <<>> /\ down = <<>> /\ size(incoming) = 0 /\ size(outgoing) = 0

\* Bytes are appended inside the allocation when the client waits for each
\* response, as client.cpp does, however many bytes a read() returns.
AppendsFitWhenWaiting == ahead = 1 => spc # "undefined"

\* `append len bytes to back of buf` (common.cpp:73), also `to support
\* 'pipelineing'` (server.cpp:134): the bytes lie inside the allocation.
AppendsFit == spc # "undefined"

\* A command ends: with its response, or with a failure - unless a signal has
\* interrupted the same readn() before the connection ended, for then errno
\* stays EINTR and the client never leaves the loop.
CommandsEnd ==
    (ahead = 1 /\ cpc \in {"send", "sent", "header", "payload"})
        ~> cpc \in {"prompt", "killed"} \/ (errno = "EINTR" /\ end = "fin")
=============================================================================
