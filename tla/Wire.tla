-------------------------------- MODULE Wire ---------------------------------
(***************************************************************************)
(* Requests and responses as bytes: how client.cpp writes the one and      *)
(* reads the other, and server.cpp and server_utils.cpp the reverse.       *)
(*                                                                         *)
(* A byte is <<k, field, i, n>>: byte i of a field of the request k or of  *)
(* its response; n is the value of a 32-bit field.                         *)
(***************************************************************************)
EXTENDS Buffer

CONSTANTS
    U32,         \* bytes of a uint32_t, 4
    W64,         \* bytes of an int64_t or a double, 8
    MaxMsg,      \* K_MAX_MSG
    MaxArgs,     \* K_MAX_ARGS
    ErrLen       \* length of the text "response is too big."

Tags == {"nil", "err", "str", "int", "dbl", "arr"}
Bytes == Nat \X (Tags \cup {"u32", "num", "char"}) \X Nat \X Nat

ASSUME WireAssumption ==
    /\ {U32, W64, MaxMsg, MaxArgs} \subseteq Nat \ {0}
    /\ ErrLen \in Nat /\ 1 + 2 * U32 + ErrLen <= MaxMsg
    /\ Junk \notin Bytes

u32(k, n) == [i \in 1..U32 |-> <<k, "u32", i, n>>]
num(k) == [i \in 1..W64 |-> <<k, "num", i, 0>>]
str(k, n) == [i \in 1..n |-> <<k, "char", i, 0>>]
tag(k, t) == <<<<k, t, 1, 0>>>>

\* memcpy() of a uint32_t from whatever bytes are behind the first `at`.
U32At(data, at) == data[at + 1][4]

\* buf_append(), as the functions below chain it.
b ++ bytes == BufAppend(b, bytes)

\* A u32 of which the place is reserved before its value is known.
Backfill(b, pos, k, n) ==
    [b EXCEPT !.data = SubSeq(@, 1, pos) \o u32(k, n) \o SubSeq(@, pos + U32 + 1, Len(@))]

-----------------------------------------------------------------------------
(* Requests.  A command is the sequence of the lengths of its strings.     *)

RequestSize(cmd) ==
    LET sum[i \in 0..Len(cmd)] == IF i = 0 THEN U32 ELSE sum[i - 1] + U32 + cmd[i]
    IN  sum[Len(cmd)]

\* send_req(), with `nstr` for the number of strings.
Request(k, cmd, nstr) ==
    LET wbuf[i \in 0..Len(cmd)] ==
          IF i = 0 THEN NewBuffer ++ u32(k, RequestSize(cmd)) ++ u32(k, nstr)
          ELSE wbuf[i - 1] ++ u32(k, cmd[i]) ++ str(k, cmd[i])
    IN  wbuf[Len(cmd)]

\* read_u32() and read_str(), nstr times; then the payload must be used up.
parse_req(data) ==
    LET fits(at, n) == at + n <= Len(data)
        after[at \in Nat] == [nstr \in Nat |->
            IF nstr = 0 THEN at
            ELSE IF fits(at, U32) /\ fits(at + U32, U32At(data, at))
            THEN after[at + U32 + U32At(data, at)][nstr - 1]
            ELSE -1]
    IN  /\ fits(0, U32)
        /\ U32At(data, 0) <= MaxArgs
        /\ after[U32][U32At(data, 0)] = Len(data)

-----------------------------------------------------------------------------
(* Responses.                                                              *)

out_nil(out, k) == out ++ tag(k, "nil")
out_str(out, k, n) == out ++ tag(k, "str") ++ u32(k, n) ++ str(k, n)
out_int(out, k) == out ++ tag(k, "int") ++ num(k)
out_dbl(out, k) == out ++ tag(k, "dbl") ++ num(k)
out_err(out, k, n) == out ++ tag(k, "err") ++ u32(k, 0) ++ u32(k, n) ++ str(k, n)
out_arr(out, k, n) == out ++ tag(k, "arr") ++ u32(k, n)
out_begin_arr(out, k) == out_arr(out, k, 0)

out_end_arr(out, pos, k, n) == Backfill(out, pos, k, n)

\* exec_keys(): names are lengths.
Keys(out, k, names) ==
    LET o[i \in 0..Len(names)] ==
          IF i = 0 THEN out_arr(out, k, Len(names)) ELSE out_str(o[i - 1], k, names[i])
    IN  o[Len(names)]

\* exec_zquery(): the number of items is filled in behind.
ZQuery(out, k, names) ==
    LET o[i \in 0..Len(names)] ==
          IF i = 0 THEN out_begin_arr(out, k) ELSE out_dbl(out_str(o[i - 1], k, names[i]), k)
    IN  out_end_arr(o[Len(names)], size(out) + 1, k, 2 * Len(names))

\* What a command outputs: a value, an error, all keys, or pairs.
Output(out, k, r) ==
    CASE r.type = "nil" -> out_nil(out, k)
      [] r.type = "str" -> out_str(out, k, r.len)
      [] r.type = "int" -> out_int(out, k)
      [] r.type = "dbl" -> out_dbl(out, k)
      [] r.type = "err" -> out_err(out, k, r.len)
      [] r.type = "keys" -> Keys(out, k, r.names)
      [] r.type = "pairs" -> ZQuery(out, k, r.names)

response_begin(out, k) == out ++ u32(k, 0)

\* Mutant of response_end: nothing limits the response.
response_end_Unlimited(out, pos, k) == Backfill(out, pos, k, size(out) - pos - U32)

\* A response that is too big is replaced; its size goes into its header.
response_end(out, pos, k) ==
    LET cut == IF size(out) - pos - U32 <= MaxMsg THEN out
               ELSE out_err(BufResize(out, pos + U32), k, ErrLen)
    IN  Backfill(cut, pos, k, size(cut) - pos - U32)

\* How many bytes the fixed part of a value takes; too many for an unknown tag.
Fixed(data, t) ==
    CASE t = "nil" -> 1
      [] t \in {"str", "arr"} -> 1 + U32
      [] t \in {"int", "dbl"} -> 1 + W64
      [] t = "err" -> 1 + 2 * U32
      [] OTHER -> Len(data) + 1

\* print_res(): how many bytes one value takes, -1 if it does not fit.  An
\* array takes the values that follow it: after[at][n] is where n values end.
print_res(data) ==
    LET after[at \in Nat] == [n \in Nat |->
            IF n = 0 THEN at
            ELSE IF at >= Len(data) THEN -1
            ELSE LET t == data[at + 1][2]
                     body == at + Fixed(data, t)
                     last == U32At(data, body - U32)
                     next == IF body > Len(data) THEN -1
                             ELSE IF t = "arr" THEN after[body][last]
                             ELSE IF t \notin {"str", "err"} THEN body
                             ELSE IF body + last > Len(data) THEN -1 ELSE body + last
                 IN  IF next = -1 THEN -1 ELSE after[next][n - 1]]
    IN  after[0][1]
=============================================================================
