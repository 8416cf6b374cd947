---------------------------- MODULE MCConnection -----------------------------
(* Commands and answers for Connection.  With a size of 2 for a 32-bit field *)
(* and 1 for a 64-bit one, the requests take 5 and 9 bytes and 10 of 9, the   *)
(* answers 1, 2, 5, 9 and 11.                                                 *)
EXTENDS Connection

SomeCommands == {<<1>>, <<2, 1>>, <<6>>}
SomeReplies == {[type |-> "nil"], [type |-> "int"], [type |-> "str", len |-> 2],
                [type |-> "pairs", names |-> <<1>>], [type |-> "keys", names |-> <<1, 1>>]}
=============================================================================
