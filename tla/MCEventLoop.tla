----------------------------- MODULE MCEventLoop -----------------------------
(* Command scripts and symmetry for EventLoop.                             *)
EXTENDS EventLoop, TLC

CONSTANTS c1, c2, k1, k2

Set(k)        == [op |-> "set", key |-> k, ms |-> 0]
Del(k)        == [op |-> "del", key |-> k, ms |-> 0]
Persist(k)    == [op |-> "persist", key |-> k, ms |-> 0]
Expire(k, ms) == [op |-> "pexpire", key |-> k, ms |-> ms]
Bad           == [op |-> "bad"]
Long          == [op |-> "long"]

\* Pipelines of ordinary requests, one of which sets a timer, one that cannot
\* be parsed behind a good one, one that is too long.
LoopScripts ==
    {<<Set(k1), Expire(k1, 0)>>, <<Set(k1), Bad>>, <<Long>>}

\* One client that sets a timer, moves it, and takes it away; or sets two that
\* run out together.
ServiceScripts ==
    {<<Set(k1), Expire(k1, 1), Expire(k1, 0)>>, <<Set(k1), Bad>>,
     <<Set(k1), Expire(k1, 1), Persist(k1), Del(k1)>>,
     <<Set(k1), Expire(k1, 0), Set(k2), Expire(k2, 0)>>}

\* A TTL of half of the range of the timeout's 32 bits.
FarScripts == {<<Set(k1), Expire(k1, 8)>>}

\* Clients are interchangeable.
ClientSymmetry == Permutations(Clients)

=============================================================================
