----------------------------- MODULE MCKeyspace ------------------------------
(* Symmetry and arguments for Keyspace.                                    *)
EXTENDS Keyspace, TLC

\* Addresses and keys are interchangeable.
KeyspaceSymmetry ==
    Permutations(Addrs) \cup Permutations(Keys)

SomeTTLs == {-1, 0, 1}
SomeOffsets == {-1, 0}
SomeLimits == {1, 3}
=============================================================================
