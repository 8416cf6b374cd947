------------------------------ MODULE MCHashMap ------------------------------
(* Six nodes, two of them with the same hash code and two more that share a  *)
(* slot of every table but the largest.                                      *)
EXTENDS HashMap

CONSTANTS k1, k2, k3, k4, k5, k6

MCKeys == {k1, k2, k3, k4, k5, k6}

MCHash == [k \in MCKeys |-> CASE k \in {k1, k2} -> 3
                              [] k = k3 -> 0 [] k = k4 -> 4
                              [] k = k5 -> 1 [] k = k6 -> 14]
=============================================================================
