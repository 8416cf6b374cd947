----------------------------- MODULE MCSortedSet -----------------------------
(* Twelve names are the fewest with which a deletion has to rotate twice.  *)
(* One of them can have another score than the rest, so that it moves to   *)
(* the end of the order.                                                   *)
EXTENDS SortedSet

MCNames == 1 .. 12
MCPairs == (MCNames \X {0}) \cup {<<6, 1>>}
MCLimits == {0, 3, 4}
=============================================================================
