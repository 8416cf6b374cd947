------------------------------- MODULE Buffer --------------------------------
(***************************************************************************)
(* The byte queue of src/src/common.hpp and common.cpp.  A buffer is the   *)
(* size of its allocation, the offset of data_begin in it, and the bytes   *)
(* between data_begin and data_end; the bytes outside of these are left    *)
(* out.                                                                    *)
(***************************************************************************)
EXTENDS Integers, Sequences

CONSTANTS
    InitCap,    \* the first allocation, 64 bytes
    Zero,       \* the byte 0
    Junk        \* a byte that nobody has written

ASSUME InitCapAssumption == InitCap \in Nat \ {0} /\ Zero # Junk

NewBuffer == [cap |-> 0, lo |-> 0, data |-> <<>>]

size(b) == Len(b.data)

\* data_end <= end: the data lie inside the allocation.
Fits(b) == b.lo + size(b) <= b.cap

Pow2[k \in Nat] == IF k = 0 THEN 1 ELSE 2 * Pow2[k - 1]

\* `while (new_capacity < need) new_capacity *= 2`
DoubledUntil(start, need) ==
    LET caps == {start * Pow2[k] : k \in 0..need}
    IN  CHOOSE c \in caps : c >= need /\ \A d \in caps : d >= need => c <= d

\* The bytes are moved to the front when that makes room, else the allocation
\* grows - and the gap in front of the data is kept.
BufAppend(b, bytes) ==
    LET all == b.data \o bytes
        len == Len(bytes)
    IN  IF len <= b.cap - (b.lo + size(b))
        THEN [cap |-> b.cap, lo |-> b.lo, data |-> all]
        ELSE IF len <= b.cap - size(b)
        THEN [cap |-> b.cap, lo |-> 0, data |-> all]
        ELSE [cap |-> DoubledUntil(IF b.cap = 0 THEN InitCap ELSE 2 * b.cap, size(b) + len),
              lo |-> b.lo, data |-> all]

\* Mutant of BufConsume: data_begin is not reset when nothing is left.
BufConsume_NoReset(b, n) ==
    [b EXCEPT !.lo = @ + n, !.data = SubSeq(@, n + 1, Len(@))]

BufConsume(b, n) ==
    [cap |-> b.cap, lo |-> IF n = size(b) THEN 0 ELSE b.lo + n,
     data |-> SubSeq(b.data, n + 1, size(b))]

\* Mutant of BufResize: the new bytes are not zeroed.
BufResize_NoZeroes(b, n) ==
    IF n <= size(b) THEN [b EXCEPT !.data = SubSeq(@, 1, n)]
    ELSE BufAppend(b, [i \in 1..(n - size(b)) |-> Junk])

\* The zeroes of a grown buffer are written where the data ended before they
\* were, possibly, moved to the front.
BufResize(b, n) ==
    IF n <= size(b) THEN [b EXCEPT !.data = SubSeq(@, 1, n)]
    ELSE LET room == BufAppend(b, [i \in 1..(n - size(b)) |-> Junk])
             offset == b.lo + size(b)
         IN  [room EXCEPT !.data = [i \in 1..n |->
                 IF room.lo + i \in (offset + 1)..(offset + n - size(b)) THEN Zero
                 ELSE room.data[i]]]
=============================================================================
