------------------------------- MODULE Bitmap -------------------------------
(***************************************************************************)
(* The bitmap of tools/bitmap.c, which the page allocator searches: bits   *)
(* is a function from 0 .. bit_count - 1 to {0, 1}.                        *)
(***************************************************************************)
EXTENDS Integers, FiniteSets, FiniteSetsExt

bit_count(bits) == Cardinality(DOMAIN bits)

\* Stops at the end of the bitmap; every bit but 0 counts as 1.
bitmap_set_bit(bits, index, count, bit) ==
    [i \in DOMAIN bits |-> IF i \in index .. index + count - 1
                           THEN IF bit = 0 THEN 0 ELSE 1
                           ELSE bits[i]]

\* The search.  From a bit that fits, the inner loop looks at count - 1 bits, of which the
\* first is this bit again: the last bit of the run is never looked at.
bitmap_search(bits, bit, count) ==
    LET n == bit_count(bits)
        Differs(k) == {j \in k .. Min({k + count - 2, n - 1}) : bits[j] # bit}
        ok_idx[k \in 0 .. n] ==
            CASE k = n -> -1
              [] k < n /\ bits[k] # bit -> ok_idx[k + 1]
              [] k < n /\ bits[k] = bit /\ Differs(k) # {} -> ok_idx[Min(Differs(k)) + 1]
              [] OTHER -> IF k + count - 2 < n THEN k ELSE -1
    IN  ok_idx[0]

\* What is left of the bitmap when the run is found: ~bit of a bit is never 0.
bitmap_alloc_nbits(bits, bit, count) ==
    LET at == bitmap_search(bits, bit, count) IN
    IF at = -1 THEN bits ELSE bitmap_set_bit(bits, at, count, -bit - 1)
=============================================================================
