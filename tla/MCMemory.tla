------------------------------ MODULE MCMemory ------------------------------
(***************************************************************************)
(* The first task and two slots, page tables of two entries, so that a     *)
(* program with heap and stack needs two of them.  The allocator's search  *)
(* in Bitmap is compared with what Memory takes it for, one page at a time.*)
(***************************************************************************)
EXTENDS Memory, Bitmap, TLC

SlotSymmetry == Permutations(Slots)

\* addr_alloc_page(1) takes the lowest page, if there is one, and no other one;
\* addr_free_page(1) gives one back.
ASSUME OnePageAtATime ==
    \A b \in [0 .. 5 -> {0, 1}] :
        LET free == {i \in DOMAIN b : b[i] = 0} IN
        /\ bitmap_search(b, 0, 1) = IF free = {} THEN -1 ELSE Least(free)
        /\ bitmap_alloc_nbits(b, 0, 1) =
              IF free = {} THEN b ELSE [b EXCEPT ![Least(free)] = 1]
        /\ \A i \in DOMAIN b : bitmap_set_bit(b, i, 1, 0) = [b EXCEPT ![i] = 0]

\* Not so for two pages: the second one may be taken.
ASSUME SecondPageUnseen ==
    \E b \in [0 .. 5 -> {0, 1}] :
        LET at == bitmap_search(b, 0, 2) IN at # -1 /\ b[at + 1] = 1
=============================================================================
