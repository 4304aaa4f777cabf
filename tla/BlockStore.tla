----------------------------- MODULE BlockStore -----------------------------
(***************************************************************************)
(* What a disk promises its callers: calls take effect one at a time and   *)
(* at once.  A read returns what the sectors hold, a write replaces them;  *)
(* either may stop early, and then says how far it got.  Disk implements   *)
(* it sector by sector, with interrupts.                                   *)
(***************************************************************************)
EXTENDS Naturals, Sequences

CONSTANTS Callers, Nobody, Lbas, MaxCount, Written(_, _)   (* what a caller's i-th sector holds *)

VARIABLES sectors,   (* what the disk holds                                *)
          out        (* what the last call returned, and to whom           *)

vars == <<sectors, out>>

Init == out = <<Nobody, <<>> >>

Span(lba, cnt) == lba .. lba + cnt - 1

Read(p, lba, cnt) ==
    /\ out' = <<p, [i \in 1 .. cnt |-> sectors[lba + i - 1]]>>
    /\ UNCHANGED sectors

Write(p, lba, cnt) ==
    /\ sectors' = [l \in Lbas |-> IF l \in Span(lba, cnt) THEN Written(p, l - lba + 1) ELSE sectors[l]]
    /\ out' = <<p, [i \in 1 .. cnt |-> Written(p, i)]>>

Next == \E p \in Callers, lba \in Lbas, cnt \in 0 .. MaxCount :
            Span(lba, cnt) \subseteq Lbas /\ (Read(p, lba, cnt) \/ Write(p, lba, cnt))

Spec == Init /\ [][Next]_vars
=============================================================================
