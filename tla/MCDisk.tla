------------------------------- MODULE MCDisk -------------------------------
(***************************************************************************)
(* Two tasks and a drive of three sectors with a partition of two.  There  *)
(* is a second drive without partitions, and one that does not exist.      *)
(***************************************************************************)
EXTENDS Disk

OnePartition == [d \in {0, 1} |-> IF d = 1 THEN << <<1, 2>> >> ELSE << <<0, 0>> >>]
SomeMinors == {<<0, 1>>, <<1, 1>>, <<2, 0>>}
=============================================================================
