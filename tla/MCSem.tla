------------------------------- MODULE MCSem -------------------------------
(***************************************************************************)
(* Two semaphores as a terminal has them: one that starts with a token     *)
(* (free space in the output queue), one that starts empty (input).        *)
(***************************************************************************)
EXTENDS Sem
CONSTANTS osem, isem

TtySems == [s \in {osem, isem} |-> IF s = osem THEN 1 ELSE 0]
=============================================================================
