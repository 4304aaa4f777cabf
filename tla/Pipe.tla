-------------------------------- MODULE Pipe --------------------------------
(***************************************************************************)
(* What a queue of a terminal promises: characters leave in the order they *)
(* came, each once, and never more than Size of them are inside.  Tty      *)
(* implements it twice with its ring buffers.                              *)
(***************************************************************************)
EXTENDS Naturals, Sequences

CONSTANTS Char, Size

VARIABLE queue   (* the characters inside, oldest first                    *)

Init == queue = <<>>

Put == Len(queue) < Size /\ \E c \in Char : queue' = Append(queue, c)

Take == queue # <<>> /\ queue' = Tail(queue)

Spec == Init /\ [][Put \/ Take]_queue
=============================================================================
