-------------------------------- MODULE MCTty --------------------------------
(***************************************************************************)
(* Two tasks that write a newline and a character, one of which also reads *)
(* lines; one place more in the output queue than there are tasks.         *)
(***************************************************************************)
EXTENDS Tty

ShortMessages == {<<"nl", "a">>}
=============================================================================
