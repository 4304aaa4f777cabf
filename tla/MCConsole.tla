----------------------------- MODULE MCConsole -----------------------------
(***************************************************************************)
(* Two consoles of two rows of three.  One task writes text and commands   *)
(* to the first console; another one writes a character to one of them.    *)
(***************************************************************************)
EXTENDS Console
CONSTANTS p, q

Texts == {<<"x", "x">>, <<"del", "del">>, <<"tab">>, <<"cr", "lf">>}
Commands ==
    { <<"esc", "[", "d3", "d1", "m">>,            \* ESC_COLOR_ERROR of the shell
      <<"esc", "[", "d2", "J">>,                  \* ESC_CLEAR_SCREEN
      <<"esc", "[", "d1", ";", "d1", "H">>,
      <<"esc", "d7">>, <<"esc", "d8">>,
      <<"esc", "[", "D">>, <<"esc", "[", "d2", "C">> }

TextAndCommands == ({p} \X {0} \X (Texts \cup Commands)) \cup ({q} \X {0, 1} \X {<<"x">>})
=============================================================================
