------------------------------- MODULE MCKbd -------------------------------
(***************************************************************************)
(* A keyboard with one key of every kind the handler tells apart.          *)
(***************************************************************************)
EXTENDS Kbd

SmallKeyboard == {"lshift", "rshift", "caps", "lctrl", "rctrl", "ralt", "f1", "f2", "a", "up", "pause"}
=============================================================================
