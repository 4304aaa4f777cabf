-------------------------------- MODULE Kbd --------------------------------
(***************************************************************************)
(* The keyboard, dev/kbd.c, with tty_in and tty_select of dev/tty.c: a     *)
(* machine that is fed one scan code per interrupt, keeps which modifiers  *)
(* are down, and gives characters to the selected terminal.  Interrupts    *)
(* are off in the handler, so a scan code is one step.  What the input     *)
(* queues do with a character is in module Tty, what selecting does to the *)
(* screen in Console.                                                      *)
(*                                                                         *)
(* The keyboard itself and its controller, which keeps the scan codes      *)
(* until they are read, are hardware: press and release.                   *)
(***************************************************************************)
EXTENDS Integers, Sequences, SequencesExt

CONSTANTS Keyboard,  (* its keys                                           *)
          MaxWire,   (* bound on what waits in the controller              *)
          Mishaps    (* what may happen all the same: "hasty", a key is    *)
                     (* used before the Caps Lock in front of it has been  *)
                     (* dealt with; "chord", a function key is let go      *)
                     (* with other keys down than when it was pressed      *)

Fx == {"f1", "f2"}
FxIndex == [f1 |-> 0, f2 |-> 1]
Lone == {"caps", "pause"}        (* do not repeat while they are held       *)

ASSUME KbdAssumption ==
       /\ Keyboard \subseteq {"lshift", "rshift", "caps", "lalt", "ralt", "lctrl", "rctrl",
                          "a", "1", "esc", "up", "pause"} \cup Fx
       /\ MaxWire \in Nat

\* The scan codes of pressing a key.
Down(code) == << <<code, TRUE>> >>
Scan(k) ==
    CASE k = "lctrl" -> Down("ctrl")
      [] k = "rctrl" -> Down("E0") \o Down("ctrl")
      [] k = "lalt"  -> Down("alt")
      [] k = "ralt"  -> Down("E0") \o Down("alt")
      [] k = "up"    -> Down("E0") \o Down("up")
      [] k = "pause" -> Down("E1") \o Down("ctrl") \o Down("numlock")
      [] OTHER       -> Down(k)

VARIABLES wire,         (* scan codes in the controller, <<code, make>>     *)
          kbd_state,    (* the flags of kbd_state_t                         *)
          recv_state,   (* NORMAL, BEGIN_E0, BEGIN_E1                       *)
          curr_tty,
          \* what only observes
          held,         (* the keys that are down                           *)
          capital,      (* Caps Lock has been pressed an odd number of times *)
          chosen,       (* the terminal last asked for with Ctrl and Fx     *)
          due,          (* <<terminal, character>> pressed, not delivered   *)
          astray        (* a character came that was not due                *)

codeVars == <<kbd_state, recv_state, curr_tty>>
kbdVars == <<wire, codeVars, held, capital, chosen, due, astray>>

Flags == {"caps_lock", "lshift_press", "rshift_press", "lalt_press", "ralt_press",
          "lctrl_press", "rctrl_press"}

KbdInit ==
    /\ wire = <<>>
    /\ kbd_state = [f \in Flags |-> FALSE]
    /\ recv_state = "NORMAL"
    /\ curr_tty = 0
    /\ held = {} /\ capital = FALSE /\ chosen = 0 /\ due = <<>> /\ astray = FALSE
-----------------------------------------------------------------------------
(* The keyboard.  What a user expects is noted when a key goes down.          *)
ShiftHeld == held \cap {"lshift", "rshift"} # {}
CtrlHeld == held \cap {"lctrl", "rctrl"} # {}

\* Caps Lock reverses Shift for letters only; a key without a character gives NUL, also
\* Pause, whose second code is taken for a key of its own.
CharOf(k) ==
    CASE k = "a" -> IF ShiftHeld # capital THEN "A" ELSE "a"
      [] k = "1" -> IF ShiftHeld THEN "!" ELSE "1"
      [] OTHER   -> "nul"

Ready(k) ==
    /\ "hasty" \in Mishaps \/ <<"caps", TRUE>> \notin Range(wire)
    /\ \/ "chord" \in Mishaps
       \/ /\ k \in Fx => held \cap Fx \subseteq {k}
          /\ k \in {"lctrl", "rctrl"} => held \cap Fx = {}

Broken(codes) == [i \in 1 .. Len(codes) |->
                      IF codes[i][1] \in {"E0", "E1"} THEN codes[i] ELSE <<codes[i][1], FALSE>>]
Sends(codes) == /\ wire = <<>> \/ Len(wire) + Len(codes) <= MaxWire
                /\ wire' = wire \o codes

\* A key goes down, or repeats.
press(k) ==
    /\ Ready(k)
    /\ k \in Lone => k \notin held
    /\ Sends(IF k = "pause" THEN Scan(k) \o Broken(Scan(k)) ELSE Scan(k))
    /\ held' = held \cup {k}
    /\ capital' = (capital # (k = "caps"))
    /\ chosen' = IF k \in Fx /\ CtrlHeld THEN FxIndex[k] ELSE chosen
    /\ due' = IF k \in {"a", "1", "esc", "pause"} THEN Append(due, <<chosen, CharOf(k)>>) ELSE due
    /\ UNCHANGED <<codeVars, astray>>

release(k) ==
    /\ k \in held
    /\ Ready(k)
    /\ IF k = "pause" THEN UNCHANGED wire ELSE Sends(Broken(Scan(k)))
    /\ held' = held \ {k}
    /\ UNCHANGED <<codeVars, capital, chosen, due, astray>>
-----------------------------------------------------------------------------
(* do_handler_kbd *)
SetFlag(flag, make) == kbd_state' = [kbd_state EXCEPT ![flag] = make]

\* update_led_status sends two bytes, which the keyboard acknowledges one by one, and
\* reads one byte, whatever that is.
update_led_status(bytes) == Tail(bytes \o << <<"ack", FALSE>>, <<"ack", FALSE>> >>)

ShiftDown_LeftOnly == kbd_state["lshift_press"]
ShiftDown == kbd_state["rshift_press"] \/ kbd_state["lshift_press"]
CtrlDown_LeftOnly == kbd_state["lctrl_press"]
CtrlDown == kbd_state["lctrl_press"] \/ kbd_state["rctrl_press"]

\* map_table, and the change of case by caps_lock.
Mapped(code) ==
    CASE code = "a" -> IF ShiftDown # kbd_state["caps_lock"] THEN "A" ELSE "a"
      [] code = "1" -> IF ShiftDown THEN "!" ELSE "1"
      [] OTHER      -> "nul"

\* tty_in of the selected terminal.
tty_in_selected(char) ==
    IF due # <<>> /\ Head(due) = <<curr_tty, char>>
    THEN due' = Tail(due) /\ UNCHANGED astray
    ELSE astray' = TRUE /\ UNCHANGED due

\* tty_select; a function key acts when it is pressed and when it is let go.
do_fx_key(code) == curr_tty' = IF CtrlDown THEN FxIndex[code] ELSE curr_tty

NormalFlag == [lshift |-> "lshift_press", rshift |-> "rshift_press",
               alt |-> "lalt_press", ctrl |-> "lctrl_press"]

do_normal_key(code, make) ==
    \/ /\ code \in DOMAIN NormalFlag
       /\ SetFlag(NormalFlag[code], make)
       /\ wire' = Tail(wire)
       /\ UNCHANGED <<curr_tty, due, astray>>
    \/ /\ code = "caps"
       /\ IF make THEN SetFlag("caps_lock", ~kbd_state["caps_lock"]) /\ wire' = update_led_status(Tail(wire))
                  ELSE UNCHANGED kbd_state /\ wire' = Tail(wire)
       /\ UNCHANGED <<curr_tty, due, astray>>
    \/ /\ code \in Fx
       /\ do_fx_key(code)
       /\ wire' = Tail(wire)
       /\ UNCHANGED <<kbd_state, due, astray>>
    \/ /\ code \notin DOMAIN NormalFlag \cup Fx \cup {"caps"}
       /\ IF make THEN tty_in_selected(Mapped(code)) ELSE UNCHANGED <<due, astray>>
       /\ wire' = Tail(wire)
       /\ UNCHANGED <<kbd_state, curr_tty>>

\* Only the right Ctrl and Alt.
E0Flag_SameAsLeft == NormalFlag
E0Flag == [ctrl |-> "rctrl_press", alt |-> "ralt_press"]

do_e0_key(code, make) ==
    /\ IF code \in {"ctrl", "alt"} THEN SetFlag(E0Flag[code], make) ELSE UNCHANGED kbd_state
    /\ wire' = Tail(wire)
    /\ UNCHANGED <<curr_tty, due, astray>>

do_handler_kbd ==
    /\ wire # <<>>
    /\ LET code == Head(wire)[1]
           make == Head(wire)[2]
       IN
       \/ /\ code \in {"E0", "E1"}
          /\ recv_state' = IF code = "E0" THEN "BEGIN_E0" ELSE "BEGIN_E1"
          /\ wire' = Tail(wire)
          /\ UNCHANGED <<kbd_state, curr_tty, due, astray>>
       \/ /\ code \notin {"E0", "E1"} /\ recv_state = "NORMAL"
          /\ do_normal_key(code, make)
          /\ UNCHANGED recv_state
       \/ /\ code \notin {"E0", "E1"} /\ recv_state = "BEGIN_E0"
          /\ do_e0_key(code, make)
          /\ recv_state' = "NORMAL"
       \/ /\ code \notin {"E0", "E1"} /\ recv_state = "BEGIN_E1"
          /\ recv_state' = "NORMAL"
          /\ wire' = Tail(wire)
          /\ UNCHANGED <<kbd_state, curr_tty, due, astray>>
    /\ UNCHANGED <<held, capital, chosen>>

KbdNext == (\E k \in Keyboard : press(k) \/ release(k)) \/ do_handler_kbd

KbdSpec == KbdInit /\ [][KbdNext]_kbdVars
-----------------------------------------------------------------------------
KeyOfFlag == [lshift_press |-> "lshift", rshift_press |-> "rshift", lalt_press |-> "lalt",
              ralt_press |-> "ralt", lctrl_press |-> "lctrl", rctrl_press |-> "rctrl"]

\* No modifier sticks: when every scan code has been read the flags are the keys that are
\* down, left and right apart, and no prefix is left over for the next key.
ModifiersMatch ==
    wire = <<>> =>
        /\ \A f \in DOMAIN KeyOfFlag : kbd_state[f] <=> KeyOfFlag[f] \in held
        /\ kbd_state["caps_lock"] = capital
        /\ recv_state = "NORMAL"

\* Every character arrives once, in order, at the terminal that was selected and with the
\* Shift and Caps Lock that were in force when its key was pressed.
TypedAsPressed == ~astray /\ (wire = <<>> => due = <<>>)

\* The selected terminal is the one that was asked for last.
SelectedAsAsked == wire = <<>> => curr_tty = chosen
=============================================================================
