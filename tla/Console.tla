------------------------------ MODULE Console ------------------------------
(***************************************************************************)
(* The consoles of dev/console.c: eight screens in one video memory, each  *)
(* with a cursor, colours and an escape-sequence parser that takes one     *)
(* byte at a time; the VGA shows one of them and its cursor.  Tasks write  *)
(* through their terminal: tty_write puts a byte into the output queue and *)
(* calls console_write, which drains the queue under the console's mutex   *)
(* and then, without it, moves the VGA's cursor.  Ctrl+Fx switches screens *)
(* from the keyboard's interrupt.                                          *)
(*                                                                         *)
(* The queue keeps order and never overflows (module Tty), the mutex has   *)
(* one owner (module Mutex).                                               *)
(***************************************************************************)
EXTENDS Integers, Sequences, SequencesExt

CONSTANTS Procs,        (* tasks that write                                *)
          NoProc,       (* nobody holds a mutex                            *)
          ConsoleNr,    (* CONSOLE_NR                                      *)
          Rows, Cols,   (* CONSOLE_ROW_MAX, CONSOLE_COL_MAX                *)
          TabStop,      (* the 8 of move_next_tab                          *)
          EscParamMax,  (* ESC_PARAM_MAX                                   *)
          Writes,       (* <<task, console, message>>: who writes what     *)
          MaxWrites,    (* bound on the number of messages                 *)
          Mishaps       (* what may happen all the same: "mix", a writer   *)
                        (* comes between the bytes of another one's escape *)
                        (* sequence; "stale", others go on while a task is *)
                        (* between its test of curr_console_idx and the    *)
                        (* output of the cursor's position                 *)

Consoles == 0 .. ConsoleNr - 1
Digit == [d0 |-> 0, d1 |-> 1, d2 |-> 2, d3 |-> 3, d7 |-> 7, d8 |-> 8, d9 |-> 9]
Printable == {"x", "[", ";", "m", "D", "C", "H", "J"} \cup DOMAIN Digit
Byte == Printable \cup {"esc", "del", "bs", "tab", "cr", "lf"}

ASSUME ConsoleAssumption ==
       /\ NoProc \notin Procs
       /\ {ConsoleNr, Rows, Cols, TabStop, EscParamMax} \subseteq Nat \ {0}
       /\ Writes \subseteq Procs \X Consoles \X (Seq(Byte) \ {<<>>})
       /\ MaxWrites \in Nat

\* Messages have no more parameters than esc_param has places: a digit behind them would
\* be stored over curr_param_index, and from there on anywhere.
ASSUME MessageAssumption ==
       \A w \in Writes : Len(SelectSeq(w[3], LAMBDA c : c = ";")) < EscParamMax

VARIABLES disp,              (* the video memory                           *)
          console,           (* console_buf                                *)
          owner,             (* who holds each console's mutex             *)
          curr_console_idx,
          vga,               (* the CRT controller: start address, cursor  *)
          ofifo,             (* the output queue of each terminal          *)
          \* the tasks
          pc,                (* the step each task takes next              *)
          on,                (* the console it writes to                   *)
          rest,              (* what of its message it has yet to put      *)
          pos,               (* the position it is about to output         *)
          \* what only observes
          begun,             (* messages begun so far                      *)
          typed              (* per console: how many characters a line    *)
                             (* typed from an empty screen has now; -1     *)
                             (* when something else was written            *)

screenVars == <<disp, console, typed>>
taskVars == <<pc, on, rest, pos>>
vars == <<screenVars, owner, curr_console_idx, vga, ofifo, taskVars, begun>>

Size == Rows * Cols
Cells == 0 .. ConsoleNr * Size - 1
White == 7
Black == 0
Params == 0 .. EscParamMax - 1
-----------------------------------------------------------------------------
(* A console and the video memory, t = [con, disp], and what the code does to them. *)

Place(t, r, c) == t.con.disp_base + r * Cols + c
Blank(t) == [c |-> "blank", fg |-> t.con.fg, bg |-> t.con.bg]

erase_rows(t, start, end) ==
    [t EXCEPT !.disp = [i \in Cells |->
        IF i \in Place(t, start, 0) .. Place(t, end, Cols - 1) THEN Blank(t) ELSE t.disp[i]]]

clear_display(t) == erase_rows(t, 0, Rows - 1)

scroll_up(t) ==
    LET up == [t EXCEPT !.disp = [i \in Cells |->
                  IF i \in Place(t, 0, 0) .. Place(t, Rows - 2, Cols - 1)
                  THEN t.disp[i + Cols] ELSE t.disp[i]],
                  !.con.row = @ - 1]
    IN  erase_rows(up, Rows - 1, Rows - 1)

move_to_col0(t) == [t EXCEPT !.con.col = 0]

move_next_line(t) ==
    LET down == [t EXCEPT !.con.row = @ + 1] IN
    IF down.con.row >= Rows THEN scroll_up(down) ELSE down

move_forward(t) ==
    IF t.con.col + 1 >= Cols THEN move_next_line(move_to_col0(t))
                             ELSE [t EXCEPT !.con.col = @ + 1]

show_char(t, char) ==
    LET here == Place(t, t.con.row, t.con.col)
        cell == [c |-> char, fg |-> t.con.fg, bg |-> t.con.bg]
    IN  move_forward([t EXCEPT !.disp = [i \in Cells |-> IF i = here THEN cell ELSE t.disp[i]]])

save_cursor(t) == [t EXCEPT !.con.old_row = t.con.row, !.con.old_col = t.con.col]
restore_cursor(t) == [t EXCEPT !.con.row = t.con.old_row, !.con.col = t.con.old_col]

AtHome(t) == t.con.row = 0 /\ t.con.col = 0

move_backword_SameRow(t) ==
    IF t.con.col > 0 THEN [t EXCEPT !.con.col = @ - 1]
    ELSE IF t.con.row > 0 THEN [t EXCEPT !.con.col = Cols - 1] ELSE t
move_backword(t) ==
    IF t.con.col > 0 THEN [t EXCEPT !.con.col = @ - 1]
    ELSE IF t.con.row > 0 THEN [t EXCEPT !.con.row = @ - 1, !.con.col = Cols - 1] ELSE t

erase_backword_NoBlank(t) == move_backword(t)
erase_backword(t) ==
    IF AtHome(t) THEN t ELSE move_backword(show_char(move_backword(t), "blank"))

\* Aligned upwards: a cursor that is on a tab stop stays there.
move_next_tab(t) ==
    LET col == ((t.con.col + TabStop - 1) \div TabStop) * TabStop IN
    IF col >= Cols THEN move_next_line(move_to_col0(t)) ELSE [t EXCEPT !.con.col = col]

move_left(t, n) ==
    LET col == t.con.col - (IF n = 0 THEN 1 ELSE n) IN
    [t EXCEPT !.con.col = IF col >= 0 THEN col ELSE 0]

move_right(t, n) ==
    LET col == t.con.col + (IF n = 0 THEN 1 ELSE n) IN
    [t EXCEPT !.con.col = IF col >= Cols THEN Cols - 1 ELSE col]

move_cursor(t) ==
    [t EXCEPT !.con.row = IF t.con.index >= 1 THEN t.con.esc_param[0] ELSE @,
              !.con.col = IF t.con.index >= 2 THEN t.con.esc_param[1] ELSE @]

erase_in_display(t) ==
    IF t.con.index <= 0 \/ t.con.esc_param[0] # 2 THEN t
    ELSE [clear_display(t) EXCEPT !.con.row = 0, !.con.col = 0]

\* Of the parameters about a colour the last one counts; the colours are the table's
\* indices.
set_font_style(t) ==
    LET Styled(now, first, default) ==
            LET about == {i \in 0 .. t.con.index - 1 :
                             t.con.esc_param[i] \in (first .. first + 7) \cup {first + 9}}
                param == t.con.esc_param[Max(about)]
            IN  IF about = {} THEN now ELSE IF param = first + 9 THEN default ELSE param - first
    IN  [t EXCEPT !.con.fg = Styled(@, 30, White), !.con.bg = Styled(@, 40, Black)]

Enter(t, mode) == [t EXCEPT !.con.write_state = mode]
-----------------------------------------------------------------------------
write_normal(t, char) ==
    CASE char = "esc" -> Enter(t, "ESC")
      [] char = "del" -> erase_backword(t)
      [] char = "bs"  -> move_backword(t)
      [] char = "tab" -> move_next_tab(t)
      [] char = "cr"  -> move_to_col0(t)
      [] char = "lf"  -> move_next_line(t)
      [] char \in Printable -> show_char(t, char)
      [] OTHER -> t

clear_esc_param(t) == [t EXCEPT !.con.esc_param = [i \in Params |-> 0], !.con.index = 0]

write_esc_Stays(t, char) ==
    CASE char = "d7" -> save_cursor(t)
      [] char = "d8" -> Enter(restore_cursor(t), "NORMAL")
      [] char = "["  -> Enter(clear_esc_param(t), "SQUARE")
      [] OTHER -> Enter(t, "NORMAL")
write_esc(t, char) ==
    CASE char = "d7" -> Enter(save_cursor(t), "NORMAL")
      [] char = "d8" -> Enter(restore_cursor(t), "NORMAL")
      [] char = "["  -> Enter(clear_esc_param(t), "SQUARE")
      [] OTHER -> Enter(t, "NORMAL")

Command(t, char) ==
    CASE char = "m" -> set_font_style(t)
      [] char = "D" -> move_left(t, t.con.esc_param[0])
      [] char = "C" -> move_right(t, t.con.esc_param[0])
      [] char = "H" -> move_cursor(t)
      [] char = "J" -> erase_in_display(t)
      [] OTHER -> t

write_esc_square(t, char) ==
    IF char \in DOMAIN Digit
    THEN [t EXCEPT !.con.esc_param[t.con.index] = @ * 10 + Digit[char]]
    ELSE IF char = ";" /\ t.con.index < EscParamMax
         THEN [t EXCEPT !.con.index = @ + 1]
         ELSE Enter(Command([t EXCEPT !.con.index = @ + 1], char), "NORMAL")

\* The switch of console_write: one byte to the machine.
Written(t, char) ==
    CASE t.con.write_state = "NORMAL" -> write_normal(t, char)
      [] t.con.write_state = "ESC"    -> write_esc(t, char)
      [] t.con.write_state = "SQUARE" -> write_esc_square(t, char)

\* console_init of another console than the first one.
console_init(t, k) ==
    [clear_display([t EXCEPT !.con.disp_base = k * Size, !.con.fg = White, !.con.bg = Black])
        EXCEPT !.con.row = 0, !.con.col = 0, !.con.old_row = 0, !.con.old_col = 0]

View(k) == [con |-> console[k], disp |-> disp]
Show(k, t) == console' = [console EXCEPT ![k] = t.con] /\ disp' = t.disp
-----------------------------------------------------------------------------
(* The start: console_init(0) found the cursor of the boot loader's output somewhere on  *)
(* its page; the other consoles' structures are all zero.                                *)
NotSet == 0 - 1
Zeroed == [disp_base |-> NotSet, write_state |-> "NORMAL", row |-> 0, col |-> 0,
           old_row |-> 0, old_col |-> 0, fg |-> Black, bg |-> Black,
           esc_param |-> [i \in Params |-> 0], index |-> 0]

Init ==
    /\ \E at \in 0 .. Size - 1 :
        LET r == at \div Cols
            c == at % Cols
        IN
        /\ console = [k \in Consoles |->
              IF k > 0 THEN Zeroed
              ELSE [Zeroed EXCEPT !.disp_base = 0, !.fg = White, !.row = r, !.col = c,
                                  !.old_row = r, !.old_col = c]]
        /\ disp = [i \in Cells |-> [c |-> IF i < at THEN "x" ELSE "blank", fg |-> White, bg |-> Black]]
        /\ vga = [start |-> 0, cursor |-> at]
        /\ typed = [k \in Consoles |-> IF k = 0 /\ at = 0 THEN 0 ELSE NotSet]
    /\ owner = [k \in Consoles |-> NoProc]
    /\ curr_console_idx = 0
    /\ ofifo = [k \in Consoles |-> <<>>]
    /\ pc = [p \in Procs |-> "user"]
    /\ on = [p \in Procs |-> 0]
    /\ rest = [p \in Procs |-> <<>>]
    /\ pos = [p \in Procs |-> 0]
    /\ begun = 0

At(p, step) == pc[p] = step
Goto(p, step) == pc' = [pc EXCEPT ![p] = step]
IsOpen(k) == console[k].disp_base # NotSet

\* Nobody is between the test and the output of update_cursor_pos but perhaps p.
Undisturbed(p) == \/ "stale" \in Mishaps
                  \/ \A q \in Procs \ {p} : pc[q] \notin {"compute", "output"}

\* The end of a byte: the task puts the next one, or returns from tty_write.
NextByte(p) == Goto(p, IF rest[p] = <<>> THEN "user" ELSE "put")
-----------------------------------------------------------------------------
\* tty_open of a terminal whose console nobody has looked at.
tty_open(k) ==
    /\ ~IsOpen(k)
    /\ Undisturbed(NoProc)
    /\ Show(k, console_init(View(k), k))
    /\ typed' = [typed EXCEPT ![k] = 0]
    /\ UNCHANGED <<owner, curr_console_idx, vga, ofifo, taskVars, begun>>

\* Where a console's cursor is, from the start of video memory (update_cursor_pos).
Position(k, t) == k * Size + t.con.row * Cols + t.con.col

\* Ctrl+Fx, in the keyboard's interrupt: tty_select and console_select.
console_select(k) ==
    /\ k # curr_console_idx
    /\ Undisturbed(NoProc)
    /\ LET t == IF IsOpen(k) THEN View(k) ELSE console_init(View(k), k) IN
        /\ Show(k, t)
        /\ vga' = [start |-> k * Size, cursor |-> Position(k, t)]
        /\ typed' = [typed EXCEPT ![k] = IF IsOpen(k) THEN @ ELSE 0]
    /\ curr_console_idx' = k
    /\ UNCHANGED <<owner, ofifo, taskVars, begun>>

IsCommand(m) == m[1] = "esc"

\* A task calls tty_write with a message.
tty_write(p, k, m) ==
    /\ At(p, "user") /\ IsOpen(k)
    /\ begun < MaxWrites
    /\ "mix" \in Mishaps \/ (\A q \in Procs : rest[q] # <<>> => on[q] # k)
    /\ begun' = begun + 1
    /\ on' = [on EXCEPT ![p] = k]
    /\ rest' = [rest EXCEPT ![p] = m]
    /\ Goto(p, "put")
    /\ UNCHANGED <<screenVars, owner, curr_console_idx, vga, ofifo, pos>>

put(p) ==
    /\ At(p, "put") /\ Undisturbed(p)
    /\ ofifo' = [ofifo EXCEPT ![on[p]] = Append(@, rest[p][1])]
    /\ rest' = [rest EXCEPT ![p] = Tail(@)]
    /\ Goto(p, "drain")
    /\ UNCHANGED <<screenVars, owner, curr_console_idx, vga, on, pos, begun>>

\* The length of the line being typed, when t has become u by one more byte.
Empty(t) == /\ AtHome(t) /\ t.con.write_state = "NORMAL"
            /\ \A i \in Place(t, 0, 0) .. Place(t, Rows - 1, Cols - 1) : t.disp[i].c = "blank"

Typed(n, t, char, u) ==
    CASE n >= 0 /\ t.con.write_state = "NORMAL" /\ char = "x" -> n + 1
      [] n > 0 /\ t.con.write_state = "NORMAL" /\ char = "del" -> n - 1
      [] OTHER -> IF Empty(u) THEN 0 ELSE NotSet

\* console_write's loop: with the mutex, take one byte and show it.
drain(p) ==
    LET k == on[p]
        after == Written(View(k), Head(ofifo[k]))
    IN
    /\ At(p, "drain") /\ Undisturbed(p)
    /\ owner[k] \in {p, NoProc}
    /\ ofifo[k] # <<>>
    /\ owner' = [owner EXCEPT ![k] = p]
    /\ ofifo' = [ofifo EXCEPT ![k] = Tail(@)]
    /\ Show(k, after)
    /\ typed' = [typed EXCEPT ![k] = Typed(@, View(k), Head(ofifo[k]), after)]
    /\ UNCHANGED <<curr_console_idx, vga, taskVars, begun>>

\* Is this the console on the screen?
Visible_Always(p) == TRUE
Visible(p) == on[p] = curr_console_idx

\* The queue is empty: give the mutex up and see whether there is a cursor to move.
unlock(p) ==
    /\ At(p, "drain") /\ Undisturbed(p)
    /\ owner[on[p]] \in {p, NoProc}
    /\ ofifo[on[p]] = <<>>
    /\ owner' = [owner EXCEPT ![on[p]] = NoProc]
    /\ IF Visible(p) THEN Goto(p, "compute") ELSE NextByte(p)
    /\ UNCHANGED <<screenVars, curr_console_idx, vga, ofifo, on, rest, pos, begun>>

\* update_cursor_pos: the position, then, with interrupts off, its output.
compute(p) ==
    /\ At(p, "compute") /\ Undisturbed(p)
    /\ pos' = [pos EXCEPT ![p] = Position(on[p], View(on[p]))]
    /\ Goto(p, "output")
    /\ UNCHANGED <<screenVars, owner, curr_console_idx, vga, ofifo, on, rest, begun>>

output(p) ==
    /\ At(p, "output")
    /\ vga' = [vga EXCEPT !.cursor = pos[p]]
    /\ pos' = [pos EXCEPT ![p] = 0]
    /\ NextByte(p)
    /\ UNCHANGED <<screenVars, owner, curr_console_idx, ofifo, on, rest, begun>>

Next ==
    \/ \E k \in Consoles : tty_open(k) \/ console_select(k)
    \/ \E w \in Writes : tty_write(w[1], w[2], w[3])
    \/ \E p \in Procs : put(p) \/ drain(p) \/ unlock(p) \/ compute(p) \/ output(p)

Spec == Init /\ [][Next]_vars
-----------------------------------------------------------------------------
\* A command that moves the cursor comes with a place of the page: move_cursor takes what
\* the parser has collected and does not look.
MovesOnPage ==
    \A k \in Consoles : LET con == console[k] IN
        ofifo[k] # <<>> /\ Head(ofifo[k]) = "H" /\ con.write_state = "SQUARE" =>
            /\ con.esc_param[0] \in 0 .. Rows - 1
            /\ con.index >= 1 => con.esc_param[1] \in 0 .. Cols - 1

\* Of what is written, only text and control characters reach a parser that is not in the
\* middle of a sequence: no piece of a sequence becomes text on the screen.
OnlyTextIsShown ==
    \A k \in Consoles : ofifo[k] # <<>> /\ console[k].write_state = "NORMAL" =>
        Head(ofifo[k]) \notin Printable \ {"x"}

\* Wherever text, commands and scrolling take it, a console's cursor, and the one it has
\* saved, are on its own page of the video memory, and so is what is written there.
CursorOnScreen ==
    \A k \in Consoles : LET con == console[k] IN
        /\ con.row \in 0 .. Rows - 1 /\ con.col \in 0 .. Cols - 1
        /\ con.old_row \in 0 .. Rows - 1 /\ con.old_col \in 0 .. Cols - 1
        /\ con.disp_base \in {NotSet, k * Size}

\* A line that is typed on an empty screen, with corrections, is on the screen up to the
\* cursor and nothing else is, across row ends and scrolling.
LineOnScreen ==
    \A k \in Consoles : typed[k] >= 0 =>
        LET before == console[k].row * Cols + console[k].col IN
        /\ before <= typed[k]
        /\ \A i \in 0 .. Size - 1 : (disp[k * Size + i].c = "x") <=> (i < before)

\* A console's parser is in the middle of an escape sequence exactly while a task is in
\* the middle of writing one there: it takes no byte too few and none too many.
InCommand(p, k) == /\ on[p] = k /\ rest[p] # <<>> /\ rest[p][1] # "esc"
                   /\ \E w \in Writes : /\ w[1] = p /\ w[2] = k /\ IsCommand(w[3])
                                         /\ IsStrictSuffix(rest[p], w[3])
SequencesStayWhole ==
    \A k \in Consoles : (\A q \in Procs : on[q] = k => At(q, "user") \/ At(q, "put")) =>
        (console[k].write_state # "NORMAL" <=> \E p \in Procs : At(p, "put") /\ InCommand(p, k))

\* The VGA shows the page of the selected console and its cursor there, except while a
\* task that has written to it is on its way to the update (console.c:527).
Updating(k) == \E p \in Procs : on[p] = k /\ pc[p] \in {"drain", "compute", "output"}
CursorFollows ==
    /\ vga.start = curr_console_idx * Size
    /\ ~Updating(curr_console_idx) =>
          LET con == console[curr_console_idx] IN
          vga.cursor = vga.start + con.row * Cols + con.col

\* Every console keeps what Screen promises.
Page(k) == [r \in 0 .. Rows - 1 |-> [c \in 0 .. Cols - 1 |-> disp[k * Size + r * Cols + c]]]
Scr(k) == INSTANCE Screen WITH
              Text <- {"x"}, DefaultFg <- White, DefaultBg <- Black,
              rows <- Page(k), row <- console[k].row, col <- console[k].col,
              saved <- <<console[k].old_row, console[k].old_col>>,
              fg <- console[k].fg, bg <- console[k].bg
ShowsPages == /\ \A k \in Consoles : Scr(k)!Init
              /\ [][\A k \in Consoles : Scr(k)!Next \/ UNCHANGED Scr(k)!vars]_vars
=============================================================================
