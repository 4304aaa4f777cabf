--------------------------- MODULE ConsoleProofs ---------------------------
(***************************************************************************)
(* The consoles, for every number and size of them, every set of writers   *)
(* and of messages.                                                        *)
(***************************************************************************)
EXTENDS Console, TLAPS

-----------------------------------------------------------------------------
(* A console has the fields of console_t, and no byte moves its page.        *)

Modes == {"NORMAL", "ESC", "SQUARE"}

IsCon(con) ==
    con \in [disp_base : {con.disp_base}, write_state : Modes,
             row : {con.row}, col : {con.col}, old_row : {con.old_row}, old_col : {con.old_col},
             fg : {con.fg}, bg : {con.bg}, esc_param : {con.esc_param}, index : {con.index}]

IsView(t) == t \in [con : {t.con}, disp : {t.disp}] /\ IsCon(t.con)

Kept(t, u) == IsView(u) /\ u.con.disp_base = t.con.disp_base

\* What the parser knows.
Parser(con) == [mode |-> con.write_state, param |-> con.esc_param, index |-> con.index]

Unparsed(t, u) == Kept(t, u) /\ Parser(u.con) = Parser(t.con)

LEMMA MovesKeep ==
    ASSUME NEW t, IsView(t), NEW n, NEW start, NEW end
    PROVE  /\ Unparsed(t, erase_rows(t, start, end)) /\ Unparsed(t, clear_display(t))
           /\ Unparsed(t, scroll_up(t)) /\ Unparsed(t, move_to_col0(t)) /\ Unparsed(t, move_next_line(t))
           /\ Unparsed(t, save_cursor(t)) /\ Unparsed(t, restore_cursor(t))
           /\ Unparsed(t, move_backword(t))
           /\ Unparsed(t, move_left(t, n)) /\ Unparsed(t, move_right(t, n)) /\ Unparsed(t, move_cursor(t))
           /\ Unparsed(t, set_font_style(t))
           /\ (n \in Modes => Kept(t, Enter(t, n))) /\ Kept(t, clear_esc_param(t))
  <1>. USE DEF Unparsed, Parser, Kept, IsView, IsCon
  <1>0. ASSUME NEW u, IsView(u), NEW d, NEW r
        PROVE  Unparsed(u, [u EXCEPT !.disp = d, !.con.row = r])
    BY <1>0
  <1>1. ASSUME NEW u, IsView(u), NEW a, NEW b PROVE Unparsed(u, erase_rows(u, a, b))
    BY <1>1 DEF erase_rows
  <1>2. Unparsed(t, clear_display(t))
    BY <1>1 DEF clear_display
  <1>3. ASSUME NEW u, IsView(u) PROVE Unparsed(u, scroll_up(u))
    <2>. DEFINE up == [u EXCEPT !.disp = [i \in Cells |->
                          IF i \in Place(u, 0, 0) .. Place(u, Rows - 2, Cols - 1)
                          THEN u.disp[i + Cols] ELSE u.disp[i]],
                          !.con.row = @ - 1]
    <2>1. Unparsed(u, up)
      BY <1>0, <1>3
    <2>2. scroll_up(u) = erase_rows(up, Rows - 1, Rows - 1)
      BY DEF scroll_up
    <2>3. Unparsed(up, erase_rows(up, Rows - 1, Rows - 1))
      <3>. HIDE DEF up
      <3>. QED BY <2>1, <1>1
    <2>. QED BY <2>1, <2>2, <2>3
  <1>4. Unparsed(t, move_to_col0(t))
    BY DEF move_to_col0
  <1>5. Unparsed(t, move_next_line(t))
    <2>. DEFINE down == [t EXCEPT !.con.row = @ + 1]
    <2>1. Unparsed(t, down)
      OBVIOUS
    <2>2. move_next_line(t) \in {scroll_up(down), down}
      BY DEF move_next_line
    <2>3. Unparsed(down, scroll_up(down))
      <3>. HIDE DEF down
      <3>. QED BY <2>1, <1>3
    <2>. QED BY <2>1, <2>2, <2>3
  <1>6. Unparsed(t, save_cursor(t)) /\ Unparsed(t, restore_cursor(t)) /\ Unparsed(t, move_backword(t))
    BY DEF save_cursor, restore_cursor, move_backword
  <1>7. Unparsed(t, move_left(t, n)) /\ Unparsed(t, move_right(t, n)) /\ Unparsed(t, move_cursor(t))
    BY DEF move_left, move_right, move_cursor
  <1>8. (n \in Modes => Kept(t, Enter(t, n))) /\ Kept(t, clear_esc_param(t)) /\ Unparsed(t, set_font_style(t))
    BY DEF Enter, clear_esc_param, set_font_style
  <1>. HIDE DEF Unparsed, Parser, Kept, IsView, IsCon
  <1>. QED BY <1>1, <1>2, <1>3, <1>4, <1>5, <1>6, <1>7, <1>8

LEMMA CharsKeep ==
    ASSUME NEW t, IsView(t), NEW char
    PROVE  /\ Unparsed(t, show_char(t, char)) /\ Unparsed(t, erase_backword(t))
           /\ Unparsed(t, move_next_tab(t)) /\ Unparsed(t, erase_in_display(t))
  <1>1. ASSUME NEW u, IsView(u) PROVE Unparsed(u, move_forward(u))
    <2>1. Unparsed(u, move_to_col0(u)) /\ Unparsed(move_to_col0(u), move_next_line(move_to_col0(u)))
      BY <1>1, MovesKeep DEF Unparsed, Kept
    <2>2. Unparsed(u, [u EXCEPT !.con.col = @ + 1])
      BY <1>1 DEF Unparsed, Parser, Kept, IsView, IsCon
    <2>. QED BY <2>1, <2>2 DEF move_forward, Unparsed, Kept
  <1>2. ASSUME NEW u, IsView(u), NEW c PROVE Unparsed(u, show_char(u, c))
    <2>. DEFINE here == Place(u, u.con.row, u.con.col)
                cell == [c |-> c, fg |-> u.con.fg, bg |-> u.con.bg]
                shown == [u EXCEPT !.disp = [i \in Cells |-> IF i = here THEN cell ELSE u.disp[i]]]
    <2>1. Unparsed(u, shown)
      BY <1>2 DEF Unparsed, Parser, Kept, IsView, IsCon
    <2>2. show_char(u, c) = move_forward(shown)
      BY DEF show_char
    <2>. HIDE DEF shown
    <2>. QED BY <2>1, <2>2, <1>1 DEF Unparsed, Kept
  <1>3. Unparsed(t, erase_backword(t))
    <2>1. Unparsed(t, t)
      BY DEF Unparsed, Kept
    <2>2. Unparsed(t, move_backword(t))
      BY MovesKeep
    <2>3. Unparsed(move_backword(t), show_char(move_backword(t), "blank"))
      BY <2>2, <1>2 DEF Unparsed, Kept
    <2>4. Unparsed(show_char(move_backword(t), "blank"), move_backword(show_char(move_backword(t), "blank")))
      BY <2>3, MovesKeep DEF Unparsed, Kept
    <2>. QED BY <2>1, <2>2, <2>3, <2>4 DEF erase_backword, Unparsed, Kept
  <1>4. Unparsed(t, move_next_tab(t))
    <2>1. Unparsed(t, move_to_col0(t)) /\ Unparsed(move_to_col0(t), move_next_line(move_to_col0(t)))
      BY MovesKeep DEF Unparsed, Kept
    <2>2. ASSUME NEW c PROVE Unparsed(t, [t EXCEPT !.con.col = c])
      BY DEF Unparsed, Parser, Kept, IsView, IsCon
    <2>. QED BY <2>1, <2>2 DEF move_next_tab, Unparsed, Kept
  <1>5. Unparsed(t, erase_in_display(t))
    <2>1. Unparsed(t, clear_display(t))
      BY MovesKeep
    <2>2. ASSUME NEW u, IsView(u) PROVE Unparsed(u, [u EXCEPT !.con.row = 0, !.con.col = 0])
      BY <2>2 DEF Unparsed, Parser, Kept, IsView, IsCon
    <2>. QED BY <2>1, <2>2 DEF erase_in_display, Unparsed, Kept
  <1>. QED BY <1>2, <1>3, <1>4, <1>5

\* What the parser makes of a byte.
ParserNext(s, char) ==
    CASE s.mode = "NORMAL" -> [s EXCEPT !.mode = IF char = "esc" THEN "ESC" ELSE "NORMAL"]
      [] s.mode = "ESC" ->
            IF char = "[" THEN [mode |-> "SQUARE", param |-> [i \in Params |-> 0], index |-> 0]
                          ELSE [s EXCEPT !.mode = "NORMAL"]
      [] s.mode = "SQUARE" ->
            IF char \in DOMAIN Digit THEN [s EXCEPT !.param[s.index] = @ * 10 + Digit[char]]
            ELSE IF char = ";" /\ s.index < EscParamMax THEN [s EXCEPT !.index = @ + 1]
            ELSE [s EXCEPT !.index = @ + 1, !.mode = "NORMAL"]

Parses(t, u, char) == Kept(t, u) /\ Parser(u.con) = ParserNext(Parser(t.con), char)

LEMMA WrittenKeeps ==
    ASSUME NEW t, IsView(t), NEW char
    PROVE  Parses(t, Written(t, char), char)
  <1>0. /\ "NORMAL" \in Modes /\ "ESC" \in Modes /\ "SQUARE" \in Modes /\ Unparsed(t, t)
        /\ Parser(t.con).mode = t.con.write_state /\ Parser(t.con).param = t.con.esc_param
        /\ Parser(t.con).index = t.con.index
    BY DEF Modes, Kept, Unparsed, Parser
  <1>a. ASSUME NEW u, Kept(t, u), NEW mode \in Modes
        PROVE  Kept(t, Enter(u, mode)) /\ Parser(Enter(u, mode).con) = [Parser(u.con) EXCEPT !.mode = mode]
    <2>1. Kept(t, Enter(u, mode))
      BY <1>a, MovesKeep DEF Kept
    <2>2. Parser(Enter(u, mode).con) = [Parser(u.con) EXCEPT !.mode = mode]
      BY <1>a DEF Enter, Kept, IsView, IsCon, Parser
    <2>. QED BY <2>1, <2>2
  <1>1. ASSUME t.con.write_state = "NORMAL" PROVE Parses(t, write_normal(t, char), char)
    <2>1. CASE char = "esc"
      <3>1. write_normal(t, char) = Enter(t, "ESC")
        BY <2>1 DEF write_normal, Printable, Digit
      <3>. QED BY <1>0, <1>1, <1>a, <2>1, <3>1 DEF Parses, ParserNext, Unparsed
    <2>2. CASE char # "esc"
      <3>1. Unparsed(t, write_normal(t, char))
        BY <1>0, <2>2, MovesKeep, CharsKeep DEF write_normal
      <3>2. ParserNext(Parser(t.con), char) = Parser(t.con)
        BY <1>1, <2>2 DEF ParserNext, Parser
      <3>. QED BY <3>1, <3>2 DEF Parses, Unparsed
    <2>. QED BY <2>1, <2>2
  <1>2. ASSUME t.con.write_state = "ESC" PROVE Parses(t, write_esc(t, char), char)
    <2>1. CASE char = "["
      <3>1. write_esc(t, char) = Enter(clear_esc_param(t), "SQUARE")
        BY <2>1 DEF write_esc
      <3>2. /\ Kept(t, clear_esc_param(t))
            /\ Parser(clear_esc_param(t).con) =
                  [mode |-> "ESC", param |-> [i \in Params |-> 0], index |-> 0]
        BY <1>2, MovesKeep DEF clear_esc_param, IsView, IsCon, Parser
      <3>. HIDE DEF Params
      <3>. QED BY <1>0, <1>2, <1>a, <2>1, <3>1, <3>2 DEF Parses, ParserNext
    <2>2. CASE char # "["
      <3>1. PICK u : Unparsed(t, u) /\ write_esc(t, char) = Enter(u, "NORMAL")
        BY <1>0, <2>2, MovesKeep DEF write_esc
      <3>. QED BY <1>0, <1>2, <1>a, <2>2, <3>1 DEF Parses, ParserNext, Unparsed
    <2>. QED BY <2>1, <2>2
  <1>3. ASSUME t.con.write_state = "SQUARE" PROVE Parses(t, write_esc_square(t, char), char)
    <2>. DEFINE next == [t EXCEPT !.con.index = @ + 1]
    <2>1. Kept(t, next) /\ Parser(next.con) = [Parser(t.con) EXCEPT !.index = @ + 1]
      BY DEF Kept, IsView, IsCon, Parser
    <2>2. CASE char \in DOMAIN Digit
      <3>1. ASSUME NEW e
            PROVE  /\ Kept(t, [t EXCEPT !.con.esc_param = e])
                   /\ Parser([t EXCEPT !.con.esc_param = e].con) = [Parser(t.con) EXCEPT !.param = e]
        BY DEF Kept, IsView, IsCon, Parser
      <3>. DEFINE e == [t.con.esc_param EXCEPT ![t.con.index] = @ * 10 + Digit[char]]
      <3>2. write_esc_square(t, char) = [t EXCEPT !.con.esc_param = e]
        BY <2>2 DEF write_esc_square, IsView, IsCon
      <3>3. ParserNext(Parser(t.con), char) = [Parser(t.con) EXCEPT !.param = e]
        BY <1>3, <2>2 DEF ParserNext, Parser
      <3>. HIDE DEF e
      <3>. QED BY <3>1, <3>2, <3>3 DEF Parses
    <2>3. CASE char \notin DOMAIN Digit /\ char = ";" /\ t.con.index < EscParamMax
      <3>1. write_esc_square(t, char) = next
        BY <2>3 DEF write_esc_square
      <3>2. ParserNext(Parser(t.con), char) = [Parser(t.con) EXCEPT !.index = @ + 1]
        BY <1>0, <1>3, <2>3 DEF ParserNext
      <3>. QED BY <2>1, <3>1, <3>2 DEF Parses
    <2>4. CASE char \notin DOMAIN Digit /\ ~(char = ";" /\ t.con.index < EscParamMax)
      <3>1. write_esc_square(t, char) = Enter(Command(next, char), "NORMAL")
        BY <2>4 DEF write_esc_square
      <3>2. ParserNext(Parser(t.con), char) = [Parser(t.con) EXCEPT !.index = @ + 1, !.mode = "NORMAL"]
        BY <1>0, <1>3, <2>4 DEF ParserNext
      <3>3. Unparsed(next, Command(next, char))
        <4>1. ASSUME NEW u, IsView(u) PROVE Unparsed(u, Command(u, char))
          BY <4>1, MovesKeep, CharsKeep DEF Command, Kept, Unparsed
        <4>. QED BY <2>1, <4>1 DEF Kept
      <3>. HIDE DEF next
      <3>4. Kept(t, Command(next, char)) /\ Parser(Command(next, char).con) = [Parser(t.con) EXCEPT !.index = @ + 1]
        BY <2>1, <3>3 DEF Unparsed, Kept
      <3>5. [[Parser(t.con) EXCEPT !.index = @ + 1] EXCEPT !.mode = "NORMAL"]
              = [Parser(t.con) EXCEPT !.index = @ + 1, !.mode = "NORMAL"]
        BY DEF Parser
      <3>. DEFINE c == Command(next, char)
      <3>6. Kept(t, c) /\ Parser(c.con) = [Parser(t.con) EXCEPT !.index = @ + 1]
        BY <3>4
      <3>7. write_esc_square(t, char) = Enter(c, "NORMAL")
        BY <3>1
      <3>. HIDE DEF c
      <3>8. Kept(t, Enter(c, "NORMAL")) /\ Parser(Enter(c, "NORMAL").con) = [Parser(c.con) EXCEPT !.mode = "NORMAL"]
        BY <1>0, <1>a, <3>6
      <3>. QED BY <3>2, <3>5, <3>6, <3>7, <3>8 DEF Parses
    <2>. QED BY <2>2, <2>3, <2>4
  <1>. QED BY <1>1, <1>2, <1>3 DEF Written, IsView, IsCon, Modes

\* Setting a console up places it on its own page.
LEMMA InitKeeps ==
    ASSUME NEW t, IsView(t), NEW k
    PROVE  LET u == console_init(t, k) IN
           IsView(u) /\ u.con.disp_base = k * Size /\ Parser(u.con) = Parser(t.con)
  <1>. DEFINE placed == [t EXCEPT !.con.disp_base = k * Size, !.con.fg = White, !.con.bg = Black]
  <1>1. IsView(placed) /\ placed.con.disp_base = k * Size /\ Parser(placed.con) = Parser(t.con)
    BY DEF IsView, IsCon, Parser
  <1>2. Unparsed(placed, clear_display(placed))
    <2>. HIDE DEF placed
    <2>. QED BY <1>1, MovesKeep
  <1>3. ASSUME NEW u, IsView(u)
        PROVE  Unparsed(u, [u EXCEPT !.con.row = 0, !.con.col = 0, !.con.old_row = 0, !.con.old_col = 0])
    BY <1>3 DEF Kept, IsView, IsCon, Unparsed, Parser
  <1>4. console_init(t, k) = [clear_display(placed) EXCEPT
            !.con.row = 0, !.con.col = 0, !.con.old_row = 0, !.con.old_col = 0]
    BY DEF console_init
  <1>. HIDE DEF placed
  <1>. QED BY <1>1, <1>2, <1>3, <1>4 DEF Kept, Unparsed
-----------------------------------------------------------------------------
(* The cursor the VGA shows.                                                 *)

Steps == {"user", "put", "drain", "compute", "output"}

Shapes ==
    /\ pc \in [Procs -> Steps] /\ on \in [Procs -> Consoles]
    /\ pos = [p \in Procs |-> pos[p]]
    /\ vga \in [start : {vga.start}, cursor : {vga.cursor}]
    /\ console = [k \in Consoles |-> console[k]]
    /\ \A k \in Consoles : IsCon(console[k]) /\ console[k].disp_base \in {NotSet, k * Size}
    /\ curr_console_idx \in Consoles /\ IsOpen(curr_console_idx)

\* Who has found that its console is the selected one is alone with the screen until its
\* position is output, and that position is right.
Alone(p) == \A q \in Procs \ {p} : pc[q] \notin {"compute", "output"}

PositionRight ==
    \A p \in Procs :
        /\ pc[p] \in {"compute", "output"} => on[p] = curr_console_idx /\ Alone(p)
        /\ pc[p] = "output" => pos[p] = Position(on[p], View(on[p]))

CursorInv == Shapes /\ CursorFollows /\ PositionRight

LEMMA SizeFacts ==
    /\ Size \in Nat /\ Size > 0
    /\ \A k \in Consoles : k \in Nat /\ k * Size \in Nat /\ k * Size # NotSet
  <1>1. Rows \in Nat /\ Rows > 0 /\ Cols \in Nat /\ Cols > 0 /\ ConsoleNr \in Nat
    BY ConsoleAssumption
  <1>2. ASSUME NEW a \in Nat, NEW b \in Nat PROVE a * b \in Nat /\ (a > 0 /\ b > 0 => a * b > 0)
    BY <1>2
  <1>3. Size \in Nat /\ Size > 0
    BY <1>1, <1>2 DEF Size
  <1>. QED BY <1>1, <1>2, <1>3 DEF Consoles, NotSet

LEMMA ViewShape ==
    ASSUME Shapes, NEW k \in Consoles
    PROVE  IsView(View(k)) /\ View(k).con = console[k] /\ View(k).disp = disp
  BY DEF Shapes, View, IsView

LEMMA CursorInvStart == Init => CursorInv
  <1>. SUFFICES ASSUME Init PROVE CursorInv
    OBVIOUS
  <1>0. 0 \in Consoles /\ 0 * Size = 0 /\ NotSet # 0
    BY ConsoleAssumption, SizeFacts DEF Consoles, NotSet
  <1>1. PICK at \in 0 .. Size - 1 :
           /\ console = [k \in Consoles |->
                IF k > 0 THEN Zeroed
                ELSE [Zeroed EXCEPT !.disp_base = 0, !.fg = White,
                                    !.row = at \div Cols, !.col = at % Cols,
                                    !.old_row = at \div Cols, !.old_col = at % Cols]]
           /\ vga = [start |-> 0, cursor |-> at]
    BY DEF Init
  <1>2. console[0].row = at \div Cols /\ console[0].col = at % Cols /\ console[0].disp_base = 0
    <2>1. console[0] = [Zeroed EXCEPT !.disp_base = 0, !.fg = White,
                                      !.row = at \div Cols, !.col = at % Cols,
                                      !.old_row = at \div Cols, !.old_col = at % Cols]
      BY <1>0, <1>1
    <2>. QED BY <2>1 DEF Zeroed
  <1>3. \A k \in Consoles : IsCon(console[k]) /\ console[k].disp_base \in {NotSet, k * Size}
    <2>. TAKE k \in Consoles
    <2>1. CASE k > 0
      BY <2>1, <1>1 DEF Zeroed, IsCon, Modes
    <2>2. CASE ~(k > 0)
      <3>1. k = 0
        BY <2>2, SizeFacts
      <3>. QED BY <3>1, <1>0, <1>1 DEF Zeroed, IsCon, Modes
    <2>. QED BY <2>1, <2>2
  <1>4. Shapes
    BY <1>0, <1>1, <1>2, <1>3 DEF Init, Shapes, Steps, IsOpen
  <1>5. CursorFollows
    <2>1. at \in Nat /\ Cols \in Nat \ {0}
      BY ConsoleAssumption, SizeFacts
    <2>2. ASSUME NEW a \in Nat, NEW b \in Nat \ {0} PROVE a = 0 + (a \div b) * b + (a % b)
      BY <2>2, SMTT(30)
    <2>3. at = 0 + (at \div Cols) * Cols + (at % Cols)
      BY <2>1, <2>2
    <2>4. vga.cursor = at /\ vga.start = 0 /\ curr_console_idx = 0
      BY <1>1 DEF Init
    <2>. QED BY <1>0, <1>2, <2>3, <2>4 DEF CursorFollows
  <1>6. PositionRight
    BY DEF Init, PositionRight
  <1>. QED BY <1>4, <1>5, <1>6 DEF CursorInv

\* A console that is shown anew keeps its shape, the others are as they were.
LEMMA ShowKeeps ==
    ASSUME Shapes, NEW k \in Consoles, NEW t, IsView(t), Show(k, t),
           t.con.disp_base \in {NotSet, k * Size}
    PROVE  /\ console' = [j \in Consoles |-> console'[j]]
           /\ \A j \in Consoles : IsCon(console'[j]) /\ console'[j].disp_base \in {NotSet, j * Size}
           /\ console'[k] = t.con
           /\ \A j \in Consoles \ {k} : console'[j] = console[j]
  BY DEF Shapes, Show, IsView

LEMMA ShapesStep ==
    ASSUME Shapes, [Next]_vars
    PROVE  Shapes'
  <1>1. ASSUME NEW k \in Consoles, tty_open(k)
        PROVE  Shapes'
    <2>1. IsView(console_init(View(k), k)) /\ console_init(View(k), k).con.disp_base = k * Size
      BY ViewShape, InitKeeps
    <2>2. /\ console' = [j \in Consoles |-> console'[j]]
          /\ \A j \in Consoles : IsCon(console'[j]) /\ console'[j].disp_base \in {NotSet, j * Size}
          /\ \A j \in Consoles \ {k} : console'[j] = console[j]
      BY <1>1, <2>1, ShowKeeps DEF tty_open
    <2>3. k # curr_console_idx /\ UNCHANGED <<curr_console_idx, vga, pc, on, pos>>
      BY <1>1 DEF tty_open, taskVars, Shapes
    <2>. QED BY <2>2, <2>3 DEF Shapes, IsOpen
  <1>2. ASSUME NEW k \in Consoles, console_select(k)
        PROVE  Shapes'
    <2>. DEFINE t == IF IsOpen(k) THEN View(k) ELSE console_init(View(k), k)
    <2>1. IsView(t) /\ t.con.disp_base = k * Size
      BY ViewShape, InitKeeps DEF Shapes, IsOpen
    <2>2. /\ Show(k, t)
          /\ vga' = [start |-> k * Size, cursor |-> Position(k, t)]
          /\ curr_console_idx' = k
          /\ UNCHANGED <<pc, on, pos>>
      BY <1>2 DEF console_select, taskVars
    <2>. HIDE DEF t
    <2>3. /\ console' = [j \in Consoles |-> console'[j]]
          /\ \A j \in Consoles : IsCon(console'[j]) /\ console'[j].disp_base \in {NotSet, j * Size}
          /\ console'[k] = t.con
      BY <2>1, <2>2, ShowKeeps
    <2>. QED BY <2>1, <2>2, <2>3, SizeFacts DEF Shapes, IsOpen
  <1>3. ASSUME NEW w \in Writes, tty_write(w[1], w[2], w[3])
        PROVE  Shapes'
    <2>1. w[1] \in Procs /\ w[2] \in Consoles
      BY ConsoleAssumption
    <2>2. /\ pc' = [pc EXCEPT ![w[1]] = "put"] /\ on' = [on EXCEPT ![w[1]] = w[2]]
          /\ UNCHANGED <<console, curr_console_idx, vga, pos>>
      BY <1>3 DEF tty_write, Goto, screenVars
    <2>. QED BY <2>1, <2>2 DEF Shapes, Steps, IsOpen
  <1>4. ASSUME NEW p \in Procs, put(p)
        PROVE  Shapes'
    <2>1. /\ pc' = [pc EXCEPT ![p] = "drain"]
          /\ UNCHANGED <<console, curr_console_idx, vga, on, pos>>
      BY <1>4 DEF put, Goto, screenVars
    <2>. QED BY <2>1 DEF Shapes, Steps, IsOpen
  <1>5. ASSUME NEW p \in Procs, drain(p)
        PROVE  Shapes'
    <2>. DEFINE t == Written(View(on[p]), Head(ofifo[on[p]]))
    <2>1. /\ Show(on[p], t) /\ on[p] \in Consoles
          /\ UNCHANGED <<curr_console_idx, vga, pc, on, pos>>
      BY <1>5 DEF drain, taskVars, Shapes
    <2>2. IsView(t) /\ t.con.disp_base = console[on[p]].disp_base
      BY <2>1, ViewShape, WrittenKeeps DEF Parses, Kept
    <2>. HIDE DEF t
    <2>3. t.con.disp_base \in {NotSet, on[p] * Size}
      BY <2>1, <2>2 DEF Shapes
    <2>4. /\ console' = [j \in Consoles |-> console'[j]]
          /\ \A j \in Consoles : IsCon(console'[j]) /\ console'[j].disp_base \in {NotSet, j * Size}
          /\ console'[on[p]] = t.con
          /\ \A j \in Consoles \ {on[p]} : console'[j] = console[j]
      BY <2>1, <2>2, <2>3, ShowKeeps
    <2>. QED BY <2>1, <2>2, <2>4 DEF Shapes, IsOpen
  <1>6. ASSUME NEW p \in Procs, unlock(p)
        PROVE  Shapes'
    <2>1. /\ UNCHANGED <<console, curr_console_idx, vga, on, pos>>
          /\ \/ pc' = [pc EXCEPT ![p] = "compute"]
             \/ pc' = [pc EXCEPT ![p] = "user"]
             \/ pc' = [pc EXCEPT ![p] = "put"]
      BY <1>6 DEF unlock, Goto, screenVars, NextByte
    <2>. QED BY <2>1 DEF Shapes, Steps, IsOpen
  <1>7. ASSUME NEW p \in Procs, compute(p)
        PROVE  Shapes'
    <2>1. /\ pc' = [pc EXCEPT ![p] = "output"]
          /\ pos' = [pos EXCEPT ![p] = Position(on[p], View(on[p]))]
          /\ UNCHANGED <<console, curr_console_idx, vga, on>>
      BY <1>7 DEF compute, Goto, screenVars
    <2>. QED BY <2>1 DEF Shapes, Steps, IsOpen
  <1>8. ASSUME NEW p \in Procs, output(p)
        PROVE  Shapes'
    <2>1. /\ vga' = [vga EXCEPT !.cursor = pos[p]]
          /\ pos' = [pos EXCEPT ![p] = 0]
          /\ pc' = [pc EXCEPT ![p] = "user"] \/ pc' = [pc EXCEPT ![p] = "put"]
          /\ UNCHANGED <<console, curr_console_idx, on>>
      BY <1>8 DEF output, Goto, screenVars, NextByte
    <2>. QED BY <2>1 DEF Shapes, Steps, IsOpen
  <1>9. CASE UNCHANGED vars
    BY <1>9 DEF vars, screenVars, taskVars, Shapes, IsOpen
  <1>. QED BY <1>1, <1>2, <1>3, <1>4, <1>5, <1>6, <1>7, <1>8, <1>9 DEF Next

LEMMA CursorInvStep ==
    ASSUME "stale" \notin Mishaps, CursorInv, [Next]_vars
    PROVE  CursorInv'
  <1>. USE DEF CursorInv
  <1>0. Shapes'
    BY ShapesStep
  <1>1. ASSUME NEW k \in Consoles, tty_open(k)
        PROVE  CursorInv'
    <2>1. \A q \in Procs : pc[q] \notin {"compute", "output"}
      BY <1>1, ConsoleAssumption DEF tty_open, Undisturbed
    <2>2. IsView(console_init(View(k), k)) /\ console_init(View(k), k).con.disp_base = k * Size
      BY ViewShape, InitKeeps
    <2>3. k # curr_console_idx
      BY <1>1 DEF tty_open, Shapes
    <2>4. /\ console' = [j \in Consoles |-> console'[j]]
          /\ \A j \in Consoles : IsCon(console'[j]) /\ console'[j].disp_base \in {NotSet, j * Size}
          /\ \A j \in Consoles \ {k} : console'[j] = console[j]
      BY <1>1, <2>2, ShowKeeps DEF tty_open
    <2>5. UNCHANGED <<curr_console_idx, vga, pc, on, pos>>
      BY <1>1 DEF tty_open, taskVars
    <2>7. CursorFollows'
      BY <2>3, <2>4, <2>5 DEF CursorFollows, Updating, Shapes
    <2>8. PositionRight'
      BY <2>1, <2>5 DEF PositionRight
    <2>. QED BY <1>0, <2>7, <2>8
  <1>2. ASSUME NEW k \in Consoles, console_select(k)
        PROVE  CursorInv'
    <2>1. \A q \in Procs : pc[q] \notin {"compute", "output"}
      BY <1>2, ConsoleAssumption DEF console_select, Undisturbed
    <2>. DEFINE t == IF IsOpen(k) THEN View(k) ELSE console_init(View(k), k)
    <2>2. IsView(t) /\ t.con.disp_base = k * Size
      BY ViewShape, InitKeeps DEF Shapes, IsOpen
    <2>3. /\ Show(k, t)
          /\ vga' = [start |-> k * Size, cursor |-> Position(k, t)]
          /\ curr_console_idx' = k
          /\ UNCHANGED <<pc, on, pos>>
      BY <1>2 DEF console_select, taskVars
    <2>. HIDE DEF t
    <2>4. /\ console' = [j \in Consoles |-> console'[j]]
          /\ \A j \in Consoles : IsCon(console'[j]) /\ console'[j].disp_base \in {NotSet, j * Size}
          /\ console'[k] = t.con
      BY <2>2, <2>3, ShowKeeps
    <2>6. CursorFollows'
      BY <2>3, <2>4 DEF CursorFollows, Position
    <2>7. PositionRight'
      BY <2>1, <2>3 DEF PositionRight
    <2>. QED BY <1>0, <2>6, <2>7
  <1>3. ASSUME NEW w \in Writes, tty_write(w[1], w[2], w[3])
        PROVE  CursorInv'
    <2>. DEFINE p == w[1]
    <2>0. p \in Procs /\ w[2] \in Consoles
      BY ConsoleAssumption
    <2>1. /\ pc[p] = "user" /\ pc' = [pc EXCEPT ![p] = "put"] /\ on' = [on EXCEPT ![p] = w[2]]
          /\ UNCHANGED <<console, disp, curr_console_idx, vga, pos>>
      BY <1>3 DEF tty_write, At, Goto, screenVars
    <2>. HIDE DEF p
    <2>3. CursorFollows'
      BY <2>0, <2>1 DEF CursorFollows, Updating, Shapes
    <2>4. PositionRight'
      BY <2>0, <2>1 DEF PositionRight, Alone, Shapes, Position, View
    <2>. QED BY <1>0, <2>3, <2>4
  <1>4. ASSUME NEW p \in Procs, put(p)
        PROVE  CursorInv'
    <2>1. /\ pc[p] = "put" /\ pc' = [pc EXCEPT ![p] = "drain"]
          /\ UNCHANGED <<console, disp, curr_console_idx, vga, on, pos>>
      BY <1>4 DEF put, At, Goto, screenVars
    <2>3. CursorFollows'
      BY <2>1 DEF CursorFollows, Updating, Shapes
    <2>4. PositionRight'
      BY <2>1 DEF PositionRight, Alone, Shapes, Position, View
    <2>. QED BY <1>0, <2>3, <2>4
  <1>5. ASSUME NEW p \in Procs, drain(p)
        PROVE  CursorInv'
    <2>. DEFINE t == Written(View(on[p]), Head(ofifo[on[p]]))
    <2>1. /\ pc[p] = "drain" /\ Show(on[p], t) /\ on[p] \in Consoles
          /\ UNCHANGED <<curr_console_idx, vga, pc, on, pos>>
      BY <1>5 DEF drain, At, taskVars, Shapes
    <2>2. \A q \in Procs : pc[q] \notin {"compute", "output"}
      BY <1>5, <2>1 DEF drain, Undisturbed
    <2>3. IsView(t) /\ t.con.disp_base = console[on[p]].disp_base
      BY <2>1, ViewShape, WrittenKeeps DEF Parses, Kept
    <2>. HIDE DEF t
    <2>4. t.con.disp_base \in {NotSet, on[p] * Size}
      BY <2>1, <2>3 DEF Shapes
    <2>5. /\ console' = [j \in Consoles |-> console'[j]]
          /\ \A j \in Consoles : IsCon(console'[j]) /\ console'[j].disp_base \in {NotSet, j * Size}
          /\ console'[on[p]] = t.con
          /\ \A j \in Consoles \ {on[p]} : console'[j] = console[j]
      BY <2>1, <2>3, <2>4, ShowKeeps
    <2>7. CursorFollows'
      BY <2>1, <2>5 DEF CursorFollows, Updating, Shapes
    <2>8. PositionRight'
      BY <2>1, <2>2 DEF PositionRight
    <2>. QED BY <1>0, <2>7, <2>8
  <1>6. ASSUME NEW p \in Procs, unlock(p)
        PROVE  CursorInv'
    <2>1. /\ pc[p] = "drain" /\ Undisturbed(p)
          /\ UNCHANGED <<console, disp, curr_console_idx, vga, on, pos>>
          /\ \/ on[p] = curr_console_idx /\ pc' = [pc EXCEPT ![p] = "compute"]
             \/ on[p] # curr_console_idx /\ pc' = [pc EXCEPT ![p] = "user"]
             \/ on[p] # curr_console_idx /\ pc' = [pc EXCEPT ![p] = "put"]
      BY <1>6 DEF unlock, At, Goto, screenVars, Visible, NextByte
    <2>3. CursorFollows'
      BY <2>1 DEF CursorFollows, Updating, Shapes
    <2>4. PositionRight'
      BY <2>1 DEF PositionRight, Alone, Shapes, Position, View, Undisturbed
    <2>. QED BY <1>0, <2>3, <2>4
  <1>7. ASSUME NEW p \in Procs, compute(p)
        PROVE  CursorInv'
    <2>1. /\ pc[p] = "compute" /\ pc' = [pc EXCEPT ![p] = "output"]
          /\ pos' = [pos EXCEPT ![p] = Position(on[p], View(on[p]))]
          /\ UNCHANGED <<console, disp, curr_console_idx, vga, on>>
      BY <1>7 DEF compute, At, Goto, screenVars
    <2>3. CursorFollows'
      BY <2>1 DEF CursorFollows, Updating, Shapes
    <2>4. PositionRight'
      BY <2>1 DEF PositionRight, Alone, Shapes, Position, View
    <2>. QED BY <1>0, <2>3, <2>4
  <1>8. ASSUME NEW p \in Procs, output(p)
        PROVE  CursorInv'
    <2>1. /\ pc[p] = "output" /\ vga' = [vga EXCEPT !.cursor = pos[p]]
          /\ pos' = [pos EXCEPT ![p] = 0]
          /\ pc' = [pc EXCEPT ![p] = "user"] \/ pc' = [pc EXCEPT ![p] = "put"]
          /\ UNCHANGED <<console, disp, curr_console_idx, on>>
      BY <1>8 DEF output, At, Goto, screenVars, NextByte
    <2>2. on[p] = curr_console_idx /\ Alone(p) /\ pos[p] = Position(on[p], View(on[p]))
      BY <2>1 DEF PositionRight
    <2>3. vga'.start = vga.start /\ vga'.cursor = pos[p]
      BY <2>1 DEF Shapes
    <2>5. CursorFollows'
      BY <2>1, <2>2, <2>3 DEF CursorFollows, Position, View
    <2>6. PositionRight'
      BY <2>1, <2>2 DEF PositionRight, Alone, Shapes
    <2>. QED BY <1>0, <2>5, <2>6
  <1>9. CASE UNCHANGED vars
    BY <1>9 DEF vars, screenVars, taskVars, Shapes, IsOpen, CursorFollows, Updating,
                PositionRight, Alone, Position, View
  <1>. QED BY <1>1, <1>2, <1>3, <1>4, <1>5, <1>6, <1>7, <1>8, <1>9 DEF Next

\* The VGA shows the selected console and its cursor, however the screens are switched,
\* when a task's test of curr_console_idx and its output are not separated (console.c:594).
THEOREM CursorIsFollowed ==
    ASSUME "stale" \notin Mishaps
    PROVE  Spec => []CursorFollows
  <1>1. CursorInv /\ [Next]_vars => CursorInv'
    BY CursorInvStep
  <1>2. CursorInv => CursorFollows
    BY DEF CursorInv
  <1>. QED BY <1>1, <1>2, CursorInvStart, PTL DEF Spec

-----------------------------------------------------------------------------
(* Where the cells of a page are in the video memory.                        *)

Rws == 0 .. Rows - 1
Cls == 0 .. Cols - 1

LEMMA Products ==
    /\ Rows \in Nat \ {0} /\ Cols \in Nat \ {0} /\ TabStop \in Nat \ {0} /\ ConsoleNr \in Nat \ {0}
    /\ \A a, b \in Int : a * b \in Int
    /\ \A a, b \in Nat : a * b \in Nat
    /\ \A a, b \in Int : (a + 1) * b = a * b + b /\ (a - 1) * b = a * b - b
    /\ \A a, b \in Int, n \in Nat : a <= b => a * n <= b * n
  <1>1. Rows \in Nat \ {0} /\ Cols \in Nat \ {0} /\ TabStop \in Nat \ {0} /\ ConsoleNr \in Nat \ {0}
    BY ConsoleAssumption
  <1>2. \A a, b \in Int : a * b \in Int
    OBVIOUS
  <1>3. \A a, b \in Nat : a * b \in Nat
    OBVIOUS
  <1>4. \A a, b \in Int : (a + 1) * b = a * b + b /\ (a - 1) * b = a * b - b
    OBVIOUS
  <1>5. \A a, b \in Int, n \in Nat : a <= b => a * n <= b * n
    OBVIOUS
  <1>. QED BY <1>1, <1>2, <1>3, <1>4, <1>5

\* Cells are read row by row.
LEMMA RowByRow ==
    ASSUME NEW r \in Int, NEW c \in Cls, NEW s \in Int, NEW d \in Cls
    PROVE  /\ r * Cols + c < s * Cols + d <=> r < s \/ (r = s /\ c < d)
           /\ r * Cols + c = s * Cols + d => r = s /\ c = d
  <1>. DEFINE x == r * Cols
              y == s * Cols
  <1>1. x \in Int /\ y \in Int /\ Cols \in Nat
    BY Products
  <1>2. r < s => x + Cols <= y
    <2>1. (r + 1) * Cols = x + Cols
      BY Products
    <2>2. r < s => (r + 1) * Cols <= y
      BY Products
    <2>. QED BY <2>1, <2>2
  <1>3. s < r => y + Cols <= x
    <2>1. (s + 1) * Cols = y + Cols
      BY Products
    <2>2. s < r => (s + 1) * Cols <= x
      BY Products
    <2>. QED BY <2>1, <2>2
  <1>4. r = s => x = y
    OBVIOUS
  <1>. HIDE DEF x, y
  <1>5. x + c < y + d <=> r < s \/ (r = s /\ c < d)
    BY <1>1, <1>2, <1>3, <1>4 DEF Cls
  <1>6. x + c = y + d => r = s /\ c = d
    BY <1>1, <1>2, <1>3, <1>4 DEF Cls
  <1>. QED BY <1>5, <1>6 DEF x, y

\* Every cell of a page is in one row and one column.
LEMMA PageCells ==
    /\ Size = (Rows - 1) * Cols + Cols
    /\ \A r \in Rws, c \in Cls : r * Cols + c \in 0 .. Size - 1
    /\ \A i \in 0 .. Size - 1 : \E r \in Rws, c \in Cls : i = r * Cols + c
  <1>1. Size = (Rows - 1) * Cols + Cols
    BY Products DEF Size
  <1>2. ASSUME NEW r \in Rws, NEW c \in Cls PROVE r * Cols + c \in 0 .. Size - 1
    <2>1. r * Cols \in Nat /\ (Rows - 1) * Cols \in Int
      BY Products DEF Rws
    <2>2. r * Cols <= (Rows - 1) * Cols
      BY Products DEF Rws
    <2>. QED BY <1>1, <2>1, <2>2, Products DEF Cls
  <1>3. ASSUME NEW i \in 0 .. Size - 1 PROVE \E r \in Rws, c \in Cls : i = r * Cols + c
    <2>1. i \in Nat /\ i < Size /\ Cols \in Nat \ {0}
      BY SizeFacts, Products
    <2>2. ASSUME NEW a \in Nat, NEW b \in Nat \ {0}
          PROVE  a = (a \div b) * b + (a % b) /\ a \div b \in Nat /\ a % b \in 0 .. b - 1
      BY <2>2, SMTT(30)
    <2>3. i = (i \div Cols) * Cols + (i % Cols) /\ i \div Cols \in Nat /\ i % Cols \in Cls
      BY <2>1, <2>2 DEF Cls
    <2>4. i \div Cols < Rows
      <3>1. SUFFICES ASSUME Rows <= i \div Cols PROVE FALSE
        BY <2>3, Products
      <3>2. Rows * Cols <= (i \div Cols) * Cols
        BY <2>3, <3>1, Products
      <3>3. (i \div Cols) * Cols \in Int /\ Rows * Cols \in Int
        BY <2>3, Products
      <3>. QED BY <2>1, <2>3, <3>2, <3>3 DEF Size, Cls
    <2>5. i \div Cols \in Rws
      BY <2>3, <2>4, Products DEF Rws
    <2>. QED BY <2>3, <2>5
  <1>. QED BY <1>1, <1>2, <1>3

\* The pages lie one behind the other.
LEMMA ScreensApart ==
    ASSUME NEW k \in Consoles, NEW i \in 0 .. Size - 1
    PROVE  /\ k * Size + i \in Cells
           /\ \A j \in Consoles \ {k} : k * Size + i \notin j * Size .. j * Size + Size - 1
  <1>. DEFINE x == k * Size
  <1>1. Size \in Nat /\ k \in Nat /\ x \in Nat /\ i \in Nat /\ i < Size
    BY SizeFacts
  <1>2. x + Size <= ConsoleNr * Size /\ ConsoleNr * Size \in Int
    <2>1. k + 1 <= ConsoleNr
      BY Products DEF Consoles
    <2>2. (k + 1) * Size <= ConsoleNr * Size
      BY <2>1, <1>1, Products
    <2>3. (k + 1) * Size = x + Size
      BY <1>1, Products
    <2>. QED BY <2>2, <2>3, <1>1, Products
  <1>3. ASSUME NEW j \in Consoles, j # k
        PROVE  j * Size \in Nat /\ (x + Size <= j * Size \/ j * Size + Size <= x)
    <2>1. j \in Nat /\ j * Size \in Nat
      BY SizeFacts
    <2>2. j < k => (j + 1) * Size <= x /\ (j + 1) * Size = j * Size + Size
      BY <2>1, <1>1, Products
    <2>3. k < j => (k + 1) * Size <= j * Size /\ (k + 1) * Size = x + Size
      BY <2>1, <1>1, Products
    <2>. QED BY <1>1, <1>3, <2>1, <2>2, <2>3
  <1>. HIDE DEF x
  <1>4. x + i \in Cells
    BY <1>1, <1>2 DEF Cells
  <1>5. ASSUME NEW j \in Consoles \ {k} PROVE x + i \notin j * Size .. j * Size + Size - 1
    BY <1>1, <1>3
  <1>. QED BY <1>4, <1>5 DEF x

\* The cell of row r and column c of page k.
Spot(k, r, c) == k * Size + r * Cols + c
PageOf(k) == k * Size .. k * Size + Size - 1

LEMMA Spots ==
    ASSUME NEW k \in Consoles, NEW r \in Rws, NEW c \in Cls
    PROVE  /\ Spot(k, r, c) \in Cells /\ Spot(k, r, c) \in PageOf(k)
           /\ \A j \in Consoles \ {k} : Spot(k, r, c) \notin PageOf(j)
           /\ \A s \in Int, d \in Cls :
                 /\ Spot(k, r, c) < Spot(k, s, d) <=> r < s \/ (r = s /\ c < d)
                 /\ Spot(k, s, d) < Spot(k, r, c) <=> s < r \/ (r = s /\ d < c)
                 /\ Spot(k, r, c) = Spot(k, s, d) <=> r = s /\ c = d
                 /\ Spot(k, s, d) \in Int
           /\ Spot(k, r, c) + Cols = Spot(k, r + 1, c)
  <1>1. k * Size \in Nat /\ r * Cols \in Int /\ Cols \in Nat /\ Rws \subseteq Int /\ Cls \subseteq Nat
    BY SizeFacts, Products DEF Rws, Cls
  <1>2. r * Cols + c \in 0 .. Size - 1 /\ Spot(k, r, c) = k * Size + (r * Cols + c)
    BY <1>1, PageCells DEF Spot
  <1>3. Spot(k, r, c) \in Cells /\ \A j \in Consoles \ {k} : Spot(k, r, c) \notin PageOf(j)
    BY <1>2, ScreensApart DEF PageOf
  <1>4. Spot(k, r, c) \in PageOf(k)
    BY <1>1, <1>2, SizeFacts DEF PageOf
  <1>5. ASSUME NEW s \in Int, NEW d \in Cls
        PROVE  /\ Spot(k, r, c) < Spot(k, s, d) <=> r < s \/ (r = s /\ c < d)
               /\ Spot(k, s, d) < Spot(k, r, c) <=> s < r \/ (r = s /\ d < c)
               /\ Spot(k, r, c) = Spot(k, s, d) <=> r = s /\ c = d
               /\ Spot(k, s, d) \in Int
    <2>1. s * Cols \in Int
      BY Products
    <2>2. /\ r * Cols + c < s * Cols + d <=> r < s \/ (r = s /\ c < d)
          /\ s * Cols + d < r * Cols + c <=> s < r \/ (r = s /\ d < c)
          /\ r * Cols + c = s * Cols + d => r = s /\ c = d
      BY <1>1, RowByRow
    <2>. QED BY <1>1, <2>1, <2>2 DEF Spot
  <1>6. Spot(k, r, c) + Cols = Spot(k, r + 1, c)
    <2>1. (r + 1) * Cols = r * Cols + Cols
      BY <1>1, Products
    <2>. QED BY <1>1, <2>1 DEF Spot
  <1>. QED BY <1>3, <1>4, <1>5, <1>6

\* Console k with its video memory; its cursor and what the parser has collected.
Own(t, k) == /\ IsView(t) /\ t.con.disp_base = k * Size
             /\ t.disp = [i \in Cells |-> t.disp[i]]

OnPage(con) == /\ con.row \in Rws /\ con.col \in Cls
               /\ con.old_row \in Rws /\ con.old_col \in Cls
Parsed(con) == con.esc_param \in [Params -> Nat] /\ con.index \in Nat

Text(t, k, r, c) == t.disp[Spot(k, r, c)]

\* No cell of another page changes.
Within(t, u, k) == \A i \in Cells \ PageOf(k) : u.disp[i] = t.disp[i]

LEMMA EraseRows ==
    ASSUME NEW k \in Consoles, NEW t, Own(t, k), NEW a \in Rws, NEW b \in Rws
    PROVE  LET u == erase_rows(t, a, b) IN
           /\ Own(u, k) /\ u.con = t.con /\ Within(t, u, k)
           /\ \A r \in Rws, c \in Cls :
                 Text(u, k, r, c) = IF a <= r /\ r <= b THEN Blank(t) ELSE Text(t, k, r, c)
  <1>. DEFINE u == erase_rows(t, a, b)
  <1>0. 0 \in Cls /\ Cols - 1 \in Cls
    BY Products DEF Cls
  <1>1. Place(t, a, 0) = Spot(k, a, 0) /\ Place(t, b, Cols - 1) = Spot(k, b, Cols - 1)
    BY DEF Place, Spot, Own
  <1>2. /\ u.con = t.con
        /\ u.disp = [i \in Cells |-> IF i \in Spot(k, a, 0) .. Spot(k, b, Cols - 1)
                                     THEN Blank(t) ELSE t.disp[i]]
    BY <1>1 DEF erase_rows, Own, IsView
  <1>3. Own(u, k)
    <2>1. Kept(t, u)
      BY MovesKeep DEF Own, Unparsed
    <2>. QED BY <1>2, <2>1 DEF Own, Kept
  <1>4. Within(t, u, k)
    <2>1. Spot(k, a, 0) \in PageOf(k) /\ Spot(k, b, Cols - 1) \in PageOf(k)
      BY <1>0, Spots
    <2>2. Spot(k, a, 0) .. Spot(k, b, Cols - 1) \subseteq PageOf(k)
      BY <2>1, SizeFacts DEF PageOf
    <2>. QED BY <1>2, <2>2 DEF Within
  <1>5. ASSUME NEW r \in Rws, NEW c \in Cls
        PROVE  Text(u, k, r, c) = IF a <= r /\ r <= b THEN Blank(t) ELSE Text(t, k, r, c)
    <2>1. Rws \subseteq Int /\ c >= 0 /\ c <= Cols - 1 /\ c \in Int /\ Cols \in Int
      BY Products DEF Rws, Cls
    <2>2. Spot(k, r, c) \in Cells
      BY Spots
    <2>3. Spot(k, r, c) \in Spot(k, a, 0) .. Spot(k, b, Cols - 1) <=> a <= r /\ r <= b
      <3>1. /\ Spot(k, r, c) < Spot(k, a, 0) <=> r < a \/ (r = a /\ c < 0)
            /\ Spot(k, b, Cols - 1) < Spot(k, r, c) <=> b < r \/ (b = r /\ Cols - 1 < c)
            /\ Spot(k, a, 0) \in Int /\ Spot(k, b, Cols - 1) \in Int /\ Spot(k, r, c) \in Int
        BY <1>0, <2>1, Spots
      <3>. QED BY <2>1, <3>1
    <2>. QED BY <1>2, <2>2, <2>3 DEF Text
  <1>. QED BY <1>2, <1>3, <1>4, <1>5

LEMMA SameCon ==
    ASSUME NEW a, NEW b, IsCon(a), IsCon(b),
           a.disp_base = b.disp_base, a.write_state = b.write_state, a.row = b.row, a.col = b.col,
           a.old_row = b.old_row, a.old_col = b.old_col, a.fg = b.fg, a.bg = b.bg,
           a.esc_param = b.esc_param, a.index = b.index
    PROVE  a = b
  BY DEF IsCon

\* A console whose cursor is put somewhere.
Placed(con, r, c) == [con EXCEPT !.row = r, !.col = c]

LEMMA PlacedFields ==
    ASSUME NEW con, IsCon(con), NEW r, NEW c
    PROVE  /\ Placed(con, r, c).row = r /\ Placed(con, r, c).col = c
           /\ Placed(con, r, c).disp_base = con.disp_base
           /\ Placed(con, r, c).write_state = con.write_state
           /\ Placed(con, r, c).old_row = con.old_row /\ Placed(con, r, c).old_col = con.old_col
           /\ Placed(con, r, c).fg = con.fg /\ Placed(con, r, c).bg = con.bg
           /\ Placed(con, r, c).esc_param = con.esc_param /\ Placed(con, r, c).index = con.index
  BY DEF Placed, IsCon

LEMMA PlacedIsCon ==
    ASSUME NEW con, IsCon(con), NEW r, NEW c
    PROVE  IsCon(Placed(con, r, c))
  BY DEF Placed, IsCon

\* Moves along a row or a column place the cursor, too.
RowSet(con, r) == [con EXCEPT !.row = r]
ColSet(con, c) == [con EXCEPT !.col = c]

LEMMA PlacedToo ==
    ASSUME NEW con, IsCon(con), NEW r, NEW c
    PROVE  /\ RowSet(con, r) = Placed(con, r, con.col)
           /\ ColSet(con, c) = Placed(con, con.row, c)
           /\ con = Placed(con, con.row, con.col)
  BY DEF Placed, IsCon, RowSet, ColSet

LEMMA PlacedTwice ==
    ASSUME NEW con, IsCon(con), NEW r, NEW c, NEW s, NEW d
    PROVE  Placed(Placed(con, s, d), r, c) = Placed(con, r, c)
  BY PlacedFields, PlacedIsCon, SameCon

LEMMA ScrollUp ==
    ASSUME NEW k \in Consoles, NEW t, Own(t, k)
    PROVE  LET u == scroll_up(t) IN
           /\ Own(u, k) /\ u.con = RowSet(t.con, t.con.row - 1) /\ Within(t, u, k)
           /\ \A r \in Rws, c \in Cls :
                 Text(u, k, r, c) = IF r + 1 < Rows THEN Text(t, k, r + 1, c) ELSE Blank(t)
  <1>. DEFINE u == scroll_up(t)
              moved == [i \in Cells |-> IF i \in Place(t, 0, 0) .. Place(t, Rows - 2, Cols - 1)
                                        THEN t.disp[i + Cols] ELSE t.disp[i]]
              up == [t EXCEPT !.disp = moved, !.con.row = @ - 1]
              first == Spot(k, 0, 0)
              last == Spot(k, Rows - 2, Cols - 1)
  <1>0. /\ 0 \in Rws /\ 0 \in Cls /\ Cols - 1 \in Cls /\ Rows - 1 \in Rws /\ Rows - 2 \in Int
        /\ Rows \in Int /\ Cols \in Int /\ Rws \subseteq Int /\ Cls \subseteq Int
    BY Products DEF Rws, Cls
  <1>1. moved = [i \in Cells |-> IF i \in first .. last THEN t.disp[i + Cols] ELSE t.disp[i]]
    BY DEF Place, Spot, Own
  <1>2. /\ u = erase_rows(up, Rows - 1, Rows - 1)
        /\ up.disp = moved /\ up.con = RowSet(t.con, t.con.row - 1)
    BY DEF scroll_up, Own, IsView, RowSet
  <1>3. Own(up, k) /\ Blank(up) = Blank(t)
    <2>1. IsView(up) /\ up.con.disp_base = t.con.disp_base /\ Blank(up) = Blank(t)
      <3>. HIDE DEF moved
      <3>. QED BY DEF Own, IsView, IsCon, Blank
    <2>2. moved = [i \in Cells |-> moved[i]]
      OBVIOUS
    <2>. HIDE DEF up, moved
    <2>. QED BY <1>2, <2>1, <2>2 DEF Own
  <1>4. first \in Int /\ last \in Int /\ first \in PageOf(k) /\ last < Spot(k, Rows - 1, Cols - 1)
    <2>1. /\ Spot(k, Rows - 2, Cols - 1) < Spot(k, Rows - 1, Cols - 1)
                <=> Rows - 2 < Rows - 1 \/ (Rows - 1 = Rows - 2 /\ Cols - 1 < Cols - 1)
          /\ last \in Int
      BY <1>0, Spots
    <2>2. first \in PageOf(k) /\ first \in Int
      BY <1>0, Spots
    <2>. HIDE DEF first, last
    <2>. QED BY <1>0, <2>1, <2>2 DEF last
  <1>5. Within(t, up, k)
    <2>1. Spot(k, Rows - 1, Cols - 1) \in PageOf(k)
      BY <1>0, Spots
    <2>2. first .. last \subseteq PageOf(k)
      <3>. HIDE DEF first, last
      <3>. QED BY <1>4, <2>1, SizeFacts DEF PageOf
    <2>. HIDE DEF first, last, up
    <2>. QED BY <1>1, <1>2, <2>2 DEF Within
  <1>6. ASSUME NEW r \in Rws, NEW c \in Cls
        PROVE  r + 1 < Rows => Text(up, k, r, c) = Text(t, k, r + 1, c)
    <2>. HAVE r + 1 < Rows
    <2>0. r \in Int /\ r >= 0 /\ c \in Int /\ c >= 0 /\ c <= Cols - 1 /\ r <= Rows - 2
      BY <1>0 DEF Rws, Cls
    <2>1. Spot(k, r, c) \in Cells /\ Spot(k, r, c) + Cols = Spot(k, r + 1, c)
      BY Spots
    <2>2. Spot(k, r, c) \in first .. last
      <3>1. /\ Spot(k, r, c) < first <=> r < 0 \/ (r = 0 /\ c < 0)
            /\ last < Spot(k, r, c) <=> Rows - 2 < r \/ (r = Rows - 2 /\ Cols - 1 < c)
            /\ Spot(k, r, c) \in Int
        BY <1>0, Spots
      <3>. HIDE DEF first, last
      <3>. QED BY <1>0, <1>4, <2>0, <3>1
    <2>. HIDE DEF first, last, up
    <2>. QED BY <1>1, <1>2, <2>1, <2>2 DEF Text
  <1>. HIDE DEF u, up
  <1>7. /\ Own(u, k) /\ u.con = up.con /\ Within(up, u, k)
        /\ \A r \in Rws, c \in Cls :
              Text(u, k, r, c) = IF Rows - 1 <= r /\ r <= Rows - 1 THEN Blank(up) ELSE Text(up, k, r, c)
    <2>. DEFINE e == erase_rows(up, Rows - 1, Rows - 1)
    <2>1. /\ Own(e, k) /\ e.con = up.con /\ Within(up, e, k)
          /\ \A r \in Rws, c \in Cls :
              Text(e, k, r, c) = IF Rows - 1 <= r /\ r <= Rows - 1 THEN Blank(up) ELSE Text(up, k, r, c)
      BY <1>0, <1>3, EraseRows
    <2>. QED BY <1>2, <2>1
  <1>8. Within(t, u, k)
    BY <1>5, <1>7 DEF Within
  <1>9. ASSUME NEW r \in Rws, NEW c \in Cls
        PROVE  Text(u, k, r, c) = IF r + 1 < Rows THEN Text(t, k, r + 1, c) ELSE Blank(t)
    <2>1. r \in Int /\ (r + 1 < Rows <=> ~(Rows - 1 <= r)) /\ (Rows - 1 <= r => r <= Rows - 1)
      BY <1>0 DEF Rws
    <2>. QED BY <1>3, <1>6, <1>7, <2>1
  <1>. QED BY <1>2, <1>7, <1>8, <1>9 DEF u

\* The cursor goes down, or the text up (Screen!Feed).
Fed(t, u, k) ==
    /\ Own(u, k) /\ Within(t, u, k)
    /\ \/ /\ t.con.row + 1 < Rows /\ u.con = Placed(t.con, t.con.row + 1, t.con.col)
          /\ \A r \in Rws, c \in Cls : Text(u, k, r, c) = Text(t, k, r, c)
       \/ /\ t.con.row + 1 >= Rows /\ u.con = t.con
          /\ \A r \in Rws, c \in Cls :
                Text(u, k, r, c) = IF r + 1 < Rows THEN Text(t, k, r + 1, c) ELSE Blank(t)

LEMMA NextLine ==
    ASSUME NEW k \in Consoles, NEW t, Own(t, k), t.con.row \in Rws
    PROVE  Fed(t, move_next_line(t), k)
  <1>. DEFINE down == [t EXCEPT !.con.row = @ + 1]
  <1>1. /\ Own(down, k) /\ down.con = RowSet(t.con, t.con.row + 1)
        /\ down.disp = t.disp /\ Blank(down) = Blank(t) /\ IsCon(t.con) /\ IsCon(down.con)
    BY DEF Own, IsView, IsCon, Blank, RowSet
  <1>2. /\ down.con = Placed(t.con, t.con.row + 1, t.con.col)
        /\ down.con.row = t.con.row + 1 /\ down.con.col = t.con.col
        /\ t.con.row \in Int /\ Rows \in Int
    <2>. HIDE DEF down
    <2>1. t.con.row \in Int /\ Rows \in Int
      BY Products DEF Rws
    <2>. QED BY <1>1, <2>1, PlacedFields, PlacedToo
  <1>3. move_next_line(t) = IF down.con.row >= Rows THEN scroll_up(down) ELSE down
    BY DEF move_next_line
  <1>4. RowSet(down.con, down.con.row - 1) = t.con
    <2>. HIDE DEF down
    <2>1. down.con.row - 1 = t.con.row
      BY <1>2
    <2>2. RowSet(down.con, t.con.row) = Placed(down.con, t.con.row, down.con.col)
      BY <1>1, PlacedToo
    <2>3. Placed(Placed(t.con, t.con.row + 1, t.con.col), t.con.row, t.con.col) = t.con
      BY <1>1, PlacedToo, PlacedTwice
    <2>. QED BY <1>2, <2>1, <2>2, <2>3
  <1>. HIDE DEF down
  <1>5. CASE t.con.row + 1 < Rows
    <2>1. move_next_line(t) = down
      BY <1>2, <1>3, <1>5
    <2>. QED BY <1>1, <1>2, <1>5, <2>1 DEF Fed, Within, Text
  <1>6. CASE t.con.row + 1 >= Rows
    <2>1. move_next_line(t) = scroll_up(down)
      BY <1>2, <1>3, <1>6
    <2>. DEFINE e == scroll_up(down)
    <2>2. /\ Own(e, k) /\ e.con = RowSet(down.con, down.con.row - 1) /\ Within(down, e, k)
          /\ \A r \in Rws, c \in Cls :
                Text(e, k, r, c) = IF r + 1 < Rows THEN Text(down, k, r + 1, c) ELSE Blank(down)
      BY <1>1, ScrollUp
    <2>. HIDE DEF e
    <2>3. Within(t, e, k) /\ \A r, c : Text(down, k, r, c) = Text(t, k, r, c)
      BY <1>1, <2>2 DEF Within, Text
    <2>4. e.con = t.con
      BY <1>4, <2>2
    <2>5. \A r \in Rws, c \in Cls :
              Text(e, k, r, c) = IF r + 1 < Rows THEN Text(t, k, r + 1, c) ELSE Blank(t)
      BY <1>1, <2>2, <2>3
    <2>6. Fed(t, e, k)
      BY <1>6, <2>2, <2>3, <2>4, <2>5 DEF Fed
    <2>. QED BY <2>1, <2>6 DEF e
  <1>. QED BY <1>2, <1>5, <1>6

\* A character has been put under the cursor and the cursor has moved on.
Struck(t, k, char, r, c) ==
    IF r = t.con.row /\ c = t.con.col THEN [c |-> char, fg |-> t.con.fg, bg |-> t.con.bg]
                                      ELSE Text(t, k, r, c)
ShownAs(t, u, k, char) ==
    /\ Own(u, k) /\ Within(t, u, k)
    /\ \/ /\ t.con.col + 1 < Cols /\ u.con = Placed(t.con, t.con.row, t.con.col + 1)
          /\ \A r \in Rws, c \in Cls : Text(u, k, r, c) = Struck(t, k, char, r, c)
       \/ /\ t.con.col + 1 >= Cols /\ t.con.row + 1 < Rows
          /\ u.con = Placed(t.con, t.con.row + 1, 0)
          /\ \A r \in Rws, c \in Cls : Text(u, k, r, c) = Struck(t, k, char, r, c)
       \/ /\ t.con.col + 1 >= Cols /\ t.con.row + 1 >= Rows
          /\ u.con = Placed(t.con, t.con.row, 0)
          /\ \A r \in Rws, c \in Cls :
                Text(u, k, r, c) = IF r + 1 < Rows THEN Struck(t, k, char, r + 1, c) ELSE Blank(t)

LEMMA ShowChar ==
    ASSUME NEW k \in Consoles, NEW t, Own(t, k), OnPage(t.con), NEW char
    PROVE  ShownAs(t, show_char(t, char), k, char)
  <1>. DEFINE here == Place(t, t.con.row, t.con.col)
              cell == [c |-> char, fg |-> t.con.fg, bg |-> t.con.bg]
              struck == [i \in Cells |-> IF i = here THEN cell ELSE t.disp[i]]
              mid == [t EXCEPT !.disp = struck]
              home == move_to_col0(mid)
              u == show_char(t, char)
  <1>. SUFFICES ShownAs(t, u, k, char)
    OBVIOUS
  <1>0. /\ t.con.row \in Rws /\ t.con.col \in Cls /\ t.con.row \in Int /\ t.con.col \in Int
        /\ Rows \in Int /\ Cols \in Int
    BY Products DEF OnPage, Rws, Cls
  <1>a. here = Spot(k, t.con.row, t.con.col)
    BY DEF Place, Spot, Own
  <1>b. /\ here \in PageOf(k)
        /\ \A r \in Rws, c \in Cls : Spot(k, r, c) = here <=> r = t.con.row /\ c = t.con.col
    <2>1. /\ Spot(k, t.con.row, t.con.col) \in PageOf(k)
          /\ \A r \in Rws, c \in Cls : Spot(k, r, c) = Spot(k, t.con.row, t.con.col)
                                          <=> r = t.con.row /\ c = t.con.col
      BY <1>0, Spots
    <2>. HIDE DEF here
    <2>. QED BY <1>a, <2>1
  <1>1. /\ Own(mid, k) /\ mid.con = t.con /\ mid.disp = struck /\ Blank(mid) = Blank(t)
    <2>. HIDE DEF here, cell
    <2>. QED BY DEF Own, IsView, IsCon, Blank
  <1>2. Within(t, mid, k)
    <2>. HIDE DEF mid, here, cell
    <2>. QED BY <1>1, <1>b DEF Within
  <1>3. ASSUME NEW r \in Rws, NEW c \in Cls
        PROVE  Text(mid, k, r, c) = Struck(t, k, char, r, c)
    <2>1. Spot(k, r, c) \in Cells /\ (Spot(k, r, c) = here <=> r = t.con.row /\ c = t.con.col)
      <3>. HIDE DEF here
      <3>. QED BY <1>b, Spots
    <2>2. mid.disp[Spot(k, r, c)] = IF Spot(k, r, c) = here THEN cell ELSE t.disp[Spot(k, r, c)]
      <3>. HIDE DEF mid, here, cell
      <3>. QED BY <1>1, <2>1
    <2>. QED BY <2>1, <2>2 DEF Text, Struck
  <1>4. u = move_forward(mid)
    BY DEF show_char
  <1>. HIDE DEF mid, u
  <1>5. CASE t.con.col + 1 < Cols
    <2>1. u = [mid EXCEPT !.con.col = @ + 1]
      BY <1>0, <1>1, <1>4, <1>5 DEF move_forward
    <2>2. Own(u, k) /\ u.con = Placed(t.con, t.con.row, t.con.col + 1) /\ u.disp = mid.disp
      <3>1. /\ Own(u, k) /\ u.con = ColSet(t.con, t.con.col + 1) /\ u.disp = mid.disp
            /\ IsCon(t.con)
        BY <1>1, <2>1 DEF Own, IsView, IsCon, ColSet
      <3>. QED BY <3>1, PlacedToo
    <2>3. Within(t, u, k) /\ \A r, c : Text(u, k, r, c) = Text(mid, k, r, c)
      BY <1>2, <2>2 DEF Within, Text
    <2>. QED BY <1>3, <1>5, <2>2, <2>3 DEF ShownAs
  <1>6. CASE t.con.col + 1 >= Cols
    <2>1. u = move_next_line(home)
      BY <1>0, <1>1, <1>4, <1>6 DEF move_forward
    <2>2. /\ Own(home, k) /\ home.con = Placed(t.con, t.con.row, 0) /\ home.disp = mid.disp
          /\ home.con.row = t.con.row /\ home.con.col = 0 /\ Blank(home) = Blank(t)
      <3>1. /\ Own(home, k) /\ home.con = ColSet(t.con, 0) /\ home.disp = mid.disp
            /\ IsCon(t.con)
        BY <1>1 DEF Own, IsView, IsCon, move_to_col0, ColSet
      <3>. HIDE DEF home
      <3>2. home.con = Placed(t.con, t.con.row, 0)
        BY <3>1, PlacedToo
      <3>3. mid.con = t.con /\ home.con.fg = t.con.fg /\ home.con.bg = t.con.bg
        BY <1>1, <3>1, <3>2, PlacedFields
      <3>4. home.con.row = t.con.row /\ home.con.col = 0
        BY <3>1, <3>2, PlacedFields
      <3>5. Blank(home) = Blank(t)
        BY <3>3 DEF Blank
      <3>. QED BY <3>1, <3>2, <3>4, <3>5
    <2>. HIDE DEF home
    <2>3. Fed(home, u, k)
      BY <1>0, <2>1, <2>2, NextLine
    <2>4. Within(t, u, k) /\ Own(u, k) /\ \A r, c : Text(home, k, r, c) = Text(mid, k, r, c)
      BY <1>2, <2>2, <2>3 DEF Within, Text, Fed
    <2>5. CASE t.con.row + 1 < Rows
      <3>1. /\ u.con = Placed(home.con, home.con.row + 1, home.con.col)
            /\ \A r \in Rws, c \in Cls : Text(u, k, r, c) = Text(home, k, r, c)
        BY <1>0, <2>2, <2>3, <2>5 DEF Fed
      <3>2. u.con = Placed(t.con, t.con.row + 1, 0)
        BY <1>1, <2>2, <3>1, PlacedTwice DEF Own, IsView
      <3>. QED BY <1>3, <1>6, <2>4, <2>5, <3>1, <3>2 DEF ShownAs
    <2>6. CASE t.con.row + 1 >= Rows
      <3>1. /\ u.con = home.con
            /\ \A r \in Rws, c \in Cls :
                  Text(u, k, r, c) = IF r + 1 < Rows THEN Text(home, k, r + 1, c) ELSE Blank(home)
        BY <1>0, <2>2, <2>3, <2>6 DEF Fed
      <3>2. ASSUME NEW r \in Rws, NEW c \in Cls
            PROVE  Text(u, k, r, c) = IF r + 1 < Rows THEN Struck(t, k, char, r + 1, c) ELSE Blank(t)
        <4>1. r + 1 < Rows => r + 1 \in Rws
          <5>1. r \in Int /\ r >= 0
            BY DEF Rws
          <5>. QED BY <1>0, <5>1 DEF Rws
        <4>. QED BY <1>3, <2>2, <2>4, <3>1, <4>1
      <3>. QED BY <1>6, <2>2, <2>4, <2>6, <3>1, <3>2 DEF ShownAs
    <2>. QED BY <1>0, <2>5, <2>6
  <1>. QED BY <1>0, <1>5, <1>6

\* The cursor has gone back by one place.
BackTo(con, before) ==
    \/ con.col > 0 /\ before = Placed(con, con.row, con.col - 1)
    \/ con.col = 0 /\ con.row > 0 /\ before = Placed(con, con.row - 1, Cols - 1)

LEMMA MoveBackword ==
    ASSUME NEW k \in Consoles, NEW t, Own(t, k), OnPage(t.con)
    PROVE  LET u == move_backword(t) IN
           /\ AtHome(t) => u = t
           /\ ~AtHome(t) => /\ Own(u, k) /\ OnPage(u.con) /\ BackTo(t.con, u.con)
                            /\ u.disp = t.disp /\ u.con.fg = t.con.fg /\ u.con.bg = t.con.bg
  <1>. DEFINE u == move_backword(t)
  <1>. SUFFICES /\ AtHome(t) => u = t
                /\ ~AtHome(t) => /\ Own(u, k) /\ OnPage(u.con) /\ BackTo(t.con, u.con)
                                 /\ u.disp = t.disp /\ u.con.fg = t.con.fg /\ u.con.bg = t.con.bg
    OBVIOUS
  <1>0. /\ t.con.row \in Int /\ t.con.col \in Int /\ t.con.row >= 0 /\ t.con.col >= 0
        /\ t.con.row < Rows /\ t.con.col < Cols /\ Rows \in Nat /\ Cols \in Nat /\ Cols > 0
    BY Products DEF OnPage, Rws, Cls
  <1>1. CASE t.con.col > 0
    <2>1. u = [t EXCEPT !.con.col = @ - 1] /\ ~AtHome(t)
      BY <1>1 DEF move_backword, AtHome
    <2>2. Own(u, k) /\ u.con = ColSet(t.con, t.con.col - 1) /\ u.disp = t.disp
      BY <2>1 DEF Own, IsView, IsCon, ColSet
    <2>. HIDE DEF u
    <2>3. u.con = Placed(t.con, t.con.row, t.con.col - 1) /\ IsCon(t.con)
      BY <2>2, PlacedToo DEF Own, IsView
    <2>4. OnPage(u.con) /\ u.con.fg = t.con.fg /\ u.con.bg = t.con.bg
      BY <1>0, <1>1, <2>3, PlacedFields DEF OnPage, Cls
    <2>. QED BY <1>1, <2>1, <2>2, <2>3, <2>4 DEF BackTo
  <1>2. CASE t.con.col = 0 /\ t.con.row > 0
    <2>1. u = [t EXCEPT !.con.row = @ - 1, !.con.col = Cols - 1] /\ ~AtHome(t)
      BY <1>2 DEF move_backword, AtHome
    <2>2. /\ Own(u, k) /\ u.con = Placed(t.con, t.con.row - 1, Cols - 1) /\ u.disp = t.disp
          /\ IsCon(t.con)
      BY <2>1 DEF Own, IsView, IsCon, Placed
    <2>. HIDE DEF u
    <2>3. OnPage(u.con) /\ u.con.fg = t.con.fg /\ u.con.bg = t.con.bg
      BY <1>0, <1>2, <2>2, PlacedFields DEF OnPage, Cls, Rws
    <2>. QED BY <1>2, <2>1, <2>2, <2>3 DEF BackTo
  <1>3. CASE t.con.col = 0 /\ t.con.row = 0
    BY <1>3 DEF move_backword, AtHome
  <1>. QED BY <1>0, <1>1, <1>2, <1>3

\* The character before the cursor has become a blank.
Erased(t, u, k) ==
    /\ Own(u, k) /\ Within(t, u, k) /\ BackTo(t.con, u.con)
    /\ \A r \in Rws, c \in Cls :
          Text(u, k, r, c) = IF r = u.con.row /\ c = u.con.col THEN Blank(t) ELSE Text(t, k, r, c)

LEMMA EraseBackword ==
    ASSUME NEW k \in Consoles, NEW t, Own(t, k), OnPage(t.con), ~AtHome(t)
    PROVE  Erased(t, erase_backword(t), k) /\ OnPage(erase_backword(t).con)
  <1>. DEFINE b == move_backword(t)
              s == show_char(b, "blank")
              u == move_backword(s)
  <1>1. /\ Own(b, k) /\ OnPage(b.con) /\ BackTo(t.con, b.con)
        /\ b.disp = t.disp /\ b.con.fg = t.con.fg /\ b.con.bg = t.con.bg
    BY MoveBackword
  <1>2. erase_backword(t) = u
    BY DEF erase_backword
  <1>. HIDE DEF b
  <1>3. ShownAs(b, s, k, "blank")
    BY <1>1, ShowChar
  <1>. HIDE DEF s
  <1>4. /\ b.con.row \in Nat /\ b.con.col \in Nat /\ b.con.row < Rows /\ b.con.col < Cols
        /\ t.con.row \in Nat /\ t.con.col \in Nat /\ t.con.row < Rows /\ t.con.col < Cols
        /\ Rows \in Nat /\ Cols \in Nat
    BY <1>1, Products DEF OnPage, Rws, Cls
  <1>5. b.con.col + 1 < Cols \/ b.con.row + 1 < Rows
    BY <1>1, <1>4, PlacedFields DEF BackTo, Own, IsView
  <1>6. Own(s, k) /\ Within(b, s, k) /\ IsCon(b.con) /\ IsCon(s.con)
    BY <1>1, <1>3 DEF ShownAs, Own, IsView
  <1>7. /\ \A r \in Rws, c \in Cls : Text(s, k, r, c) = Struck(b, k, "blank", r, c)
        /\ OnPage(s.con) /\ u.con = b.con /\ u.disp = s.disp /\ Own(u, k)
    <2>1. CASE b.con.col + 1 < Cols
      <3>1. /\ s.con = Placed(b.con, b.con.row, b.con.col + 1)
            /\ \A r \in Rws, c \in Cls : Text(s, k, r, c) = Struck(b, k, "blank", r, c)
        BY <1>3, <1>4, <2>1 DEF ShownAs
      <3>2. s.con.col = b.con.col + 1 /\ s.con.row = b.con.row
        BY <1>6, <3>1, PlacedFields
      <3>3. OnPage(s.con) /\ ~AtHome(s)
        BY <1>1, <1>4, <1>6, <2>1, <3>1, <3>2, PlacedFields DEF OnPage, Cls, AtHome
      <3>4. Own(u, k) /\ u.disp = s.disp /\ BackTo(s.con, u.con)
        BY <1>6, <3>3, MoveBackword
      <3>5. u.con = Placed(s.con, s.con.row, s.con.col - 1) /\ s.con.col - 1 = b.con.col
        BY <1>4, <3>2, <3>4 DEF BackTo
      <3>. HIDE DEF u
      <3>6. u.con = b.con
        BY <1>6, <3>1, <3>2, <3>5, PlacedTwice, PlacedToo
      <3>. QED BY <3>1, <3>3, <3>4, <3>6
    <2>2. CASE b.con.col + 1 >= Cols
      <3>1. /\ s.con = Placed(b.con, b.con.row + 1, 0)
            /\ \A r \in Rws, c \in Cls : Text(s, k, r, c) = Struck(b, k, "blank", r, c)
        BY <1>3, <1>4, <1>5, <2>2 DEF ShownAs
      <3>2. s.con.col = 0 /\ s.con.row = b.con.row + 1
        BY <1>6, <3>1, PlacedFields
      <3>3. OnPage(s.con) /\ ~AtHome(s)
        BY <1>1, <1>4, <1>5, <1>6, <2>2, <3>1, <3>2, PlacedFields DEF OnPage, Cls, Rws, AtHome
      <3>4. Own(u, k) /\ u.disp = s.disp /\ BackTo(s.con, u.con)
        BY <1>6, <3>3, MoveBackword
      <3>5. u.con = Placed(s.con, s.con.row - 1, Cols - 1) /\ s.con.row - 1 = b.con.row /\ Cols - 1 = b.con.col
        BY <1>4, <2>2, <3>2, <3>4 DEF BackTo
      <3>. HIDE DEF u
      <3>6. u.con = b.con
        BY <1>6, <3>1, <3>2, <3>5, PlacedTwice, PlacedToo
      <3>. QED BY <3>1, <3>3, <3>4, <3>6
    <2>. QED BY <1>4, <2>1, <2>2
  <1>. HIDE DEF u
  <1>8. ASSUME NEW r \in Rws, NEW c \in Cls
        PROVE  Text(u, k, r, c) = IF r = u.con.row /\ c = u.con.col THEN Blank(t) ELSE Text(t, k, r, c)
    BY <1>1, <1>7 DEF Text, Struck, Blank
  <1>9. Within(t, u, k)
    BY <1>1, <1>6, <1>7 DEF Within
  <1>. QED BY <1>1, <1>2, <1>7, <1>8, <1>9 DEF Erased

\* Only the console's record changes: its colours or what the parser knows, the cursor, or
\* the place that is saved.
SamePlaces(a, b) == /\ b.row = a.row /\ b.col = a.col
                    /\ b.old_row = a.old_row /\ b.old_col = a.old_col
Went(a, b) == /\ b.old_row = a.old_row /\ b.old_col = a.old_col
              /\ b.fg = a.fg /\ b.bg = a.bg
Saved(a, b) == /\ b.row = a.row /\ b.col = a.col /\ b.old_row = a.row /\ b.old_col = a.col
               /\ b.fg = a.fg /\ b.bg = a.bg

ConOnly(t, u, k) ==
    /\ Own(u, k) /\ u.disp = t.disp /\ OnPage(u.con) /\ Parsed(u.con)
    /\ SamePlaces(t.con, u.con) \/ Went(t.con, u.con) \/ Saved(t.con, u.con)

\* Nothing of it but what the parser knows.
Quiet(t, u, k) ==
    /\ Own(u, k) /\ u.disp = t.disp /\ Parsed(u.con)
    /\ SamePlaces(t.con, u.con) /\ u.con.fg = t.con.fg /\ u.con.bg = t.con.bg

LEMMA OnlyParsing ==
    ASSUME NEW k \in Consoles, NEW t, Own(t, k), Parsed(t.con)
    PROVE  /\ Quiet(t, t, k) /\ Quiet(t, clear_esc_param(t), k)
           /\ \A mode \in Modes : Quiet(t, Enter(t, mode), k)
           /\ \A i \in Nat : Quiet(t, [t EXCEPT !.con.index = i], k)
           /\ \A e \in [Params -> Nat] : Quiet(t, [t EXCEPT !.con.esc_param = e], k)
  <1>1. ASSUME NEW u, Own(u, k), u.disp = t.disp, SamePlaces(t.con, u.con),
               u.con.fg = t.con.fg, u.con.bg = t.con.bg,
               u.con.esc_param \in [Params -> Nat], u.con.index \in Nat
        PROVE  Quiet(t, u, k)
    BY <1>1 DEF Quiet, Parsed
  <1>2. Quiet(t, t, k)
    BY DEF Quiet, SamePlaces
  <1>3. Quiet(t, clear_esc_param(t), k)
    <2>. DEFINE zero == [i \in Params |-> 0]
                u == [t EXCEPT !.con.esc_param = zero, !.con.index = 0]
    <2>1. zero \in [Params -> Nat] /\ clear_esc_param(t) = u
      BY DEF clear_esc_param
    <2>. HIDE DEF zero
    <2>2. /\ Own(u, k) /\ u.disp = t.disp /\ SamePlaces(t.con, u.con)
          /\ u.con.fg = t.con.fg /\ u.con.bg = t.con.bg
          /\ u.con.esc_param = zero /\ u.con.index = 0
      BY DEF Own, IsView, IsCon, SamePlaces
    <2>. HIDE DEF u
    <2>. QED BY <1>1, <2>1, <2>2
  <1>4. ASSUME NEW mode \in Modes PROVE Quiet(t, Enter(t, mode), k)
    <2>. DEFINE u == Enter(t, mode)
    <2>1. /\ Own(u, k) /\ u.disp = t.disp /\ SamePlaces(t.con, u.con)
          /\ u.con.fg = t.con.fg /\ u.con.bg = t.con.bg
          /\ u.con.esc_param = t.con.esc_param /\ u.con.index = t.con.index
      BY DEF Own, IsView, IsCon, SamePlaces, Enter
    <2>. QED BY <1>1, <2>1 DEF Parsed
  <1>5. ASSUME NEW i \in Nat PROVE Quiet(t, [t EXCEPT !.con.index = i], k)
    <2>. DEFINE u == [t EXCEPT !.con.index = i]
    <2>. SUFFICES Quiet(t, u, k)
      OBVIOUS
    <2>1. /\ Own(u, k) /\ u.disp = t.disp /\ SamePlaces(t.con, u.con)
          /\ u.con.fg = t.con.fg /\ u.con.bg = t.con.bg
          /\ u.con.esc_param = t.con.esc_param /\ u.con.index = i
      BY DEF Own, IsView, IsCon, SamePlaces
    <2>. HIDE DEF u
    <2>. QED BY <1>1, <2>1 DEF Parsed
  <1>6. ASSUME NEW e \in [Params -> Nat] PROVE Quiet(t, [t EXCEPT !.con.esc_param = e], k)
    <2>. DEFINE u == [t EXCEPT !.con.esc_param = e]
    <2>. SUFFICES Quiet(t, u, k)
      OBVIOUS
    <2>1. /\ Own(u, k) /\ u.disp = t.disp /\ SamePlaces(t.con, u.con)
          /\ u.con.fg = t.con.fg /\ u.con.bg = t.con.bg
          /\ u.con.esc_param = e /\ u.con.index = t.con.index
      BY DEF Own, IsView, IsCon, SamePlaces
    <2>. HIDE DEF u
    <2>. QED BY <1>1, <2>1 DEF Parsed
  <1>. QED BY <1>2, <1>3, <1>4, <1>5, <1>6

LEMMA OnlyNoting ==
    ASSUME NEW k \in Consoles, NEW t, Own(t, k), OnPage(t.con), Parsed(t.con)
    PROVE  ConOnly(t, set_font_style(t), k) /\ ConOnly(t, save_cursor(t), k)
  <1>1. ConOnly(t, set_font_style(t), k)
    <2>. DEFINE u == set_font_style(t)
    <2>. SUFFICES ConOnly(t, u, k)
      OBVIOUS
    <2>1. /\ Own(u, k) /\ u.disp = t.disp /\ SamePlaces(t.con, u.con)
          /\ u.con.esc_param = t.con.esc_param /\ u.con.index = t.con.index
      BY DEF Own, IsView, IsCon, SamePlaces, set_font_style
    <2>. HIDE DEF u
    <2>2. OnPage(u.con) /\ Parsed(u.con)
      BY <2>1 DEF OnPage, Parsed, SamePlaces
    <2>. QED BY <2>1, <2>2 DEF ConOnly
  <1>2. ConOnly(t, save_cursor(t), k)
    <2>. DEFINE u == save_cursor(t)
    <2>. SUFFICES ConOnly(t, u, k)
      OBVIOUS
    <2>1. /\ Own(u, k) /\ u.disp = t.disp /\ Saved(t.con, u.con)
          /\ u.con.esc_param = t.con.esc_param /\ u.con.index = t.con.index
      BY DEF Own, IsView, IsCon, Saved, save_cursor
    <2>. HIDE DEF u
    <2>2. OnPage(u.con) /\ Parsed(u.con)
      BY <2>1 DEF OnPage, Parsed, Saved
    <2>. QED BY <2>1, <2>2 DEF ConOnly
  <1>. QED BY <1>1, <1>2

\* A cursor that is moved to a place of the page.
LEMMA PlacedOnPage ==
    ASSUME NEW k \in Consoles, NEW t, Own(t, k), OnPage(t.con), Parsed(t.con),
           NEW r \in Rws, NEW c \in Cls, NEW u, Own(u, k), u.con = Placed(t.con, r, c)
    PROVE  OnPage(u.con) /\ Parsed(u.con) /\ Went(t.con, u.con)
  <1>1. IsCon(t.con)
    BY DEF Own, IsView
  <1>. QED BY <1>1, PlacedFields DEF OnPage, Parsed, Went

LEMMA OnlyMoving ==
    ASSUME NEW k \in Consoles, NEW t, Own(t, k), OnPage(t.con), Parsed(t.con), NEW n \in Nat
    PROVE  /\ ConOnly(t, move_to_col0(t), k) /\ ConOnly(t, restore_cursor(t), k)
           /\ ConOnly(t, move_left(t, n), k) /\ ConOnly(t, move_right(t, n), k)
  <1>0. /\ t.con.row \in Rws /\ t.con.col \in Cls /\ t.con.old_row \in Rws /\ t.con.old_col \in Cls
        /\ 0 \in Cls /\ Cols - 1 \in Cls /\ Cls \subseteq Nat
    BY Products DEF OnPage, Cls
  <1>1. ASSUME NEW u, NEW r \in Rws, NEW c \in Cls,
               Own(u, k), u.disp = t.disp, u.con = Placed(t.con, r, c)
        PROVE  ConOnly(t, u, k)
    BY <1>1, PlacedOnPage DEF ConOnly
  <1>2. ASSUME NEW c \in Cls
        PROVE  ConOnly(t, [t EXCEPT !.con.col = c], k)
    <2>. DEFINE u == [t EXCEPT !.con.col = c]
    <2>. SUFFICES ConOnly(t, u, k)
      OBVIOUS
    <2>1. Own(u, k) /\ u.disp = t.disp /\ u.con = ColSet(t.con, c) /\ IsCon(t.con)
      BY DEF Own, IsView, IsCon, ColSet
    <2>. HIDE DEF u
    <2>. QED BY <1>0, <1>1, <2>1, PlacedToo
  <1>3. ConOnly(t, move_to_col0(t), k)
    BY <1>0, <1>2 DEF move_to_col0
  <1>4. ConOnly(t, restore_cursor(t), k)
    <2>. DEFINE u == restore_cursor(t)
    <2>. SUFFICES ConOnly(t, u, k)
      OBVIOUS
    <2>1. Own(u, k) /\ u.disp = t.disp /\ u.con = Placed(t.con, t.con.old_row, t.con.old_col)
      BY DEF Own, IsView, IsCon, restore_cursor, Placed
    <2>. HIDE DEF u
    <2>. QED BY <1>0, <1>1, <2>1
  <1>5. ConOnly(t, move_left(t, n), k)
    <2>. DEFINE col == t.con.col - (IF n = 0 THEN 1 ELSE n)
    <2>1. (IF col >= 0 THEN col ELSE 0) \in Cls
      BY <1>0, Products DEF Cls
    <2>2. move_left(t, n) = [t EXCEPT !.con.col = IF col >= 0 THEN col ELSE 0]
      BY DEF move_left
    <2>. HIDE DEF col
    <2>. QED BY <1>2, <2>1, <2>2
  <1>6. ConOnly(t, move_right(t, n), k)
    <2>. DEFINE col == t.con.col + (IF n = 0 THEN 1 ELSE n)
    <2>1. (IF col >= Cols THEN Cols - 1 ELSE col) \in Cls
      BY <1>0, Products DEF Cls
    <2>2. move_right(t, n) = [t EXCEPT !.con.col = IF col >= Cols THEN Cols - 1 ELSE col]
      BY DEF move_right
    <2>. HIDE DEF col
    <2>. QED BY <1>2, <2>1, <2>2
  <1>. QED BY <1>3, <1>4, <1>5, <1>6

\* The parameters collected are a place of the page.
AsksForPlace(con) == /\ con.index >= 1 => con.esc_param[0] \in Rws
                     /\ con.index >= 2 => con.esc_param[1] \in Cls

LEMMA MoveCursor ==
    ASSUME NEW k \in Consoles, NEW t, Own(t, k), OnPage(t.con), Parsed(t.con), AsksForPlace(t.con)
    PROVE  ConOnly(t, move_cursor(t), k)
  <1>. DEFINE u == move_cursor(t)
              r == IF t.con.index >= 1 THEN t.con.esc_param[0] ELSE t.con.row
              c == IF t.con.index >= 2 THEN t.con.esc_param[1] ELSE t.con.col
  <1>. SUFFICES ConOnly(t, u, k)
    OBVIOUS
  <1>1. Own(u, k) /\ u.disp = t.disp /\ u.con = Placed(t.con, r, c)
    BY DEF Own, IsView, IsCon, move_cursor, Placed
  <1>2. r \in Rws /\ c \in Cls
    BY DEF AsksForPlace, OnPage
  <1>. HIDE DEF u, r, c
  <1>. QED BY <1>1, <1>2, PlacedOnPage DEF ConOnly

\* The cursor goes to the left edge of the next row.
Broken(t, u, k) ==
    /\ Own(u, k) /\ Within(t, u, k)
    /\ \/ /\ t.con.row + 1 < Rows /\ u.con = Placed(t.con, t.con.row + 1, 0)
          /\ \A r \in Rws, c \in Cls : Text(u, k, r, c) = Text(t, k, r, c)
       \/ /\ t.con.row + 1 >= Rows /\ u.con = Placed(t.con, t.con.row, 0)
          /\ \A r \in Rws, c \in Cls :
                Text(u, k, r, c) = IF r + 1 < Rows THEN Text(t, k, r + 1, c) ELSE Blank(t)

LEMMA LineBreak ==
    ASSUME NEW k \in Consoles, NEW t, Own(t, k), OnPage(t.con)
    PROVE  Broken(t, move_next_line(move_to_col0(t)), k)
  <1>. DEFINE home == move_to_col0(t)
              u == move_next_line(home)
  <1>. SUFFICES Broken(t, u, k)
    OBVIOUS
  <1>1. /\ Own(home, k) /\ home.con = ColSet(t.con, 0) /\ home.disp = t.disp
        /\ IsCon(t.con) /\ IsCon(home.con) /\ t.con.row \in Rws
    BY DEF Own, IsView, IsCon, move_to_col0, ColSet, OnPage
  <1>. HIDE DEF home
  <1>2. home.con = Placed(t.con, t.con.row, 0)
    BY <1>1, PlacedToo
  <1>3. /\ home.con.row = t.con.row /\ home.con.col = 0
        /\ home.con.fg = t.con.fg /\ home.con.bg = t.con.bg
    BY <1>1, <1>2, PlacedFields
  <1>4. Blank(home) = Blank(t) /\ \A r, c : Text(home, k, r, c) = Text(t, k, r, c)
    BY <1>1, <1>3 DEF Blank, Text
  <1>5. Fed(home, u, k)
    BY <1>1, <1>3, NextLine
  <1>6. Placed(home.con, t.con.row + 1, 0) = Placed(t.con, t.con.row + 1, 0)
    BY <1>1, <1>2, PlacedTwice
  <1>. HIDE DEF u
  <1>. QED BY <1>1, <1>2, <1>3, <1>4, <1>5, <1>6 DEF Fed, Broken, Within

\* The next tab stop, or the next row behind the last one.
Tabbed(t, u, k) ==
    \E stop \in {TabStop * n : n \in 0 .. Cols} :
        /\ stop >= t.con.col /\ stop - t.con.col < TabStop
        /\ \/ /\ stop < Cols /\ Own(u, k) /\ u.disp = t.disp
              /\ u.con = Placed(t.con, t.con.row, stop) /\ stop \in Cls
           \/ stop >= Cols /\ Broken(t, u, k)

LEMMA NextTab ==
    ASSUME NEW k \in Consoles, NEW t, Own(t, k), OnPage(t.con)
    PROVE  Tabbed(t, move_next_tab(t), k)
  <1>. DEFINE u == move_next_tab(t)
              a == t.con.col + TabStop - 1
              n == a \div TabStop
              stop == n * TabStop
  <1>. SUFFICES Tabbed(t, u, k)
    OBVIOUS
  <1>1. /\ t.con.col \in Nat /\ t.con.col < Cols /\ Cols \in Nat /\ TabStop \in Nat \ {0}
    BY Products DEF OnPage, Cls
  <1>2. ASSUME NEW x \in Nat, NEW b \in Nat \ {0}
        PROVE  x \div b \in Nat /\ (x \div b) * b <= x /\ x - (x \div b) * b < b
    BY <1>2, SMTT(30)
  <1>3. /\ n \in Nat /\ stop \in Nat /\ stop = TabStop * n
        /\ stop <= t.con.col + TabStop - 1 /\ t.con.col + TabStop - 1 - stop < TabStop
    <2>1. a \in Nat
      BY <1>1
    <2>2. n \in Nat /\ stop <= a /\ a - stop < TabStop
      <3>. HIDE DEF a
      <3>. QED BY <1>1, <1>2, <2>1
    <2>3. a = t.con.col + TabStop - 1
      OBVIOUS
    <2>. HIDE DEF n, a
    <2>. QED BY <1>1, <2>2, <2>3, Products
  <1>4. n \in 0 .. Cols
    <2>1. SUFFICES ASSUME n >= Cols + 1 PROVE FALSE
      BY <1>1, <1>3
    <2>. HIDE DEF n
    <2>2. (Cols + 1) * TabStop <= n * TabStop /\ (Cols + 1) * TabStop = Cols * TabStop + TabStop
      BY <1>1, <1>3, <2>1, Products
    <2>3. Cols * TabStop >= Cols /\ Cols * TabStop \in Int
      BY <1>1
    <2>. QED BY <1>1, <1>3, <2>2, <2>3
  <1>5. stop \in {TabStop * m : m \in 0 .. Cols}
    <2>. HIDE DEF n
    <2>. QED BY <1>3, <1>4
  <1>6. stop >= t.con.col /\ stop - t.con.col < TabStop
    <2>. HIDE DEF stop
    <2>. QED BY <1>1, <1>3
  <1>7. u = IF stop >= Cols THEN move_next_line(move_to_col0(t)) ELSE [t EXCEPT !.con.col = stop]
    BY DEF move_next_tab
  <1>. HIDE DEF stop, u
  <1>8. CASE stop >= Cols
    BY <1>5, <1>6, <1>7, <1>8, LineBreak DEF Tabbed
  <1>9. CASE stop < Cols
    <2>1. u = [t EXCEPT !.con.col = stop]
      BY <1>1, <1>3, <1>7, <1>9
    <2>2. Own(u, k) /\ u.disp = t.disp /\ u.con = ColSet(t.con, stop) /\ IsCon(t.con)
      BY <2>1 DEF Own, IsView, IsCon, ColSet
    <2>3. u.con = Placed(t.con, t.con.row, stop)
      BY <2>2, PlacedToo
    <2>4. stop \in Cls
      BY <1>1, <1>3, <1>9 DEF Cls
    <2>. QED BY <1>5, <1>6, <1>9, <2>2, <2>3, <2>4 DEF Tabbed
  <1>. QED BY <1>1, <1>3, <1>8, <1>9

\* The page is blank and the cursor at its start.
Cleared(t, u, k) ==
    /\ Own(u, k) /\ Within(t, u, k) /\ Went(t.con, u.con) /\ u.con.row = 0 /\ u.con.col = 0
    /\ \A r \in Rws, c \in Cls : Text(u, k, r, c) = Blank(t)

LEMMA ClearDisplay ==
    ASSUME NEW k \in Consoles, NEW t, Own(t, k)
    PROVE  LET u == clear_display(t) IN
           /\ Own(u, k) /\ u.con = t.con /\ Within(t, u, k)
           /\ \A r \in Rws, c \in Cls : Text(u, k, r, c) = Blank(t)
  <1>1. 0 \in Rws /\ Rows - 1 \in Rws
    BY Products DEF Rws
  <1>. DEFINE e == erase_rows(t, 0, Rows - 1)
  <1>2. /\ Own(e, k) /\ e.con = t.con /\ Within(t, e, k)
        /\ \A r \in Rws, c \in Cls :
              Text(e, k, r, c) = IF 0 <= r /\ r <= Rows - 1 THEN Blank(t) ELSE Text(t, k, r, c)
    BY <1>1, EraseRows
  <1>3. \A r \in Rws : 0 <= r /\ r <= Rows - 1
    BY Products DEF Rws
  <1>. QED BY <1>2, <1>3 DEF clear_display

\* What a command does.
Commanded(t, u, k) ==
    /\ OnPage(u.con) /\ Parsed(u.con)
    /\ ConOnly(t, u, k) \/ Cleared(t, u, k)

LEMMA EraseInDisplay ==
    ASSUME NEW k \in Consoles, NEW t, Own(t, k), OnPage(t.con), Parsed(t.con)
    PROVE  Commanded(t, erase_in_display(t), k)
  <1>. DEFINE e == clear_display(t)
              u == [e EXCEPT !.con.row = 0, !.con.col = 0]
  <1>1. /\ Own(e, k) /\ e.con = t.con /\ Within(t, e, k)
        /\ \A r \in Rws, c \in Cls : Text(e, k, r, c) = Blank(t)
    BY ClearDisplay
  <1>2. erase_in_display(t) \in {t, u}
    BY DEF erase_in_display
  <1>. HIDE DEF e
  <1>3. Own(u, k) /\ u.disp = e.disp /\ u.con = Placed(e.con, 0, 0) /\ IsCon(e.con)
    BY <1>1 DEF Own, IsView, IsCon, Placed
  <1>. HIDE DEF u
  <1>4. OnPage(u.con) /\ Parsed(u.con) /\ Went(t.con, u.con) /\ u.con.row = 0 /\ u.con.col = 0
    <2>1. 0 \in Rws /\ 0 \in Cls
      BY Products DEF Rws, Cls
    <2>2. OnPage(u.con) /\ Parsed(u.con) /\ Went(t.con, u.con)
      BY <1>1, <1>3, <2>1, PlacedOnPage
    <2>. QED BY <1>3, <2>2, PlacedFields
  <1>5. Cleared(t, u, k)
    BY <1>1, <1>3, <1>4 DEF Cleared, Within, Text
  <1>6. ConOnly(t, t, k)
    BY DEF ConOnly, SamePlaces
  <1>. QED BY <1>2, <1>4, <1>5, <1>6 DEF Commanded

\* What the parser does before and after a command leaves the effect as it is.
LEMMA CommandAmid ==
    ASSUME NEW k \in Consoles, NEW t, NEW a, NEW b, NEW u, OnPage(t.con),
           Quiet(t, a, k), Commanded(a, b, k), Quiet(b, u, k)
    PROVE  Commanded(t, u, k)
  <1>1. Own(u, k) /\ OnPage(u.con) /\ Parsed(u.con)
    BY DEF Quiet, Commanded, SamePlaces, OnPage
  <1>2. CASE ConOnly(a, b, k)
    <2>1. u.disp = t.disp
      BY <1>2 DEF Quiet, ConOnly
    <2>2. SamePlaces(t.con, u.con) \/ Went(t.con, u.con) \/ Saved(t.con, u.con)
      BY <1>2 DEF Quiet, ConOnly, SamePlaces, Went, Saved
    <2>. QED BY <1>1, <2>1, <2>2 DEF Commanded, ConOnly
  <1>3. CASE Cleared(a, b, k)
    <2>1. Blank(a) = Blank(t)
      BY DEF Quiet, Blank
    <2>2. Within(t, u, k) /\ \A r \in Rws, c \in Cls : Text(u, k, r, c) = Blank(t)
      BY <1>3, <2>1 DEF Cleared, Quiet, Within, Text
    <2>3. Went(t.con, u.con) /\ u.con.row = 0 /\ u.con.col = 0
      BY <1>3 DEF Cleared, Quiet, SamePlaces, Went
    <2>. QED BY <1>1, <2>2, <2>3 DEF Commanded, Cleared
  <1>. QED BY <1>2, <1>3 DEF Commanded

\* What a byte does.
Effect(t, u, k, char) ==
    /\ Own(u, k) /\ Within(t, u, k) /\ OnPage(u.con) /\ Parsed(u.con)
    /\ \/ t.con.write_state = "NORMAL" /\ char \in Printable /\ ShownAs(t, u, k, char)
       \/ Fed(t, u, k)
       \/ Tabbed(t, u, k)
       \/ u.disp = t.disp /\ BackTo(t.con, u.con)
       \/ Erased(t, u, k)
       \/ ConOnly(t, u, k)
       \/ Cleared(t, u, k)

LEMMA CommandEffect ==
    ASSUME NEW k \in Consoles, NEW t, NEW u, NEW char, Own(t, k), Commanded(t, u, k)
    PROVE  Effect(t, u, k, char)
  BY DEF Commanded, Effect, ConOnly, Cleared, Within

LEMMA NormalEffect ==
    ASSUME NEW k \in Consoles, NEW t, Own(t, k), OnPage(t.con), Parsed(t.con), NEW char,
           t.con.write_state = "NORMAL"
    PROVE  Effect(t, write_normal(t, char), k, char)
  <1>0. /\ t.con.row \in Rws /\ t.con.col \in Cls /\ 0 \in Rws /\ 0 \in Cls
        /\ \A r \in Rws : r + 1 < Rows => r + 1 \in Rws
        /\ \A c \in Cls : c + 1 < Cols => c + 1 \in Cls
        /\ IsCon(t.con)
    <2>1. \A r \in Rws : r + 1 < Rows => r + 1 \in Rws
      BY Products DEF Rws
    <2>2. \A c \in Cls : c + 1 < Cols => c + 1 \in Cls
      BY Products DEF Cls
    <2>3. 0 \in Rws /\ 0 \in Cls
      BY Products DEF Rws, Cls
    <2>. QED BY <2>1, <2>2, <2>3 DEF OnPage, Own, IsView
  <1>1. ASSUME NEW u, Own(u, k), \E r \in Rws, c \in Cls : u.con = Placed(t.con, r, c)
        PROVE  OnPage(u.con) /\ Parsed(u.con)
    BY <1>1, PlacedOnPage
  <1>2. ConOnly(t, t, k)
    BY DEF ConOnly, SamePlaces
  <1>3. ASSUME NEW u, ConOnly(t, u, k) PROVE Effect(t, u, k, char)
    BY <1>3 DEF Effect, ConOnly, Within
  <1>4. Effect(t, Enter(t, "ESC"), k, char)
    <2>1. Quiet(t, Enter(t, "ESC"), k)
      BY OnlyParsing DEF Modes
    <2>2. ConOnly(t, Enter(t, "ESC"), k)
      BY <2>1 DEF Quiet, ConOnly, SamePlaces, OnPage
    <2>. QED BY <1>3, <2>2
  <1>5. Effect(t, erase_backword(t), k, char)
    <2>1. CASE AtHome(t)
      BY <1>2, <1>3, <2>1 DEF erase_backword
    <2>2. CASE ~AtHome(t)
      <3>. DEFINE u == erase_backword(t)
      <3>. SUFFICES Effect(t, u, k, char)
        OBVIOUS
      <3>1. Erased(t, u, k) /\ OnPage(u.con)
        BY <2>2, EraseBackword
      <3>. HIDE DEF u
      <3>2. Parsed(u.con)
        BY <1>0, <3>1, PlacedFields DEF Erased, BackTo, Parsed
      <3>. QED BY <3>1, <3>2 DEF Effect, Erased
    <2>. QED BY <2>1, <2>2
  <1>6. Effect(t, move_backword(t), k, char)
    <2>. DEFINE u == move_backword(t)
    <2>. SUFFICES Effect(t, u, k, char)
      OBVIOUS
    <2>1. CASE AtHome(t)
      BY <1>2, <1>3, <2>1, MoveBackword
    <2>2. CASE ~AtHome(t)
      <3>1. Own(u, k) /\ OnPage(u.con) /\ BackTo(t.con, u.con) /\ u.disp = t.disp
        BY <2>2, MoveBackword
      <3>. HIDE DEF u
      <3>2. Parsed(u.con)
        BY <1>0, <3>1, PlacedFields DEF BackTo, Parsed
      <3>. QED BY <3>1, <3>2 DEF Effect, Within
    <2>. QED BY <2>1, <2>2
  <1>7. Effect(t, move_next_tab(t), k, char)
    <2>. DEFINE u == move_next_tab(t)
    <2>. SUFFICES Effect(t, u, k, char)
      OBVIOUS
    <2>1. Tabbed(t, u, k)
      BY NextTab
    <2>. HIDE DEF u
    <2>2. Own(u, k) /\ Within(t, u, k) /\ \E r \in Rws, c \in Cls : u.con = Placed(t.con, r, c)
      BY <1>0, <2>1 DEF Tabbed, Broken, Within
    <2>. QED BY <1>1, <2>1, <2>2 DEF Effect
  <1>8. Effect(t, move_to_col0(t), k, char)
    BY <1>3, OnlyMoving
  <1>9. Effect(t, move_next_line(t), k, char)
    <2>. DEFINE u == move_next_line(t)
    <2>. SUFFICES Effect(t, u, k, char)
      OBVIOUS
    <2>1. Fed(t, u, k)
      BY <1>0, NextLine
    <2>. HIDE DEF u
    <2>2. Own(u, k) /\ Within(t, u, k) /\ \E r \in Rws, c \in Cls : u.con = Placed(t.con, r, c)
      BY <1>0, <2>1, PlacedToo DEF Fed
    <2>. QED BY <1>1, <2>1, <2>2 DEF Effect
  <1>10. ASSUME char \in Printable PROVE Effect(t, show_char(t, char), k, char)
    <2>. DEFINE u == show_char(t, char)
    <2>. SUFFICES Effect(t, u, k, char)
      OBVIOUS
    <2>1. ShownAs(t, u, k, char)
      BY ShowChar
    <2>. HIDE DEF u
    <2>2. Own(u, k) /\ Within(t, u, k) /\ \E r \in Rws, c \in Cls : u.con = Placed(t.con, r, c)
      BY <1>0, <2>1 DEF ShownAs
    <2>. QED BY <1>1, <1>10, <2>1, <2>2 DEF Effect
  <1>. QED BY <1>2, <1>3, <1>4, <1>5, <1>6, <1>7, <1>8, <1>9, <1>10 DEF write_normal

LEMMA EscEffect ==
    ASSUME NEW k \in Consoles, NEW t, Own(t, k), OnPage(t.con), Parsed(t.con), NEW char
    PROVE  Commanded(t, write_esc(t, char), k)
  <1>0. "NORMAL" \in Modes /\ "SQUARE" \in Modes /\ Quiet(t, t, k)
    BY OnlyParsing DEF Modes
  <1>1. ASSUME NEW u, ConOnly(t, u, k), NEW mode \in Modes
        PROVE  Commanded(t, Enter(u, mode), k)
    <2>1. Commanded(t, u, k)
      BY <1>1 DEF Commanded, ConOnly
    <2>2. Quiet(u, Enter(u, mode), k)
      BY <1>1, OnlyParsing DEF ConOnly
    <2>. QED BY <1>0, <2>1, <2>2, CommandAmid
  <1>2. ConOnly(t, save_cursor(t), k) /\ ConOnly(t, restore_cursor(t), k)
    BY OnlyNoting, OnlyMoving
  <1>3. ConOnly(t, t, k) /\ ConOnly(t, clear_esc_param(t), k)
    <2>1. Quiet(t, clear_esc_param(t), k)
      BY OnlyParsing
    <2>. QED BY <1>0, <2>1 DEF Quiet, ConOnly, SamePlaces, OnPage
  <1>. QED BY <1>0, <1>1, <1>2, <1>3 DEF write_esc

\* The byte that ends a cursor move finds a place of the page in the parameters.
AsksWell(con, char) ==
    con.write_state = "SQUARE" /\ char = "H" =>
        con.esc_param[0] \in Rws /\ (con.index >= 1 => con.esc_param[1] \in Cls)

LEMMA CommandDone ==
    ASSUME NEW k \in Consoles, NEW t, Own(t, k), OnPage(t.con), Parsed(t.con), NEW char,
           char = "H" => AsksForPlace(t.con)
    PROVE  Commanded(t, Command(t, char), k)
  <1>1. ASSUME NEW u, ConOnly(t, u, k)
        PROVE  Commanded(t, u, k)
    BY <1>1 DEF Commanded, ConOnly
  <1>2. t.con.esc_param[0] \in Nat
    BY ConsoleAssumption DEF Parsed, Params
  <1>3. ConOnly(t, t, k)
    BY DEF ConOnly, SamePlaces
  <1>4. Commanded(t, set_font_style(t), k)
    BY <1>1, OnlyNoting
  <1>5. /\ Commanded(t, move_left(t, t.con.esc_param[0]), k)
        /\ Commanded(t, move_right(t, t.con.esc_param[0]), k)
    BY <1>1, <1>2, OnlyMoving
  <1>6. char = "H" => Commanded(t, move_cursor(t), k)
    BY <1>1, MoveCursor
  <1>7. Commanded(t, erase_in_display(t), k)
    BY EraseInDisplay
  <1>. QED BY <1>1, <1>3, <1>4, <1>5, <1>6, <1>7 DEF Command

LEMMA SquareEffect ==
    ASSUME NEW k \in Consoles, NEW t, Own(t, k), OnPage(t.con), Parsed(t.con), NEW char,
           t.con.write_state = "SQUARE", AsksWell(t.con, char)
    PROVE  Commanded(t, write_esc_square(t, char), k)
  <1>0. "NORMAL" \in Modes
    BY DEF Modes
  <1>1. ASSUME NEW u, Quiet(t, u, k) PROVE Commanded(t, u, k)
    BY <1>1 DEF Quiet, Commanded, ConOnly, SamePlaces, OnPage
  <1>2. ASSUME char \in DOMAIN Digit
        PROVE  Commanded(t, [t EXCEPT !.con.esc_param[t.con.index] = @ * 10 + Digit[char]], k)
    <2>. DEFINE e == [t.con.esc_param EXCEPT ![t.con.index] = @ * 10 + Digit[char]]
    <2>1. Digit[char] \in Nat
      BY <1>2 DEF Digit
    <2>2. e \in [Params -> Nat]
      <3>1. CASE t.con.index \in Params
        BY <2>1, <3>1 DEF Parsed
      <3>2. CASE t.con.index \notin Params
        BY <3>2 DEF Parsed
      <3>. QED BY <3>1, <3>2
    <2>3. [t EXCEPT !.con.esc_param[t.con.index] = @ * 10 + Digit[char]] = [t EXCEPT !.con.esc_param = e]
      BY DEF Own, IsView, IsCon
    <2>. HIDE DEF e
    <2>. QED BY <1>1, <2>2, <2>3, OnlyParsing
  <1>. DEFINE next == [t EXCEPT !.con.index = @ + 1]
  <1>3. Quiet(t, next, k)
    BY OnlyParsing DEF Parsed
  <1>4. /\ next.con.index = t.con.index + 1 /\ next.con.esc_param = t.con.esc_param
    BY DEF Own, IsView, IsCon
  <1>5. char = "H" => AsksForPlace(next.con)
    <2>1. t.con.index \in Nat
      BY DEF Parsed
    <2>. HIDE DEF next
    <2>. QED BY <1>4, <2>1 DEF AsksForPlace, AsksWell
  <1>. HIDE DEF next
  <1>6. Own(next, k) /\ OnPage(next.con) /\ Parsed(next.con)
    BY <1>3 DEF Quiet, SamePlaces, OnPage
  <1>7. Commanded(next, Command(next, char), k)
    BY <1>5, <1>6, CommandDone
  <1>8. Quiet(Command(next, char), Enter(Command(next, char), "NORMAL"), k)
    <2>1. Own(Command(next, char), k) /\ Parsed(Command(next, char).con)
      BY <1>7 DEF Commanded, ConOnly, Cleared
    <2>. QED BY <1>0, <2>1, OnlyParsing
  <1>9. Commanded(t, Enter(Command(next, char), "NORMAL"), k)
    BY <1>3, <1>7, <1>8, CommandAmid
  <1>. QED BY <1>1, <1>2, <1>3, <1>9 DEF write_esc_square, next

LEMMA WrittenEffect ==
    ASSUME NEW k \in Consoles, NEW t, Own(t, k), OnPage(t.con), Parsed(t.con), NEW char,
           AsksWell(t.con, char)
    PROVE  Effect(t, Written(t, char), k, char)
  <1>1. t.con.write_state \in Modes
    BY DEF Own, IsView, IsCon
  <1>2. CASE t.con.write_state = "NORMAL"
    BY <1>2, NormalEffect DEF Written
  <1>3. CASE t.con.write_state = "ESC"
    BY <1>3, EscEffect, CommandEffect DEF Written
  <1>4. CASE t.con.write_state = "SQUARE"
    BY <1>4, SquareEffect, CommandEffect DEF Written
  <1>. QED BY <1>1, <1>2, <1>3, <1>4 DEF Modes

\* Setting a console up blanks its page and nothing else.
FreshPage(t, u, k) ==
    /\ Own(u, k) /\ Within(t, u, k)
    /\ u.con.row = 0 /\ u.con.col = 0 /\ u.con.old_row = 0 /\ u.con.old_col = 0
    /\ u.con.fg = White /\ u.con.bg = Black
    /\ u.con.esc_param = t.con.esc_param /\ u.con.index = t.con.index
    /\ \A r \in Rws, c \in Cls :
          Text(u, k, r, c) = [c |-> "blank", fg |-> White, bg |-> Black]

LEMMA InitEffect ==
    ASSUME NEW k \in Consoles, NEW t, IsView(t), t.disp = [i \in Cells |-> t.disp[i]]
    PROVE  FreshPage(t, console_init(t, k), k)
  <1>. DEFINE placed == [t EXCEPT !.con.disp_base = k * Size, !.con.fg = White, !.con.bg = Black]
              e == clear_display(placed)
              u == [e EXCEPT !.con.row = 0, !.con.col = 0, !.con.old_row = 0, !.con.old_col = 0]
  <1>. SUFFICES FreshPage(t, u, k)
    BY DEF console_init
  <1>1. /\ Own(placed, k) /\ placed.disp = t.disp
        /\ placed.con.fg = White /\ placed.con.bg = Black
        /\ placed.con.esc_param = t.con.esc_param /\ placed.con.index = t.con.index
    BY DEF Own, IsView, IsCon
  <1>. HIDE DEF placed
  <1>2. /\ Own(e, k) /\ e.con = placed.con /\ Within(placed, e, k)
        /\ \A r \in Rws, c \in Cls : Text(e, k, r, c) = Blank(placed)
    BY <1>1, ClearDisplay
  <1>. HIDE DEF e
  <1>3. /\ Own(u, k) /\ u.disp = e.disp
        /\ u.con.row = 0 /\ u.con.col = 0 /\ u.con.old_row = 0 /\ u.con.old_col = 0
        /\ u.con.fg = e.con.fg /\ u.con.bg = e.con.bg
        /\ u.con.esc_param = e.con.esc_param /\ u.con.index = e.con.index
    BY <1>2 DEF Own, IsView, IsCon
  <1>. HIDE DEF u
  <1>4. Blank(placed) = [c |-> "blank", fg |-> White, bg |-> Black]
    BY <1>1 DEF Blank
  <1>5. Within(t, u, k) /\ \A r, c : Text(u, k, r, c) = Text(e, k, r, c)
    BY <1>1, <1>2, <1>3 DEF Within, Text
  <1>. QED BY <1>1, <1>2, <1>3, <1>4, <1>5 DEF FreshPage

\* LineOnScreen of one console.
Before(con, r, c) == r < con.row \/ (r = con.row /\ c < con.col)
LineOn(t, k, n) ==
    n >= 0 => /\ t.con.row * Cols + t.con.col <= n
              /\ \A r \in Rws, c \in Cls : Text(t, k, r, c).c = "x" <=> Before(t.con, r, c)

LEMMA Numbers ==
    ASSUME NEW t, OnPage(t.con)
    PROVE  /\ t.con.row \in Int /\ t.con.row >= 0 /\ t.con.row < Rows
           /\ t.con.col \in Int /\ t.con.col >= 0 /\ t.con.col < Cols
           /\ Rows \in Int /\ Cols \in Int /\ Rws \subseteq Int /\ Cls \subseteq Int
           /\ \A r \in Rws : r \in Int /\ 0 <= r /\ r < Rows
           /\ \A c \in Cls : c \in Int /\ 0 <= c /\ c < Cols
           /\ t.con.row * Cols \in Int
           /\ (t.con.row + 1) * Cols = t.con.row * Cols + Cols
           /\ (t.con.row - 1) * Cols = t.con.row * Cols - Cols
  <1>1. t.con.row \in Int /\ t.con.row >= 0 /\ t.con.row < Rows
    BY Products DEF OnPage, Rws
  <1>2. t.con.col \in Int /\ t.con.col >= 0 /\ t.con.col < Cols
    BY Products DEF OnPage, Cls
  <1>3. \A r \in Rws : r \in Int /\ 0 <= r /\ r < Rows
    BY Products DEF Rws
  <1>4. \A c \in Cls : c \in Int /\ 0 <= c /\ c < Cols
    BY Products DEF Cls
  <1>. QED BY <1>1, <1>2, <1>3, <1>4, Products

LEMMA LineGrows ==
    ASSUME NEW k \in Consoles, NEW t, Own(t, k), OnPage(t.con),
           NEW n \in Int, n >= 0, LineOn(t, k, n), NEW u, ShownAs(t, u, k, "x")
    PROVE  LineOn(u, k, n + 1)
  <1>0. /\ IsCon(t.con)
        /\ \A r \in Rws, c \in Cls : Text(t, k, r, c).c = "x" <=> Before(t.con, r, c)
        /\ t.con.row * Cols + t.con.col <= n
    BY DEF LineOn, Own, IsView
  <1>1. \A r, c : Struck(t, k, "x", r, c).c = "x" <=> (r = t.con.row /\ c = t.con.col)
                                                       \/ Text(t, k, r, c).c = "x"
    BY DEF Struck
  <1>2. CASE t.con.col + 1 < Cols
    <2>1. /\ u.con = Placed(t.con, t.con.row, t.con.col + 1)
          /\ \A r \in Rws, c \in Cls : Text(u, k, r, c) = Struck(t, k, "x", r, c)
      BY <1>2, Numbers DEF ShownAs
    <2>2. u.con.row = t.con.row /\ u.con.col = t.con.col + 1
      BY <1>0, <2>1, PlacedFields
    <2>3. ASSUME NEW r \in Rws, NEW c \in Cls PROVE Text(u, k, r, c).c = "x" <=> Before(u.con, r, c)
      <3>1. Text(u, k, r, c).c = "x" <=> (r = t.con.row /\ c = t.con.col) \/ Before(t.con, r, c)
        BY <1>0, <1>1, <2>1
      <3>0. /\ r \in Int /\ 0 <= r /\ r < Rows /\ c \in Int /\ 0 <= c /\ c < Cols
            /\ t.con.row \in Int /\ t.con.row < Rows /\ t.con.row >= 0
            /\ t.con.col \in Int /\ t.con.col < Cols /\ t.con.col >= 0
            /\ Rows \in Int /\ Cols \in Int
        BY Numbers
      <3>2. Before(u.con, r, c) <=> (r = t.con.row /\ c = t.con.col) \/ Before(t.con, r, c)
        BY <2>2, <3>0 DEF Before
      <3>. QED BY <3>1, <3>2
    <2>4. u.con.row * Cols + u.con.col <= n + 1
      BY <1>0, <2>2, Numbers
    <2>. QED BY <2>3, <2>4 DEF LineOn
  <1>3. CASE t.con.col + 1 >= Cols /\ t.con.row + 1 < Rows
    <2>1. /\ u.con = Placed(t.con, t.con.row + 1, 0)
          /\ \A r \in Rws, c \in Cls : Text(u, k, r, c) = Struck(t, k, "x", r, c)
      BY <1>3, Numbers DEF ShownAs
    <2>2. u.con.row = t.con.row + 1 /\ u.con.col = 0
      BY <1>0, <2>1, PlacedFields
    <2>3. ASSUME NEW r \in Rws, NEW c \in Cls PROVE Text(u, k, r, c).c = "x" <=> Before(u.con, r, c)
      <3>1. Text(u, k, r, c).c = "x" <=> (r = t.con.row /\ c = t.con.col) \/ Before(t.con, r, c)
        BY <1>0, <1>1, <2>1
      <3>0. /\ r \in Int /\ 0 <= r /\ r < Rows /\ c \in Int /\ 0 <= c /\ c < Cols
            /\ t.con.row \in Int /\ t.con.row < Rows /\ t.con.row >= 0
            /\ t.con.col \in Int /\ t.con.col < Cols /\ t.con.col >= 0
            /\ Rows \in Int /\ Cols \in Int
        BY Numbers
      <3>2. Before(u.con, r, c) <=> (r = t.con.row /\ c = t.con.col) \/ Before(t.con, r, c)
        BY <1>3, <2>2, <3>0 DEF Before
      <3>. QED BY <3>1, <3>2
    <2>4. u.con.row * Cols + u.con.col <= n + 1
      BY <1>0, <1>3, <2>2, Numbers
    <2>. QED BY <2>3, <2>4 DEF LineOn
  <1>4. CASE t.con.col + 1 >= Cols /\ t.con.row + 1 >= Rows
    <2>1. /\ u.con = Placed(t.con, t.con.row, 0)
          /\ \A r \in Rws, c \in Cls :
                Text(u, k, r, c) = IF r + 1 < Rows THEN Struck(t, k, "x", r + 1, c) ELSE Blank(t)
      BY <1>4, Numbers DEF ShownAs
    <2>2. u.con.row = t.con.row /\ u.con.col = 0
      BY <1>0, <2>1, PlacedFields
    <2>3. ASSUME NEW r \in Rws, NEW c \in Cls PROVE Text(u, k, r, c).c = "x" <=> Before(u.con, r, c)
      <3>0. /\ r \in Int /\ 0 <= r /\ r < Rows /\ c \in Int /\ 0 <= c /\ c < Cols
            /\ t.con.row \in Int /\ t.con.row < Rows /\ t.con.row >= 0
            /\ t.con.col \in Int /\ t.con.col < Cols /\ t.con.col >= 0
            /\ Rows \in Int /\ Cols \in Int
        BY Numbers
      <3>1. CASE r + 1 < Rows
        <4>1. r + 1 \in Rws
          BY <3>1, Numbers DEF Rws
        <4>2. Text(u, k, r, c).c = "x" <=> (r + 1 = t.con.row /\ c = t.con.col) \/ Before(t.con, r + 1, c)
          BY <1>0, <1>1, <2>1, <3>1, <4>1
        <4>3. Before(u.con, r, c) <=> (r + 1 = t.con.row /\ c = t.con.col) \/ Before(t.con, r + 1, c)
          BY <1>4, <2>2, <3>0, <3>1 DEF Before
        <4>. QED BY <4>2, <4>3
      <3>2. CASE ~(r + 1 < Rows)
        <4>1. Text(u, k, r, c) = Blank(t)
          BY <2>1, <3>2
        <4>2. Text(u, k, r, c).c # "x"
          BY <4>1 DEF Blank
        <4>3. ~Before(u.con, r, c)
          BY <1>4, <2>2, <3>0, <3>2 DEF Before
        <4>. QED BY <4>2, <4>3
      <3>. QED BY <3>1, <3>2
    <2>4. u.con.row * Cols + u.con.col <= n + 1
      BY <1>0, <1>4, <2>2, Numbers
    <2>. QED BY <2>3, <2>4 DEF LineOn
  <1>. QED BY <1>2, <1>3, <1>4, Numbers

LEMMA LineShrinks ==
    ASSUME NEW k \in Consoles, NEW t, Own(t, k), OnPage(t.con),
           NEW n \in Int, n > 0, LineOn(t, k, n)
    PROVE  LineOn(erase_backword(t), k, n - 1)
  <1>. DEFINE u == erase_backword(t)
  <1>. SUFFICES LineOn(u, k, n - 1)
    OBVIOUS
  <1>0. /\ IsCon(t.con)
        /\ \A r \in Rws, c \in Cls : Text(t, k, r, c).c = "x" <=> Before(t.con, r, c)
        /\ t.con.row * Cols + t.con.col <= n
    BY DEF LineOn, Own, IsView
  <1>1. CASE AtHome(t)
    <2>1. u = t
      BY <1>1 DEF erase_backword
    <2>2. t.con.row * Cols + t.con.col <= n - 1
      <3>1. t.con.row = 0 /\ t.con.col = 0 /\ 0 * Cols = 0
        BY <1>1, Products DEF AtHome
      <3>. QED BY <3>1
    <2>. HIDE DEF u
    <2>. QED BY <1>0, <2>1, <2>2 DEF LineOn
  <1>2. CASE ~AtHome(t)
    <2>1. Erased(t, u, k)
      BY <1>2, EraseBackword
    <2>. HIDE DEF u
    <2>2. \/ t.con.col > 0 /\ u.con.row = t.con.row /\ u.con.col = t.con.col - 1
          \/ t.con.col = 0 /\ t.con.row > 0 /\ u.con.row = t.con.row - 1 /\ u.con.col = Cols - 1
      BY <1>0, <2>1, PlacedFields DEF Erased, BackTo
    <2>3. ASSUME NEW r \in Rws, NEW c \in Cls PROVE Text(u, k, r, c).c = "x" <=> Before(u.con, r, c)
      <3>1. Text(u, k, r, c) = IF r = u.con.row /\ c = u.con.col THEN Blank(t) ELSE Text(t, k, r, c)
        BY <2>1 DEF Erased
      <3>2. Blank(t).c # "x"
        BY DEF Blank
      <3>3. Text(u, k, r, c).c = "x" <=> ~(r = u.con.row /\ c = u.con.col) /\ Before(t.con, r, c)
        BY <1>0, <3>1, <3>2
      <3>0. /\ r \in Int /\ 0 <= r /\ r < Rows /\ c \in Int /\ 0 <= c /\ c < Cols
            /\ t.con.row \in Int /\ t.con.row < Rows /\ t.con.row >= 0
            /\ t.con.col \in Int /\ t.con.col < Cols /\ t.con.col >= 0
            /\ Rows \in Int /\ Cols \in Int
        BY Numbers
      <3>4. Before(u.con, r, c) <=> ~(r = u.con.row /\ c = u.con.col) /\ Before(t.con, r, c)
        BY <2>2, <3>0 DEF Before
      <3>. QED BY <3>3, <3>4
    <2>4. u.con.row * Cols + u.con.col <= n - 1
      BY <1>0, <2>2, Numbers
    <2>. QED BY <2>3, <2>4 DEF LineOn
  <1>. QED BY <1>1, <1>2

LEMMA LineStays ==
    ASSUME NEW k \in Consoles, NEW t, Own(t, k), OnPage(t.con), Parsed(t.con),
           NEW n \in Int, LineOn(t, k, n), NEW char, AsksWell(t.con, char)
    PROVE  LET u == Written(t, char) IN
           Typed(n, t, char, u) \in Int /\ LineOn(u, k, Typed(n, t, char, u))
  <1>. DEFINE u == Written(t, char)
              m == Typed(n, t, char, u)
  <1>. SUFFICES m \in Int /\ LineOn(u, k, m)
    OBVIOUS
  <1>1. CASE n >= 0 /\ t.con.write_state = "NORMAL" /\ char = "x"
    <2>1. m = n + 1
      BY <1>1 DEF Typed
    <2>2. u = show_char(t, "x")
      BY <1>1 DEF Written, write_normal, Printable
    <2>3. LineOn(u, k, n + 1)
      <3>1. ShownAs(t, u, k, "x")
        BY <2>2, ShowChar
      <3>. HIDE DEF u
      <3>. QED BY <1>1, <3>1, LineGrows
    <2>. HIDE DEF u, m
    <2>. QED BY <2>1, <2>3
  <1>2. CASE n > 0 /\ t.con.write_state = "NORMAL" /\ char = "del"
    <2>1. m = n - 1
      BY <1>2 DEF Typed
    <2>2. u = erase_backword(t)
      BY <1>2 DEF Written, write_normal, Printable, Digit
    <2>3. LineOn(u, k, n - 1)
      <3>. HIDE DEF u
      <3>. QED BY <1>2, <2>2, LineShrinks
    <2>. HIDE DEF u, m
    <2>. QED BY <2>1, <2>3
  <1>3. CASE /\ ~(n >= 0 /\ t.con.write_state = "NORMAL" /\ char = "x")
             /\ ~(n > 0 /\ t.con.write_state = "NORMAL" /\ char = "del")
    <2>1. m = IF Empty(u) THEN 0 ELSE NotSet
      <3>. HIDE DEF u
      <3>. QED BY <1>3 DEF Typed
    <2>2. Own(u, k) /\ OnPage(u.con)
      BY WrittenEffect DEF Effect
    <2>. HIDE DEF u, m
    <2>3. ASSUME Empty(u) PROVE LineOn(u, k, 0)
      <3>1. u.con.row = 0 /\ u.con.col = 0 /\ 0 * Cols = 0
        BY <2>3, Products DEF Empty, AtHome
      <3>2. ASSUME NEW r \in Rws, NEW c \in Cls
            PROVE  Text(u, k, r, c).c = "blank"
        <4>1. Place(u, 0, 0) = Spot(k, 0, 0) /\ Place(u, Rows - 1, Cols - 1) = Spot(k, Rows - 1, Cols - 1)
          BY <2>2 DEF Own, Place, Spot
        <4>2. Rows \in Int /\ Cols \in Int /\ 0 \in Int /\ 0 \in Cls /\ Rows - 1 \in Int /\ Cols - 1 \in Cls /\ r \in Int
              /\ r >= 0 /\ r <= Rows - 1 /\ c \in Int /\ c >= 0 /\ c <= Cols - 1
          BY Products DEF Rws, Cls
        <4>3. /\ Spot(k, r, c) < Spot(k, 0, 0) <=> r < 0 \/ (r = 0 /\ c < 0)
              /\ Spot(k, Rows - 1, Cols - 1) < Spot(k, r, c)
                    <=> Rows - 1 < r \/ (r = Rows - 1 /\ Cols - 1 < c)
              /\ Spot(k, 0, 0) \in Int /\ Spot(k, Rows - 1, Cols - 1) \in Int /\ Spot(k, r, c) \in Int
          <5>1. /\ Spot(k, r, c) < Spot(k, 0, 0) <=> r < 0 \/ (r = 0 /\ c < 0)
                /\ Spot(k, 0, 0) \in Int
            BY <4>2, Spots
          <5>2. /\ Spot(k, Rows - 1, Cols - 1) < Spot(k, r, c)
                      <=> Rows - 1 < r \/ (r = Rows - 1 /\ Cols - 1 < c)
                /\ Spot(k, Rows - 1, Cols - 1) \in Int
            <6>. DEFINE s == Rows - 1
                        d == Cols - 1
            <6>1. s \in Int /\ d \in Cls
              BY <4>2
            <6>. HIDE DEF s, d
            <6>2. /\ Spot(k, s, d) < Spot(k, r, c) <=> s < r \/ (r = s /\ d < c)
                  /\ Spot(k, s, d) \in Int
              BY <6>1, Spots
            <6>3. /\ Spot(k, s, d) < Spot(k, r, c) <=> s < r \/ (s = r /\ d < c)
                  /\ Spot(k, s, d) \in Int
              BY <6>2
            <6>. QED BY <6>2 DEF s, d
          <5>3. Spot(k, r, c) \in Int
            BY <4>2, Spots
          <5>. QED BY <5>1, <5>2, <5>3
        <4>4. Spot(k, r, c) \in Spot(k, 0, 0) .. Spot(k, Rows - 1, Cols - 1)
          BY <4>2, <4>3
        <4>. QED BY <2>3, <4>1, <4>4 DEF Empty, Text
      <3>3. ASSUME NEW r \in Rws, NEW c \in Cls PROVE ~Before(u.con, r, c)
        BY <3>1, Products DEF Before, Rws, Cls
      <3>. QED BY <3>1, <3>2, <3>3 DEF LineOn
    <2>4. LineOn(u, k, NotSet)
      BY DEF LineOn, NotSet
    <2>. QED BY <2>1, <2>3, <2>4 DEF NotSet
  <1>. QED BY <1>1, <1>2, <1>3

-----------------------------------------------------------------------------
(* Every console's text, cursor and parser, with the hypothesis that cursor  *)
(* moves stay on the page (MovesOnPage).                                     *)

ScreenInv ==
    /\ Shapes
    /\ disp = [i \in Cells |-> disp[i]]
    /\ typed \in [Consoles -> Int]
    /\ \A p \in Procs : pc[p] # "user" => IsOpen(on[p])
    /\ \A k \in Consoles : /\ OnPage(console[k]) /\ Parsed(console[k])
                           /\ LineOn(View(k), k, typed[k])

LEMMA ScreenInvStart == Init => ScreenInv
  <1>. SUFFICES ASSUME Init PROVE ScreenInv
    OBVIOUS
  <1>1. PICK at \in 0 .. Size - 1 :
           /\ console = [k \in Consoles |->
                IF k > 0 THEN Zeroed
                ELSE [Zeroed EXCEPT !.disp_base = 0, !.fg = White,
                                    !.row = at \div Cols, !.col = at % Cols,
                                    !.old_row = at \div Cols, !.old_col = at % Cols]]
           /\ disp = [i \in Cells |-> [c |-> IF i < at THEN "x" ELSE "blank", fg |-> White, bg |-> Black]]
           /\ typed = [k \in Consoles |-> IF k = 0 /\ at = 0 THEN 0 ELSE NotSet]
    BY DEF Init
  <1>2. Shapes
    BY CursorInvStart DEF CursorInv
  <1>3. at \div Cols \in Rws /\ at % Cols \in Cls /\ 0 \in Rws /\ 0 \in Cls
    <2>1. PICK r \in Rws, c \in Cls : at = r * Cols + c
      BY PageCells
    <2>2. at \in Nat /\ Cols \in Nat \ {0}
      BY SizeFacts, Products
    <2>3. ASSUME NEW a \in Nat, NEW b \in Nat \ {0}
          PROVE  a = (a \div b) * b + (a % b) /\ a \div b \in Nat /\ a % b \in 0 .. b - 1
      BY <2>3, SMTT(30)
    <2>4. at = (at \div Cols) * Cols + (at % Cols) /\ at \div Cols \in Int /\ at % Cols \in Cls /\ r \in Int
      BY <2>2, <2>3 DEF Cls, Rws
    <2>5. at \div Cols = r
      BY <2>1, <2>4, RowByRow
    <2>. QED BY <2>4, <2>5, Products DEF Rws, Cls
  <1>4. ASSUME NEW k \in Consoles
        PROVE  /\ OnPage(console[k]) /\ Parsed(console[k])
               /\ k = 0 => console[k].row = at \div Cols /\ console[k].col = at % Cols
    <2>1. CASE k > 0
      BY <2>1, <1>1, <1>3 DEF Zeroed, OnPage, Parsed
    <2>2. CASE ~(k > 0)
      <3>1. k = 0
        BY <2>2, SizeFacts
      <3>. QED BY <2>2, <3>1, <1>1, <1>3 DEF Zeroed, OnPage, Parsed
    <2>. QED BY <2>1, <2>2
  <1>5. ASSUME NEW k \in Consoles
        PROVE  LineOn(View(k), k, typed[k])
    <2>1. CASE k = 0 /\ at = 0
      <3>1. console[k].row = 0 /\ console[k].col = 0 /\ 0 * Cols = 0 /\ typed[k] = 0
        <4>1. 0 \div Cols = 0 /\ 0 % Cols = 0 /\ 0 * Cols = 0
          BY Products, SMTT(30)
        <4>2. typed[k] = 0
          BY <1>1, <2>1
        <4>. QED BY <1>4, <2>1, <4>1, <4>2
      <3>2. ASSUME NEW r \in Rws, NEW c \in Cls PROVE disp[Spot(k, r, c)].c = "blank"
        <4>1. Spot(k, r, c) \in Cells /\ Spot(k, r, c) \in Nat
          BY Spots DEF Cells
        <4>. QED BY <4>1, <1>1, <2>1
      <3>3. ASSUME NEW r \in Rws, NEW c \in Cls PROVE ~Before(console[k], r, c)
        BY <3>1, Products DEF Before, Rws, Cls
      <3>. QED BY <3>1, <3>2, <3>3 DEF LineOn, View, Text
    <2>2. CASE ~(k = 0 /\ at = 0)
      BY <2>2, <1>1 DEF LineOn, NotSet
    <2>. QED BY <2>1, <2>2
  <1>6. disp = [i \in Cells |-> disp[i]] /\ typed \in [Consoles -> Int]
    BY <1>1 DEF NotSet
  <1>7. \A p \in Procs : pc[p] = "user"
    BY DEF Init
  <1>. QED BY <1>2, <1>4, <1>5, <1>6, <1>7 DEF ScreenInv

\* What one console shows leaves the others their text.
LEMMA OthersKeepTheirs ==
    ASSUME ScreenInv, NEW k \in Consoles, NEW t, Own(t, k), OnPage(t.con), Parsed(t.con),
           Within(View(k), t, k), Show(k, t),
           NEW n \in Int, LineOn(t, k, n), typed' = [typed EXCEPT ![k] = n]
    PROVE  /\ disp' = [i \in Cells |-> disp'[i]]
           /\ typed' \in [Consoles -> Int]
           /\ \A j \in Consoles : /\ OnPage(console'[j]) /\ Parsed(console'[j])
                                  /\ LineOn(View(j)', j, typed'[j])
  <1>1. disp' = t.disp /\ console'[k] = t.con /\ \A j \in Consoles \ {k} : console'[j] = console[j]
    BY DEF Show, ScreenInv, Shapes
  <1>2. disp' = [i \in Cells |-> disp'[i]]
    BY <1>1 DEF Own
  <1>3. typed' \in [Consoles -> Int]
    BY DEF ScreenInv
  <1>4. View(k)' = t
    BY <1>1 DEF View, Own, IsView
  <1>5. ASSUME NEW j \in Consoles
        PROVE  /\ OnPage(console'[j]) /\ Parsed(console'[j])
               /\ LineOn(View(j)', j, typed'[j])
    <2>1. CASE j = k
      <3>1. typed'[k] = n
        BY DEF ScreenInv
      <3>. QED BY <2>1, <3>1, <1>1, <1>4
    <2>2. CASE j # k
      <3>1. typed'[j] = typed[j] /\ console'[j] = console[j] /\ j \in Consoles \ {k}
        BY <2>2, <1>1 DEF ScreenInv
      <3>2. OnPage(console[j]) /\ Parsed(console[j]) /\ LineOn(View(j), j, typed[j])
        BY DEF ScreenInv
      <3>3. ASSUME NEW r \in Rws, NEW c \in Cls PROVE disp'[Spot(j, r, c)] = disp[Spot(j, r, c)]
        <4>1. Spot(j, r, c) \in Cells \ PageOf(k)
          BY <2>2, Spots
        <4>. QED BY <4>1, <1>1 DEF Within, View
      <3>4. LineOn(View(j)', j, typed'[j])
        BY <3>1, <3>2, <3>3 DEF LineOn, View, Text
      <3>. QED BY <3>1, <3>2, <3>4
    <2>. QED BY <2>1, <2>2
  <1>. QED BY <1>2, <1>3, <1>5

\* A console that is set up has an empty page.
LEMMA NewPage ==
    ASSUME ScreenInv, NEW k \in Consoles
    PROVE  LET t == console_init(View(k), k) IN
           /\ Own(t, k) /\ OnPage(t.con) /\ Parsed(t.con) /\ Within(View(k), t, k)
           /\ LineOn(t, k, 0)
  <1>. DEFINE t == console_init(View(k), k)
  <1>1. IsView(View(k)) /\ View(k).con = console[k] /\ View(k).disp = disp
    BY ViewShape DEF ScreenInv
  <1>2. FreshPage(View(k), t, k)
    BY <1>1, InitEffect DEF ScreenInv
  <1>3. 0 \in Rws /\ 0 \in Cls /\ 0 * Cols = 0
    BY Products DEF Rws, Cls
  <1>. HIDE DEF t
  <1>4. OnPage(t.con) /\ Parsed(t.con)
    BY <1>1, <1>2, <1>3 DEF FreshPage, OnPage, Parsed, ScreenInv
  <1>5. LineOn(t, k, 0)
    <2>1. ASSUME NEW r \in Rws, NEW c \in Cls PROVE ~Before(t.con, r, c)
      BY <1>2, Products DEF FreshPage, Before, Rws, Cls
    <2>. QED BY <1>2, <1>3, <2>1 DEF FreshPage, LineOn
  <1>. QED BY <1>2, <1>4, <1>5 DEF FreshPage, t

LEMMA ScreenInvStep ==
    ASSUME ScreenInv, MovesOnPage, [Next]_vars
    PROVE  ScreenInv'
  <1>0. Shapes'
    BY ShapesStep DEF ScreenInv
  <1>1. ASSUME UNCHANGED <<disp, console, typed>>,
               \A p \in Procs : pc'[p] # "user" => IsOpen(on'[p])
        PROVE  ScreenInv'
    BY <1>0, <1>1 DEF ScreenInv, View, Text, LineOn, IsOpen
  <1>2. ASSUME NEW k \in Consoles, NEW t, Own(t, k), OnPage(t.con), Parsed(t.con),
               Within(View(k), t, k), Show(k, t),
               NEW n \in Int, LineOn(t, k, n), typed' = [typed EXCEPT ![k] = n],
               UNCHANGED <<pc, on>>
        PROVE  ScreenInv'
    <2>1. /\ disp' = [i \in Cells |-> disp'[i]]
          /\ typed' \in [Consoles -> Int]
          /\ \A j \in Consoles : /\ OnPage(console'[j]) /\ Parsed(console'[j])
                                 /\ LineOn(View(j)', j, typed'[j])
      BY <1>2, OthersKeepTheirs
    <2>2. \A j \in Consoles : console[j].disp_base # NotSet => console'[j].disp_base # NotSet
      <3>1. console'[k] = t.con /\ \A j \in Consoles \ {k} : console'[j] = console[j]
        BY <1>2 DEF Show, ScreenInv, Shapes
      <3>2. t.con.disp_base # NotSet
        BY <1>2, SizeFacts DEF Own
      <3>. QED BY <3>1, <3>2
    <2>3. \A p \in Procs : pc'[p] # "user" => console'[on'[p]].disp_base # NotSet
      BY <1>2, <2>2 DEF ScreenInv, Shapes, IsOpen
    <2>. QED BY <1>0, <2>1, <2>3 DEF ScreenInv, IsOpen
  <1>3. ASSUME NEW k \in Consoles, tty_open(k)
        PROVE  ScreenInv'
    <2>. DEFINE t == console_init(View(k), k)
    <2>1. /\ Show(k, t) /\ typed' = [typed EXCEPT ![k] = 0] /\ UNCHANGED <<pc, on>>
      BY <1>3 DEF tty_open, taskVars
    <2>2. /\ Own(t, k) /\ OnPage(t.con) /\ Parsed(t.con) /\ Within(View(k), t, k)
          /\ LineOn(t, k, 0)
      BY NewPage
    <2>. HIDE DEF t
    <2>3. ASSUME NEW n \in Int, n = 0 PROVE ScreenInv'
      BY <1>2, <2>1, <2>2, <2>3
    <2>. QED BY <2>3
  <1>4. ASSUME NEW k \in Consoles, console_select(k)
        PROVE  ScreenInv'
    <2>1. CASE IsOpen(k)
      <3>1. /\ Show(k, View(k)) /\ typed' = [typed EXCEPT ![k] = typed[k]]
            /\ UNCHANGED <<pc, on>>
        BY <1>4, <2>1 DEF console_select, taskVars
      <3>2. UNCHANGED <<disp, console, typed>>
        BY <3>1 DEF Show, View, ScreenInv, Shapes
      <3>3. \A p \in Procs : pc'[p] # "user" => IsOpen(on'[p])
        BY <3>1 DEF ScreenInv
      <3>. QED BY <1>1, <3>2, <3>3
    <2>2. CASE ~IsOpen(k)
      <3>. DEFINE t == console_init(View(k), k)
      <3>1. /\ Show(k, t) /\ typed' = [typed EXCEPT ![k] = 0] /\ UNCHANGED <<pc, on>>
        BY <1>4, <2>2 DEF console_select, taskVars
      <3>2. /\ Own(t, k) /\ OnPage(t.con) /\ Parsed(t.con) /\ Within(View(k), t, k)
            /\ LineOn(t, k, 0)
        BY NewPage
      <3>. HIDE DEF t
      <3>3. ASSUME NEW n \in Int, n = 0 PROVE ScreenInv'
        BY <1>2, <3>1, <3>2, <3>3
      <3>. QED BY <3>3
    <2>. QED BY <2>1, <2>2
  <1>5. ASSUME NEW w \in Writes, tty_write(w[1], w[2], w[3])
        PROVE  ScreenInv'
    <2>1. w[1] \in Procs /\ w[2] \in Consoles
      BY ConsoleAssumption
    <2>2. /\ IsOpen(w[2]) /\ pc' = [pc EXCEPT ![w[1]] = "put"] /\ on' = [on EXCEPT ![w[1]] = w[2]]
          /\ UNCHANGED <<disp, console, typed>>
      BY <1>5 DEF tty_write, Goto, screenVars
    <2>3. \A p \in Procs : pc'[p] # "user" => IsOpen(on'[p])
      BY <2>1, <2>2 DEF ScreenInv, Shapes
    <2>. QED BY <1>1, <2>2, <2>3
  <1>6. ASSUME NEW p \in Procs, put(p)
        PROVE  ScreenInv'
    <2>1. /\ pc[p] = "put" /\ pc' = [pc EXCEPT ![p] = "drain"]
          /\ UNCHANGED <<disp, console, typed, on>>
      BY <1>6 DEF put, At, Goto, screenVars
    <2>2. \A q \in Procs : pc'[q] # "user" => IsOpen(on'[q])
      BY <2>1 DEF ScreenInv, Shapes
    <2>. QED BY <1>1, <2>1, <2>2
  <1>7. ASSUME NEW p \in Procs, drain(p)
        PROVE  ScreenInv'
    <2>. DEFINE k == on[p]
                c == Head(ofifo[on[p]])
                t == Written(View(k), c)
                n == Typed(typed[k], View(k), c, t)
    <2>1. /\ pc[p] = "drain" /\ k \in Consoles /\ ofifo[k] # <<>> /\ Show(k, t)
          /\ typed' = [typed EXCEPT ![k] = n] /\ UNCHANGED <<pc, on>>
      BY <1>7 DEF drain, At, taskVars, ScreenInv, Shapes
    <2>2. IsOpen(k)
      BY <2>1 DEF ScreenInv
    <2>3. /\ Own(View(k), k) /\ View(k).con = console[k] /\ View(k).disp = disp
          /\ typed[k] \in Int /\ LineOn(View(k), k, typed[k])
          /\ OnPage(View(k).con) /\ Parsed(View(k).con)
      BY <2>1, <2>2, ViewShape DEF Own, ScreenInv, Shapes, IsOpen
    <2>4. AsksWell(View(k).con, c)
      BY <2>1, <2>3 DEF MovesOnPage, AsksWell, Rws, Cls
    <2>. HIDE DEF k, c
    <2>5. Effect(View(k), t, k, c)
      BY <2>1, <2>3, <2>4, WrittenEffect
    <2>6. n \in Int /\ LineOn(t, k, n)
      BY <2>1, <2>3, <2>4, LineStays
    <2>. HIDE DEF t, n
    <2>7. Own(t, k) /\ OnPage(t.con) /\ Parsed(t.con) /\ Within(View(k), t, k)
      BY <2>5 DEF Effect
    <2>. QED BY <1>2, <2>1, <2>6, <2>7
  <1>8. ASSUME NEW p \in Procs, unlock(p)
        PROVE  ScreenInv'
    <2>1. /\ pc[p] = "drain" /\ UNCHANGED <<disp, console, typed, on>>
          /\ \/ pc' = [pc EXCEPT ![p] = "compute"]
             \/ pc' = [pc EXCEPT ![p] = "user"]
             \/ pc' = [pc EXCEPT ![p] = "put"]
      BY <1>8 DEF unlock, At, Goto, screenVars, NextByte
    <2>2. \A q \in Procs : pc'[q] # "user" => IsOpen(on'[q])
      BY <2>1 DEF ScreenInv, Shapes
    <2>. QED BY <1>1, <2>1, <2>2
  <1>9. ASSUME NEW p \in Procs, compute(p) \/ output(p)
        PROVE  ScreenInv'
    <2>1. /\ pc[p] \in {"compute", "output"} /\ UNCHANGED <<disp, console, typed, on>>
          /\ \/ pc' = [pc EXCEPT ![p] = "output"]
             \/ pc' = [pc EXCEPT ![p] = "user"]
             \/ pc' = [pc EXCEPT ![p] = "put"]
      BY <1>9 DEF compute, output, At, Goto, screenVars, NextByte
    <2>2. \A q \in Procs : pc'[q] # "user" => IsOpen(on'[q])
      BY <2>1 DEF ScreenInv, Shapes
    <2>. QED BY <1>1, <2>1, <2>2
  <1>10. CASE UNCHANGED vars
    BY <1>1, <1>10 DEF vars, screenVars, taskVars, ScreenInv
  <1>. QED BY <1>3, <1>4, <1>5, <1>6, <1>7, <1>8, <1>9, <1>10 DEF Next

\* A console's cursor, and the saved one, are on its own page, whatever is written to it.
THEOREM CursorStaysOnScreen ==
    Spec /\ []MovesOnPage => []CursorOnScreen
  <1>1. ScreenInv /\ MovesOnPage /\ [Next]_vars => ScreenInv'
    BY ScreenInvStep
  <1>2. ScreenInv => CursorOnScreen
    BY DEF ScreenInv, Shapes, OnPage, Rws, Cls, CursorOnScreen
  <1>. QED BY <1>1, <1>2, ScreenInvStart, PTL DEF Spec

\* A line typed on an empty screen is there up to the cursor and nothing else is.
THEOREM LineStaysOnScreen ==
    Spec /\ []MovesOnPage => []LineOnScreen
  <1>1. ScreenInv /\ MovesOnPage /\ [Next]_vars => ScreenInv'
    BY ScreenInvStep
  <1>2. ScreenInv => LineOnScreen
    <2>. SUFFICES ASSUME ScreenInv, NEW k \in Consoles, typed[k] >= 0
                  PROVE  LET before == console[k].row * Cols + console[k].col IN
                         /\ before <= typed[k]
                         /\ \A i \in 0 .. Size - 1 : (disp[k * Size + i].c = "x") <=> (i < before)
      BY DEF LineOnScreen
    <2>1. /\ console[k].row * Cols + console[k].col <= typed[k]
          /\ \A r \in Rws, c \in Cls : disp[Spot(k, r, c)].c = "x" <=> Before(console[k], r, c)
          /\ console[k].row \in Rws /\ console[k].col \in Cls
      BY DEF ScreenInv, LineOn, View, Text, OnPage
    <2>2. ASSUME NEW i \in 0 .. Size - 1
          PROVE  (disp[k * Size + i].c = "x") <=> (i < console[k].row * Cols + console[k].col)
      <3>1. PICK r \in Rws, c \in Cls : i = r * Cols + c
        BY PageCells
      <3>2. k * Size + i = Spot(k, r, c)
        <4>1. k * Size \in Int /\ r * Cols \in Int /\ c \in Int
          BY SizeFacts, Products DEF Rws, Cls
        <4>. QED BY <3>1, <4>1 DEF Spot
      <3>3. i < console[k].row * Cols + console[k].col <=> Before(console[k], r, c)
        <4>1. Rws \subseteq Int
          BY DEF Rws
        <4>. QED BY <2>1, <3>1, <4>1, RowByRow DEF Before
      <3>. QED BY <2>1, <3>2, <3>3
    <2>. QED BY <2>1, <2>2
  <1>. QED BY <1>1, <1>2, ScreenInvStart, PTL DEF Spec

-----------------------------------------------------------------------------
(* Every step of a console is a step of Screen.                              *)

\* What Screen sees of a console, before and after a step.
Seen(t, k) == [r \in Rws |-> [c \in Cls |-> Text(t, k, r, c)]]

IsPage(a) == a = [r \in Rws |-> [c \in Cls |-> a[r][c]]]

LEMMA ScreenSees ==
    ASSUME NEW k \in Consoles
    PROVE  /\ Page(k) = Seen(View(k), k)
           /\ Scr(k)!RowNrs = Rws /\ Scr(k)!ColNrs = Cls
           /\ Scr(k)!EmptyRow = [c \in Cls |-> Blank(View(k))]
           /\ Page(k)' = Seen(View(k)', k)
  BY DEF Page, Seen, View, Text, Spot, Rws, Cls, Scr!RowNrs, Scr!ColNrs, Scr!EmptyRow, Scr!Cell, Blank

\* A page that has gone up by a row.
LEMMA SeenScrolled ==
    ASSUME NEW k \in Consoles, NEW t, NEW u, NEW a, IsPage(a),
           \A r \in Rws, c \in Cls :
              Text(u, k, r, c) = IF r + 1 < Rows THEN a[r + 1][c] ELSE Blank(t)
    PROVE  Seen(u, k) = [r \in Rws |-> IF r + 1 < Rows THEN a[r + 1] ELSE [c \in Cls |-> Blank(t)]]
  <1>1. ASSUME NEW r \in Rws
        PROVE  [c \in Cls |-> Text(u, k, r, c)] = IF r + 1 < Rows THEN a[r + 1] ELSE [c \in Cls |-> Blank(t)]
    <2>1. CASE r + 1 < Rows
      <3>1. r + 1 \in Rws
        BY <2>1, Products DEF Rws
      <3>2. a[r + 1] = [c \in Cls |-> a[r + 1][c]]
        BY <3>1 DEF IsPage
      <3>. QED BY <2>1, <3>2
    <2>2. CASE ~(r + 1 < Rows)
      BY <2>2
    <2>. QED BY <2>1, <2>2
  <1>. QED BY <1>1 DEF Seen

\* The cursor goes down, or the text up: the page a becomes that of u.
Feeds(t, u, k, a) ==
    \/ /\ t.con.row + 1 < Rows /\ u.con.row = t.con.row + 1
       /\ \A r \in Rws, c \in Cls : Text(u, k, r, c) = a[r][c]
    \/ /\ t.con.row + 1 >= Rows /\ u.con.row = t.con.row
       /\ \A r \in Rws, c \in Cls :
             Text(u, k, r, c) = IF r + 1 < Rows THEN a[r + 1][c] ELSE Blank(t)

LEMMA FeedIsSeen ==
    ASSUME NEW k \in Consoles, console[k].row \in Int,
           NEW a, IsPage(a), Feeds(View(k), View(k)', k, a)
    PROVE  Scr(k)!Feed(a)
  <1>. DEFINE t == View(k)
              u == View(k)'
  <1>0. t.con = console[k] /\ u.con = console'[k] /\ Rows \in Int
    BY Products DEF View
  <1>1. CASE /\ t.con.row + 1 < Rows /\ u.con.row = t.con.row + 1
             /\ \A r \in Rws, c \in Cls : Text(u, k, r, c) = a[r][c]
    <2>1. Seen(u, k) = a
      BY <1>1 DEF Seen, IsPage
    <2>2. Page(k)' = a
      BY <2>1, ScreenSees
    <2>. QED BY <1>0, <1>1, <2>2 DEF Scr!Feed
  <1>2. CASE /\ t.con.row + 1 >= Rows /\ u.con.row = t.con.row
             /\ \A r \in Rws, c \in Cls :
                   Text(u, k, r, c) = IF r + 1 < Rows THEN a[r + 1][c] ELSE Blank(t)
    <2>1. Seen(u, k) = [r \in Rws |-> IF r + 1 < Rows THEN a[r + 1] ELSE [c \in Cls |-> Blank(t)]]
      <3>. HIDE DEF t, u
      <3>. QED BY <1>2, SeenScrolled
    <2>2. Page(k)' = [r \in Rws |-> IF r + 1 < Rows THEN a[r + 1] ELSE Scr(k)!EmptyRow]
      BY <2>1, ScreenSees
    <2>. QED BY <1>0, <1>2, <2>2, ScreenSees DEF Scr!Feed
  <1>. QED BY <1>1, <1>2 DEF Feeds

LEMMA FedIsSeen ==
    ASSUME NEW k \in Consoles, IsCon(console[k]), OnPage(console[k]), Fed(View(k), View(k)', k)
    PROVE  Scr(k)!NewLine
  <1>. DEFINE a == Seen(View(k), k)
  <1>1. View(k).con = console[k] /\ View(k)'.con = console'[k]
    BY DEF View
  <1>2. IsPage(a) /\ \A r \in Rws, c \in Cls : a[r][c] = Text(View(k), k, r, c)
    BY DEF Seen, IsPage
  <1>3. /\ \A r \in Rws : r + 1 < Rows => r + 1 \in Rws
        /\ console[k].row \in Int
    BY Products DEF Rws, OnPage
  <1>4. a = Page(k)
    BY ScreenSees
  <1>5. /\ console'[k].col = console[k].col
        /\ console'[k].old_row = console[k].old_row /\ console'[k].old_col = console[k].old_col
        /\ console'[k].fg = console[k].fg /\ console'[k].bg = console[k].bg
    BY <1>1, PlacedFields DEF Fed
  <1>. HIDE DEF a
  <1>6. Feeds(View(k), View(k)', k, a)
    BY <1>1, <1>2, <1>3, PlacedFields DEF Fed, Feeds
  <1>7. Scr(k)!Feed(a)
    BY <1>2, <1>3, <1>6, FeedIsSeen
  <1>. QED BY <1>4, <1>5, <1>7 DEF Scr!NewLine

\* A page with another cell in one place.
Put(a, i, j, cell) == [a EXCEPT ![i][j] = cell]

LEMMA CellPut ==
    ASSUME NEW a, IsPage(a), NEW i \in Rws, NEW j \in Cls, NEW cell
    PROVE  LET b == Put(a, i, j, cell) IN
           IsPage(b) /\ \A r \in Rws, c \in Cls : b[r][c] = IF r = i /\ c = j THEN cell ELSE a[r][c]
  <1>. DEFINE b == Put(a, i, j, cell)
              d == [r \in Rws |-> [c \in Cls |-> IF r = i /\ c = j THEN cell ELSE a[r][c]]]
  <1>1. b = d
    BY DEF IsPage, Put
  <1>. HIDE DEF b
  <1>2. IsPage(d) /\ \A r \in Rws, c \in Cls : d[r][c] = IF r = i /\ c = j THEN cell ELSE a[r][c]
    BY DEF IsPage
  <1>. QED BY <1>1, <1>2 DEF b

LEMMA ShownIsSeen ==
    ASSUME NEW k \in Consoles, IsCon(console[k]), OnPage(console[k]), ShownAs(View(k), View(k)', k, "x")
    PROVE  Scr(k)!Type
  <1>. DEFINE t == View(k)
              u == View(k)'
              row == console[k].row
              col == console[k].col
              cell == [c |-> "x", fg |-> console[k].fg, bg |-> console[k].bg]
              a == Put(Page(k), row, col, cell)
  <1>1. t.con = console[k] /\ u.con = console'[k]
    BY DEF View
  <1>2. IsPage(a) /\ \A r \in Rws, c \in Cls : a[r][c] = Struck(t, k, "x", r, c)
    <2>1. IsPage(Page(k)) /\ \A r \in Rws, c \in Cls : Page(k)[r][c] = Text(t, k, r, c)
      BY ScreenSees DEF IsPage, Seen
    <2>2. IsPage(a) /\ \A r \in Rws, c \in Cls :
                          a[r][c] = IF r = row /\ c = col THEN cell ELSE Page(k)[r][c]
      <3>1. row \in Rws /\ col \in Cls
        BY DEF OnPage
      <3>. HIDE DEF cell, row, col
      <3>. QED BY <2>1, <3>1, CellPut
    <2>. HIDE DEF a, t
    <2>. QED BY <1>1, <2>1, <2>2 DEF Struck
  <1>3. /\ \A r \in Rws : r + 1 < Rows => r + 1 \in Rws
        /\ row \in Int /\ col \in Int /\ Cols \in Int /\ Rows \in Int
    BY Products DEF Rws, Cls, OnPage
  <1>4. /\ console'[k].old_row = console[k].old_row /\ console'[k].old_col = console[k].old_col
        /\ console'[k].fg = console[k].fg /\ console'[k].bg = console[k].bg
    BY <1>1, PlacedFields DEF ShownAs
  <1>5. \/ col + 1 < Cols /\ console'[k].col = col + 1 /\ console'[k].row = row /\ Page(k)' = a
        \/ ~(col + 1 < Cols) /\ console'[k].col = 0 /\ Scr(k)!Feed(a)
    <2>. HIDE DEF a
    <2>1. CASE /\ col + 1 < Cols /\ u.con = Placed(t.con, t.con.row, t.con.col + 1)
               /\ \A r \in Rws, c \in Cls : Text(u, k, r, c) = Struck(t, k, "x", r, c)
      <3>1. Seen(u, k) = a
        BY <1>2, <2>1 DEF Seen, IsPage
      <3>2. Page(k)' = a
        BY <3>1, ScreenSees
      <3>. QED BY <1>1, <2>1, <3>2, PlacedFields
    <2>2. CASE ~(col + 1 < Cols)
      <3>1. Feeds(t, u, k, a) /\ u.con.col = 0
        <4>. HIDE DEF t, u
        <4>. QED BY <1>1, <1>2, <1>3, <2>2, PlacedFields DEF ShownAs, Feeds, t, u
      <3>2. Scr(k)!Feed(a)
        BY <1>2, <1>3, <3>1, FeedIsSeen
      <3>. QED BY <1>1, <2>2, <3>1, <3>2
    <2>. QED BY <1>1, <1>3, <2>1, <2>2 DEF ShownAs
  <1>6. a = [Page(k) EXCEPT ![console[k].row][console[k].col] = Scr(k)!Cell("x")]
    BY DEF Scr!Cell, Put
  <1>. HIDE DEF a
  <1>. QED BY <1>4, <1>5, <1>6 DEF Scr!Type

LEMMA TabIsSeen ==
    ASSUME NEW k \in Consoles, IsCon(console[k]), OnPage(console[k]), Tabbed(View(k), View(k)', k)
    PROVE  Scr(k)!Tab
  <1>. DEFINE t == View(k)
              u == View(k)'
              a == Page(k)
  <1>1. t.con = console[k] /\ u.con = console'[k]
    BY DEF View
  <1>2. IsPage(a) /\ \A r \in Rws, c \in Cls : a[r][c] = Text(t, k, r, c)
    BY ScreenSees DEF IsPage, Seen
  <1>3. /\ \A r \in Rws : r + 1 < Rows => r + 1 \in Rws
        /\ console[k].row \in Int /\ TabStop \in Nat /\ Cols \in Nat
    BY Products DEF Rws, OnPage
  <1>4. PICK stop \in {TabStop * n : n \in 0 .. Cols} :
        /\ stop >= t.con.col /\ stop - t.con.col < TabStop
        /\ \/ /\ stop < Cols /\ Own(u, k) /\ u.disp = t.disp
              /\ u.con = Placed(t.con, t.con.row, stop) /\ stop \in Cls
           \/ stop >= Cols /\ Broken(t, u, k)
    BY DEF Tabbed
  <1>5. stop \in Int
    BY <1>3, <1>4
  <1>6. /\ console'[k].old_row = console[k].old_row /\ console'[k].old_col = console[k].old_col
        /\ console'[k].fg = console[k].fg /\ console'[k].bg = console[k].bg
    BY <1>1, <1>4, PlacedFields DEF Broken
  <1>7. CASE /\ stop < Cols /\ u.disp = t.disp /\ u.con = Placed(t.con, t.con.row, stop)
    <2>1. Page(k)' = Page(k)
      BY <1>7 DEF View, Page
    <2>2. console'[k].col = stop /\ console'[k].row = console[k].row
      BY <1>1, <1>7, PlacedFields
    <2>. QED BY <1>1, <1>4, <1>6, <1>7, <2>1, <2>2 DEF Scr!Tab
  <1>8. CASE stop >= Cols /\ Broken(t, u, k)
    <2>1. Feeds(t, u, k, a) /\ u.con.col = 0
      <3>. HIDE DEF t, u, a
      <3>. QED BY <1>1, <1>2, <1>3, <1>8, PlacedFields DEF Broken, Feeds
    <2>2. Scr(k)!Feed(a)
      BY <1>2, <1>3, <2>1, FeedIsSeen
    <2>3. ~(stop < Cols)
      BY <1>3, <1>5, <1>8
    <2>. QED BY <1>1, <1>4, <1>6, <2>1, <2>2, <2>3 DEF Scr!Tab
  <1>. QED BY <1>4, <1>7, <1>8

LEMMA BackIsSeen ==
    ASSUME NEW k \in Consoles, IsCon(console[k]), OnPage(console[k]),
           BackTo(console[k], console'[k])
    PROVE  /\ Scr(k)!Back
           /\ console'[k].row \in Rws /\ console'[k].col \in Cls
  <1>. DEFINE row == console[k].row
              col == console[k].col
  <1>1. /\ \/ col > 0 /\ console'[k].row = row /\ console'[k].col = col - 1
           \/ col = 0 /\ row > 0 /\ console'[k].row = row - 1 /\ console'[k].col = Cols - 1
        /\ console'[k].old_row = console[k].old_row /\ console'[k].old_col = console[k].old_col
        /\ console'[k].fg = console[k].fg /\ console'[k].bg = console[k].bg
    BY PlacedFields DEF BackTo
  <1>2. /\ row \in Int /\ col \in Int /\ row >= 0 /\ col >= 0 /\ row < Rows /\ col < Cols
        /\ Rows \in Nat \ {0} /\ Cols \in Nat \ {0}
        /\ row * Cols \in Int /\ (row - 1) * Cols = row * Cols - Cols
    BY Products DEF OnPage, Rws, Cls
  <1>3. console'[k].row \in Rws /\ console'[k].col \in Cls
    BY <1>1, <1>2 DEF Rws, Cls
  <1>4. console'[k].row * Cols + console'[k].col = row * Cols + col - 1
    <2>1. CASE col > 0 /\ console'[k].row = row /\ console'[k].col = col - 1
      BY <1>2, <2>1
    <2>2. CASE col = 0 /\ row > 0 /\ console'[k].row = row - 1 /\ console'[k].col = Cols - 1
      BY <1>2, <2>2
    <2>. QED BY <1>1, <2>1, <2>2
  <1>5. <<row, col>> # <<0, 0>>
    BY <1>1, <1>2
  <1>. QED BY <1>1, <1>3, <1>4, <1>5, ScreenSees DEF Scr!Back, Scr!Cursor

LEMMA ErasedIsSeen ==
    ASSUME NEW k \in Consoles, IsCon(console[k]), OnPage(console[k]), Erased(View(k), View(k)', k)
    PROVE  Scr(k)!Erase
  <1>. DEFINE t == View(k)
              u == View(k)'
              row == console'[k].row
              col == console'[k].col
              a == Put(Page(k), row, col, Blank(t))
  <1>1. t.con = console[k] /\ u.con = console'[k]
    BY DEF View
  <1>2. Scr(k)!Back /\ row \in Rws /\ col \in Cls
    BY <1>1, BackIsSeen DEF Erased
  <1>3. Seen(u, k) = a
    <2>1. IsPage(Page(k)) /\ \A r \in Rws, c \in Cls : Page(k)[r][c] = Text(t, k, r, c)
      BY ScreenSees DEF IsPage, Seen
    <2>2. IsPage(a) /\ \A r \in Rws, c \in Cls :
                          a[r][c] = IF r = row /\ c = col THEN Blank(t) ELSE Page(k)[r][c]
      <3>. HIDE DEF row, col, t
      <3>. QED BY <1>2, <2>1, CellPut
    <2>3. \A r \in Rws, c \in Cls : a[r][c] = Text(u, k, r, c)
      <3>. HIDE DEF a, t, u
      <3>. QED BY <1>1, <2>1, <2>2 DEF Erased, t, u
    <2>. HIDE DEF a
    <2>. QED BY <2>2, <2>3 DEF Seen, IsPage
  <1>4. Page(k)' = a
    BY <1>3, ScreenSees
  <1>5. a = [Page(k) EXCEPT ![console'[k].row][console'[k].col] = Scr(k)!Cell("blank")]
    BY DEF Put, Blank, View, Scr!Cell
  <1>. HIDE DEF a
  <1>. QED BY <1>2, <1>4, <1>5 DEF Scr!Erase

LEMMA RecordIsSeen ==
    ASSUME NEW k \in Consoles, ConOnly(View(k), View(k)', k)
    PROVE  Scr(k)!Next
  <1>1. View(k).con = console[k] /\ View(k)'.con = console'[k] /\ Page(k)' = Page(k)
    BY DEF ConOnly, View, Page
  <1>2. console'[k].row \in Rws /\ console'[k].col \in Cls
    BY <1>1 DEF ConOnly, OnPage
  <1>3. CASE SamePlaces(console[k], console'[k])
    <2>1. Scr(k)!Colour
      BY <1>1, <1>3 DEF SamePlaces, Scr!Colour
    <2>. QED BY <2>1 DEF Scr!Next
  <1>4. CASE Went(console[k], console'[k])
    <2>1. Scr(k)!Goto
      BY <1>1, <1>2, <1>4, ScreenSees DEF Went, Scr!Goto
    <2>. QED BY <2>1 DEF Scr!Next
  <1>5. CASE Saved(console[k], console'[k])
    <2>1. Scr(k)!Save
      BY <1>1, <1>5 DEF Saved, Scr!Save, Scr!Cursor
    <2>. QED BY <2>1 DEF Scr!Next
  <1>. QED BY <1>1, <1>3, <1>4, <1>5 DEF ConOnly

LEMMA ClearedIsSeen ==
    ASSUME NEW k \in Consoles, Cleared(View(k), View(k)', k)
    PROVE  Scr(k)!Clear
  <1>1. View(k).con = console[k] /\ View(k)'.con = console'[k]
    BY DEF View
  <1>2. Page(k)' = [r \in Rws |-> [c \in Cls |-> Blank(View(k))]]
    BY ScreenSees DEF Cleared, Seen
  <1>. QED BY <1>1, <1>2, ScreenSees DEF Cleared, Went, Scr!Clear

LEMMA FreshIsSeen ==
    ASSUME NEW k \in Consoles, NEW t, FreshPage(t, View(k)', k)
    PROVE  Scr(k)!Reset
  <1>1. View(k)'.con = console'[k]
    BY DEF View
  <1>2. Page(k)' = [r \in Rws |-> [c \in Cls |-> [c |-> "blank", fg |-> White, bg |-> Black]]]
    BY ScreenSees DEF FreshPage, Seen
  <1>. QED BY <1>1, <1>2, ScreenSees DEF FreshPage, Scr!Reset

\* A byte that reaches a console.
LEMMA ByteIsSeen ==
    ASSUME NEW k \in Consoles, IsCon(console[k]), OnPage(console[k]), NEW char,
           Effect(View(k), View(k)', k, char),
           console[k].write_state = "NORMAL" => char \notin Printable \ {"x"}
    PROVE  Scr(k)!Next
  <1>. DEFINE t == View(k)
              u == View(k)'
  <1>1. t.con = console[k] /\ u.con = console'[k]
    BY DEF View
  <1>2. ASSUME t.con.write_state = "NORMAL" /\ char \in Printable /\ ShownAs(t, u, k, char)
        PROVE  Scr(k)!Next
    <2>1. char = "x"
      BY <1>1, <1>2
    <2>. QED BY <1>2, <2>1, ShownIsSeen DEF Scr!Next
  <1>3. ASSUME u.disp = t.disp /\ BackTo(t.con, u.con) PROVE Scr(k)!Next
    <2>1. Scr(k)!Back
      BY <1>1, <1>3, BackIsSeen
    <2>2. Page(k)' = Page(k)
      BY <1>3 DEF View, Page
    <2>. QED BY <2>1, <2>2 DEF Scr!Next
  <1>4. Fed(t, u, k) => Scr(k)!Next
    BY FedIsSeen DEF Scr!Next
  <1>5. Tabbed(t, u, k) => Scr(k)!Next
    BY TabIsSeen DEF Scr!Next
  <1>6. Erased(t, u, k) => Scr(k)!Next
    BY ErasedIsSeen DEF Scr!Next
  <1>7. ConOnly(t, u, k) => Scr(k)!Next
    BY RecordIsSeen
  <1>8. Cleared(t, u, k) => Scr(k)!Next
    BY ClearedIsSeen DEF Scr!Next
  <1>. QED BY <1>2, <1>3, <1>4, <1>5, <1>6, <1>7, <1>8 DEF Effect

\* What another console shows.
LEMMA OthersSeeNothing ==
    ASSUME Shapes, NEW k \in Consoles, NEW t, Within(View(k), t, k), Show(k, t),
           NEW j \in Consoles, j # k
    PROVE  UNCHANGED Scr(j)!vars
  <1>1. disp' = t.disp /\ console'[j] = console[j]
    BY DEF Show, Shapes
  <1>2. ASSUME NEW r \in Rws, NEW c \in Cls PROVE Text(View(j)', j, r, c) = Text(View(j), j, r, c)
    <2>1. Spot(j, r, c) \in Cells \ PageOf(k)
      BY Spots
    <2>. QED BY <2>1, <1>1 DEF Within, View, Text
  <1>3. Page(j)' = Page(j)
    BY <1>2, ScreenSees DEF Seen
  <1>. QED BY <1>1, <1>3 DEF Scr!vars

LEMMA ScreenStep ==
    ASSUME ScreenInv, MovesOnPage, OnlyTextIsShown, [Next]_vars
    PROVE  \A j \in Consoles : Scr(j)!Next \/ UNCHANGED Scr(j)!vars
  <1>1. ASSUME UNCHANGED <<disp, console>>
        PROVE  \A j \in Consoles : UNCHANGED Scr(j)!vars
    BY <1>1 DEF Scr!vars, Page
  <1>2. ASSUME NEW k \in Consoles, ~IsOpen(k), Show(k, console_init(View(k), k))
        PROVE  \A j \in Consoles : Scr(j)!Next \/ UNCHANGED Scr(j)!vars
    <2>. DEFINE t == console_init(View(k), k)
    <2>1. Own(t, k) /\ Within(View(k), t, k)
      BY NewPage
    <2>2. FreshPage(View(k), t, k)
      BY ViewShape, InitEffect DEF ScreenInv, View
    <2>. HIDE DEF t
    <2>3. View(k)' = t
      BY <1>2, <2>1 DEF Show, View, Own, IsView, ScreenInv, Shapes, t
    <2>4. Scr(k)!Next
      BY <2>2, <2>3, FreshIsSeen DEF Scr!Next
    <2>5. \A j \in Consoles \ {k} : UNCHANGED Scr(j)!vars
      BY <1>2, <2>1, OthersSeeNothing DEF ScreenInv, t
    <2>. QED BY <2>4, <2>5
  <1>3. ASSUME NEW k \in Consoles, tty_open(k) \/ console_select(k)
        PROVE  \A j \in Consoles : Scr(j)!Next \/ UNCHANGED Scr(j)!vars
    <2>1. CASE ~IsOpen(k)
      <3>1. Show(k, console_init(View(k), k))
        BY <1>3, <2>1 DEF tty_open, console_select
      <3>. QED BY <1>2, <2>1, <3>1
    <2>2. CASE IsOpen(k)
      <3>1. Show(k, View(k))
        BY <1>3, <2>2 DEF tty_open, console_select
      <3>2. UNCHANGED <<disp, console>>
        BY <3>1 DEF Show, View, ScreenInv, Shapes
      <3>. QED BY <1>1, <3>2
    <2>. QED BY <2>1, <2>2
  <1>4. ASSUME NEW w \in Writes, tty_write(w[1], w[2], w[3])
        PROVE  UNCHANGED <<disp, console>>
    BY <1>4 DEF tty_write, screenVars
  <1>5. ASSUME NEW p \in Procs, put(p) \/ unlock(p) \/ compute(p) \/ output(p)
        PROVE  UNCHANGED <<disp, console>>
    BY <1>5 DEF put, unlock, compute, output, screenVars
  <1>6. ASSUME NEW p \in Procs, drain(p)
        PROVE  \A j \in Consoles : Scr(j)!Next \/ UNCHANGED Scr(j)!vars
    <2>. SUFFICES ASSUME NEW k \in Consoles, k = on[p], NEW c, c = Head(ofifo[k]),
                         NEW t, t = Written(View(k), c)
                  PROVE  \A j \in Consoles : Scr(j)!Next \/ UNCHANGED Scr(j)!vars
      BY DEF ScreenInv, Shapes
    <2>1. pc[p] = "drain" /\ ofifo[k] # <<>> /\ Show(k, t)
      BY <1>6 DEF drain, At
    <2>2. IsOpen(k)
      BY <2>1 DEF ScreenInv
    <2>3. /\ Own(View(k), k) /\ View(k).con = console[k] /\ IsCon(console[k])
          /\ OnPage(View(k).con) /\ Parsed(View(k).con)
      BY <2>1, <2>2, ViewShape DEF Own, ScreenInv, Shapes, IsOpen, View
    <2>4. AsksWell(View(k).con, c)
      BY <2>1, <2>3 DEF MovesOnPage, AsksWell, Rws, Cls
    <2>5. console[k].write_state = "NORMAL" => c \notin Printable \ {"x"}
      BY <2>1 DEF OnlyTextIsShown
    <2>6. Effect(View(k), t, k, c)
      BY <2>1, <2>3, <2>4, WrittenEffect
    <2>7. Own(t, k) /\ Within(View(k), t, k)
      BY <2>6 DEF Effect
    <2>8. View(k)' = t
      BY <2>1, <2>7 DEF Show, View, Own, IsView, ScreenInv, Shapes
    <2>9. Scr(k)!Next
      BY <2>1, <2>3, <2>5, <2>6, <2>8, ByteIsSeen
    <2>10. \A j \in Consoles \ {k} : UNCHANGED Scr(j)!vars
      BY <2>1, <2>7, OthersSeeNothing DEF ScreenInv
    <2>. QED BY <2>9, <2>10
  <1>7. CASE UNCHANGED vars
    BY <1>1, <1>7 DEF vars, screenVars
  <1>. QED BY <1>1, <1>3, <1>4, <1>5, <1>6, <1>7 DEF Next

\* Every console is a Screen of its own: a byte, or the set-up, is one step of its screen and
\* leaves the others as they are, although they share one video memory.
THEOREM PagesAreScreens ==
    Spec /\ []MovesOnPage /\ []OnlyTextIsShown => ShowsPages
  <1>1. ScreenInv /\ MovesOnPage /\ [Next]_vars => ScreenInv'
    BY ScreenInvStep
  <1>2. Init => \A k \in Consoles : Scr(k)!Init
    <2>. SUFFICES ASSUME Init, NEW k \in Consoles PROVE Scr(k)!Init
      OBVIOUS
    <2>1. OnPage(console[k])
      BY ScreenInvStart DEF ScreenInv
    <2>2. console[k].old_row = console[k].row /\ console[k].old_col = console[k].col
      BY DEF Init, Zeroed
    <2>. QED BY <2>1, <2>2, ScreenSees DEF OnPage, Scr!Init, Scr!Cursor
  <1>3. ScreenInv /\ MovesOnPage /\ OnlyTextIsShown /\ [Next]_vars
        => [\A k \in Consoles : Scr(k)!Next \/ UNCHANGED Scr(k)!vars]_vars
    BY ScreenStep
  <1>. QED BY <1>1, <1>2, <1>3, ScreenInvStart, PTL DEF Spec, ShowsPages

-----------------------------------------------------------------------------
(* Writers that write whole sequences, one after the other.                  *)

ParserStates == [mode : Modes, param : [Params -> Nat], index : Nat]

\* A parser may be given this byte: it is not a piece of a sequence to a parser that is not
\* in one, and a cursor move ends with a place of the page.
MayGet(s, char) ==
    /\ s.mode = "NORMAL" => char \notin Printable \ {"x"}
    /\ s.mode = "SQUARE" /\ char = "H" =>
          s.param[0] \in Rws /\ (s.index >= 1 => s.param[1] \in Cls)

\* A parser in state s may be given these bytes, and is then in no sequence.
Sound(s, bytes) ==
    \E run \in [0 .. Len(bytes) -> ParserStates] :
        /\ run[0] = s /\ run[Len(bytes)].mode = "NORMAL"
        /\ \A i \in 1 .. Len(bytes) : /\ MayGet(run[i - 1], bytes[i])
                                      /\ run[i] = ParserNext(run[i - 1], bytes[i])

\* Every message is text, or whole sequences that keep to the page.
WholeMessages ==
    \A w \in Writes, s \in ParserStates : s.mode = "NORMAL" => Sound(s, w[3])

\* Text is whole, however long it is.
LEMMA TextIsWhole ==
    ASSUME NEW m \in Seq((Byte \ (Printable \cup {"esc"})) \cup {"x"}),
           NEW s \in ParserStates, s.mode = "NORMAL"
    PROVE  Sound(s, m)
  <1>. DEFINE run == [i \in 0 .. Len(m) |-> s]
  <1>1. run \in [0 .. Len(m) -> ParserStates] /\ run[0] = s /\ run[Len(m)].mode = "NORMAL"
    OBVIOUS
  <1>2. ASSUME NEW i \in 1 .. Len(m)
        PROVE  MayGet(run[i - 1], m[i]) /\ run[i] = ParserNext(run[i - 1], m[i])
    <2>1. m[i] \in (Byte \ (Printable \cup {"esc"})) \cup {"x"} /\ run[i] = s /\ run[i - 1] = s
      OBVIOUS
    <2>2. m[i] # "esc" /\ m[i] \notin Printable \ {"x"}
      BY <2>1
    <2>3. [s EXCEPT !.mode = "NORMAL"] = s
      BY DEF ParserStates
    <2>. HIDE DEF run
    <2>. QED BY <2>1, <2>2, <2>3 DEF MayGet, ParserNext
  <1>. HIDE DEF run
  <1>. QED BY <1>1, <1>2 DEF Sound

\* And so is the shell's ESC_CLEAR_SCREEN: this is the way of a parser that gets it.
ClearScreen == <<"esc", "[", "d2", "J">>

LEMMA ClearScreenRun ==
    ASSUME NEW s \in ParserStates, s.mode = "NORMAL"
    PROVE  \E run \in [0 .. 4 -> ParserStates] :
              /\ run[0] = s /\ run[4].mode = "NORMAL"
              /\ \A i \in 1 .. 4 : /\ MayGet(run[i - 1], ClearScreen[i])
                                   /\ run[i] = ParserNext(run[i - 1], ClearScreen[i])
              /\ \A i \in 1 .. 3 : run[i].mode # "NORMAL"
  <1>. DEFINE m == ClearScreen
              zero == [i \in Params |-> 0]
              two == [zero EXCEPT ![0] = 2]
              run == [i \in 0 .. 4 |->
                        IF i = 0 THEN s
                        ELSE IF i = 1 THEN [s EXCEPT !.mode = "ESC"]
                        ELSE IF i = 2 THEN [mode |-> "SQUARE", param |-> zero, index |-> 0]
                        ELSE IF i = 3 THEN [mode |-> "SQUARE", param |-> two, index |-> 0]
                        ELSE [mode |-> "NORMAL", param |-> two, index |-> 1]]
  <1>0. 0 \in Params /\ zero \in [Params -> Nat] /\ two \in [Params -> Nat]
    BY ConsoleAssumption DEF Params
  <1>t. zero[0] * 10 + 2 = 2
    BY <1>0
  <1>1. run[0] = s /\ run[1] = [s EXCEPT !.mode = "ESC"]
        /\ run[2] = [mode |-> "SQUARE", param |-> zero, index |-> 0]
        /\ run[3] = [mode |-> "SQUARE", param |-> two, index |-> 0]
        /\ run[4] = [mode |-> "NORMAL", param |-> two, index |-> 1]
    OBVIOUS
  <1>. HIDE DEF zero, two
  <1>2. run \in [0 .. 4 -> ParserStates]
    BY <1>0 DEF ParserStates, Modes
  <1>. HIDE DEF run
  <1>3. run[1] = ParserNext(run[0], "esc") /\ run[2] = ParserNext(run[1], "[")
    BY <1>1 DEF ParserNext, ParserStates, zero
  <1>4. run[3] = ParserNext(run[2], "d2")
    <2>1. "d2" \in DOMAIN Digit /\ Digit["d2"] = 2
      BY DEF Digit
    <2>2. [zero EXCEPT ![0] = zero[0] * 10 + 2] = two
      BY <1>t DEF two
    <2>3. ParserNext(run[2], "d2") = [run[2] EXCEPT !.param[0] = @ * 10 + 2]
      BY <1>1, <2>1 DEF ParserNext
    <2>4. [run[2] EXCEPT !.param[0] = @ * 10 + 2]
          = [mode |-> "SQUARE", param |-> [zero EXCEPT ![0] = zero[0] * 10 + 2], index |-> 0]
      BY <1>1
    <2>. QED BY <1>1, <2>2, <2>3, <2>4
  <1>j. run[4] = ParserNext(run[3], "J")
    <2>1. "J" \notin DOMAIN Digit
      BY DEF Digit
    <2>2. ParserNext(run[3], "J") = [run[3] EXCEPT !.index = @ + 1, !.mode = "NORMAL"]
      BY <1>1, <2>1 DEF ParserNext
    <2>3. run[3].index + 1 = 1
      BY <1>1
    <2>4. [run[3] EXCEPT !.index = 1, !.mode = "NORMAL"]
          = [mode |-> "NORMAL", param |-> two, index |-> 1]
      <3>1. ASSUME NEW b, b = [mode |-> "SQUARE", param |-> two, index |-> 0]
            PROVE  [b EXCEPT !.index = 1] = [mode |-> "SQUARE", param |-> two, index |-> 1]
        BY <3>1
      <3>2. ASSUME NEW b, b = [mode |-> "SQUARE", param |-> two, index |-> 1]
            PROVE  [b EXCEPT !.mode = "NORMAL"] = [mode |-> "NORMAL", param |-> two, index |-> 1]
        BY <3>2
      <3>. QED BY <1>1, <3>1, <3>2
    <2>. QED BY <1>1, <2>2, <2>3, <2>4
  <1>5. MayGet(run[0], "esc") /\ MayGet(run[1], "[") /\ MayGet(run[2], "d2") /\ MayGet(run[3], "J")
    BY <1>1 DEF MayGet, Printable, Digit, ParserStates
  <1>6. m[1] = "esc" /\ m[2] = "[" /\ m[3] = "d2" /\ m[4] = "J"
    BY DEF ClearScreen
  <1>. HIDE DEF m
  <1>7. \A i \in 1 .. 4 : MayGet(run[i - 1], m[i]) /\ run[i] = ParserNext(run[i - 1], m[i])
    <2>1. \A i \in 1 .. 4 : \/ (i = 1 /\ i - 1 = 0) \/ (i = 2 /\ i - 1 = 1)
                            \/ (i = 3 /\ i - 1 = 2) \/ (i = 4 /\ i - 1 = 3)
      OBVIOUS
    <2>. QED BY <1>3, <1>4, <1>j, <1>5, <1>6, <2>1
  <1>8. \A i \in 1 .. 3 : run[i].mode # "NORMAL"
    <2>1. \A i \in 1 .. 3 : i = 1 \/ i = 2 \/ i = 3
      OBVIOUS
    <2>2. run[1].mode = "ESC" /\ run[2].mode = "SQUARE" /\ run[3].mode = "SQUARE"
      BY <1>1 DEF ParserStates
    <2>. QED BY <2>1, <2>2
  <1>. QED BY <1>1, <1>2, <1>7, <1>8 DEF m

LEMMA ClearScreenIsWhole ==
    ASSUME NEW s \in ParserStates, s.mode = "NORMAL"
    PROVE  Sound(s, ClearScreen)
  <1>1. Len(ClearScreen) = 4
    BY DEF ClearScreen
  <1>. QED BY <1>1, ClearScreenRun DEF Sound

LEMMA SoundHead ==
    ASSUME NEW bytes \in Seq(Byte), bytes # <<>>, NEW s, Sound(s, bytes)
    PROVE  MayGet(s, Head(bytes)) /\ Sound(ParserNext(s, Head(bytes)), Tail(bytes))
  <1>. DEFINE n == Len(bytes)
              char == Head(bytes)
  <1>0. n \in Nat /\ n >= 1 /\ char = bytes[1] /\ Len(Tail(bytes)) = n - 1
        /\ \A i \in 1 .. n - 1 : Tail(bytes)[i] = bytes[i + 1]
    OBVIOUS
  <1>1. PICK run \in [0 .. n -> ParserStates] :
           /\ run[0] = s /\ run[n].mode = "NORMAL"
           /\ \A i \in 1 .. n : MayGet(run[i - 1], bytes[i]) /\ run[i] = ParserNext(run[i - 1], bytes[i])
    BY DEF Sound
  <1>2. MayGet(s, char) /\ run[1] = ParserNext(s, char)
    <2>1. 1 \in 1 .. n /\ 1 - 1 = 0
      BY <1>0
    <2>. QED BY <1>0, <1>1, <2>1
  <1>. DEFINE later == [i \in 0 .. n - 1 |-> run[i + 1]]
  <1>. HIDE DEF n, char
  <1>3. later \in [0 .. n - 1 -> ParserStates] /\ later[0] = run[1] /\ later[n - 1] = run[n]
    BY <1>0, <1>1
  <1>4. ASSUME NEW i \in 1 .. n - 1
        PROVE  /\ MayGet(later[i - 1], Tail(bytes)[i])
               /\ later[i] = ParserNext(later[i - 1], Tail(bytes)[i])
    <2>1. i + 1 \in 1 .. n /\ i + 1 - 1 = i /\ i - 1 \in 0 .. n - 1 /\ i \in 0 .. n - 1 /\ i - 1 + 1 = i
      BY <1>0
    <2>2. later[i] = run[i + 1] /\ later[i - 1] = run[i] /\ Tail(bytes)[i] = bytes[i + 1]
      BY <1>0, <2>1
    <2>3. MayGet(run[i + 1 - 1], bytes[i + 1]) /\ run[i + 1] = ParserNext(run[i + 1 - 1], bytes[i + 1])
      BY <1>1, <2>1
    <2>4. MayGet(run[i], bytes[i + 1]) /\ run[i + 1] = ParserNext(run[i], bytes[i + 1])
      BY <2>1, <2>3
    <2>. HIDE DEF later
    <2>. QED BY <2>2, <2>4
  <1>. HIDE DEF later
  <1>5. Sound(run[1], Tail(bytes))
    <2>. DEFINE left == Tail(bytes)
    <2>1. Len(left) = n - 1
      BY <1>0
    <2>2. \A i \in 1 .. n - 1 : /\ MayGet(later[i - 1], left[i])
                                /\ later[i] = ParserNext(later[i - 1], left[i])
      BY <1>4
    <2>. HIDE DEF left
    <2>3. Sound(run[1], left)
      BY <1>1, <1>3, <2>1, <2>2 DEF Sound
    <2>. QED BY <2>3 DEF left
  <1>. QED BY <1>2, <1>5 DEF char

LEMMA SoundMore ==
    ASSUME NEW bytes \in Seq(Byte), NEW more \in Seq(Byte), NEW s, Sound(s, bytes),
           \A t \in ParserStates : t.mode = "NORMAL" => Sound(t, more)
    PROVE  Sound(s, bytes \o more)
  <1>. DEFINE n == Len(bytes)
              m == Len(more)
              all == bytes \o more
  <1>0. n \in Nat /\ m \in Nat /\ Len(all) = n + m
        /\ \A i \in 1 .. n : all[i] = bytes[i]
    OBVIOUS
  <1>a. \A i \in 1 .. m : all[n + i] = more[i]
    OBVIOUS
  <1>1. PICK run \in [0 .. n -> ParserStates] :
           /\ run[0] = s /\ run[n].mode = "NORMAL"
           /\ \A i \in 1 .. n : MayGet(run[i - 1], bytes[i]) /\ run[i] = ParserNext(run[i - 1], bytes[i])
    BY DEF Sound
  <1>2. Sound(run[n], more)
    BY <1>0, <1>1
  <1>3. PICK then \in [0 .. m -> ParserStates] :
           /\ then[0] = run[n] /\ then[m].mode = "NORMAL"
           /\ \A i \in 1 .. m : MayGet(then[i - 1], more[i]) /\ then[i] = ParserNext(then[i - 1], more[i])
    BY <1>2 DEF Sound
  <1>. DEFINE whole == [i \in 0 .. n + m |-> IF i <= n THEN run[i] ELSE then[i - n]]
  <1>. HIDE DEF n, m, all
  <1>4. /\ whole \in [0 .. n + m -> ParserStates]
        /\ \A i \in 0 .. n : whole[i] = run[i]
        /\ \A i \in 0 .. m : whole[n + i] = then[i]
    <2>1. ASSUME NEW i \in 0 .. n + m
          PROVE  (IF i <= n THEN run[i] ELSE then[i - n]) \in ParserStates
      <3>1. ~(i <= n) => i - n \in 0 .. m
        BY <1>0
      <3>2. i <= n => i \in 0 .. n
        BY <1>0
      <3>. QED BY <1>1, <1>3, <3>1, <3>2
    <2>2. ASSUME NEW i \in 0 .. m PROVE whole[n + i] = then[i]
      <3>1. n + i \in 0 .. n + m
        BY <1>0
      <3>. SUFFICES ASSUME NEW e \in 0 .. n + m, e = n + i PROVE whole[e] = then[i]
        BY <3>1
      <3>2. e - n = i /\ (e <= n => i = 0 /\ e = n)
        BY <1>0
      <3>3. whole[e] = IF e <= n THEN run[e] ELSE then[e - n]
        OBVIOUS
      <3>. HIDE DEF whole
      <3>. QED BY <1>3, <3>2, <3>3
    <2>3. ASSUME NEW i \in 0 .. n PROVE whole[i] = run[i]
      <3>1. i \in 0 .. n + m /\ i <= n
        BY <1>0
      <3>. QED BY <3>1
    <2>. QED BY <2>1, <2>2, <2>3
  <1>. HIDE DEF whole
  <1>5. ASSUME NEW i \in 1 .. n + m
        PROVE  MayGet(whole[i - 1], all[i]) /\ whole[i] = ParserNext(whole[i - 1], all[i])
    <2>1. CASE i <= n
      <3>1. i \in 1 .. n /\ i \in 0 .. n /\ i - 1 \in 0 .. n
        BY <1>0, <2>1
      <3>. QED BY <1>0, <1>1, <1>4, <3>1
    <2>2. CASE ~(i <= n)
      <3>. DEFINE j == i - n
      <3>1. j \in 1 .. m /\ j \in 0 .. m /\ j - 1 \in 0 .. m /\ n + j = i /\ n + (j - 1) = i - 1
        BY <1>0, <2>2
      <3>. HIDE DEF j
      <3>2. whole[i] = then[j] /\ whole[i - 1] = then[j - 1] /\ all[i] = more[j]
        <4>1. whole[n + j] = then[j] /\ whole[n + (j - 1)] = then[j - 1]
          BY <1>4, <3>1
        <4>2. all[n + j] = more[j]
          BY <1>a, <3>1
        <4>. QED BY <3>1, <4>1, <4>2
      <3>. QED BY <1>3, <3>1, <3>2
    <2>. QED BY <2>1, <2>2
  <1>6. whole[0] = s /\ whole[n + m].mode = "NORMAL"
    <2>1. 0 \in 0 .. n /\ m \in 0 .. m
      BY <1>0
    <2>. QED BY <1>1, <1>3, <1>4, <2>1
  <1>. QED BY <1>0, <1>4, <1>5, <1>6 DEF Sound, all

\* Two sequences one behind the other.
LEMMA Joined ==
    ASSUME NEW a \in Seq(Byte), NEW b \in Seq(Byte)
    PROVE  /\ a \o b \in Seq(Byte) /\ Len(a \o b) = Len(a) + Len(b)
           /\ a # <<>> => /\ a \o b # <<>> /\ Head(a \o b) = Head(a)
                          /\ Tail(a) \in Seq(Byte) /\ Tail(a \o b) = Tail(a) \o b
           /\ b # <<>> => /\ Append(a, b[1]) \in Seq(Byte) /\ Tail(b) \in Seq(Byte)
                          /\ Append(a, b[1]) \o Tail(b) = a \o b
                          /\ Tail(b) = <<>> => Append(a, b[1]) = a \o b
  <1>1. a \o b \in Seq(Byte) /\ Len(a \o b) = Len(a) + Len(b)
    OBVIOUS
  <1>2. ASSUME a # <<>>
        PROVE  /\ a \o b # <<>> /\ Head(a \o b) = Head(a)
               /\ Tail(a) \in Seq(Byte) /\ Tail(a \o b) = Tail(a) \o b
    <2>1. Len(a) >= 1 /\ Len(a) \in Nat
      BY <1>2
    <2>2. a \o b # <<>> /\ (a \o b)[1] = a[1] /\ Head(a) = a[1] /\ Head(a \o b) = (a \o b)[1]
      BY <1>1, <2>1
    <2>3. Tail(a) \in Seq(Byte) /\ Tail(a \o b) \in Seq(Byte)
      BY <1>1, <1>2, <2>2
    <2>4. Tail(a \o b) = Tail(a) \o b
      BY <1>1, <2>1, <2>2, <2>3
    <2>. QED BY <2>2, <2>3, <2>4
  <1>3. ASSUME b # <<>>
        PROVE  /\ Append(a, b[1]) \in Seq(Byte) /\ Tail(b) \in Seq(Byte)
               /\ Append(a, b[1]) \o Tail(b) = a \o b
               /\ Tail(b) = <<>> => Append(a, b[1]) = a \o b
    <2>1. Len(b) >= 1 /\ Len(b) \in Nat /\ b[1] \in Byte
      BY <1>3
    <2>2. Append(a, b[1]) \in Seq(Byte) /\ Tail(b) \in Seq(Byte)
      BY <1>3, <2>1
    <2>3. Append(a, b[1]) \o Tail(b) = a \o b
      BY <1>1, <2>1, <2>2
    <2>4. Tail(b) = <<>> => Append(a, b[1]) = a \o b
      <3>1. Append(a, b[1]) \o <<>> = Append(a, b[1])
        BY <2>2
      <3>. QED BY <2>3, <3>1
    <2>. QED BY <2>2, <2>3, <2>4
  <1>. QED BY <1>1, <1>2, <1>3

\* What a console has yet to be given: the bytes in its queue and those its writer has not put.
Writing(p, k) == on[p] = k /\ rest[p] # <<>>

StreamInv ==
    /\ rest \in [Procs -> Seq(Byte)] /\ ofifo \in [Consoles -> Seq(Byte)]
    /\ \A p \in Procs : /\ pc[p] = "user" => rest[p] = <<>>
                        /\ pc[p] = "put" => rest[p] # <<>>
    /\ \A p, q \in Procs, k \in Consoles : Writing(p, k) /\ Writing(q, k) => p = q
    /\ \A k \in Consoles :
          /\ \A p \in Procs : Writing(p, k) => Sound(Parser(console[k]), ofifo[k] \o rest[p])
          /\ (\A p \in Procs : ~Writing(p, k)) => Sound(Parser(console[k]), ofifo[k])

LEMMA StreamGoesWell ==
    ASSUME StreamInv
    PROVE  MovesOnPage /\ OnlyTextIsShown
  <1>1. ASSUME NEW k \in Consoles, ofifo[k] # <<>>
        PROVE  MayGet(Parser(console[k]), Head(ofifo[k]))
    <2>0. ofifo[k] \in Seq(Byte)
      BY DEF StreamInv
    <2>1. CASE \A p \in Procs : ~Writing(p, k)
      BY <1>1, <2>0, <2>1, SoundHead DEF StreamInv
    <2>2. CASE \E p \in Procs : Writing(p, k)
      <3>1. PICK p \in Procs : Writing(p, k)
        BY <2>2
      <3>2. rest[p] \in Seq(Byte) /\ Sound(Parser(console[k]), ofifo[k] \o rest[p])
        BY <3>1 DEF StreamInv
      <3>. DEFINE b == ofifo[k] \o rest[p]
      <3>3. b \in Seq(Byte) /\ b # <<>> /\ Head(b) = Head(ofifo[k])
        BY <1>1, <2>0, <3>2, Joined
      <3>. HIDE DEF b
      <3>4. MayGet(Parser(console[k]), Head(b))
        BY <3>2, <3>3, SoundHead DEF b
      <3>. QED BY <3>3, <3>4
    <2>. QED BY <2>1, <2>2
  <1>2. MovesOnPage
    BY <1>1 DEF MovesOnPage, MayGet, Parser, Rws, Cls
  <1>3. OnlyTextIsShown
    BY <1>1 DEF OnlyTextIsShown, MayGet, Parser
  <1>. QED BY <1>2, <1>3

LEMMA StreamInvStart == Init => StreamInv
  <1>. SUFFICES ASSUME Init PROVE StreamInv
    OBVIOUS
  <1>1. /\ rest = [p \in Procs |-> <<>>] /\ ofifo = [k \in Consoles |-> <<>>]
        /\ pc = [p \in Procs |-> "user"]
    BY DEF Init
  <1>2. ASSUME NEW k \in Consoles PROVE Sound(Parser(console[k]), <<>>)
    <2>1. /\ console[k].write_state = "NORMAL"
          /\ console[k].esc_param \in [Params -> Nat] /\ console[k].index \in Nat
      BY DEF Init, Zeroed
    <2>2. Parser(console[k]) \in ParserStates /\ Parser(console[k]).mode = "NORMAL"
      BY <2>1 DEF Parser, ParserStates, Modes
    <2>. DEFINE run == [i \in 0 .. 0 |-> Parser(console[k])]
    <2>3. run \in [0 .. 0 -> ParserStates] /\ run[0] = Parser(console[k]) /\ run[0].mode = "NORMAL"
      BY <2>2
    <2>4. Len(<<>>) = 0 /\ 1 .. 0 = {}
      OBVIOUS
    <2>. HIDE DEF run
    <2>. QED BY <2>3, <2>4 DEF Sound
  <1>. QED BY <1>1, <1>2 DEF StreamInv, Writing

\* What a step leaves as it was of the streams and the parsers, the invariant keeps.
LEMMA StreamsKept ==
    ASSUME StreamInv, UNCHANGED <<rest, ofifo, on>>,
           \A k \in Consoles : Parser(console'[k]) = Parser(console[k]),
           \A p \in Procs : /\ pc'[p] = "user" => rest[p] = <<>>
                            /\ pc'[p] = "put" => rest[p] # <<>>
    PROVE  StreamInv'
  <1>1. \A p \in Procs, k \in Consoles : Writing(p, k)' <=> Writing(p, k)
    BY DEF Writing
  <1>. QED BY <1>1 DEF StreamInv

LEMMA StreamInvStep ==
    ASSUME "mix" \notin Mishaps, WholeMessages, Shapes, StreamInv, [Next]_vars
    PROVE  StreamInv'
  <1>1. ASSUME NEW k \in Consoles, tty_open(k) \/ console_select(k)
        PROVE  StreamInv'
    <2>. DEFINE fresh == console_init(View(k), k)
    <2>1. IsView(fresh) /\ Parser(fresh.con) = Parser(console[k])
      <3>1. IsView(View(k)) /\ View(k).con = console[k]
        BY ViewShape DEF View
      <3>. QED BY <3>1, InitKeeps
    <2>. HIDE DEF fresh
    <2>2. UNCHANGED <<rest, ofifo, on, pc>>
      BY <1>1 DEF tty_open, console_select, taskVars
    <2>3. console' = [console EXCEPT ![k] = fresh.con] \/ console' = [console EXCEPT ![k] = console[k]]
      BY <1>1 DEF tty_open, console_select, Show, View, fresh
    <2>4. \A j \in Consoles : Parser(console'[j]) = Parser(console[j])
      BY <2>1, <2>3 DEF Shapes
    <2>. QED BY <2>2, <2>4, StreamsKept DEF StreamInv
  <1>2. ASSUME NEW w \in Writes, tty_write(w[1], w[2], w[3])
        PROVE  StreamInv'
    <2>1. /\ w[1] \in Procs /\ w[2] \in Consoles /\ w[3] \in Seq(Byte) /\ w[3] # <<>>
      BY ConsoleAssumption
    <2>2. PICK p \in Procs, k \in Consoles, m \in Seq(Byte) :
             p = w[1] /\ k = w[2] /\ m = w[3] /\ m # <<>>
      BY <2>1
    <2>3. /\ on' = [on EXCEPT ![p] = k] /\ rest' = [rest EXCEPT ![p] = m]
          /\ pc' = [pc EXCEPT ![p] = "put"]
          /\ UNCHANGED <<console, ofifo>>
          /\ pc[p] = "user" /\ \A q \in Procs : ~Writing(q, k)
      BY <1>2, <2>2 DEF tty_write, Goto, screenVars, At, Writing
    <2>4. /\ \A q \in Procs : Writing(q, k)' <=> q = p
          /\ \A q \in Procs, j \in Consoles \ {k} : Writing(q, j)' <=> Writing(q, j)
      <3>1. rest[p] = <<>>
        BY <2>3 DEF StreamInv
      <3>. QED BY <2>2, <2>3, <3>1 DEF Writing, Shapes, StreamInv
    <2>5. Sound(Parser(console[k]), ofifo[k] \o m)
      <3>1. Sound(Parser(console[k]), ofifo[k]) /\ ofifo[k] \in Seq(Byte)
        BY <2>3 DEF StreamInv
      <3>2. \A s \in ParserStates : s.mode = "NORMAL" => Sound(s, m)
        BY <2>2 DEF WholeMessages
      <3>. QED BY <3>1, <3>2, SoundMore
    <2>6. /\ \A q \in Procs : Writing(q, k)' => Sound(Parser(console'[k]), ofifo'[k] \o rest'[q])
          /\ ~ \A q \in Procs : ~Writing(q, k)'
      BY <2>3, <2>4, <2>5 DEF StreamInv
    <2>7. ASSUME NEW j \in Consoles \ {k}
          PROVE  /\ \A q \in Procs : Writing(q, j)' => Sound(Parser(console'[j]), ofifo'[j] \o rest'[q])
                 /\ (\A q \in Procs : ~Writing(q, j)') => Sound(Parser(console'[j]), ofifo'[j])
      <3>1. \A q \in Procs : Writing(q, j) => rest'[q] = rest[q]
        BY <2>3 DEF Writing, StreamInv
      <3>. QED BY <2>3, <2>4, <3>1 DEF StreamInv
    <2>8. rest' \in [Procs -> Seq(Byte)] /\ ofifo' \in [Consoles -> Seq(Byte)]
      BY <2>3 DEF StreamInv
    <2>9. \A q \in Procs : /\ pc'[q] = "user" => rest'[q] = <<>>
                           /\ pc'[q] = "put" => rest'[q] # <<>>
      BY <2>2, <2>3 DEF StreamInv, Shapes
    <2>10. ASSUME NEW q \in Procs, NEW r \in Procs, NEW j \in Consoles,
                  Writing(q, j)', Writing(r, j)'
           PROVE  q = r
      <3>1. \A e, f \in Procs, l \in Consoles : Writing(e, l) /\ Writing(f, l) => e = f
        BY DEF StreamInv
      <3>2. CASE j = k
        BY <2>10, <2>4, <3>2, Zenon
      <3>3. CASE j # k
        <4>1. Writing(q, j) /\ Writing(r, j)
          BY <2>10, <2>4, <3>3, Zenon
        <4>. QED BY <3>1, <4>1, Zenon
      <3>. QED BY <3>2, <3>3
    <2>. QED BY <2>6, <2>7, <2>8, <2>9, <2>10 DEF StreamInv
  <1>3. ASSUME NEW p \in Procs, put(p)
        PROVE  StreamInv'
    <2>1. PICK k \in Consoles : k = on[p]
      BY DEF Shapes
    <2>2. PICK a \in Seq(Byte), b \in Seq(Byte) : a = ofifo[k] /\ b = rest[p]
      BY DEF StreamInv
    <2>3. /\ ofifo' = [ofifo EXCEPT ![k] = Append(a, b[1])] /\ rest' = [rest EXCEPT ![p] = Tail(b)]
          /\ pc' = [pc EXCEPT ![p] = "drain"]
          /\ UNCHANGED <<console, on>> /\ b # <<>> /\ Writing(p, k)
      BY <1>3, <2>1, <2>2 DEF put, Goto, screenVars, At, Writing, StreamInv
    <2>4. /\ Append(a, b[1]) \in Seq(Byte) /\ Tail(b) \in Seq(Byte)
          /\ Append(a, b[1]) \o Tail(b) = a \o b
          /\ Tail(b) = <<>> => Append(a, b[1]) = a \o b
      BY <2>3, Joined
    <2>5. /\ \A q \in Procs : Writing(q, k)' => q = p /\ rest'[q] = Tail(b)
          /\ Writing(p, k)' <=> Tail(b) # <<>>
          /\ \A q \in Procs, j \in Consoles \ {k} : Writing(q, j)' <=> Writing(q, j)
      BY <2>1, <2>2, <2>3 DEF Writing, StreamInv
    <2>6. Sound(Parser(console[k]), a \o b)
      BY <2>2, <2>3 DEF StreamInv
    <2>7. /\ \A q \in Procs : Writing(q, k)' => Sound(Parser(console'[k]), ofifo'[k] \o rest'[q])
          /\ (\A q \in Procs : ~Writing(q, k)') => Sound(Parser(console'[k]), ofifo'[k])
      <3>1. ofifo'[k] = Append(a, b[1]) /\ console'[k] = console[k]
        BY <2>3 DEF StreamInv
      <3>. QED BY <2>4, <2>5, <2>6, <3>1
    <2>8. ASSUME NEW j \in Consoles \ {k}
          PROVE  /\ \A q \in Procs : Writing(q, j)' => Sound(Parser(console'[j]), ofifo'[j] \o rest'[q])
                 /\ (\A q \in Procs : ~Writing(q, j)') => Sound(Parser(console'[j]), ofifo'[j])
      <3>1. \A q \in Procs : Writing(q, j) => rest'[q] = rest[q]
        BY <2>1, <2>3 DEF Writing, StreamInv
      <3>2. ofifo'[j] = ofifo[j]
        BY <2>3 DEF StreamInv
      <3>. QED BY <2>3, <2>5, <3>1, <3>2 DEF StreamInv
    <2>9. rest' \in [Procs -> Seq(Byte)] /\ ofifo' \in [Consoles -> Seq(Byte)]
      BY <2>3, <2>4 DEF StreamInv
    <2>10. \A q \in Procs : /\ pc'[q] = "user" => rest'[q] = <<>>
                            /\ pc'[q] = "put" => rest'[q] # <<>>
      BY <2>3 DEF StreamInv, Shapes
    <2>11. ASSUME NEW q \in Procs, NEW r \in Procs, NEW j \in Consoles,
                  Writing(q, j)', Writing(r, j)'
           PROVE  q = r
      <3>1. \A e, f \in Procs, l \in Consoles : Writing(e, l) /\ Writing(f, l) => e = f
        BY DEF StreamInv
      <3>2. CASE j = k
        BY <2>11, <2>5, <3>2, Zenon
      <3>3. CASE j # k
        <4>1. Writing(q, j) /\ Writing(r, j)
          BY <2>11, <2>5, <3>3, Zenon
        <4>. QED BY <3>1, <4>1, Zenon
      <3>. QED BY <3>2, <3>3
    <2>. QED BY <2>7, <2>8, <2>9, <2>10, <2>11 DEF StreamInv
  <1>4. ASSUME NEW p \in Procs, drain(p)
        PROVE  StreamInv'
    <2>1. PICK k \in Consoles : k = on[p]
      BY DEF Shapes
    <2>2. PICK a \in Seq(Byte) : a = ofifo[k]
      BY DEF StreamInv
    <2>. DEFINE t == Written(View(k), Head(a))
    <2>3. /\ a # <<>> /\ ofifo' = [ofifo EXCEPT ![k] = Tail(a)]
          /\ console' = [console EXCEPT ![k] = t.con]
          /\ UNCHANGED <<rest, on, pc>>
      BY <1>4, <2>1, <2>2 DEF drain, Show, taskVars
    <2>4. Parser(t.con) = ParserNext(Parser(console[k]), Head(a))
      <3>1. IsView(View(k)) /\ View(k).con = console[k]
        BY ViewShape DEF View
      <3>. QED BY <3>1, WrittenKeeps DEF Parses
    <2>. HIDE DEF t
    <2>5. /\ Parser(console'[k]) = ParserNext(Parser(console[k]), Head(a)) /\ ofifo'[k] = Tail(a)
          /\ \A j \in Consoles \ {k} : console'[j] = console[j] /\ ofifo'[j] = ofifo[j]
          /\ \A q \in Procs, j \in Consoles : Writing(q, j)' <=> Writing(q, j)
      BY <2>3, <2>4 DEF Shapes, StreamInv, Writing
    <2>6. ASSUME NEW q \in Procs, Writing(q, k)
          PROVE  Sound(Parser(console'[k]), ofifo'[k] \o rest'[q])
      <3>1. PICK b \in Seq(Byte) : b = rest[q]
        BY DEF StreamInv
      <3>2. Sound(Parser(console[k]), a \o b)
        BY <2>2, <2>6, <3>1 DEF StreamInv
      <3>3. /\ a \o b \in Seq(Byte) /\ a \o b # <<>>
            /\ Head(a \o b) = Head(a) /\ Tail(a \o b) = Tail(a) \o b
        BY <2>3, Joined
      <3>4. Sound(ParserNext(Parser(console[k]), Head(a)), Tail(a) \o b)
        BY <3>2, <3>3, SoundHead
      <3>. QED BY <2>3, <2>5, <3>1, <3>4
    <2>7. ASSUME \A q \in Procs : ~Writing(q, k)
          PROVE  Sound(Parser(console'[k]), ofifo'[k])
      <3>1. Sound(Parser(console[k]), a)
        BY <2>2, <2>7 DEF StreamInv
      <3>2. Sound(ParserNext(Parser(console[k]), Head(a)), Tail(a))
        BY <2>3, <3>1, SoundHead
      <3>. QED BY <2>5, <3>2
    <2>8. rest' \in [Procs -> Seq(Byte)] /\ ofifo' \in [Consoles -> Seq(Byte)]
      <3>1. Tail(a) \in Seq(Byte)
        BY <2>3
      <3>. QED BY <2>3, <3>1 DEF StreamInv
    <2>9. /\ \A q \in Procs : /\ pc'[q] = "user" => rest'[q] = <<>>
                              /\ pc'[q] = "put" => rest'[q] # <<>>
          /\ \A q, r \in Procs, j \in Consoles : Writing(q, j)' /\ Writing(r, j)' => q = r
      BY <2>3, <2>5 DEF StreamInv
    <2>10. \A j \in Consoles \ {k} :
             /\ \A q \in Procs : Writing(q, j)' => Sound(Parser(console'[j]), ofifo'[j] \o rest'[q])
             /\ (\A q \in Procs : ~Writing(q, j)') => Sound(Parser(console'[j]), ofifo'[j])
      BY <2>3, <2>5 DEF StreamInv
    <2>. QED BY <2>5, <2>6, <2>7, <2>8, <2>9, <2>10 DEF StreamInv
  <1>5. ASSUME NEW p \in Procs, unlock(p) \/ compute(p) \/ output(p)
        PROVE  StreamInv'
    <2>1. UNCHANGED <<rest, ofifo, on, console>>
      BY <1>5 DEF unlock, compute, output, screenVars
    <2>2. \/ pc' = [pc EXCEPT ![p] = "compute"]
          \/ pc' = [pc EXCEPT ![p] = "output"]
          \/ pc' = [pc EXCEPT ![p] = IF rest[p] = <<>> THEN "user" ELSE "put"]
      BY <1>5 DEF unlock, compute, output, Goto, NextByte
    <2>3. \A q \in Procs : /\ pc'[q] = "user" => rest[q] = <<>>
                           /\ pc'[q] = "put" => rest[q] # <<>>
      BY <2>2 DEF StreamInv, Shapes
    <2>. QED BY <2>1, <2>3, StreamsKept
  <1>6. CASE UNCHANGED vars
    <2>1. UNCHANGED <<rest, ofifo, on, console, pc>>
      BY <1>6 DEF vars, screenVars, taskVars
    <2>. QED BY <2>1, StreamsKept DEF StreamInv
  <1>. QED BY <1>1, <1>2, <1>3, <1>4, <1>5, <1>6 DEF Next

\* Writers that write whole sequences one after the other never move a cursor off the
\* page, nor do they show a piece of a sequence.
THEOREM SequencesKeepToThePage ==
    ASSUME "mix" \notin Mishaps, WholeMessages
    PROVE  Spec => []MovesOnPage /\ []OnlyTextIsShown
  <1>. DEFINE Inv == Shapes /\ StreamInv
  <1>1. Init => Inv
    BY CursorInvStart, StreamInvStart DEF CursorInv
  <1>2. Inv /\ [Next]_vars => Inv'
    BY ShapesStep, StreamInvStep
  <1>3. Inv => MovesOnPage /\ OnlyTextIsShown
    BY StreamGoesWell
  <1>. QED BY <1>1, <1>2, <1>3, PTL DEF Spec

\* So with such writers every console's cursor stays on its page, the line that is typed is
\* there up to the cursor, and the console is a Screen, whatever the messages are.
THEOREM ConsolesAreScreens ==
    ASSUME "mix" \notin Mishaps, WholeMessages
    PROVE  Spec => []CursorOnScreen /\ []LineOnScreen /\ ShowsPages
  <1>1. Spec => []MovesOnPage /\ []OnlyTextIsShown
    BY SequencesKeepToThePage
  <1>. QED BY <1>1, CursorStaysOnScreen, LineStaysOnScreen, PagesAreScreens, PTL

-----------------------------------------------------------------------------
(* Where one sequence ends and the next message begins.                      *)

TextBytes == (Byte \ (Printable \cup {"esc"})) \cup {"x"}

\* A parser in state s gets from these bytes to the end of a sequence, and not before the last.
Ends(s, bytes) ==
    \E run \in [0 .. Len(bytes) -> ParserStates] :
        /\ run[0] = s /\ run[Len(bytes)].mode = "NORMAL"
        /\ \A i \in 1 .. Len(bytes) : run[i] = ParserNext(run[i - 1], bytes[i])
        /\ \A i \in 1 .. Len(bytes) - 1 : run[i].mode # "NORMAL"

\* One escape sequence, as a whole and nothing more.
IsSequence(m) ==
    /\ m[1] = "esc" /\ \A i \in 2 .. Len(m) : m[i] # "esc"
    /\ m[Len(m)] \in Printable \ {"x"}
    /\ \A s \in ParserStates : s.mode = "NORMAL" => Ends(s, m)

\* Every message is text or one sequence.
OneByOne ==
    \A w \in Writes : IF IsCommand(w[3]) THEN IsSequence(w[3]) ELSE w[3] \in Seq(TextBytes)

\* The shell's ESC_CLEAR_SCREEN is one.
LEMMA ClearScreenIsSequence == IsSequence(ClearScreen)
  <1>1. /\ Len(ClearScreen) = 4
        /\ ClearScreen[1] = "esc" /\ ClearScreen[2] = "[" /\ ClearScreen[3] = "d2" /\ ClearScreen[4] = "J"
    BY DEF ClearScreen
  <1>2. \A i \in 2 .. 4 : i = 2 \/ i = 3 \/ i = 4
    OBVIOUS
  <1>3. 4 - 1 = 3 /\ "J" \in Printable \ {"x"}
    BY DEF Printable
  <1>4. \A s \in ParserStates : s.mode = "NORMAL" => Ends(s, ClearScreen)
    BY <1>1, <1>3, ClearScreenRun DEF Ends
  <1>. QED BY <1>1, <1>2, <1>3, <1>4 DEF IsSequence

LEMMA StrictSuffix ==
    ASSUME NEW b \in Seq(Byte), NEW m \in Seq(Byte)
    PROVE  IsStrictSuffix(b, m) <=>
              Len(b) < Len(m) /\ \A i \in 1 .. Len(b) : b[Len(b) - i + 1] = m[Len(m) - i + 1]
  <1>1. Len(b) \in Nat /\ Len(m) \in Nat
    OBVIOUS
  <1>2. /\ Reverse(b) = [i \in 1 .. Len(b) |-> b[Len(b) - i + 1]]
        /\ Reverse(m) = [i \in 1 .. Len(m) |-> m[Len(m) - i + 1]]
    BY DEF Reverse
  <1>5. IsPrefix(Reverse(b), Reverse(m)) <=>
            Len(b) <= Len(m) /\ \A i \in 1 .. Len(b) : b[Len(b) - i + 1] = m[Len(m) - i + 1]
    <2>. DEFINE u == Reverse(b)
                v == Reverse(m)
                x == Len(b)
                y == Len(m)
    <2>1. /\ u \in Seq(Byte) /\ v \in Seq(Byte) /\ Len(u) = x /\ Len(v) = y /\ x \in Nat /\ y \in Nat
          /\ \A i \in 1 .. x : u[i] = b[x - i + 1]
          /\ \A i \in 1 .. y : v[i] = m[y - i + 1]
      <3>1. \A i \in 1 .. x : x - i + 1 \in 1 .. x
        BY <1>1
      <3>2. \A i \in 1 .. y : y - i + 1 \in 1 .. y
        BY <1>1
      <3>3. u = [i \in 1 .. x |-> b[x - i + 1]] /\ v = [i \in 1 .. y |-> m[y - i + 1]]
        BY <1>2
      <3>. QED BY <1>1, <3>1, <3>2, <3>3
    <2>. HIDE DEF u, v, x, y
    <2>2. ASSUME x <= y
          PROVE  SubSeq(u, 1, x) = SubSeq(v, 1, x) <=> \A i \in 1 .. x : u[i] = v[i]
      <3>1. \A i \in 1 .. x : SubSeq(u, 1, x)[i] = u[i] /\ SubSeq(v, 1, x)[i] = v[i]
        BY <2>1, <2>2
      <3>2. /\ SubSeq(u, 1, x) \in Seq(Byte) /\ Len(SubSeq(u, 1, x)) = x
            /\ SubSeq(v, 1, x) \in Seq(Byte) /\ Len(SubSeq(v, 1, x)) = x
        BY <2>1, <2>2
      <3>. QED BY <3>1, <3>2
    <2>3. IsPrefix(u, v) <=> x <= y /\ SubSeq(u, 1, x) = SubSeq(v, 1, x)
      BY <2>1 DEF IsPrefix
    <2>4. ASSUME x <= y
          PROVE  (\A i \in 1 .. x : u[i] = v[i]) <=> \A i \in 1 .. x : b[x - i + 1] = m[y - i + 1]
      <3>1. \A i \in 1 .. x : i \in 1 .. y
        BY <2>1, <2>4
      <3>2. \A i \in 1 .. x : u[i] = b[x - i + 1] /\ v[i] = m[y - i + 1]
        BY <2>1, <3>1
      <3>. QED BY <3>2
    <2>5. IsPrefix(u, v) <=> x <= y /\ \A i \in 1 .. x : b[x - i + 1] = m[y - i + 1]
      BY <2>2, <2>3, <2>4
    <2>. QED BY <2>5 DEF u, v, x, y
  <1>6. ASSUME Len(b) = Len(m), \A i \in 1 .. Len(b) : b[Len(b) - i + 1] = m[Len(m) - i + 1]
        PROVE  b = m
    <2>1. ASSUME NEW i \in 1 .. Len(b) PROVE b[i] = m[i]
      <3>. DEFINE j == Len(b) - i + 1
      <3>1. j \in 1 .. Len(b) /\ Len(b) - j + 1 = i /\ Len(m) - j + 1 = i
        BY <1>1, <1>6
      <3>. HIDE DEF j
      <3>. QED BY <1>6, <3>1
    <2>. QED BY <1>6, <2>1
  <1>7. IsStrictSuffix(b, m) <=> IsPrefix(Reverse(b), Reverse(m)) /\ b # m
    BY DEF IsStrictSuffix, IsSuffix
  <1>. QED BY <1>1, <1>5, <1>6, <1>7

\* What is left of a sequence does not begin another one, and ends as it does.
LEMMA SuffixOfSequence ==
    ASSUME NEW b \in Seq(Byte), NEW m \in Seq(Byte), b # <<>>, IsSequence(m), IsStrictSuffix(b, m)
    PROVE  b[1] # "esc" /\ b[Len(b)] \in Printable \ {"x"}
  <1>1. /\ Len(b) \in Nat /\ Len(m) \in Nat /\ Len(b) > 0 /\ Len(b) < Len(m)
        /\ \A i \in 1 .. Len(b) : b[Len(b) - i + 1] = m[Len(m) - i + 1]
    BY StrictSuffix
  <1>. DEFINE x == Len(b)
              y == Len(m)
  <1>2. /\ x \in 1 .. x /\ x - x + 1 = 1 /\ y - x + 1 \in 2 .. y
        /\ 1 \in 1 .. x /\ x - 1 + 1 = x /\ y - 1 + 1 = y
    BY <1>1
  <1>3. b[x - x + 1] = m[y - x + 1] /\ b[x - 1 + 1] = m[y - 1 + 1]
    BY <1>1, <1>2
  <1>. HIDE DEF x, y
  <1>4. b[1] = m[y - x + 1] /\ b[x] = m[y]
    BY <1>2, <1>3
  <1>. QED BY <1>2, <1>4 DEF IsSequence, x, y

LEMMA TailOfSuffix ==
    ASSUME NEW b \in Seq(Byte), NEW m \in Seq(Byte), b # <<>>, b = m \/ IsStrictSuffix(b, m)
    PROVE  IsStrictSuffix(Tail(b), m)
  <1>1. Len(b) \in Nat /\ Len(m) \in Nat /\ Len(b) > 0 /\ Tail(b) \in Seq(Byte) /\ Len(Tail(b)) = Len(b) - 1
        /\ \A i \in 1 .. Len(b) - 1 : Tail(b)[i] = b[i + 1]
    OBVIOUS
  <1>2. /\ Len(b) <= Len(m)
        /\ \A i \in 1 .. Len(b) : b[Len(b) - i + 1] = m[Len(m) - i + 1]
    BY <1>1, StrictSuffix
  <1>. DEFINE c == Tail(b)
              x == Len(b)
              y == Len(m)
  <1>3. c \in Seq(Byte) /\ Len(c) = x - 1 /\ x \in Nat /\ y \in Nat /\ x > 0 /\ x <= y
    BY <1>1, <1>2
  <1>4. \A i \in 1 .. x - 1 : c[i] = b[i + 1]
    BY <1>1
  <1>5. \A i \in 1 .. x : b[x - i + 1] = m[y - i + 1]
    BY <1>2
  <1>. HIDE DEF c, x, y
  <1>6. ASSUME NEW i \in 1 .. x - 1 PROVE c[(x - 1) - i + 1] = m[y - i + 1]
    <2>1. x - i \in 1 .. x - 1 /\ (x - 1) - i + 1 = x - i /\ (x - i) + 1 = x - i + 1 /\ i \in 1 .. x
      BY <1>3
    <2>2. c[x - i] = b[(x - i) + 1]
      BY <1>4, <2>1
    <2>. QED BY <1>5, <2>1, <2>2
  <1>7. IsStrictSuffix(c, m)
    <2>1. Len(c) < y /\ \A i \in 1 .. Len(c) : c[Len(c) - i + 1] = m[y - i + 1]
      BY <1>3, <1>6
    <2>. QED BY <1>3, <2>1, StrictSuffix DEF y
  <1>. QED BY <1>7 DEF c

LEMMA EndsBy ==
    ASSUME NEW bytes, NEW run \in [0 .. Len(bytes) -> ParserStates],
           run[Len(bytes)].mode = "NORMAL",
           \A i \in 1 .. Len(bytes) : run[i] = ParserNext(run[i - 1], bytes[i]),
           \A i \in 1 .. Len(bytes) - 1 : run[i].mode # "NORMAL"
    PROVE  Ends(run[0], bytes)
  BY DEF Ends

\* The first byte of what is left of a sequence.
LEMMA EndsHead ==
    ASSUME NEW b \in Seq(Byte), b # <<>>, NEW s, Ends(s, b)
    PROVE  /\ ParserNext(s, b[1]) \in ParserStates
           /\ Tail(b) = <<>> => ParserNext(s, b[1]).mode = "NORMAL"
           /\ Tail(b) # <<>> => /\ ParserNext(s, b[1]).mode # "NORMAL"
                                /\ Ends(ParserNext(s, b[1]), Tail(b))
  <1>. DEFINE n == Len(b)
              c == Tail(b)
  <1>0. n \in Nat /\ n >= 1 /\ Len(c) = n - 1 /\ c \in Seq(Byte)
        /\ \A i \in 1 .. n - 1 : c[i] = b[i + 1]
    OBVIOUS
  <1>1. PICK run \in [0 .. n -> ParserStates] :
           /\ run[0] = s /\ run[n].mode = "NORMAL"
           /\ \A i \in 1 .. n : run[i] = ParserNext(run[i - 1], b[i])
           /\ \A i \in 1 .. n - 1 : run[i].mode # "NORMAL"
    BY DEF Ends
  <1>2. run[1] = ParserNext(s, b[1]) /\ run[1] \in ParserStates
    <2>1. 1 \in 1 .. n /\ 1 - 1 = 0 /\ 1 \in 0 .. n
      BY <1>0
    <2>. QED BY <1>1, <2>1
  <1>. DEFINE later == [i \in 0 .. n - 1 |-> run[i + 1]]
  <1>. HIDE DEF n, c
  <1>3. c = <<>> => n = 1
    <2>1. c = <<>> => Len(c) = 0
      BY <1>0
    <2>. QED BY <1>0, <2>1
  <1>4. c # <<>> => n > 1
    <2>1. ASSUME NEW d \in Seq(Byte), d # <<>> PROVE Len(d) \in Nat /\ Len(d) > 0
      BY <2>1
    <2>2. c # <<>> => Len(c) \in Nat /\ Len(c) > 0
      BY <1>0, <2>1
    <2>. QED BY <1>0, <2>2
  <1>5. later \in [0 .. n - 1 -> ParserStates] /\ later[0] = run[1] /\ later[n - 1] = run[n]
    BY <1>0, <1>1
  <1>6. ASSUME NEW i \in 1 .. n - 1 PROVE later[i] = ParserNext(later[i - 1], c[i])
    <2>1. i + 1 \in 1 .. n /\ i + 1 - 1 = i /\ i - 1 \in 0 .. n - 1 /\ i \in 0 .. n - 1 /\ i - 1 + 1 = i
      BY <1>0
    <2>2. later[i] = run[i + 1] /\ later[i - 1] = run[i] /\ c[i] = b[i + 1]
      BY <1>0, <2>1
    <2>3. run[i + 1] = ParserNext(run[i + 1 - 1], b[i + 1])
      BY <1>1, <2>1
    <2>. HIDE DEF later
    <2>. QED BY <2>1, <2>2, <2>3
  <1>7. ASSUME NEW i \in 1 .. (n - 1) - 1 PROVE later[i].mode # "NORMAL"
    <2>1. i \in 0 .. n - 1 /\ i + 1 \in 1 .. n - 1
      BY <1>0
    <2>. QED BY <1>1, <2>1
  <1>. HIDE DEF later
  <1>8. Ends(run[1], c)
    <2>1. /\ later \in [0 .. Len(c) -> ParserStates] /\ later[Len(c)].mode = "NORMAL"
          /\ \A i \in 1 .. Len(c) : later[i] = ParserNext(later[i - 1], c[i])
          /\ \A i \in 1 .. Len(c) - 1 : later[i].mode # "NORMAL"
      BY <1>0, <1>1, <1>5, <1>6, <1>7
    <2>2. Ends(later[0], c)
      BY <2>1, EndsBy
    <2>. QED BY <1>5, <2>2
  <1>9. n > 1 => run[1].mode # "NORMAL"
    <2>1. n > 1 => 1 \in 1 .. n - 1
      BY <1>0
    <2>. QED BY <1>1, <2>1
  <1>10. n = 1 => run[1].mode = "NORMAL"
    BY <1>1
  <1>. QED BY <1>2, <1>3, <1>4, <1>8, <1>9, <1>10 DEF c

\* A parser in state s is in state t after these bytes.
Reaches(s, bytes, t) ==
    \E run \in [0 .. Len(bytes) -> ParserStates] :
        /\ run[0] = s /\ run[Len(bytes)] = t
        /\ \A i \in 1 .. Len(bytes) : run[i] = ParserNext(run[i - 1], bytes[i])

LEMMA ReachesStart ==
    ASSUME NEW s \in ParserStates
    PROVE  Reaches(s, <<>>, s)
  <1>. DEFINE run == [i \in 0 .. 0 |-> s]
  <1>1. run \in [0 .. 0 -> ParserStates] /\ run[0] = s
    OBVIOUS
  <1>2. Len(<<>>) = 0 /\ 1 .. 0 = {}
    OBVIOUS
  <1>. HIDE DEF run
  <1>. QED BY <1>1, <1>2 DEF Reaches

LEMMA ReachesNothing ==
    ASSUME NEW s, NEW t, Reaches(s, <<>>, t)
    PROVE  s = t
  <1>1. Len(<<>>) = 0
    OBVIOUS
  <1>. QED BY <1>1 DEF Reaches

LEMMA ReachesTail ==
    ASSUME NEW a \in Seq(Byte), a # <<>>, NEW s, NEW t, Reaches(s, a, t)
    PROVE  Reaches(ParserNext(s, Head(a)), Tail(a), t)
  <1>. DEFINE n == Len(a)
              c == Tail(a)
  <1>0. n \in Nat /\ n >= 1 /\ Len(c) = n - 1 /\ Head(a) = a[1]
        /\ \A i \in 1 .. n - 1 : c[i] = a[i + 1]
    OBVIOUS
  <1>1. PICK run \in [0 .. n -> ParserStates] :
           /\ run[0] = s /\ run[n] = t
           /\ \A i \in 1 .. n : run[i] = ParserNext(run[i - 1], a[i])
    BY DEF Reaches
  <1>2. run[1] = ParserNext(s, Head(a))
    <2>1. 1 \in 1 .. n /\ 1 - 1 = 0
      BY <1>0
    <2>. QED BY <1>0, <1>1, <2>1
  <1>. DEFINE later == [i \in 0 .. n - 1 |-> run[i + 1]]
  <1>. HIDE DEF n, c
  <1>3. later \in [0 .. n - 1 -> ParserStates] /\ later[0] = run[1] /\ later[n - 1] = run[n]
    BY <1>0, <1>1
  <1>4. ASSUME NEW i \in 1 .. n - 1 PROVE later[i] = ParserNext(later[i - 1], c[i])
    <2>1. i + 1 \in 1 .. n /\ i + 1 - 1 = i /\ i - 1 \in 0 .. n - 1 /\ i \in 0 .. n - 1 /\ i - 1 + 1 = i
      BY <1>0
    <2>2. later[i] = run[i + 1] /\ later[i - 1] = run[i] /\ c[i] = a[i + 1]
      BY <1>0, <2>1
    <2>3. run[i + 1] = ParserNext(run[i + 1 - 1], a[i + 1])
      BY <1>1, <2>1
    <2>. HIDE DEF later
    <2>. QED BY <2>1, <2>2, <2>3
  <1>. HIDE DEF later
  <1>5. Reaches(run[1], c, t)
    BY <1>0, <1>1, <1>3, <1>4 DEF Reaches
  <1>. QED BY <1>2, <1>5 DEF c

LEMMA ReachesMore ==
    ASSUME NEW a \in Seq(Byte), NEW char \in Byte, NEW s, NEW t, Reaches(s, a, t),
           ParserNext(t, char) \in ParserStates
    PROVE  Reaches(s, Append(a, char), ParserNext(t, char))
  <1>. DEFINE n == Len(a)
              c == Append(a, char)
              u == ParserNext(t, char)
  <1>0. n \in Nat /\ Len(c) = n + 1 /\ c[n + 1] = char
        /\ \A i \in 1 .. n : c[i] = a[i]
    OBVIOUS
  <1>1. PICK run \in [0 .. n -> ParserStates] :
           /\ run[0] = s /\ run[n] = t
           /\ \A i \in 1 .. n : run[i] = ParserNext(run[i - 1], a[i])
    BY DEF Reaches
  <1>. DEFINE longer == [i \in 0 .. n + 1 |-> IF i = n + 1 THEN u ELSE run[i]]
  <1>2. u \in ParserStates
    OBVIOUS
  <1>. HIDE DEF n, c, u
  <1>3. /\ longer \in [0 .. n + 1 -> ParserStates] /\ longer[0] = s
        /\ longer[n + 1] = u /\ longer[n] = t
        /\ \A i \in 0 .. n : longer[i] = run[i]
    BY <1>0, <1>1, <1>2
  <1>. HIDE DEF longer
  <1>4. ASSUME NEW i \in 1 .. n + 1 PROVE longer[i] = ParserNext(longer[i - 1], c[i])
    <2>1. CASE i = n + 1
      <3>1. i - 1 = n
        BY <1>0, <2>1
      <3>. QED BY <1>0, <1>3, <2>1, <3>1 DEF u
    <2>2. CASE i # n + 1
      <3>1. i \in 1 .. n /\ i \in 0 .. n /\ i - 1 \in 0 .. n
        BY <1>0, <2>2
      <3>2. longer[i] = run[i] /\ longer[i - 1] = run[i - 1] /\ c[i] = a[i]
        BY <1>0, <1>3, <3>1
      <3>3. run[i] = ParserNext(run[i - 1], a[i])
        BY <1>1, <3>1
      <3>. QED BY <3>2, <3>3
    <2>. QED BY <2>1, <2>2
  <1>5. Reaches(s, c, u)
    BY <1>0, <1>3, <1>4 DEF Reaches
  <1>. QED BY <1>5 DEF c, u

\* What a writer p has yet to put on console k, to a parser that will then be in state t:
\* text, a whole sequence, or what is left of one the parser is in.
Comes(t, b, p, k) ==
    \/ t.mode = "NORMAL" /\ b \in Seq(TextBytes)
    \/ /\ t.mode = "NORMAL"
       /\ \E w \in Writes : w[1] = p /\ w[2] = k /\ IsCommand(w[3]) /\ b = w[3]
    \/ /\ t.mode # "NORMAL" /\ Ends(t, b)
       /\ \E w \in Writes : w[1] = p /\ w[2] = k /\ IsCommand(w[3]) /\ IsStrictSuffix(b, w[3])

\* Another byte of it is put.
LEMMA ComesNext ==
    ASSUME OneByOne, NEW t \in ParserStates, NEW b \in Seq(Byte), b # <<>>,
           NEW p, NEW k, Comes(t, b, p, k)
    PROVE  /\ ParserNext(t, b[1]) \in ParserStates
           /\ Tail(b) = <<>> => ParserNext(t, b[1]).mode = "NORMAL"
           /\ Tail(b) # <<>> => Comes(ParserNext(t, b[1]), Tail(b), p, k)
  <1>1. CASE t.mode = "NORMAL" /\ b \in Seq(TextBytes)
    <2>1. b[1] \in TextBytes /\ Tail(b) \in Seq(TextBytes)
      BY <1>1
    <2>2. ParserNext(t, b[1]) = t
      <3>1. b[1] # "esc"
        BY <2>1 DEF TextBytes
      <3>2. [t EXCEPT !.mode = "NORMAL"] = t
        BY <1>1 DEF ParserStates
      <3>. QED BY <1>1, <3>1, <3>2 DEF ParserNext
    <2>. QED BY <1>1, <2>1, <2>2 DEF Comes
  <1>2. ASSUME Ends(t, b), NEW w \in Writes, w[1] = p, w[2] = k, IsCommand(w[3]),
               b = w[3] \/ IsStrictSuffix(b, w[3])
        PROVE  /\ ParserNext(t, b[1]) \in ParserStates
               /\ Tail(b) = <<>> => ParserNext(t, b[1]).mode = "NORMAL"
               /\ Tail(b) # <<>> => Comes(ParserNext(t, b[1]), Tail(b), p, k)
    <2>1. w[3] \in Seq(Byte)
      BY ConsoleAssumption
    <2>2. IsStrictSuffix(Tail(b), w[3])
      BY <1>2, <2>1, TailOfSuffix
    <2>3. /\ ParserNext(t, b[1]) \in ParserStates
          /\ Tail(b) = <<>> => ParserNext(t, b[1]).mode = "NORMAL"
          /\ Tail(b) # <<>> => /\ ParserNext(t, b[1]).mode # "NORMAL"
                               /\ Ends(ParserNext(t, b[1]), Tail(b))
      BY <1>2, EndsHead
    <2>. QED BY <1>2, <2>2, <2>3 DEF Comes
  <1>3. ASSUME t.mode = "NORMAL", NEW w \in Writes, w[1] = p, w[2] = k, IsCommand(w[3]), b = w[3]
        PROVE  Ends(t, b)
    BY <1>3 DEF OneByOne, IsSequence
  <1>. QED BY <1>1, <1>2, <1>3 DEF Comes

\* Where the parsers will be when the queues are empty, and who is to empty them.
SequenceInv ==
    \A k \in Consoles :
        /\ ofifo[k] # <<>> => \E p \in Procs : on[p] = k /\ pc[p] = "drain"
        /\ \E t \in ParserStates :
              /\ Reaches(Parser(console[k]), ofifo[k], t)
              /\ \A p \in Procs : Writing(p, k) => Comes(t, rest[p], p, k)
              /\ (\A p \in Procs : ~Writing(p, k)) => t.mode = "NORMAL"

LEMMA SequencesAreSeen ==
    ASSUME OneByOne, Shapes, StreamInv, SequenceInv
    PROVE  SequencesStayWhole
  <1>. SUFFICES ASSUME NEW k \in Consoles,
                       \A q \in Procs : on[q] = k => At(q, "user") \/ At(q, "put")
                PROVE  console[k].write_state # "NORMAL"
                          <=> \E p \in Procs : At(p, "put") /\ InCommand(p, k)
    BY DEF SequencesStayWhole
  <1>1. ofifo[k] = <<>>
    BY DEF SequenceInv, At
  <1>2. PICK t \in ParserStates :
           /\ Reaches(Parser(console[k]), ofifo[k], t)
           /\ \A p \in Procs : Writing(p, k) => Comes(t, rest[p], p, k)
           /\ (\A p \in Procs : ~Writing(p, k)) => t.mode = "NORMAL"
    BY DEF SequenceInv
  <1>3. t.mode = console[k].write_state
    <2>1. t = Parser(console[k])
      BY <1>1, <1>2, ReachesNothing
    <2>. QED BY <2>1 DEF Parser
  <1>4. ASSUME NEW b \in Seq(Byte), b # <<>>, NEW w \in Writes, IsCommand(w[3]), IsStrictSuffix(b, w[3])
        PROVE  b[1] # "esc" /\ b \notin Seq(TextBytes)
    <2>1. w[3] \in Seq(Byte) /\ IsSequence(w[3])
      BY <1>4, ConsoleAssumption DEF OneByOne
    <2>2. b[1] # "esc" /\ b[Len(b)] \in Printable \ {"x"}
      BY <1>4, <2>1, SuffixOfSequence
    <2>3. Len(b) \in 1 .. Len(b)
      BY <1>4
    <2>4. b \in Seq(TextBytes) => b[Len(b)] \in TextBytes
      BY <2>3
    <2>. QED BY <2>2, <2>4 DEF TextBytes
  <1>5. ASSUME NEW p \in Procs, InCommand(p, k)
        PROVE  t.mode # "NORMAL"
    <2>1. rest[p] \in Seq(Byte) /\ rest[p] # <<>> /\ rest[p][1] # "esc" /\ Writing(p, k)
      BY <1>5 DEF InCommand, Writing, StreamInv
    <2>2. rest[p] \notin Seq(TextBytes)
      BY <1>4, <1>5, <2>1 DEF InCommand
    <2>3. Comes(t, rest[p], p, k)
      BY <1>2, <2>1
    <2>. QED BY <2>1, <2>2, <2>3 DEF Comes, IsCommand
  <1>6. ASSUME t.mode # "NORMAL"
        PROVE  \E p \in Procs : At(p, "put") /\ InCommand(p, k)
    <2>1. PICK p \in Procs : Writing(p, k)
      BY <1>2, <1>6
    <2>2. rest[p] \in Seq(Byte) /\ rest[p] # <<>> /\ on[p] = k /\ At(p, "put")
      BY <2>1 DEF Writing, StreamInv, At
    <2>3. PICK w \in Writes : w[1] = p /\ w[2] = k /\ IsCommand(w[3]) /\ IsStrictSuffix(rest[p], w[3])
      BY <1>2, <1>6, <2>1 DEF Comes
    <2>4. rest[p][1] # "esc"
      BY <1>4, <2>2, <2>3
    <2>. QED BY <2>2, <2>3, <2>4 DEF InCommand
  <1>. QED BY <1>3, <1>5, <1>6

LEMMA SequenceInvStart == Init => SequenceInv
  <1>. SUFFICES ASSUME Init, NEW k \in Consoles
                PROVE  /\ ofifo[k] = <<>> /\ \A p \in Procs : ~Writing(p, k)
                       /\ Parser(console[k]) \in ParserStates /\ Parser(console[k]).mode = "NORMAL"
    BY ReachesStart DEF SequenceInv
  <1>1. /\ console[k].write_state = "NORMAL"
        /\ console[k].esc_param \in [Params -> Nat] /\ console[k].index \in Nat
    BY DEF Init, Zeroed
  <1>. QED BY <1>1 DEF Init, Writing, Parser, ParserStates, Modes

\* What a step leaves as it was of the streams and the parsers, the invariant keeps: who
\* leaves the queue leaves it empty.
LEMMA SequencesKept ==
    ASSUME SequenceInv, UNCHANGED <<rest, ofifo, on>>,
           \A k \in Consoles : Parser(console'[k]) = Parser(console[k]),
           \A p \in Procs : pc[p] = "drain" => pc'[p] = "drain" \/ ofifo[on[p]] = <<>>
    PROVE  SequenceInv'
  <1>1. \A p \in Procs, k \in Consoles : Writing(p, k)' <=> Writing(p, k)
    BY DEF Writing
  <1>2. ASSUME NEW k \in Consoles, ofifo'[k] # <<>>
        PROVE  \E p \in Procs : on'[p] = k /\ pc'[p] = "drain"
    <2>1. PICK p \in Procs : on[p] = k /\ pc[p] = "drain"
      BY <1>2 DEF SequenceInv
    <2>. QED BY <1>2, <2>1
  <1>3. ASSUME NEW k \in Consoles
        PROVE  \E t \in ParserStates :
                  /\ Reaches(Parser(console'[k]), ofifo'[k], t)
                  /\ \A p \in Procs : Writing(p, k)' => Comes(t, rest'[p], p, k)
                  /\ (\A p \in Procs : ~Writing(p, k)') => t.mode = "NORMAL"
    <2>1. PICK t \in ParserStates :
             /\ Reaches(Parser(console[k]), ofifo[k], t)
             /\ \A p \in Procs : Writing(p, k) => Comes(t, rest[p], p, k)
             /\ (\A p \in Procs : ~Writing(p, k)) => t.mode = "NORMAL"
      BY DEF SequenceInv
    <2>. QED BY <1>1, <2>1
  <1>. QED BY <1>2, <1>3 DEF SequenceInv

\* A step that concerns console k alone.
LEMMA OneConsole ==
    ASSUME NEW k \in Consoles, SequenceInv,
           \A j \in Consoles \ {k} :
              /\ console'[j] = console[j] /\ ofifo'[j] = ofifo[j]
              /\ \A p \in Procs : Writing(p, j)' <=> Writing(p, j)
              /\ \A p \in Procs : Writing(p, j) => rest'[p] = rest[p]
              /\ \A p \in Procs : on[p] = j /\ pc[p] = "drain" => on'[p] = j /\ pc'[p] = "drain",
           ofifo'[k] # <<>> => \E p \in Procs : on'[p] = k /\ pc'[p] = "drain",
           NEW t \in ParserStates,
           Reaches(Parser(console'[k]), ofifo'[k], t),
           \A p \in Procs : Writing(p, k)' => Comes(t, rest'[p], p, k),
           (\A p \in Procs : ~Writing(p, k)') => t.mode = "NORMAL"
    PROVE  SequenceInv'
  <1>1. ASSUME NEW j \in Consoles \ {k}
        PROVE  /\ ofifo'[j] # <<>> => \E p \in Procs : on'[p] = j /\ pc'[p] = "drain"
               /\ \E u \in ParserStates :
                     /\ Reaches(Parser(console'[j]), ofifo'[j], u)
                     /\ \A p \in Procs : Writing(p, j)' => Comes(u, rest'[p], p, j)
                     /\ (\A p \in Procs : ~Writing(p, j)') => u.mode = "NORMAL"
    <2>1. PICK u \in ParserStates :
             /\ Reaches(Parser(console[j]), ofifo[j], u)
             /\ \A p \in Procs : Writing(p, j) => Comes(u, rest[p], p, j)
             /\ (\A p \in Procs : ~Writing(p, j)) => u.mode = "NORMAL"
      BY DEF SequenceInv
    <2>2. ofifo[j] # <<>> => \E p \in Procs : on[p] = j /\ pc[p] = "drain"
      BY DEF SequenceInv
    <2>3. \A p \in Procs : Writing(p, j)' => Comes(u, rest'[p], p, j)
      <3>. TAKE p \in Procs
      <3>1. Writing(p, j)' => Writing(p, j) /\ rest'[p] = rest[p]
        OBVIOUS
      <3>. QED BY <2>1, <3>1
    <2>4. Reaches(Parser(console'[j]), ofifo'[j], u)
      BY <2>1
    <2>5. (\A p \in Procs : ~Writing(p, j)') => u.mode = "NORMAL"
      BY <2>1
    <2>. QED BY <2>2, <2>3, <2>4, <2>5
  <1>. QED BY <1>1 DEF SequenceInv

LEMMA SequenceInvStep ==
    ASSUME "mix" \notin Mishaps, OneByOne, Shapes, StreamInv, SequenceInv, [Next]_vars
    PROVE  SequenceInv'
  <1>1. ASSUME NEW k \in Consoles, tty_open(k) \/ console_select(k)
        PROVE  SequenceInv'
    <2>. DEFINE fresh == console_init(View(k), k)
    <2>1. IsView(fresh) /\ Parser(fresh.con) = Parser(console[k])
      <3>1. IsView(View(k)) /\ View(k).con = console[k]
        BY ViewShape DEF View
      <3>. QED BY <3>1, InitKeeps
    <2>. HIDE DEF fresh
    <2>2. UNCHANGED <<rest, ofifo, on, pc>>
      BY <1>1 DEF tty_open, console_select, taskVars
    <2>3. console' = [console EXCEPT ![k] = fresh.con] \/ console' = [console EXCEPT ![k] = console[k]]
      BY <1>1 DEF tty_open, console_select, Show, View, fresh
    <2>4. \A j \in Consoles : Parser(console'[j]) = Parser(console[j])
      BY <2>1, <2>3 DEF Shapes
    <2>. QED BY <2>2, <2>4, SequencesKept
  <1>2. ASSUME NEW w \in Writes, tty_write(w[1], w[2], w[3])
        PROVE  SequenceInv'
    <2>1. /\ w[1] \in Procs /\ w[2] \in Consoles /\ w[3] \in Seq(Byte) /\ w[3] # <<>>
      BY ConsoleAssumption
    <2>2. PICK p \in Procs, k \in Consoles, m \in Seq(Byte) :
             p = w[1] /\ k = w[2] /\ m = w[3] /\ m # <<>>
      BY <2>1
    <2>3. /\ on' = [on EXCEPT ![p] = k] /\ rest' = [rest EXCEPT ![p] = m]
          /\ pc' = [pc EXCEPT ![p] = "put"]
          /\ UNCHANGED <<console, ofifo>>
          /\ pc[p] = "user" /\ \A q \in Procs : ~Writing(q, k)
      BY <1>2, <2>2 DEF tty_write, Goto, screenVars, At, Writing
    <2>4. /\ \A q \in Procs : Writing(q, k)' <=> q = p
          /\ \A q \in Procs, j \in Consoles \ {k} : Writing(q, j)' <=> Writing(q, j)
      <3>1. rest[p] = <<>>
        BY <2>3 DEF StreamInv
      <3>. QED BY <2>2, <2>3, <3>1 DEF Writing, Shapes, StreamInv
    <2>5. PICK t \in ParserStates : Reaches(Parser(console[k]), ofifo[k], t) /\ t.mode = "NORMAL"
      BY <2>3 DEF SequenceInv
    <2>6. Comes(t, m, p, k)
      <3>1. CASE IsCommand(w[3])
        BY <2>2, <2>5, <3>1 DEF Comes
      <3>2. CASE ~IsCommand(w[3])
        <4>1. m \in Seq(TextBytes)
          BY <2>2, <3>2 DEF OneByOne
        <4>. QED BY <2>5, <4>1 DEF Comes
      <3>. QED BY <3>1, <3>2
    <2>7. \A q \in Procs : pc[q] = "drain" => pc'[q] = "drain" /\ on'[q] = on[q]
      BY <2>3 DEF Shapes
    <2>8. \A j \in Consoles \ {k}, q \in Procs : Writing(q, j) => rest'[q] = rest[q]
      <3>1. rest[p] = <<>>
        BY <2>3 DEF StreamInv
      <3>. QED BY <2>3, <3>1 DEF Writing, StreamInv
    <2>9. ofifo'[k] # <<>> => \E q \in Procs : on'[q] = k /\ pc'[q] = "drain"
      BY <2>3, <2>7 DEF SequenceInv
    <2>10. \A q \in Procs : Writing(q, k)' => Comes(t, rest'[q], q, k)
      BY <2>3, <2>4, <2>6 DEF StreamInv
    <2>11. Reaches(Parser(console'[k]), ofifo'[k], t)
      BY <2>3, <2>5
    <2>. QED BY <2>3, <2>4, <2>5, <2>7, <2>8, <2>9, <2>10, <2>11, OneConsole
  <1>3. ASSUME NEW p \in Procs, put(p)
        PROVE  SequenceInv'
    <2>1. PICK k \in Consoles : k = on[p]
      BY DEF Shapes
    <2>2. PICK a \in Seq(Byte), b \in Seq(Byte) : a = ofifo[k] /\ b = rest[p]
      BY DEF StreamInv
    <2>3. /\ ofifo' = [ofifo EXCEPT ![k] = Append(a, b[1])] /\ rest' = [rest EXCEPT ![p] = Tail(b)]
          /\ pc' = [pc EXCEPT ![p] = "drain"]
          /\ UNCHANGED <<console, on>> /\ b # <<>> /\ Writing(p, k)
      BY <1>3, <2>1, <2>2 DEF put, Goto, screenVars, At, Writing, StreamInv
    <2>4. /\ \A q \in Procs : Writing(q, k)' => q = p /\ rest'[q] = Tail(b)
          /\ Writing(p, k)' <=> Tail(b) # <<>>
          /\ \A q \in Procs, j \in Consoles \ {k} : Writing(q, j)' <=> Writing(q, j)
      BY <2>1, <2>2, <2>3 DEF Writing, StreamInv
    <2>5. PICK t \in ParserStates : Reaches(Parser(console[k]), a, t) /\ Comes(t, b, p, k)
      BY <2>2, <2>3 DEF SequenceInv
    <2>. DEFINE u == ParserNext(t, b[1])
    <2>6. /\ u \in ParserStates
          /\ Tail(b) = <<>> => u.mode = "NORMAL"
          /\ Tail(b) # <<>> => Comes(u, Tail(b), p, k)
      BY <2>3, <2>5, ComesNext
    <2>7. Reaches(Parser(console[k]), Append(a, b[1]), u)
      <3>1. b[1] \in Byte
        BY <2>3
      <3>. QED BY <2>5, <2>6, <3>1, ReachesMore
    <2>. HIDE DEF u
    <2>8. Reaches(Parser(console'[k]), ofifo'[k], u)
      <3>1. ofifo'[k] = Append(a, b[1]) /\ console'[k] = console[k]
        BY <2>3 DEF StreamInv
      <3>. QED BY <2>7, <3>1
    <2>9. \A q \in Procs : Writing(q, k)' => Comes(u, rest'[q], q, k)
      BY <2>4, <2>6
    <2>10. (\A q \in Procs : ~Writing(q, k)') => u.mode = "NORMAL"
      BY <2>4, <2>6
    <2>11. on'[p] = k /\ pc'[p] = "drain"
      BY <2>1, <2>3 DEF Shapes
    <2>12. ASSUME NEW j \in Consoles \ {k}
           PROVE  /\ console'[j] = console[j] /\ ofifo'[j] = ofifo[j]
                  /\ \A q \in Procs : Writing(q, j) => rest'[q] = rest[q]
                  /\ \A q \in Procs : on[q] = j /\ pc[q] = "drain" => on'[q] = j /\ pc'[q] = "drain"
      <3>1. \A q \in Procs : Writing(q, j) => rest'[q] = rest[q]
        BY <2>1, <2>3 DEF Writing, StreamInv
      <3>2. ofifo'[j] = ofifo[j] /\ console'[j] = console[j]
        BY <2>3 DEF StreamInv
      <3>3. \A q \in Procs : on[q] = j /\ pc[q] = "drain" => on'[q] = j /\ pc'[q] = "drain"
        BY <2>3 DEF Shapes
      <3>. QED BY <3>1, <3>2, <3>3
    <2>. QED BY <2>4, <2>6, <2>8, <2>9, <2>10, <2>11, <2>12, OneConsole
  <1>4. ASSUME NEW p \in Procs, drain(p)
        PROVE  SequenceInv'
    <2>1. PICK k \in Consoles : k = on[p]
      BY DEF Shapes
    <2>2. PICK a \in Seq(Byte) : a = ofifo[k]
      BY DEF StreamInv
    <2>. DEFINE t == Written(View(k), Head(a))
    <2>3. /\ a # <<>> /\ ofifo' = [ofifo EXCEPT ![k] = Tail(a)]
          /\ console' = [console EXCEPT ![k] = t.con]
          /\ UNCHANGED <<rest, on, pc>> /\ pc[p] = "drain"
      BY <1>4, <2>1, <2>2 DEF drain, Show, taskVars, At
    <2>4. Parser(t.con) = ParserNext(Parser(console[k]), Head(a))
      <3>1. IsView(View(k)) /\ View(k).con = console[k]
        BY ViewShape DEF View
      <3>. QED BY <3>1, WrittenKeeps DEF Parses
    <2>. HIDE DEF t
    <2>5. /\ Parser(console'[k]) = ParserNext(Parser(console[k]), Head(a)) /\ ofifo'[k] = Tail(a)
          /\ \A j \in Consoles \ {k} : console'[j] = console[j] /\ ofifo'[j] = ofifo[j]
          /\ \A q \in Procs, j \in Consoles : Writing(q, j)' <=> Writing(q, j)
      BY <2>3, <2>4 DEF Shapes, StreamInv, Writing
    <2>6. PICK u \in ParserStates :
             /\ Reaches(Parser(console[k]), a, u)
             /\ \A q \in Procs : Writing(q, k) => Comes(u, rest[q], q, k)
             /\ (\A q \in Procs : ~Writing(q, k)) => u.mode = "NORMAL"
      BY <2>2 DEF SequenceInv
    <2>7. Reaches(Parser(console'[k]), ofifo'[k], u)
      <3>1. Reaches(ParserNext(Parser(console[k]), Head(a)), Tail(a), u)
        BY <2>3, <2>6, ReachesTail
      <3>. QED BY <2>5, <3>1
    <2>8. /\ \A q \in Procs : Writing(q, k)' => Comes(u, rest'[q], q, k)
          /\ (\A q \in Procs : ~Writing(q, k)') => u.mode = "NORMAL"
      BY <2>3, <2>5, <2>6
    <2>9. on'[p] = k /\ pc'[p] = "drain"
      BY <2>1, <2>3
    <2>10. \A j \in Consoles \ {k} :
              /\ \A q \in Procs : Writing(q, j) => rest'[q] = rest[q]
              /\ \A q \in Procs : on[q] = j /\ pc[q] = "drain" => on'[q] = j /\ pc'[q] = "drain"
      BY <2>3
    <2>11. ofifo'[k] # <<>> => \E q \in Procs : on'[q] = k /\ pc'[q] = "drain"
      BY <2>9
    <2>12. u \in ParserStates
      BY <2>6
    <2>. QED BY <2>5, <2>7, <2>8, <2>10, <2>11, <2>12, OneConsole
  <1>5. ASSUME NEW p \in Procs, unlock(p) \/ compute(p) \/ output(p)
        PROVE  SequenceInv'
    <2>1. UNCHANGED <<rest, ofifo, on, console>>
      BY <1>5 DEF unlock, compute, output, screenVars
    <2>2. \A q \in Procs : pc[q] = "drain" => pc'[q] = "drain" \/ ofifo[on[q]] = <<>>
      <3>1. /\ pc[p] = "drain" => ofifo[on[p]] = <<>>
            /\ \E step : pc' = [pc EXCEPT ![p] = step]
        BY <1>5 DEF unlock, compute, output, Goto, NextByte, At
      <3>2. PICK step : pc' = [pc EXCEPT ![p] = step]
        BY <3>1
      <3>3. \A q \in Procs \ {p} : pc'[q] = pc[q]
        BY <3>2 DEF Shapes
      <3>. QED BY <3>1, <3>3
    <2>. QED BY <2>1, <2>2, SequencesKept
  <1>6. CASE UNCHANGED vars
    <2>1. UNCHANGED <<rest, ofifo, on, console, pc>>
      BY <1>6 DEF vars, screenVars, taskVars
    <2>. QED BY <2>1, SequencesKept
  <1>. QED BY <1>1, <1>2, <1>3, <1>4, <1>5, <1>6 DEF Next

\* So each of a console's sequences reaches its parser as a whole: at rest the parser is in
\* the middle of one exactly while the console's writer is.
THEOREM SequencesReachTheParser ==
    ASSUME "mix" \notin Mishaps, WholeMessages, OneByOne
    PROVE  Spec => []SequencesStayWhole
  <1>. DEFINE Inv == Shapes /\ StreamInv /\ SequenceInv
  <1>1. Init => Inv
    BY CursorInvStart, StreamInvStart, SequenceInvStart DEF CursorInv
  <1>2. Inv /\ [Next]_vars => Inv'
    BY ShapesStep, StreamInvStep, SequenceInvStep
  <1>3. Inv => SequencesStayWhole
    BY SequencesAreSeen
  <1>. QED BY <1>1, <1>2, <1>3, PTL DEF Spec
=============================================================================
