------------------------------- MODULE Screen -------------------------------
(***************************************************************************)
(* What a console promises to those who write to it: a page of rows with a *)
(* cursor on it and a colour in use.  A character or a command has its     *)
(* whole effect at once.  Console implements it byte by byte in the flat   *)
(* video memory that all consoles share.                                   *)
(***************************************************************************)
EXTENDS Integers

CONSTANTS Rows, Cols, TabStop,
          Text,                  (* the characters that are shown          *)
          DefaultFg, DefaultBg

VARIABLES rows,      (* the text, rows[r][c]                               *)
          row, col,  (* the cursor                                         *)
          saved,     (* the place ESC 7 remembers                          *)
          fg, bg     (* the colours in use                                 *)

vars == <<rows, row, col, saved, fg, bg>>

RowNrs == 0 .. Rows - 1
ColNrs == 0 .. Cols - 1
Cell(char) == [c |-> char, fg |-> fg, bg |-> bg]
EmptyRow == [c \in ColNrs |-> Cell("blank")]
Cursor == <<row, col>>

Init == row \in RowNrs /\ col \in ColNrs /\ saved = Cursor

\* The cursor goes down; at the bottom the text goes up instead.
Feed(text) ==
    IF row + 1 < Rows
    THEN row' = row + 1 /\ rows' = text
    ELSE row' = row /\ rows' = [r \in RowNrs |-> IF r + 1 < Rows THEN text[r + 1] ELSE EmptyRow]

Type ==
    \E char \in Text :
        LET text == [rows EXCEPT ![row][col] = Cell(char)] IN
        /\ IF col + 1 < Cols THEN col' = col + 1 /\ row' = row /\ rows' = text
                             ELSE col' = 0 /\ Feed(text)
        /\ UNCHANGED <<saved, fg, bg>>

NewLine == Feed(rows) /\ UNCHANGED <<col, saved, fg, bg>>

\* To the next tab stop, to the next row behind the last one.
Tab ==
    /\ \E stop \in {TabStop * n : n \in 0 .. Cols} :
        /\ stop >= col /\ stop - col < TabStop
        /\ IF stop < Cols THEN col' = stop /\ UNCHANGED <<row, rows>>
                          ELSE col' = 0 /\ Feed(rows)
    /\ UNCHANGED <<saved, fg, bg>>

\* The place before the cursor, in the row above when it is at the left edge.
Back ==
    /\ Cursor # <<0, 0>>
    /\ row' * Cols + col' = row * Cols + col - 1
    /\ row' \in RowNrs /\ col' \in ColNrs
    /\ UNCHANGED <<saved, fg, bg>>

Erase == Back /\ rows' = [rows EXCEPT ![row'][col'] = Cell("blank")]

\* Commands: the cursor may be put anywhere on the page.
Goto == row' \in RowNrs /\ col' \in ColNrs /\ UNCHANGED <<rows, saved, fg, bg>>
Save == saved' = Cursor /\ UNCHANGED <<rows, row, col, fg, bg>>
Colour == UNCHANGED <<rows, row, col, saved>>

Clear == /\ rows' = [r \in RowNrs |-> EmptyRow]
         /\ row' = 0 /\ col' = 0
         /\ UNCHANGED <<saved, fg, bg>>

\* The console is set up afresh.
Reset ==
    /\ fg' = DefaultFg /\ bg' = DefaultBg
    /\ rows' = [r \in RowNrs |-> [c \in ColNrs |-> [c |-> "blank", fg |-> fg', bg |-> bg']]]
    /\ row' = 0 /\ col' = 0 /\ saved' = <<0, 0>>

Next == Type \/ NewLine \/ Tab \/ (Back /\ UNCHANGED rows) \/ Erase
        \/ Goto \/ Save \/ Colour \/ Clear \/ Reset

Spec == Init /\ [][Next]_vars
=============================================================================
