------------------------------- MODULE Cells -------------------------------
(***************************************************************************)
(* Character cells: what the output routines of tty/terminal.c do to one   *)
(* screenful of memory and one cursor, wherever that memory is.  A screen  *)
(* is a record [grid, x, y].                                               *)
(***************************************************************************)
EXTENDS Integers

CONSTANTS
  TERMINAL_COLUMNS,  \* 80
  TERMINAL_ROWS,     \* 25
  Glyphs             \* what a cell can show (a character and its colours)

(* Characters the driver treats specially, and the space.                  *)
BLANK     == "blank"
NEWLINE   == "newline"
TAB       == "tab"
BACKSPACE == "backspace"
Char      == Glyphs \cup {NEWLINE, TAB, BACKSPACE}

(* A cursor's column and row are bytes.                                    *)
LAST_BYTE == 255

ASSUME CellsAssumption ==
  /\ TERMINAL_COLUMNS \in 1 .. LAST_BYTE
  /\ TERMINAL_ROWS \in 1 .. LAST_BYTE
  /\ BLANK \in Glyphs
  /\ Glyphs \cap {NEWLINE, TAB, BACKSPACE} = {}

CellIndices == 0 .. TERMINAL_COLUMNS * TERMINAL_ROWS - 1

VIDEO_INDEX(x, y) == y * TERMINAL_COLUMNS + x

BlankGrid == [i \in CellIndices |-> BLANK]

Screen(grid, x, y) == [grid |-> grid, x |-> x, y |-> y]

Screens == [grid : [CellIndices -> Glyphs],
            x : 0 .. TERMINAL_COLUMNS - 1, y : 0 .. TERMINAL_ROWS - 1]

-----------------------------------------------------------------------------
(* The cell is not checked: outside of the grid, other memory is written.  *)
video_buffer_putc(grid, x, y, ch) ==
  IF VIDEO_INDEX(x, y) \in CellIndices
    THEN [grid EXCEPT ![VIDEO_INDEX(x, y)] = ch] ELSE grid

(* Every row moves up by one; the last one becomes blank.                  *)
scroll_screen(grid) ==
  [i \in CellIndices |-> IF i < TERMINAL_COLUMNS * (TERMINAL_ROWS - 1)
                           THEN grid[i + TERMINAL_COLUMNS] ELSE BLANK]

(* The start of the next row, which scrolls the screen at the bottom.      *)
NextRow(s) ==
  IF s.y + 1 >= TERMINAL_ROWS
    THEN Screen(scroll_screen(s.grid), 0, TERMINAL_ROWS - 1)
    ELSE Screen(s.grid, 0, s.y + 1)

(* The row above; above the first one, the byte wraps around.              *)
Above(y) == IF y = 0 THEN LAST_BYTE ELSE y - 1

(* The cell before the cursor: the end of the row above when the cursor is *)
(* at the start of a row.                                                  *)
Erase(s) ==
  LET x == IF s.x = 0 THEN TERMINAL_COLUMNS - 1 ELSE s.x - 1
      y == IF s.x = 0 THEN Above(s.y) ELSE s.y
  IN  Screen(video_buffer_putc(s.grid, x, y, BLANK), x, y)

Show(s, ch) ==
  LET shown == video_buffer_putc(s.grid, s.x, s.y, ch) IN
  IF s.x + 1 >= TERMINAL_COLUMNS THEN NextRow(Screen(shown, s.x, s.y))
                                 ELSE Screen(shown, s.x + 1, s.y)

(* What putc_internal makes of a screen.  A tab is not implemented.        *)
PutChar(s, ch) ==
  CASE ch = BACKSPACE -> Erase(s)
    [] ch = NEWLINE   -> NextRow(s)
    [] ch = TAB       -> s
    [] OTHER          -> Show(s, ch)

(* The cells that putc_internal passes to video_buffer_putc.               *)
Written(s, ch) ==
  CASE ch = BACKSPACE      -> {VIDEO_INDEX(Erase(s).x, Erase(s).y)}
    [] ch \in {NEWLINE, TAB} -> {}
    [] OTHER               -> {VIDEO_INDEX(s.x, s.y)}

InTopLeftCorner(s) == s.x = 0 /\ s.y = 0
=============================================================================
