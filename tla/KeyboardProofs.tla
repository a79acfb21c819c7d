-------------------------- MODULE KeyboardProofs ---------------------------
(***************************************************************************)
(* Proofs about Console and Keyboard, for any screen size and any number   *)
(* of terminals: sharing one display implements one display per terminal,  *)
(* and the line that is being typed is on it.                              *)
(***************************************************************************)
EXTENDS Keyboard, TLAPS

LEMMA Sizes ==
  /\ TERMINAL_COLUMNS \in Nat \ {0} /\ TERMINAL_ROWS \in Nat \ {0}
  /\ TERMINAL_ROWS <= LAST_BYTE /\ LAST_BYTE \in Nat /\ BLANK \in Glyphs
BY CellsAssumption DEF LAST_BYTE

(* A position on the screen is a cell.                                     *)
LEMMA VideoIndexType ==
  ASSUME NEW x \in 0 .. TERMINAL_COLUMNS - 1, NEW y \in 0 .. TERMINAL_ROWS - 1
  PROVE  VIDEO_INDEX(x, y) \in CellIndices
<1> DEFINE C == TERMINAL_COLUMNS
           R == TERMINAL_ROWS
<1>1. C \in Nat /\ R \in Nat /\ C > 0 /\ R > 0
  BY Sizes
<1>2. y * C >= 0 /\ y * C \in Int
  BY <1>1
<1>3. (R - 1 - y) * C >= 0
  <2>1. R - 1 - y \in Nat
    BY <1>1
  <2> QED BY <2>1, <1>1
<1>4. (R - 1 - y) * C = R * C - C - y * C
  BY <1>1
<1>5. C * R = R * C
  BY <1>1
<1> QED BY <1>1, <1>2, <1>3, <1>4, <1>5 DEF VIDEO_INDEX, CellIndices

(* A screenful that scrolls is a screenful: the source row exists.         *)
LEMMA ScrollType ==
  ASSUME NEW g \in [CellIndices -> Glyphs]
  PROVE  scroll_screen(g) \in [CellIndices -> Glyphs]
<1> DEFINE C == TERMINAL_COLUMNS
           R == TERMINAL_ROWS
<1>1. C \in Nat /\ R \in Nat /\ C > 0 /\ R > 0 /\ BLANK \in Glyphs
  BY Sizes
<1>2. C * (R - 1) = C * R - C /\ C * R \in Int
  BY <1>1
<1>3. ASSUME NEW i \in CellIndices, i < C * (R - 1)
      PROVE  i + C \in CellIndices
  BY <1>1, <1>2, <1>3 DEF CellIndices
<1> QED BY <1>1, <1>3, Zenon DEF scroll_screen

LEMMA BlankType == BlankGrid \in [CellIndices -> Glyphs]
BY CellsAssumption, Zenon DEF BlankGrid

LEMMA PutCellType ==
  ASSUME NEW g \in [CellIndices -> Glyphs], NEW ch \in Glyphs, NEW x, NEW y
  PROVE  video_buffer_putc(g, x, y, ch) \in [CellIndices -> Glyphs]
BY Zenon DEF video_buffer_putc

LEMMA NextRowType ==
  ASSUME NEW s \in Screens
  PROVE  NextRow(s) \in Screens
<1>1. s.grid \in [CellIndices -> Glyphs] /\ s.y \in 0 .. TERMINAL_ROWS - 1
  BY Zenon DEF Screens
<1>2. scroll_screen(s.grid) \in [CellIndices -> Glyphs]
  BY <1>1, ScrollType, Zenon
<1>3. TERMINAL_COLUMNS \in Nat \ {0} /\ TERMINAL_ROWS \in Nat \ {0}
  BY Sizes, Zenon
<1> QED BY <1>1, <1>2, <1>3 DEF NextRow, Screens, Screen

(* A write misses the screen only when it erases before the first cell:    *)
(* the row above it is the last byte, and no row of the screen.            *)
LEMMA WritesMiss ==
  ASSUME NEW s \in Screens, NEW ch \in Char
  PROVE  Written(s, ch) \subseteq CellIndices <=> ~(ch = BACKSPACE /\ InTopLeftCorner(s))
<1> DEFINE C == TERMINAL_COLUMNS
           R == TERMINAL_ROWS
<1>1. s.x \in 0 .. C - 1 /\ s.y \in 0 .. R - 1
  BY Zenon DEF Screens
<1>2. C \in Nat \ {0} /\ R \in Nat \ {0} /\ R <= LAST_BYTE /\ LAST_BYTE \in Nat
  BY Sizes, Zenon
<1>3. CASE ch = BACKSPACE
  <2> DEFINE x == IF s.x = 0 THEN C - 1 ELSE s.x - 1
             y == IF s.x = 0 THEN Above(s.y) ELSE s.y
  <2>1. Written(s, ch) = {VIDEO_INDEX(x, y)}
    BY <1>3, Zenon DEF Written, Erase, Screen, NEWLINE, BACKSPACE, TAB
  <2>2. CASE InTopLeftCorner(s)
    <3>1. x = C - 1 /\ y = LAST_BYTE
      BY <2>2, Zenon DEF InTopLeftCorner, Above
    <3>2. (LAST_BYTE - R) * C >= 0 /\ LAST_BYTE * C = (LAST_BYTE - R) * C + R * C
      <4>1. LAST_BYTE - R \in Nat
        BY <1>2
      <4>2. \A a, c \in Nat : a * c >= 0
        OBVIOUS
      <4>3. \A a, r, c \in Nat : a * c = (a - r) * c + r * c
        OBVIOUS
      <4> QED BY <1>2, <4>1, <4>2, <4>3, Zenon
    <3>3. LAST_BYTE * C \in Int /\ R * C \in Int /\ (LAST_BYTE - R) * C \in Int /\ C * R = R * C
      BY <1>2
    <3>4. ~(VIDEO_INDEX(C - 1, LAST_BYTE) <= C * R - 1)
      <4> DEFINE p == LAST_BYTE * C
                 q == R * C
                 d == (LAST_BYTE - R) * C
      <4>1. VIDEO_INDEX(C - 1, LAST_BYTE) = p + (C - 1) /\ C * R = q
        BY <3>3, Zenon DEF VIDEO_INDEX
      <4>2. d >= 0 /\ p = d + q /\ p \in Int /\ q \in Int /\ d \in Int
        BY <3>2, <3>3, Zenon
      <4> HIDE DEF p, q, d
      <4> QED BY <1>2, <4>1, <4>2
    <3>5. VIDEO_INDEX(x, y) \notin CellIndices
      <4>1. \A i : i \in CellIndices => i <= C * R - 1
        BY DEF CellIndices
      <4> QED BY <3>1, <3>4, <4>1, Zenon
    <3> QED BY <1>3, <2>1, <2>2, <3>5, Zenon
  <2>3. CASE ~InTopLeftCorner(s)
    <3>1. x \in 0 .. C - 1 /\ y \in 0 .. R - 1
      BY <1>1, <1>2, <2>3 DEF InTopLeftCorner, Above
    <3> HIDE DEF x, y
    <3> QED BY <2>1, <2>3, <3>1, VideoIndexType, Zenon
  <2> QED BY <2>2, <2>3, Zenon
<1>4. CASE ch \in {NEWLINE, TAB}
  BY <1>4, Zenon DEF Written, NEWLINE, BACKSPACE, TAB
<1>5. CASE ch \notin {BACKSPACE, NEWLINE, TAB}
  <2>1. Written(s, ch) = {VIDEO_INDEX(s.x, s.y)}
    BY <1>5, Zenon DEF Written
  <2> QED BY <1>1, <1>5, <2>1, VideoIndexType, Zenon
<1> QED BY <1>3, <1>4, <1>5, Zenon

(* Output that does not keeps a screen a screen, cursor included.          *)
LEMMA PutCharType ==
  ASSUME NEW s \in Screens, NEW ch \in Char, ~(ch = BACKSPACE /\ InTopLeftCorner(s))
  PROVE  PutChar(s, ch) \in Screens
<1>1. /\ s.grid \in [CellIndices -> Glyphs]
      /\ s.x \in 0 .. TERMINAL_COLUMNS - 1
      /\ s.y \in 0 .. TERMINAL_ROWS - 1
  BY Zenon DEF Screens
<1>2. TERMINAL_COLUMNS \in Nat \ {0} /\ TERMINAL_ROWS \in Nat \ {0}
      /\ BLANK \in Glyphs
  BY Sizes, Zenon
<1>3. CASE ch = BACKSPACE
  <2>0. PutChar(s, ch) = Erase(s)
    BY <1>3, Zenon DEF PutChar, NEWLINE, BACKSPACE, TAB
  <2> DEFINE x == IF s.x = 0 THEN TERMINAL_COLUMNS - 1 ELSE s.x - 1
             y == IF s.x = 0 THEN Above(s.y) ELSE s.y
             g == video_buffer_putc(s.grid, x, y, BLANK)
  <2>1. x \in 0 .. TERMINAL_COLUMNS - 1 /\ y \in 0 .. TERMINAL_ROWS - 1
    BY <1>1, <1>2, <1>3 DEF InTopLeftCorner, Above
  <2>2. Erase(s) = Screen(g, x, y)
    BY Zenon DEF Erase
  <2> HIDE DEF x, y
  <2>3. g \in [CellIndices -> Glyphs]
    BY <1>1, <1>2, <2>1, PutCellType, Zenon
  <2> HIDE DEF g
  <2>4. Screen(g, x, y) \in Screens
    BY <2>1, <2>3, Zenon DEF Screens, Screen
  <2> QED BY <2>0, <2>2, <2>4, Zenon
<1>4. CASE ch = NEWLINE
  BY <1>4, NextRowType, Zenon DEF PutChar, NEWLINE, BACKSPACE
<1>5. CASE ch = TAB
  BY <1>5, Zenon DEF PutChar, NEWLINE, BACKSPACE, TAB
<1>6. CASE ch \notin {BACKSPACE, NEWLINE, TAB}
  <2>1. ch \in Glyphs
    BY <1>6, Zenon DEF Char
  <2> DEFINE g == video_buffer_putc(s.grid, s.x, s.y, ch)
  <2>2. g \in [CellIndices -> Glyphs]
    BY <1>1, <2>1, PutCellType, Zenon
  <2>3. Screen(g, s.x, s.y) \in Screens
    BY <1>1, <2>2, Zenon DEF Screen, Screens
  <2>4. PutChar(s, ch) = Show(s, ch)
    BY <1>6, Zenon DEF PutChar
  <2>5. CASE s.x + 1 >= TERMINAL_COLUMNS
    BY <2>3, <2>4, <2>5, NextRowType, Zenon DEF Show
  <2>6. CASE ~(s.x + 1 >= TERMINAL_COLUMNS)
    <3>1. s.x + 1 \in 0 .. TERMINAL_COLUMNS - 1
      BY <1>1, <1>2, <2>6
    <3> QED BY <1>1, <2>2, <2>4, <2>6, <3>1 DEF Show, Screen, Screens
  <2> QED BY <2>5, <2>6, Zenon
<1> QED BY <1>3, <1>4, <1>5, <1>6, Zenon

-----------------------------------------------------------------------------
(* Every terminal writes to the frame where its output belongs.            *)
WritesToOwnFrame ==
  \A t \in Terminals :
    video_memory[t] = get_terminal_output_buffer(t, active_terminal)

ConsoleInv == TypeOK /\ WritesToOwnFrame /\ HardwareCursorFollows

LEMMA InitInv == Init => ConsoleInv
<1> SUFFICES ASSUME Init PROVE ConsoleInv
  BY Zenon
<1>1. 0 \in Terminals
  BY ConsoleAssumption DEF Terminals
<1>2. /\ 0 \in 0 .. TERMINAL_COLUMNS - 1 /\ 0 \in 0 .. TERMINAL_ROWS - 1
      /\ 0 \in 0 .. LAST_BYTE /\ 0 < TERMINAL_ROWS
  BY Sizes
<1>3. VIDEO_INDEX(0, 0) = 0
  BY Sizes DEF VIDEO_INDEX
<1>4. 0 \in CellIndices
  BY <1>2, <1>3, VideoIndexType, Zenon
<1> QED BY <1>1, <1>2, <1>3, <1>4
     , Zenon DEF Init, multiple_terminal_init, ConsoleInv, TypeOK, WritesToOwnFrame,
          HardwareCursorFollows, get_terminal_output_buffer, Frames

(* What an output routine writes to is a screen.                           *)
LEMMA TargetType ==
  ASSUME ConsoleInv, ~outside, NEW t \in Terminals
  PROVE  Target(t) \in Screens
<1>1. /\ cursor_location[t].x \in 0 .. TERMINAL_COLUMNS - 1
      /\ cursor_location[t].y \in 0 .. LAST_BYTE /\ cursor_location[t].y < TERMINAL_ROWS
      /\ frame[video_memory[t]] \in [CellIndices -> Glyphs]
  BY Zenon DEF ConsoleInv, TypeOK
<1>2. cursor_location[t].y \in 0 .. TERMINAL_ROWS - 1
  <2> PICK y : y = cursor_location[t].y
    BY Zenon
  <2> QED BY <1>1, Sizes
<1> QED BY <1>1, <1>2, Zenon DEF Target, Screen, Screens

(* The common part of every output routine: terminal t's frame and cursor  *)
(* become those of a screen s.                                             *)
SetScreen(t, s) ==
  /\ UNCHANGED <<active_terminal, video_memory, outside>>
  /\ frame' = [frame EXCEPT ![video_memory[t]] = s.grid]
  /\ set_hardware_cursor(t, s.x, s.y)

LEMMA SetScreenInv ==
  ASSUME ConsoleInv, NEW t \in Terminals, NEW s \in Screens, SetScreen(t, s)
  PROVE  ConsoleInv'
<1> USE DEF ConsoleInv, SetScreen
<1>1. VIDEO_INDEX(s.x, s.y) \in CellIndices
  BY VideoIndexType, Zenon DEF Screens
<1>2. TypeOK'
  <2>1. /\ s.grid \in [CellIndices -> Glyphs] /\ s.x \in 0 .. TERMINAL_COLUMNS - 1
        /\ s.y \in 0 .. TERMINAL_ROWS - 1
    BY Zenon DEF Screens
  <2>2. s.y \in 0 .. LAST_BYTE /\ s.y < TERMINAL_ROWS
    <3> PICK y : y = s.y
      BY Zenon
    <3> QED BY <2>1, Sizes
  <2>3. /\ cursor_location' = [cursor_location EXCEPT ![t] = [x |-> s.x, y |-> s.y]]
        /\ hardware_cursor' \in CellIndices
    BY <1>1, Zenon DEF set_hardware_cursor, TypeOK
  <2>4. \A u \in Terminals :
          cursor_location'[u].y = IF u = t THEN s.y ELSE cursor_location[u].y
    BY <2>3, Zenon DEF TypeOK
  <2>5. cursor_location' \in [Terminals -> [x : 0 .. TERMINAL_COLUMNS - 1, y : 0 .. LAST_BYTE]]
    BY <2>1, <2>2, <2>3, Zenon DEF TypeOK
  <2>6. frame' \in [Frames -> [CellIndices -> Glyphs]]
    BY <2>1, Zenon DEF TypeOK
  <2> QED BY <2>2, <2>3, <2>4, <2>5, <2>6, Zenon DEF TypeOK
<1>3. WritesToOwnFrame'
  BY Zenon DEF WritesToOwnFrame
<1>4. HardwareCursorFollows'
  BY Zenon DEF HardwareCursorFollows, set_hardware_cursor, TypeOK
<1> QED BY <1>2, <1>3, <1>4, Zenon

(* A character written inside the frame, *)
LEMMA PutcSets ==
  ASSUME ConsoleInv, ~outside, NEW t \in Terminals, NEW ch \in Char, putc_internal(t, ch),
         ~outside'
  PROVE  /\ PutChar(Target(t), ch) \in Screens
         /\ SetScreen(t, PutChar(Target(t), ch))
<1>1. Written(Target(t), ch) \subseteq CellIndices
  BY Zenon DEF putc_internal
<1>2. Target(t) \in Screens
  BY TargetType, Zenon
<1>3. PutChar(Target(t), ch) \in Screens
  BY <1>1, <1>2, WritesMiss, PutCharType, Zenon
<1>4. outside = FALSE /\ outside' = FALSE
  BY Zenon DEF ConsoleInv, TypeOK, putc_internal
<1> QED BY <1>1, <1>3, <1>4, Zenon DEF putc_internal, SetScreen

(* and one that is not: then it erases in the corner, and the display is   *)
(* left alone.                                                             *)
LEMMA PutcLeaves ==
  ASSUME ConsoleInv, ~outside, NEW t \in Terminals, NEW ch \in Char, putc_internal(t, ch),
         outside'
  PROVE  ch = BACKSPACE /\ InTopLeftCorner(Target(t)) /\ ConsoleInv'
<1> DEFINE s == PutChar(Target(t), ch)
           C == TERMINAL_COLUMNS
<1>1. ~(Written(Target(t), ch) \subseteq CellIndices)
  BY Zenon DEF putc_internal
<1>2. Target(t) \in Screens
  BY TargetType, Zenon
<1>3. ch = BACKSPACE /\ InTopLeftCorner(Target(t))
  BY <1>1, <1>2, WritesMiss, Zenon
<1>4. /\ UNCHANGED <<active_terminal, video_memory>> /\ outside' \in BOOLEAN
      /\ \/ UNCHANGED <<frame, cursor_location, hardware_cursor>>
         \/ /\ video_memory[t] # VIDEO_PHYS_ADDR
            /\ frame' = [frame EXCEPT ![video_memory[t]] = s.grid]
            /\ set_hardware_cursor(t, s.x, s.y)
  BY <1>1, Zenon DEF putc_internal
<1>5. CASE UNCHANGED <<frame, cursor_location, hardware_cursor>>
  BY <1>3, <1>4, <1>5, Zenon DEF ConsoleInv, TypeOK, WritesToOwnFrame, HardwareCursorFollows
<1>6. CASE /\ video_memory[t] # VIDEO_PHYS_ADDR
           /\ frame' = [frame EXCEPT ![video_memory[t]] = s.grid]
           /\ set_hardware_cursor(t, s.x, s.y)
  <2>1. s = Erase(Target(t))
    BY <1>3, Zenon DEF PutChar, BACKSPACE, NEWLINE, TAB
  <2>2. s = Screen(video_buffer_putc(Target(t).grid, C - 1, LAST_BYTE, BLANK), C - 1, LAST_BYTE)
    BY <1>3, <2>1, Zenon DEF Erase, InTopLeftCorner, Above
  <2>3. Target(t).grid \in [CellIndices -> Glyphs]
    BY <1>2, Zenon DEF Screens
  <2>4. s.grid \in [CellIndices -> Glyphs] /\ s.x = C - 1 /\ s.y = LAST_BYTE
    <3>1. BLANK \in Glyphs
      BY Sizes, Zenon
    <3>2. video_buffer_putc(Target(t).grid, C - 1, LAST_BYTE, BLANK) \in [CellIndices -> Glyphs]
      BY <2>3, <3>1, PutCellType, Zenon
    <3> HIDE DEF s
    <3>3. PICK g \in [CellIndices -> Glyphs] : s = Screen(g, C - 1, LAST_BYTE)
      BY <2>2, <3>2, Zenon
    <3> QED BY <3>3, Zenon DEF Screen
  <2>5. C - 1 \in 0 .. C - 1 /\ LAST_BYTE \in 0 .. LAST_BYTE
    BY Sizes
  <2>6. t # active_terminal /\ active_terminal' = active_terminal
    BY <1>4, <1>6, Zenon DEF ConsoleInv, WritesToOwnFrame, get_terminal_output_buffer
  <2> HIDE DEF s
  <2>7. /\ cursor_location' = [cursor_location EXCEPT ![t] = [x |-> s.x, y |-> s.y]]
        /\ hardware_cursor' = hardware_cursor
    BY <1>6, <2>6, Zenon DEF set_hardware_cursor
  <2>8. cursor_location'[active_terminal] = cursor_location[active_terminal]
    BY <2>6, <2>7, Zenon DEF ConsoleInv, TypeOK
  <2>9. TypeOK'
    <3>1. cursor_location' \in [Terminals -> [x : 0 .. C - 1, y : 0 .. LAST_BYTE]]
      BY <2>4, <2>5, <2>7, Zenon DEF ConsoleInv, TypeOK
    <3>2. frame' \in [Frames -> [CellIndices -> Glyphs]]
      BY <1>6, <2>4, Zenon DEF ConsoleInv, TypeOK
    <3> QED BY <1>4, <2>7, <3>1, <3>2, Zenon DEF ConsoleInv, TypeOK
  <2>10. WritesToOwnFrame' /\ HardwareCursorFollows'
    BY <1>4, <2>6, <2>7, <2>8, Zenon DEF ConsoleInv, WritesToOwnFrame, HardwareCursorFollows
  <2> QED BY <1>3, <2>9, <2>10, Zenon DEF ConsoleInv
<1> QED BY <1>4, <1>5, <1>6, Zenon

LEMMA ClearSets ==
  ASSUME NEW t \in Terminals, clear_terminal(t)
  PROVE  /\ Screen(BlankGrid, 0, 0) \in Screens
         /\ SetScreen(t, Screen(BlankGrid, 0, 0))
<1>1. 0 \in 0 .. TERMINAL_COLUMNS - 1 /\ 0 \in 0 .. TERMINAL_ROWS - 1
  BY Sizes
<1> QED BY <1>1, BlankType, Zenon DEF clear_terminal, SetScreen, Screen, Screens

LEMMA SwitchInv ==
  ASSUME ConsoleInv, ~outside, NEW t \in Terminals, switch_active_terminal(t)
  PROVE  ConsoleInv'
<1> USE DEF ConsoleInv
<1>1. VIDEO_INDEX(cursor_location[t].x, cursor_location[t].y) \in CellIndices
  BY TargetType, VideoIndexType, Zenon DEF Target, Screen, Screens
<1>2. VIDEO_PHYS_ADDR \notin Terminals
  BY ConsoleAssumption DEF VIDEO_PHYS_ADDR, Terminals
<1>3. cursor_location' = cursor_location /\ hardware_cursor' \in CellIndices /\ outside' = outside
  BY <1>1, Zenon DEF TypeOK, switch_active_terminal, set_hardware_cursor
<1>4. TypeOK'
  BY <1>3, Zenon DEF TypeOK, switch_active_terminal, Frames, get_terminal_output_buffer
<1>5. WritesToOwnFrame'
  BY Zenon DEF WritesToOwnFrame, switch_active_terminal, TypeOK,
         get_terminal_output_buffer
<1>6. HardwareCursorFollows'
  BY Zenon DEF HardwareCursorFollows, switch_active_terminal, set_hardware_cursor, TypeOK
<1> QED BY <1>4, <1>5, <1>6, Zenon

LEMMA NextInv == ConsoleInv /\ [Next]_vars => ConsoleInv'
<1> SUFFICES ASSUME ConsoleInv, [Next]_vars PROVE ConsoleInv'
  BY Zenon
<1>1. ASSUME ~outside, NEW t \in Terminals, NEW ch \in Char, putc_internal(t, ch)
      PROVE  ConsoleInv'
  BY <1>1, PutcSets, PutcLeaves, SetScreenInv, Zenon
<1>2. ASSUME NEW t \in Terminals, clear_terminal(t) PROVE ConsoleInv'
  BY <1>2, ClearSets, SetScreenInv, Zenon
<1>3. ASSUME ~outside, NEW t \in Terminals, switch_active_terminal(t) PROVE ConsoleInv'
  BY <1>3, SwitchInv, Zenon
<1>4. CASE UNCHANGED vars
  BY <1>4, Zenon DEF vars, ConsoleInv, TypeOK, WritesToOwnFrame, HardwareCursorFollows
<1> QED BY <1>1, <1>2, <1>3, <1>4, Zenon DEF Next

(* Every terminal writes to the frame where its output belongs, cursors    *)
(* are on their screens until a write misses one, and the user sees the    *)
(* active terminal's cursor, always.                                       *)
THEOREM Invariance == Spec => []ConsoleInv
BY InitInv, NextInv, PTL DEF Spec

(* Only a backspace in the top left corner of a screen makes putc_internal *)
(* write outside of its frame (terminal.c does not exclude it); no other   *)
(* character, clear_terminal or switch does, whatever came before.         *)
THEOREM OnlyErasingLeaves == Spec => LeavesByErasing
<1> DEFINE Leaves == outside' /\ ~outside =>
             \E t \in Terminals : InTopLeftCorner(Target(t)) /\ putc_internal(t, BACKSPACE)
<1>1. ConsoleInv /\ [Next]_vars => [Leaves]_vars
  <2> SUFFICES ASSUME ConsoleInv, Next, outside', ~outside
               PROVE  \E t \in Terminals : InTopLeftCorner(Target(t)) /\ putc_internal(t, BACKSPACE)
    BY Zenon
  <2>1. ASSUME NEW t \in Terminals, NEW ch \in Char, putc_internal(t, ch)
        PROVE  InTopLeftCorner(Target(t)) /\ putc_internal(t, BACKSPACE)
    BY <2>1, PutcLeaves, Zenon
  <2> QED BY <2>1, Zenon DEF Next, clear_terminal, switch_active_terminal
<1> QED BY <1>1, Invariance, PTL DEF Spec, LeavesByErasing

(* The cursor shown is the active terminal's (set_hardware_cursor).        *)
THEOREM HardwareCursor == Spec => []HardwareCursorFollows
<1>1. ConsoleInv => HardwareCursorFollows
  BY Zenon DEF ConsoleInv
<1> QED BY <1>1, Invariance, PTL
-----------------------------------------------------------------------------
(* The screens as the user is promised them.                               *)
screens == [t \in Terminals |->
              Screen(frame[get_terminal_output_buffer(t, active_terminal)],
                     cursor_location[t].x, cursor_location[t].y)]

(* Output changes the screen of one terminal: no two write to one frame.   *)
LEMMA SetScreenRefines ==
  ASSUME ConsoleInv, NEW t \in Terminals, NEW s \in Screens, SetScreen(t, s)
  PROVE  screens' = [screens EXCEPT ![t] = s]
<1>1. VIDEO_PHYS_ADDR \notin Terminals
  BY ConsoleAssumption DEF VIDEO_PHYS_ADDR, Terminals
<1>2. \A u \in Terminals : u # t =>
        get_terminal_output_buffer(u, active_terminal) # video_memory[t]
  BY <1>1, Zenon DEF ConsoleInv, WritesToOwnFrame, get_terminal_output_buffer
<1>3. ASSUME NEW u \in Terminals
      PROVE  screens'[u] = IF u = t THEN s ELSE screens[u]
  <2>1. CASE u = t
    <3>1. frame'[get_terminal_output_buffer(t, active_terminal)'] = s.grid
      BY DEF ConsoleInv, TypeOK, WritesToOwnFrame, SetScreen, get_terminal_output_buffer
    <3>2. cursor_location'[t] = [x |-> s.x, y |-> s.y]
      BY Zenon DEF SetScreen, set_hardware_cursor, ConsoleInv, TypeOK
    <3>3. s = [grid |-> s.grid, x |-> s.x, y |-> s.y]
      BY Zenon DEF Screens
    <3> QED BY <2>1, <3>1, <3>2, <3>3 DEF screens, Screen
  <2>2. CASE u # t
    BY <1>2, <2>2 DEF SetScreen, set_hardware_cursor, ConsoleInv, TypeOK, screens,
                      get_terminal_output_buffer
  <2> QED BY <2>1, <2>2, Zenon
<1> QED BY <1>3, Zenon DEF screens

(* A switch changes no terminal's screen: the copy out and the copy in     *)
(* carry every screen to the frame it now belongs to.                      *)
LEMMA SwitchRefines ==
  ASSUME ConsoleInv, NEW t \in Terminals, switch_active_terminal(t)
  PROVE  screens' = screens
<1>1. VIDEO_PHYS_ADDR \notin Terminals
  BY ConsoleAssumption DEF VIDEO_PHYS_ADDR, Terminals
<1>2. cursor_location' = cursor_location
  BY Zenon DEF switch_active_terminal, set_hardware_cursor, ConsoleInv, TypeOK
<1>3. ASSUME NEW u \in Terminals
      PROVE  frame'[get_terminal_output_buffer(u, active_terminal)']
               = frame[get_terminal_output_buffer(u, active_terminal)]
  <2> DEFINE saved == [frame EXCEPT ![active_terminal] = frame[VIDEO_PHYS_ADDR]]
  <2>1. /\ active_terminal' = t
        /\ frame' = [saved EXCEPT ![VIDEO_PHYS_ADDR] = saved[t]]
        /\ frame \in [Frames -> [CellIndices -> Glyphs]]
        /\ active_terminal \in Terminals
    BY Zenon DEF switch_active_terminal, ConsoleInv, TypeOK
  <2>2. CASE u = t
    BY <1>1, <2>1, <2>2, Zenon DEF get_terminal_output_buffer, Frames
  <2>3. CASE u # t
    BY <1>1, <2>1, <2>3, Zenon DEF get_terminal_output_buffer, Frames
  <2> QED BY <2>2, <2>3, Zenon
<1> QED BY <1>2, <1>3, Zenon DEF screens

(* The instance of TerminalScreens has the cell operators of this module.  *)
LEMMA SameCells ==
  /\ Abstract!Char = Char
  /\ Abstract!Screen(Abstract!BlankGrid, 0, 0) = Screen(BlankGrid, 0, 0)
  /\ Abstract!BACKSPACE = BACKSPACE
  /\ \A s : Abstract!InTopLeftCorner(s) = InTopLeftCorner(s)
  /\ \A s, ch : Abstract!PutChar(s, ch) = PutChar(s, ch)
<1> USE DEF Abstract!BLANK, BLANK, Abstract!NEWLINE, NEWLINE, Abstract!TAB, TAB,
            Abstract!BACKSPACE, BACKSPACE, Abstract!CellIndices, CellIndices,
            Abstract!Screen, Screen, Abstract!VIDEO_INDEX, VIDEO_INDEX,
            Abstract!video_buffer_putc, video_buffer_putc, Abstract!Above, Above,
            Abstract!LAST_BYTE, LAST_BYTE
<1>1. Abstract!Char = Char
  BY Zenon DEF Abstract!Char, Char
<1>2. Abstract!Screen(Abstract!BlankGrid, 0, 0) = Screen(BlankGrid, 0, 0)
  BY Zenon DEF Abstract!BlankGrid, BlankGrid
<1>3. \A s : Abstract!InTopLeftCorner(s) = InTopLeftCorner(s)
  BY Zenon DEF Abstract!InTopLeftCorner, InTopLeftCorner
<1>4. \A s : Abstract!NextRow(s) = NextRow(s)
  BY Zenon DEF Abstract!NextRow, NextRow, Abstract!scroll_screen, scroll_screen
<1>5. \A s : Abstract!Erase(s) = Erase(s)
  BY Zenon DEF Abstract!Erase, Erase
<1>6. \A s, ch : Abstract!Show(s, ch) = Show(s, ch)
  BY <1>4, Zenon DEF Abstract!Show, Show
<1>7. \A s, ch : Abstract!PutChar(s, ch) = PutChar(s, ch)
  BY <1>4, <1>5, <1>6, Zenon DEF Abstract!PutChar, PutChar
<1> QED BY <1>1, <1>2, <1>3, <1>7, Zenon

LEMMA StepRefines == ConsoleInv /\ [Next]_vars => [Abstract!Next]_(Abstract!vars)
<1> SUFFICES ASSUME ConsoleInv, [Next]_vars
             PROVE  [Abstract!Next]_(Abstract!vars)
  BY Zenon
<1>0. \A t \in Terminals : screens[t] = Target(t)
  BY Zenon DEF screens, Target, ConsoleInv, WritesToOwnFrame
<1> USE DEF Abstract!Next, Abstract!vars, Abstract!Terminals, Terminals
<1>1. ASSUME ~outside, NEW t \in Terminals, NEW ch \in Char, putc_internal(t, ch)
      PROVE  Abstract!Next
  <2>1. CASE outside'
    <3>1. InTopLeftCorner(screens[t])
      BY <1>0, <1>1, <2>1, PutcLeaves, Zenon
    <3>2. Abstract!EraseTooFar(t)
      BY <2>1, <3>1, SameCells, Zenon DEF Abstract!EraseTooFar, screens
    <3> QED BY <3>2, Zenon
  <2>2. CASE ~outside'
    <3>1. screens' = [screens EXCEPT ![t] = PutChar(screens[t], ch)]
      BY <1>0, <1>1, <2>2, PutcSets, SetScreenRefines, Zenon
    <3>2. ~(ch = BACKSPACE /\ InTopLeftCorner(screens[t]))
      BY <1>0, <1>1, <2>2, TargetType, WritesMiss, Zenon DEF putc_internal
    <3>3. active_terminal' = active_terminal /\ outside' = outside
      BY <1>1, <2>2, PutcSets, Zenon DEF SetScreen
    <3>4. Abstract!Output(t, ch)
      BY <3>1, <3>2, <3>3, SameCells, Zenon DEF Abstract!Output, screens
    <3> QED BY <3>4, SameCells, Zenon
  <2> QED BY <2>1, <2>2, Zenon
<1>2. ASSUME NEW t \in Terminals, clear_terminal(t) PROVE Abstract!Next
  <2>1. screens' = [screens EXCEPT ![t] = Screen(BlankGrid, 0, 0)]
    BY <1>2, ClearSets, SetScreenRefines, Zenon
  <2>2. Abstract!Clear(t)
    BY <1>2, <2>1, SameCells, Zenon DEF Abstract!Clear, clear_terminal, screens
  <2> QED BY <2>2, Zenon
<1>3. ASSUME NEW t \in Terminals, switch_active_terminal(t) PROVE Abstract!Next
  <2>1. Abstract!Select(t)
    BY <1>3, SwitchRefines, Zenon DEF Abstract!Select, switch_active_terminal, screens
  <2> QED BY <2>1, Zenon
<1>4. CASE UNCHANGED vars
  BY <1>4, Zenon DEF vars, get_terminal_output_buffer
<1> QED BY <1>1, <1>2, <1>3, <1>4, Zenon DEF Next

(* One display shared by all terminals implements a display for each of    *)
(* them (switch_active_terminal, get_terminal_output_buffer).              *)
THEOREM Refinement == Spec => ImplementsScreens
<1>1. Init => Abstract!Init
  <2> SUFFICES ASSUME Init PROVE Abstract!Init
    OBVIOUS
  <2>1. screens = [t \in Terminals |-> Screen(BlankGrid, 0, 0)]
    BY Zenon DEF Init, multiple_terminal_init, screens, get_terminal_output_buffer
  <2> QED BY <2>1, SameCells, Zenon
             DEF Abstract!Init, Abstract!Terminals, Terminals, screens,
                      Init, multiple_terminal_init
<1> QED BY <1>1, StepRefines, Invariance, PTL
      DEF Spec, ImplementsScreens, Abstract!Spec

-----------------------------------------------------------------------------
(* The keyboard.  The bytes of the line that is typed when the first n of  *)
(* buffer have been printed go before the cursor of a screen, and if the   *)
(* terminal t is one of own they are there.                                *)
Cursor(s) == VIDEO_INDEX(s.x, s.y)
Cell(s, n, k) == Cursor(s) - 1 - (n - k)
Shows(s, buffer, n, t, O) ==
  \A k \in Typed(buffer, n) :
    Cell(s, n, k) >= 0 /\ (t \in O => s.grid[Cell(s, n, k)] = buffer[k])

(* The bytes that keyboard_putc puts in a buffer.                          *)
Byte == {"l", "L", NEWLINE}

(* How many bytes of its buffer are on the screen of t.                    *)
Printed(t) ==
  IF at = "reprint" /\ t = terminal_num
    THEN Len(input_buffer[t]) - Len(reprint) ELSE Len(input_buffer[t])

(* Only Enter fills a buffer.                                              *)
Fits(buffer) ==
  /\ Len(buffer) <= KEYBOARD_BUFFER_SIZE
  /\ Len(buffer) = KEYBOARD_BUFFER_SIZE => buffer[Len(buffer)] = NEWLINE

(* Ctrl+L still has to print the end of the buffer.                        *)
EndOf(rest, buffer) ==
  /\ Len(rest) <= Len(buffer)
  /\ \A i \in 1 .. Len(rest) : rest[i] = buffer[Len(buffer) - Len(rest) + i]

(* There is room for the line before the cursor, so that it can be erased, *)
(* also when other output has joined it, unless that output erases.        *)
HasLine(t) ==
  t \in own \/ BACKSPACE \notin Outputs =>
    Shows(screens[t], input_buffer[t], Printed(t), t, own)

Buffers ==
  /\ input_buffer \in [Terminals -> Seq(Byte)]
  /\ \A t \in Terminals : Fits(input_buffer[t])
  /\ at \in {"idle", "loop", "reprint"}
  /\ terminal_num \in Terminals
  /\ reprint \in Seq(Byte)
  /\ at = "reprint" => EndOf(reprint, input_buffer[terminal_num])
  /\ own \subseteq Terminals

KeyboardInv ==
  /\ ConsoleInv
  /\ Buffers
  /\ BACKSPACE \notin Outputs => ~outside
  /\ ~outside => \A t \in Terminals : HasLine(t)

-----------------------------------------------------------------------------
(* A cursor on the screen, and the rows as multiples of the columns.       *)
LEMMA RowFacts ==
  ASSUME NEW x \in 0 .. TERMINAL_COLUMNS - 1, NEW y \in 0 .. TERMINAL_ROWS - 1
  PROVE  /\ TERMINAL_COLUMNS \in Nat \ {0} /\ TERMINAL_ROWS \in Nat \ {0}
         /\ TERMINAL_COLUMNS * (TERMINAL_ROWS - 1) = TERMINAL_COLUMNS * TERMINAL_ROWS - TERMINAL_COLUMNS
         /\ TERMINAL_COLUMNS * TERMINAL_ROWS \in Nat
         /\ y * TERMINAL_COLUMNS \in Nat
         /\ (y + 1) * TERMINAL_COLUMNS = y * TERMINAL_COLUMNS + TERMINAL_COLUMNS
         /\ (y - 1) * TERMINAL_COLUMNS = y * TERMINAL_COLUMNS - TERMINAL_COLUMNS
         /\ (TERMINAL_ROWS - 1) * TERMINAL_COLUMNS = TERMINAL_COLUMNS * (TERMINAL_ROWS - 1)
         /\ y + 1 >= TERMINAL_ROWS => y = TERMINAL_ROWS - 1
<1>1. TERMINAL_COLUMNS \in Nat \ {0} /\ TERMINAL_ROWS \in Nat \ {0}
  BY Sizes, Zenon
<1>2. y \in Nat
  BY <1>1
<1> QED BY <1>1, <1>2

(* A character shown moves the cursor on by one, and all that is before it *)
(* back by nothing or, when the screen scrolls, by a row.                  *)
LEMMA ShowAdvances ==
  ASSUME NEW s \in Screens, NEW ch \in Glyphs
  PROVE  \E d \in {0, TERMINAL_COLUMNS} :
           /\ Cursor(Show(s, ch)) = Cursor(s) + 1 - d
           /\ d # 0 => Cursor(Show(s, ch)) = TERMINAL_COLUMNS * (TERMINAL_ROWS - 1)
           /\ \A i \in Nat : i < Cursor(Show(s, ch)) =>
                Show(s, ch).grid[i] = IF i + d = Cursor(s) THEN ch ELSE s.grid[i + d]
<1> DEFINE C == TERMINAL_COLUMNS
           R == TERMINAL_ROWS
           c == Cursor(s)
           g == [s.grid EXCEPT ![c] = ch]
<1>1. s.x \in 0 .. C - 1 /\ s.y \in 0 .. R - 1 /\ s.grid \in [CellIndices -> Glyphs]
  BY Zenon DEF Screens
<1>2. /\ C \in Nat \ {0} /\ R \in Nat \ {0} /\ C * (R - 1) = C * R - C /\ C * R \in Nat
      /\ s.y * C \in Nat /\ (s.y + 1) * C = s.y * C + C /\ (R - 1) * C = C * (R - 1)
      /\ s.y + 1 >= R => s.y = R - 1
  BY <1>1, RowFacts, Zenon
<1>3. c = s.y * C + s.x /\ c \in CellIndices
  BY <1>1, VideoIndexType, Zenon DEF Cursor, VIDEO_INDEX
<1>4. video_buffer_putc(s.grid, s.x, s.y, ch) = g
  BY <1>3, Zenon DEF video_buffer_putc, Cursor
<1>5. \A i \in CellIndices : g[i] = IF i = c THEN ch ELSE s.grid[i]
  BY <1>1, Zenon
<1> HIDE DEF c, g
<1>6. CASE ~(s.x + 1 >= C)
  <2>1. Show(s, ch) = Screen(g, s.x + 1, s.y)
    BY <1>4, <1>6, Zenon DEF Show
  <2>2. Cursor(Show(s, ch)) = c + 1 /\ Show(s, ch).grid = g
    BY <1>1, <1>2, <1>3, <2>1 DEF Screen, Cursor, VIDEO_INDEX
  <2>3. ASSUME NEW i \in Nat, i < c + 1 PROVE g[i] = IF i + 0 = c THEN ch ELSE s.grid[i + 0]
    BY <1>2, <1>3, <1>5, <2>3 DEF CellIndices
  <2>4. c + 1 = c + 1 - 0
    BY <1>3 DEF CellIndices
  <2> QED BY <2>2, <2>3, <2>4, Zenon DEF c
<1>7. CASE s.x + 1 >= C /\ ~(s.y + 1 >= R)
  <2>1. Show(s, ch) = Screen(g, 0, s.y + 1)
    BY <1>4, <1>7, Zenon DEF Show, NextRow, Screen
  <2>2. Cursor(Show(s, ch)) = c + 1 /\ Show(s, ch).grid = g
    BY <1>1, <1>2, <1>3, <1>7, <2>1 DEF Screen, Cursor, VIDEO_INDEX
  <2>3. ASSUME NEW i \in Nat, i < c + 1 PROVE g[i] = IF i + 0 = c THEN ch ELSE s.grid[i + 0]
    BY <1>2, <1>3, <1>5, <2>3 DEF CellIndices
  <2>4. c + 1 = c + 1 - 0
    BY <1>3 DEF CellIndices
  <2> QED BY <2>2, <2>3, <2>4 DEF c
<1>8. CASE s.x + 1 >= C /\ s.y + 1 >= R
  <2>1. Show(s, ch) = Screen(scroll_screen(g), 0, R - 1)
    BY <1>4, <1>8, Zenon DEF Show, NextRow, Screen
  <2>2. Cursor(Show(s, ch)) = C * (R - 1) /\ Show(s, ch).grid = scroll_screen(g)
    BY <1>1, <1>2, <2>1 DEF Screen, Cursor, VIDEO_INDEX
  <2>3. C * (R - 1) = c + 1 - C
    BY <1>1, <1>2, <1>3, <1>8
  <2>4. ASSUME NEW i \in Nat, i < C * (R - 1)
        PROVE  scroll_screen(g)[i] = IF i + C = c THEN ch ELSE s.grid[i + C]
    <3>1. i \in CellIndices /\ i + C \in CellIndices
      BY <1>2, <2>4 DEF CellIndices
    <3>2. scroll_screen(g)[i] = g[i + C]
      BY <2>4, <3>1, Zenon DEF scroll_screen
    <3> QED BY <1>5, <3>1, <3>2, Zenon
  <2> QED BY <2>2, <2>3, <2>4, Zenon DEF c
<1> QED BY <1>6, <1>7, <1>8, Zenon

(* Erasing moves it back by one.                                           *)
LEMMA EraseReturns ==
  ASSUME NEW s \in Screens, Cursor(s) > 0
  PROVE  /\ Cursor(Erase(s)) = Cursor(s) - 1
         /\ \A i \in Nat : i < Cursor(s) - 1 => Erase(s).grid[i] = s.grid[i]
<1> DEFINE C == TERMINAL_COLUMNS
           R == TERMINAL_ROWS
           c == Cursor(s)
           g == [s.grid EXCEPT ![c - 1] = BLANK]
<1>1. s.x \in 0 .. C - 1 /\ s.y \in 0 .. R - 1 /\ s.grid \in [CellIndices -> Glyphs]
  BY Zenon DEF Screens
<1>2. C \in Nat \ {0} /\ s.y * C \in Nat /\ (s.y - 1) * C = s.y * C - C
  BY <1>1, RowFacts, Zenon
<1>3. c = s.y * C + s.x /\ c \in CellIndices /\ c > 0
  BY <1>1, VideoIndexType, Zenon DEF Cursor, VIDEO_INDEX
<1>4. \A i \in Nat : i < c - 1 => g[i] = s.grid[i]
  BY <1>1, <1>3 DEF CellIndices
<1> HIDE DEF c
<1>7. c - 1 \in CellIndices
  BY <1>3, Sizes DEF CellIndices
<1>5. CASE s.x = 0
  <2>1. VIDEO_INDEX(C - 1, s.y - 1) = c - 1 /\ s.y # 0
    BY <1>1, <1>2, <1>3, <1>5 DEF VIDEO_INDEX
  <2>2. Erase(s) = Screen(g, C - 1, s.y - 1)
    BY <1>5, <1>7, <2>1, Zenon DEF Erase, video_buffer_putc, Above
  <2> QED BY <1>4, <2>1, <2>2 DEF Screen, Cursor, c
<1>6. CASE s.x # 0
  <2>1. VIDEO_INDEX(s.x - 1, s.y) = c - 1
    BY <1>1, <1>2, <1>3, <1>6 DEF VIDEO_INDEX
  <2>2. Erase(s) = Screen(g, s.x - 1, s.y)
    BY <1>6, <1>7, <2>1, Zenon DEF Erase, video_buffer_putc
  <2> QED BY <1>4, <2>1, <2>2 DEF Screen, Cursor, c
<1> QED BY <1>5, <1>6, Zenon

-----------------------------------------------------------------------------
LEMMA CursorType == \A s \in Screens : Cursor(s) \in Nat
<1> SUFFICES ASSUME NEW s \in Screens PROVE Cursor(s) \in Nat
  BY Zenon
<1>1. Cursor(s) \in CellIndices
  BY VideoIndexType, Zenon DEF Cursor, Screens
<1> QED BY <1>1 DEF CellIndices

(* The next byte is printed: it joins the line before the cursor, which    *)
(* still fits on the screen when it scrolls.                               *)
LEMMA CharShown ==
  ASSUME NEW s \in Screens, NEW buffer, NEW n \in Nat, NEW t, NEW O,
         n + 1 < KEYBOARD_BUFFER_SIZE, buffer[n + 1] \in Glyphs, Shows(s, buffer, n, t, O)
  PROVE  Shows(Show(s, buffer[n + 1]), buffer, n + 1, t, O)
<1> DEFINE ch == buffer[n + 1]
           u == Show(s, ch)
           last == TERMINAL_COLUMNS * (TERMINAL_ROWS - 1)
<1>1. PICK d \in {0, TERMINAL_COLUMNS} :
        /\ Cursor(u) = Cursor(s) + 1 - d
        /\ d # 0 => Cursor(u) = last
        /\ \A i \in Nat : i < Cursor(u) =>
             u.grid[i] = IF i + d = Cursor(s) THEN ch ELSE s.grid[i + d]
  BY ShowAdvances, Zenon
<1> HIDE DEF u, ch
<1>2. Cursor(s) \in Nat /\ d \in Nat
  BY CursorType, Sizes
<1>3. last \in Int /\ n + 1 <= last
  BY KeyboardAssumption, Sizes
<1> HIDE DEF last
<1>4. ASSUME NEW k \in Typed(buffer, n + 1)
      PROVE  Cell(u, n + 1, k) >= 0 /\ (t \in O => u.grid[Cell(u, n + 1, k)] = buffer[k])
  <2> DEFINE i == Cell(u, n + 1, k)
  <2>1. k \in 1 .. n + 1 /\ \A j \in k .. n + 1 : buffer[j] # NEWLINE
    BY Zenon DEF Typed
  <2>2. i = Cursor(s) - d - ((n + 1) - k) /\ i < Cursor(u) /\ i \in Int
    BY <1>1, <1>2, <2>1 DEF Cell
  <2>3. CASE k = n + 1
    <3>1. i = Cursor(s) - d
      BY <1>2, <2>2, <2>3
    <3>2. i >= 0
      BY <1>1, <1>2, <1>3, <3>1
    <3> HIDE DEF i
    <3>3. i \in Nat /\ i + d = Cursor(s)
      BY <1>2, <2>2, <3>1, <3>2
    <3>4. u.grid[i] = ch
      BY <1>1, <2>2, <3>3, Zenon
    <3> QED BY <2>3, <3>2, <3>4, Zenon DEF i, ch
  <2>4. CASE k # n + 1
    <3>1. k \in Typed(buffer, n)
      BY <2>1, <2>4 DEF Typed
    <3>2. Cell(s, n, k) >= 0 /\ (t \in O => s.grid[Cell(s, n, k)] = buffer[k])
      BY <3>1, Zenon DEF Shows
    <3>3. i + d = Cell(s, n, k) /\ i + d # Cursor(s)
      BY <1>2, <2>1, <2>2, <2>4 DEF Cell
    <3>4. i >= 0
      <4>1. CASE d = 0
        BY <2>2, <3>2, <3>3, <4>1
      <4>2. CASE d # 0
        BY <1>1, <1>2, <1>3, <2>1, <2>2, <4>2
      <4> QED BY <4>1, <4>2, Zenon
    <3> HIDE DEF i
    <3>5. u.grid[i] = s.grid[i + d]
      BY <1>1, <2>2, <3>3, <3>4
    <3> QED BY <3>2, <3>3, <3>4, <3>5, Zenon DEF i
  <2> QED BY <2>3, <2>4, Zenon
<1>5. Shows(u, buffer, n + 1, t, O)
  BY <1>4, Zenon DEF Shows
<1> QED BY <1>5, Zenon DEF u, ch

(* Enter ends the line: nothing of the next one is typed yet.              *)
LEMMA NewlineShown ==
  ASSUME NEW s, NEW buffer, NEW n \in Nat, n > 0 => buffer[n] = NEWLINE, NEW t, NEW O
  PROVE  Shows(s, buffer, n, t, O)
<1>1. Typed(buffer, n) = {}
  BY DEF Typed
<1> QED BY <1>1, Zenon DEF Shows

(* A line that is not empty keeps the cursor out of the corner,            *)
LEMMA BehindTheLine ==
  ASSUME NEW s \in Screens, NEW buffer, NEW n \in Nat, n > 0, buffer[n] # NEWLINE,
         NEW t, NEW O, Shows(s, buffer, n, t, O)
  PROVE  Cursor(s) > 0 /\ ~InTopLeftCorner(s)
<1>1. Cursor(s) \in Nat
  BY CursorType, Zenon
<1>2. n \in Typed(buffer, n)
  BY DEF Typed
<1>3. Cell(s, n, n) >= 0
  BY <1>2, Zenon DEF Shows
<1>4. Cursor(s) > 0
  BY <1>1, <1>3 DEF Cell
<1>5. InTopLeftCorner(s) => Cursor(s) = 0
  BY Sizes DEF InTopLeftCorner, Cursor, VIDEO_INDEX
<1> QED BY <1>4, <1>5

(* and can be erased.                                                      *)
LEMMA CharErased ==
  ASSUME NEW s \in Screens, NEW buffer, NEW n \in Nat, n > 0, buffer[n] # NEWLINE,
         NEW t, NEW O, Shows(s, buffer, n, t, O)
  PROVE  Shows(Erase(s), buffer, n - 1, t, O)
<1>1. Cursor(s) \in Nat
  BY CursorType, Zenon
<1>2. Cursor(s) > 0
  BY BehindTheLine, Zenon
<1>3. /\ Cursor(Erase(s)) = Cursor(s) - 1
      /\ \A i \in Nat : i < Cursor(s) - 1 => Erase(s).grid[i] = s.grid[i]
  BY <1>2, EraseReturns, Zenon
<1>4. ASSUME NEW k \in Typed(buffer, n - 1)
      PROVE  /\ Cell(Erase(s), n - 1, k) >= 0
             /\ t \in O => Erase(s).grid[Cell(Erase(s), n - 1, k)] = buffer[k]
  <2>1. k \in 1 .. n - 1 /\ k \in Typed(buffer, n)
    BY DEF Typed
  <2>2. Cell(s, n, k) >= 0 /\ (t \in O => s.grid[Cell(s, n, k)] = buffer[k])
    BY <2>1, Zenon DEF Shows
  <2>3. /\ Cell(Erase(s), n - 1, k) = Cell(s, n, k)
        /\ Cell(s, n, k) < Cursor(s) - 1 /\ Cell(s, n, k) \in Int
    BY <1>1, <1>3, <2>1 DEF Cell
  <2>4. Cell(s, n, k) \in Nat
    BY <2>2, <2>3
  <2> QED BY <1>3, <2>2, <2>3, <2>4, Zenon
<1> QED BY <1>4, Zenon DEF Shows

(* Output that does not erase moves the cursor on, or leaves it at the     *)
(* start of the last row,                                                  *)
LEMMA OutputAdvances ==
  ASSUME NEW s \in Screens, NEW ch \in Char, ch # BACKSPACE
  PROVE  \/ Cursor(PutChar(s, ch)) >= Cursor(s)
         \/ Cursor(PutChar(s, ch)) = TERMINAL_COLUMNS * (TERMINAL_ROWS - 1)
<1> DEFINE C == TERMINAL_COLUMNS
           R == TERMINAL_ROWS
<1>1. s.x \in 0 .. C - 1 /\ s.y \in 0 .. R - 1 /\ Cursor(s) \in Nat
  BY CursorType, Zenon DEF Screens
<1>2. CASE ch = NEWLINE
  <2>1. PutChar(s, ch) = NextRow(s)
    BY <1>2, Zenon DEF PutChar, NEWLINE, BACKSPACE, TAB
  <2>2. /\ C \in Nat \ {0} /\ s.y * C \in Nat /\ (s.y + 1) * C = s.y * C + C
        /\ (R - 1) * C = C * (R - 1) /\ C * (R - 1) \in Int
    BY <1>1, RowFacts, Sizes
  <2>3. CASE s.y + 1 >= R
    BY <2>1, <2>2, <2>3 DEF NextRow, Screen, Cursor, VIDEO_INDEX
  <2>4. CASE ~(s.y + 1 >= R)
    BY <1>1, <2>1, <2>2, <2>4 DEF NextRow, Screen, Cursor, VIDEO_INDEX
  <2> QED BY <2>3, <2>4, Zenon
<1>3. CASE ch = TAB
  <2>1. PutChar(s, ch) = s
    BY <1>3, Zenon DEF PutChar, NEWLINE, BACKSPACE, TAB
  <2> QED BY <1>1, <2>1
<1>4. CASE ch \notin {NEWLINE, TAB}
  <2>1. ch \in Glyphs /\ PutChar(s, ch) = Show(s, ch)
    BY <1>4, Zenon DEF PutChar, Char
  <2>2. PICK d \in {0, C} :
          /\ Cursor(Show(s, ch)) = Cursor(s) + 1 - d
          /\ d # 0 => Cursor(Show(s, ch)) = C * (R - 1)
    BY <2>1, ShowAdvances, Zenon
  <2> HIDE DEF C
  <2> QED BY <1>1, <2>1, <2>2 DEF C
<1> QED BY <1>2, <1>3, <1>4, Zenon

(* which leaves room for a line that leaves a row free.                    *)
LEMMA OutputLeavesRoom ==
  ASSUME NEW s \in Screens, NEW ch \in Char, ch # BACKSPACE,
         NEW buffer \in Seq(Byte), Fits(buffer), NEW t, NEW O, NEW P, t \notin P,
         Shows(s, buffer, Len(buffer), t, O)
  PROVE  Shows(PutChar(s, ch), buffer, Len(buffer), t, P)
<1> DEFINE u == PutChar(s, ch)
           n == Len(buffer)
           last == TERMINAL_COLUMNS * (TERMINAL_ROWS - 1)
<1>1. Cursor(s) \in Nat /\ Cursor(u) \in Nat /\ n \in Nat
  <2>1. u \in Screens
    BY PutCharType, Zenon
  <2>2. n \in Nat
    OBVIOUS
  <2> QED BY <2>1, <2>2, CursorType, Zenon
<1>2. Cursor(u) >= Cursor(s) \/ Cursor(u) = last
  BY OutputAdvances, Zenon
<1>3. last \in Int /\ KEYBOARD_BUFFER_SIZE \in Nat /\ KEYBOARD_BUFFER_SIZE - 1 <= last
  BY KeyboardAssumption, Sizes
<1> HIDE DEF last, u
<1>4. ASSUME NEW k \in Typed(buffer, n) PROVE Cell(u, n, k) >= 0
  <2>1. k \in 1 .. n /\ \A j \in k .. n : buffer[j] # NEWLINE
    BY Zenon DEF Typed
  <2>2. Cell(s, n, k) >= 0
    BY Zenon DEF Shows
  <2>3. n <= KEYBOARD_BUFFER_SIZE - 1
    <3>1. n \in k .. n
      BY <1>1, <2>1
    <3>2. buffer[n] # NEWLINE
      BY <2>1, <3>1, Zenon
    <3>3. n <= KEYBOARD_BUFFER_SIZE /\ n # KEYBOARD_BUFFER_SIZE
      BY <3>2, Zenon DEF Fits
    <3> QED BY <1>1, <1>3, <3>3
  <2> HIDE DEF n
  <2> QED BY <1>1, <1>2, <1>3, <2>1, <2>2, <2>3 DEF Cell
<1> QED BY <1>4, Zenon DEF Shows, u

(* Only the bytes of the line matter, and how many follow each.            *)
LEMMA SameLine ==
  ASSUME NEW s, Cursor(s) \in Nat, NEW b1, NEW b2, NEW n \in Nat, NEW m \in Nat, m <= n,
         NEW t, NEW O,
         \A k \in 1 .. m : b2[k] = b1[(n - m) + k],
         Shows(s, b1, n, t, O)
  PROVE  Shows(s, b2, m, t, O)
<1>1. ASSUME NEW k \in Typed(b2, m)
      PROVE  Cell(s, m, k) >= 0 /\ (t \in O => s.grid[Cell(s, m, k)] = b2[k])
  <2>1. k \in 1 .. m /\ \A j \in k .. m : b2[j] # NEWLINE
    BY Zenon DEF Typed
  <2> DEFINE l == (n - m) + k
  <2>2. l \in 1 .. n
    BY <2>1
  <2>3. ASSUME NEW j \in l .. n PROVE b1[j] # NEWLINE
    <3>1. j - (n - m) \in k .. m /\ j - (n - m) \in 1 .. m /\ (n - m) + (j - (n - m)) = j
      BY <2>1, <2>2
    <3>2. b2[j - (n - m)] = b1[(n - m) + (j - (n - m))]
      BY <3>1, Zenon
    <3> QED BY <2>1, <3>1, <3>2, Zenon
  <2>4. l \in Typed(b1, n)
    BY <2>2, <2>3, Zenon DEF Typed
  <2>5. Cell(s, n, l) = Cell(s, m, k) /\ b2[k] = b1[l]
    BY <2>1 DEF Cell
  <2> HIDE DEF l
  <2> QED BY <2>4, <2>5, Zenon DEF Shows
<1> QED BY <1>1, Zenon DEF Shows

-----------------------------------------------------------------------------
LEMMA ByteIsChar == Byte \subseteq Char /\ Byte \ {NEWLINE} \subseteq Glyphs
BY KeyboardAssumption, Zenon DEF Byte, Char, NEWLINE

LEMMA CharOfType == \A key : CharOf(key) \in Byte \cup {BACKSPACE, NONE}
BY Zenon DEF CharOf, keyboard_map, Byte

LEMMA TerminalType == KeyboardInv => Terminal \in Terminals
BY Zenon DEF KeyboardInv, Buffers, ConsoleInv, TypeOK, Terminal

LEMMA ScreensType ==
  ASSUME ConsoleInv, ~outside
  PROVE  \A t \in Terminals :
           screens[t] = Target(t) /\ screens[t] \in Screens /\ Cursor(screens[t]) \in Nat
<1>1. \A t \in Terminals : screens[t] = Target(t)
  BY Zenon DEF screens, Target, ConsoleInv, WritesToOwnFrame
<1> QED BY <1>1, TargetType, CursorType, Zenon

(* Output that does not erase in the corner.                               *)
LEMMA PutcInside ==
  ASSUME ConsoleInv, ~outside, NEW t \in Terminals, NEW ch \in Char, putc_internal(t, ch),
         ch = BACKSPACE => ~InTopLeftCorner(screens[t])
  PROVE  /\ ConsoleInv' /\ ~outside' /\ PutChar(screens[t], ch) \in Screens
         /\ screens' = [screens EXCEPT ![t] = PutChar(screens[t], ch)]
<1>1. screens[t] = Target(t)
  BY ScreensType, Zenon
<1>2. ~outside'
  BY <1>1, PutcLeaves, Zenon
<1> QED BY <1>1, <1>2, PutcSets, SetScreenInv, SetScreenRefines, Zenon

(* A step that neither prints nor types.                                   *)
LEMMA QuietKeeps ==
  ASSUME KeyboardInv, ConsoleInv', screens' = screens, outside' = outside,
         at \in {"idle", "loop"}, at' \in {"idle", "loop"}, terminal_num' \in Terminals,
         UNCHANGED <<reprint, input_buffer, own>>
  PROVE  KeyboardInv'
<1>1. \A t \in Terminals : Printed(t)' = Printed(t)
  BY Zenon DEF Printed
<1>2. \A t \in Terminals : HasLine(t) => HasLine(t)'
  BY <1>1, Zenon DEF HasLine
<1>3. Buffers'
  BY Zenon DEF KeyboardInv, Buffers
<1> QED BY <1>2, <1>3, Zenon DEF KeyboardInv

(* Output to one terminal leaves the others' screens as they are.          *)
LEMMA OthersShow ==
  ASSUME NEW t \in Terminals, NEW s, screens' = [screens EXCEPT ![t] = s],
         NEW u \in Terminals, u # t, HasLine(u),
         input_buffer'[u] = input_buffer[u], Printed(u)' = Printed(u),
         u \in own' <=> u \in own
  PROVE  HasLine(u)'
<1>1. screens'[u] = screens[u]
  BY Zenon DEF screens
<1> QED BY <1>1, Zenon DEF HasLine, Shows

LEMMA SelfSet ==
  ASSUME NEW t \in Terminals, NEW s, screens' = [screens EXCEPT ![t] = s]
  PROVE  screens'[t] = s
BY Zenon DEF screens

LEMMA CtrlLKeeps ==
  ASSUME KeyboardInv, ~outside, NEW key, key_ctrl_l(key)
  PROVE  KeyboardInv'
<1> DEFINE s == Screen(BlankGrid, 0, 0)
<1>0. PICK t \in Terminals : t = Terminal
  BY TerminalType, Zenon
<1>1. /\ at \in {"idle", "loop"} /\ terminal_num' = t /\ at' = "reprint"
      /\ clear_terminal(t) /\ reprint' = input_buffer[t] /\ own' = own \cup {t}
      /\ UNCHANGED input_buffer /\ ConsoleInv
  BY <1>0, Zenon DEF key_ctrl_l, Pressed, Turn, Buffer, KeyboardInv
<1>2. s \in Screens /\ SetScreen(t, s) /\ ~outside'
  BY <1>1, ClearSets, Zenon DEF SetScreen
<1>3. ConsoleInv' /\ screens' = [screens EXCEPT ![t] = s]
  BY <1>1, <1>2, SetScreenInv, SetScreenRefines, Zenon
<1>4. input_buffer[t] \in Seq(Byte) /\ Len(input_buffer[t]) \in Nat
  BY <1>1 DEF KeyboardInv, Buffers
<1>5. EndOf(reprint', input_buffer'[t])
  BY <1>1, <1>4 DEF EndOf
<1>6. Printed(t)' = 0
  BY <1>1, <1>4 DEF Printed
<1>7. HasLine(t)'
  <2>1. Shows(screens'[t], input_buffer'[t], Printed(t)', t, own')
    BY <1>6, NewlineShown
  <2> QED BY <2>1, Zenon DEF HasLine
<1>8. ASSUME NEW u \in Terminals, u # t PROVE HasLine(u)'
  <2>1. Printed(u)' = Printed(u)
    BY <1>1, <1>8, Zenon DEF Printed
  <2>2. HasLine(u) /\ (u \in own' <=> u \in own)
    BY <1>1, <1>8, Zenon DEF KeyboardInv
  <2> QED BY <1>1, <1>3, <1>8, <2>1, <2>2, OthersShow, Zenon
<1>9. Buffers'
  BY <1>1, <1>4, <1>5, Zenon DEF KeyboardInv, Buffers
<1> QED BY <1>2, <1>3, <1>7, <1>8, <1>9, Zenon DEF KeyboardInv

(* Ctrl+L prints one more byte, or is done.                                *)
LEMMA ReprintKeeps ==
  ASSUME KeyboardInv, ~outside, reprint_char
  PROVE  KeyboardInv'
<1> DEFINE t == terminal_num
           b == input_buffer[t]
           n == Len(b) - Len(reprint)
<1>1. /\ at = "reprint" /\ t \in Terminals /\ UNCHANGED <<terminal_num, input_buffer, own>>
      /\ ConsoleInv /\ b \in Seq(Byte) /\ reprint \in Seq(Byte) /\ EndOf(reprint, b) /\ Fits(b)
  BY Zenon DEF reprint_char, KeyboardInv, Buffers
<1>2. Len(b) \in Nat /\ Len(reprint) \in Nat /\ n \in Nat
  BY <1>1 DEF EndOf
<1>3. CASE reprint = << >>
  <2>1. at' = "loop" /\ UNCHANGED <<reprint, vars>>
    BY <1>3, Zenon DEF reprint_char
  <2>2. \A u \in Terminals : Printed(u)' = Printed(u)
    BY <1>1, <1>2, <1>3, <2>1 DEF Printed
  <2>3. ConsoleInv' /\ screens' = screens /\ outside' = outside
    BY <1>1, <2>1, NextInv, Zenon DEF vars, screens, get_terminal_output_buffer
  <2>4. \A u \in Terminals : HasLine(u)'
    BY <1>1, <2>2, <2>3, Zenon DEF KeyboardInv, HasLine
  <2>5. Buffers'
    BY <1>1, <2>1, Zenon DEF KeyboardInv, Buffers
  <2> QED BY <2>3, <2>4, <2>5, Zenon DEF KeyboardInv
<1>4. CASE reprint # << >>
  <2> DEFINE ch == Head(reprint)
             s == PutChar(screens[t], ch)
  <2>1. at' = at /\ putc_internal(t, ch) /\ reprint' = Tail(reprint)
    BY <1>4, Zenon DEF reprint_char
  <2>2. Len(reprint) > 0 /\ Len(Tail(reprint)) = Len(reprint) - 1 /\ Tail(reprint) \in Seq(Byte)
        /\ ch = reprint[1] /\ ch \in Byte
        /\ \A i \in 1 .. Len(reprint) - 1 : Tail(reprint)[i] = reprint[i + 1]
    BY <1>1, <1>4
  <2>3. b[n + 1] = ch
    BY <1>1, <1>2, <2>2 DEF EndOf
  <2>4. EndOf(reprint', b)
    BY <1>1, <1>2, <2>1, <2>2 DEF EndOf
  <2>5. screens[t] \in Screens
    BY <1>1, ScreensType, Zenon
  <2> HIDE DEF ch
  <2>6. ConsoleInv' /\ ~outside' /\ screens' = [screens EXCEPT ![t] = s]
    <3>1. ch \in Char /\ ch # BACKSPACE
      BY <2>2, ByteIsChar, Zenon DEF Byte, NEWLINE, BACKSPACE
    <3> QED BY <1>1, <2>1, <3>1, PutcInside, Zenon
  <2>7. Printed(t) = n /\ Printed(t)' = n + 1
    BY <1>1, <1>2, <2>1, <2>2 DEF Printed
  <2>8. ASSUME Shows(screens[t], b, n, t, own) PROVE Shows(s, b, n + 1, t, own)
    <3>2. CASE ch = NEWLINE
      BY <1>2, <2>3, <3>2, NewlineShown
    <3>3. CASE ch # NEWLINE
      <4>1. ch \in Glyphs /\ ch \notin {BACKSPACE, NEWLINE, TAB}
        BY <2>2, <3>3, ByteIsChar, CellsAssumption, Zenon
      <4>2. s = Show(screens[t], b[n + 1])
        BY <2>3, <4>1, Zenon DEF PutChar
      <4>3. n + 1 < KEYBOARD_BUFFER_SIZE
        <5>1. n + 1 <= Len(b) /\ (n + 1 = Len(b) => b[Len(b)] # NEWLINE)
          BY <1>2, <2>2, <2>3, <3>3
        <5> HIDE DEF b, n
        <5> QED BY <1>1, <1>2, <5>1, KeyboardAssumption DEF Fits
      <4> HIDE DEF b, n, s, t
      <4> QED BY <1>2, <2>3, <2>5, <2>8, <4>1, <4>2, <4>3, CharShown, Zenon
    <3> QED BY <3>2, <3>3, Zenon
  <2>9. ASSUME NEW u \in Terminals PROVE HasLine(u)'
    <3>0. HasLine(u) /\ (u \in own' <=> u \in own)
      BY <1>1, Zenon DEF KeyboardInv
    <3>1. CASE u = t
      <4>1. screens'[u] = s /\ input_buffer'[u] = b /\ own' = own
        BY <1>1, <2>6, <3>1, SelfSet, Zenon
      <4>2. Printed(u) = n /\ Printed(u)' = n + 1
        BY <1>1, <2>7, <3>1, Zenon DEF Printed
      <4>3. Shows(screens[u], input_buffer[u], n, u, own) => Shows(s, b, n + 1, u, own)
        BY <2>8, <3>1, Zenon
      <4> HIDE DEF t, b, n, s
      <4> QED BY <3>0, <4>1, <4>2, <4>3, Zenon DEF HasLine
    <3>2. CASE u # t
      <4>1. Printed(u)' = Printed(u)
        BY <1>1, <3>2, Zenon DEF Printed
      <4> QED BY <1>1, <2>6, <3>0, <3>2, <4>1, OthersShow, Zenon
    <3> QED BY <3>1, <3>2, Zenon
  <2>10. Buffers'
    BY <1>1, <2>1, <2>2, <2>4, Zenon DEF KeyboardInv, Buffers
  <2> QED BY <2>6, <2>9, <2>10, Zenon DEF KeyboardInv
<1> QED BY <1>3, <1>4, Zenon

LEMMA PartOf ==
  ASSUME NEW b \in Seq(Byte), NEW m \in 1 .. Len(b) + 1, NEW n \in m - 1 .. Len(b)
  PROVE  /\ SubSeq(b, m, n) \in Seq(Byte) /\ Len(SubSeq(b, m, n)) = n - (m - 1)
         /\ \A k \in 1 .. n - (m - 1) : SubSeq(b, m, n)[k] = b[(m - 1) + k]
<1> DEFINE l == n - (m - 1)
           v == SubSeq(b, m, n)
<1>1. l \in Nat /\ m \in Nat /\ n \in Nat /\ Len(b) \in Nat
  OBVIOUS
<1>2. v = [k \in 1 .. l |-> b[(m - 1) + k]]
  BY <1>1
<1>3. \A k \in 1 .. l : b[(m - 1) + k] \in Byte
  BY <1>1
<1>4. v \in Seq(Byte) /\ Len(v) = l /\ \A k \in 1 .. l : v[k] = b[(m - 1) + k]
  BY <1>1, <1>2, <1>3
<1> QED BY <1>4, Zenon

LEMMA AllButLast ==
  ASSUME NEW b \in Seq(Byte), Len(b) > 0
  PROVE  /\ SubSeq(b, 1, Len(b) - 1) \in Seq(Byte) /\ Len(SubSeq(b, 1, Len(b) - 1)) = Len(b) - 1
         /\ \A k \in 1 .. Len(b) - 1 : SubSeq(b, 1, Len(b) - 1)[k] = b[k]
<1> DEFINE n == Len(b) - 1
<1>1. n \in 1 - 1 .. Len(b) /\ 1 \in 1 .. Len(b) + 1 /\ n - (1 - 1) = n
  OBVIOUS
<1>2. \A k \in 1 .. n : (1 - 1) + k = k
  OBVIOUS
<1> HIDE DEF n
<1>3. /\ SubSeq(b, 1, n) \in Seq(Byte) /\ Len(SubSeq(b, 1, n)) = n - (1 - 1)
      /\ \A k \in 1 .. n - (1 - 1) : SubSeq(b, 1, n)[k] = b[(1 - 1) + k]
  BY <1>1, PartOf, Zenon
<1>4. Len(SubSeq(b, 1, n)) = n /\ \A k \in 1 .. n : SubSeq(b, 1, n)[k] = b[k]
  BY <1>1, <1>2, <1>3, Zenon
<1> QED BY <1>3, <1>4, Zenon DEF n

(* A character is typed and echoed, or the last one erased.                *)
LEMMA CharKeeps ==
  ASSUME KeyboardInv, ~outside, NEW key, key_char(key)
  PROVE  KeyboardInv'
<1>0. PICK t \in Terminals : t = Terminal
  BY TerminalType
<1>1. PICK ch \in Byte \cup {BACKSPACE, NONE} : ch = CharOf(key)
  BY CharOfType, Zenon
<1> DEFINE b == input_buffer[t]
           b2 == IF ch = BACKSPACE THEN SubSeq(b, 1, Len(b) - 1) ELSE Append(b, ch)
           s == PutChar(screens[t], ch)
<1>2. /\ at \in {"idle", "loop"} /\ at' = "loop" /\ terminal_num' = t
      /\ ch # NONE /\ ~Ignored(ch) /\ putc_internal(t, ch) /\ UNCHANGED reprint
      /\ input_buffer' = [input_buffer EXCEPT ![t] = b2]
      /\ own' = IF ch = NEWLINE THEN own \cup {t} ELSE own
  BY <1>0, <1>1, Zenon DEF key_char, Pressed, Turn
<1>3. /\ ConsoleInv /\ b \in Seq(Byte) /\ Fits(b) /\ Len(b) \in Nat /\ own \subseteq Terminals
      /\ input_buffer \in [Terminals -> Seq(Byte)] /\ reprint \in Seq(Byte)
  BY DEF KeyboardInv, Buffers
<1>4. ch \in Byte \cup {BACKSPACE} /\ ch \in Char
  BY <1>1, <1>2, ByteIsChar, Zenon DEF Char
<1>5. screens[t] = Target(t) /\ screens[t] \in Screens /\ Cursor(screens[t]) \in Nat
  BY <1>3, ScreensType, Zenon
<1>7. Printed(t) = Len(b) /\ Printed(t)' = Len(b2)
  BY <1>2, <1>3, Zenon DEF Printed
<1>8. t \in own \/ BACKSPACE \notin Outputs => Shows(screens[t], b, Len(b), t, own)
  BY <1>7, Zenon DEF KeyboardInv, HasLine
<1>9. /\ b2 \in Seq(Byte) /\ Fits(b2)
      /\ ch = NEWLINE => Shows(s, b2, Len(b2), t, own')
      /\ ch # NEWLINE /\ Shows(screens[t], b, Len(b), t, own) => Shows(s, b2, Len(b2), t, own)
  <2>1. CASE ch = BACKSPACE
    <3>1. Len(b) > 0 /\ b[Len(b)] # NEWLINE
      BY <1>0, <1>2, <2>1, Zenon DEF Ignored, Erasable, Buffer
    <3>2. /\ b2 = SubSeq(b, 1, Len(b) - 1) /\ b2 \in Seq(Byte) /\ Len(b2) = Len(b) - 1
          /\ \A k \in 1 .. Len(b) - 1 : b2[k] = b[k]
      BY <1>3, <2>1, <3>1, AllButLast, Zenon
    <3>3. s = Erase(screens[t]) /\ ch # NEWLINE
      BY <2>1, Zenon DEF PutChar, BACKSPACE, NEWLINE, TAB
    <3> HIDE DEF b, b2
    <3>4. Fits(b2)
      BY <1>3, <3>2, KeyboardAssumption DEF Fits
    <3>5. ASSUME Shows(screens[t], b, Len(b), t, own) PROVE Shows(s, b2, Len(b2), t, own)
      <4> DEFINE n == Len(b) - 1
      <4>1. Shows(s, b, n, t, own)
        BY <1>3, <1>5, <3>1, <3>3, <3>5, CharErased, Zenon
      <4>2. n \in Nat /\ n <= n /\ Len(b2) = n /\ \A k \in 1 .. n : b2[k] = b[(n - n) + k]
        BY <1>3, <3>1, <3>2
      <4>3. ~InTopLeftCorner(screens[t])
        BY <1>3, <1>5, <3>1, <3>5, BehindTheLine, Zenon
      <4>4. Cursor(s) \in Nat
        BY <1>4, <1>5, <4>3, PutCharType, CursorType, Zenon
      <4> HIDE DEF n, s
      <4> QED BY <4>1, <4>2, <4>4, SameLine, Zenon
    <3> QED BY <3>2, <3>3, <3>4, <3>5, Zenon
  <2>2. CASE ch # BACKSPACE
    <3>1. /\ b2 = Append(b, ch) /\ b2 \in Seq(Byte) /\ Len(b2) = Len(b) + 1
          /\ b2[Len(b) + 1] = ch /\ \A k \in 1 .. Len(b) : b2[k] = b[k]
      BY <1>3, <1>4, <2>2
    <3>2. ch = NEWLINE => Len(b) < KEYBOARD_BUFFER_SIZE
      BY <1>0, <1>2, <1>3, <2>2, KeyboardAssumption DEF Ignored, Buffer
    <3>3. ch # NEWLINE => Len(b) + 1 < KEYBOARD_BUFFER_SIZE
      BY <1>0, <1>2, <1>3, <2>2, KeyboardAssumption DEF Ignored, Buffer
    <3>4. ch # NEWLINE => s = Show(screens[t], ch) /\ ch \in Glyphs
      <4>1. ch # NEWLINE => ch \in Glyphs
        BY <1>4, <2>2, ByteIsChar, Zenon
      <4> QED BY <4>1, CellsAssumption, Zenon DEF PutChar
    <3> HIDE DEF b, b2, s
    <3>5. Fits(b2)
      BY <1>3, <3>1, <3>2, <3>3, KeyboardAssumption DEF Fits
    <3>6. CASE ch = NEWLINE
      <4> DEFINE n == Len(b2)
      <4>1. n \in Nat /\ b2[n] = NEWLINE
        BY <1>3, <3>1, <3>6
      <4> HIDE DEF n
      <4>2. Shows(s, b2, n, t, own')
        BY <4>1, NewlineShown, Zenon
      <4> QED BY <3>1, <3>5, <3>6, <4>2, Zenon DEF n
    <3>7. ASSUME ch # NEWLINE, Shows(screens[t], b, Len(b), t, own)
          PROVE  Shows(s, b2, Len(b2), t, own)
      <4> DEFINE n == Len(b)
      <4>1. Shows(screens[t], b, n, t, own)
        BY <3>7, Zenon
      <4>2. n \in Nat /\ n <= n /\ (\A k \in 1 .. n : b2[k] = b[(n - n) + k])
        BY <1>3, <3>1
      <4>3. Cursor(screens[t]) \in Nat /\ b2[n + 1] = ch
        BY <1>5, <3>1, Zenon
      <4>4. n + 1 < KEYBOARD_BUFFER_SIZE /\ Len(b2) = n + 1
        BY <3>1, <3>3, <3>7, Zenon
      <4> HIDE DEF n
      <4>5. Shows(screens[t], b2, n, t, own)
        BY <4>1, <4>2, <4>3, SameLine, Zenon
      <4>6. Shows(Show(screens[t], b2[n + 1]), b2, n + 1, t, own)
        BY <1>5, <3>4, <3>7, <4>2, <4>3, <4>4, <4>5, CharShown
      <4> QED BY <3>4, <3>7, <4>3, <4>4, <4>6, Zenon
    <3> QED BY <3>1, <3>5, <3>6, <3>7, Zenon
  <2> QED BY <2>1, <2>2, Zenon
<1>10. input_buffer'[t] = b2 /\ \A u \in Terminals : u # t => input_buffer'[u] = input_buffer[u]
  BY <1>2, <1>3, Zenon
<1> HIDE DEF b2
<1>11. Buffers'
  <2>1. input_buffer' \in [Terminals -> Seq(Byte)] /\ \A u \in Terminals : Fits(input_buffer'[u])
    BY <1>2, <1>3, <1>9, <1>10, Zenon DEF KeyboardInv, Buffers
  <2> QED BY <1>2, <1>3, <2>1, Zenon DEF Buffers
<1>12. CASE outside'
  <2>1. ch = BACKSPACE /\ InTopLeftCorner(screens[t]) /\ ConsoleInv'
    BY <1>2, <1>3, <1>4, <1>5, <1>12, PutcLeaves, Zenon
  <2>2. Len(b) > 0 /\ b[Len(b)] # NEWLINE
    BY <1>0, <1>2, <2>1, Zenon DEF Ignored, Erasable, Buffer
  <2>3. BACKSPACE \in Outputs
    BY <1>3, <1>5, <1>8, <2>1, <2>2, BehindTheLine, Zenon
  <2> QED BY <1>11, <1>12, <2>1, <2>3, Zenon DEF KeyboardInv
<1>13. CASE ~outside'
  <2>1. ConsoleInv' /\ screens' = [screens EXCEPT ![t] = s]
    BY <1>2, <1>3, <1>4, <1>5, <1>13, PutcSets, SetScreenInv, SetScreenRefines, Zenon
  <2> HIDE DEF s
  <2>2. ASSUME NEW u \in Terminals PROVE HasLine(u)'
    <3>1. CASE u = t
      <4>1. screens'[t] = s
        BY <2>1, SelfSet, Zenon
      <4>2. ch # NEWLINE => own' = own
        BY <1>2, Zenon
      <4>3. t \in own' \/ BACKSPACE \notin Outputs => Shows(s, b2, Len(b2), t, own')
        BY <1>8, <1>9, <4>2, Zenon
      <4> QED BY <1>7, <1>10, <3>1, <4>1, <4>3, Zenon DEF HasLine
    <3>2. CASE u # t
      <4>1. HasLine(u) /\ input_buffer'[u] = input_buffer[u] /\ (u \in own' <=> u \in own)
        BY <1>2, <1>10, <3>2, Zenon DEF KeyboardInv
      <4>2. Printed(u)' = Printed(u)
        BY <1>2, <4>1 DEF Printed
      <4> QED BY <2>1, <3>2, <4>1, <4>2, OthersShow, Zenon
    <3> QED BY <3>1, <3>2, Zenon
  <2> QED BY <1>11, <1>13, <2>1, <2>2, Zenon DEF KeyboardInv
<1> QED BY <1>12, <1>13, Zenon

(* A program's output: it joins the line unless none is being typed.       *)
LEMMA WriteKeeps ==
  ASSUME KeyboardInv, ~outside, NEW t \in Terminals, NEW ch \in Outputs, terminal_write(t, ch)
  PROVE  KeyboardInv'
<1> DEFINE s == PutChar(screens[t], ch)
           b == input_buffer[t]
<1>1. /\ at = "idle" /\ putc_internal(t, ch) /\ ch \in Char /\ ConsoleInv
      /\ own' = IF Line(t) = {} THEN own ELSE own \ {t}
      /\ UNCHANGED <<at, terminal_num, reprint, input_buffer>>
      /\ b \in Seq(Byte) /\ Fits(b)
  BY KeyboardAssumption, Zenon DEF terminal_write, KeyboardInv, Buffers
<1>2. screens[t] = Target(t) /\ screens[t] \in Screens
  BY <1>1, ScreensType, Zenon
<1>3. Buffers'
  BY <1>1, Zenon DEF KeyboardInv, Buffers
<1>4. CASE outside'
  <2>1. ch = BACKSPACE /\ ConsoleInv'
    BY <1>1, <1>4, PutcLeaves, Zenon
  <2> QED BY <1>3, <1>4, <2>1, Zenon DEF KeyboardInv
<1>5. CASE ~outside'
  <2>1. ConsoleInv' /\ screens' = [screens EXCEPT ![t] = s]
    BY <1>1, <1>2, <1>5, PutcSets, SetScreenInv, SetScreenRefines, Zenon
  <2>2. \A u \in Terminals : Printed(u)' = Printed(u)
    BY <1>1, Zenon DEF Printed
  <2>3. Printed(t) = Len(b)
    BY <1>1, Zenon DEF Printed
  <2>4. t \in own' \/ BACKSPACE \notin Outputs => Shows(s, b, Len(b), t, own')
    <3>1. CASE Line(t) = {}
      BY <3>1, Zenon DEF Line, Shows
    <3>2. ASSUME Line(t) # {}, BACKSPACE \notin Outputs PROVE Shows(s, b, Len(b), t, own')
      <4>1. t \notin own' /\ ch # BACKSPACE
        BY <1>1, <3>2, Zenon
      <4>2. Shows(screens[t], b, Len(b), t, own)
        BY <2>3, <3>2, Zenon DEF KeyboardInv, HasLine
      <4> HIDE DEF b
      <4> QED BY <1>1, <1>2, <4>1, <4>2, OutputLeavesRoom, Zenon
    <3>3. Line(t) # {} => t \notin own'
      BY <1>1, Zenon
    <3> QED BY <3>1, <3>2, <3>3, Zenon
  <2> HIDE DEF s
  <2>5. ASSUME NEW u \in Terminals PROVE HasLine(u)'
    <3>1. CASE u = t
      <4>1. screens'[t] = s
        BY <2>1, SelfSet, Zenon
      <4> QED BY <1>1, <2>2, <2>3, <2>4, <3>1, <4>1, Zenon DEF HasLine
    <3>2. CASE u # t
      <4>1. HasLine(u) /\ (u \in own' <=> u \in own)
        BY <1>1, <3>2, Zenon DEF KeyboardInv
      <4> QED BY <1>1, <2>1, <2>2, <3>2, <4>1, OthersShow, Zenon
    <3> QED BY <3>1, <3>2, Zenon
  <2> QED BY <1>3, <1>5, <2>1, <2>5, Zenon DEF KeyboardInv
<1> QED BY <1>4, <1>5, Zenon

(* A read takes the bytes up to the first newline, which leaves the line   *)
(* that is being typed.                                                    *)
LEMMA ReadKeepsLine ==
  ASSUME KeyboardInv, ~outside, NEW t \in Terminals, terminal_read(t)
  PROVE  KeyboardInv'
<1> DEFINE b == input_buffer[t]
<1>1. /\ at = "idle" /\ UNCHANGED <<at, terminal_num, reprint, own, vars>>
  BY Zenon DEF terminal_read
<1>2. PICK n \in 1 .. Len(b) :
        input_buffer' = [input_buffer EXCEPT ![t] = SubSeq(b, n + 1, Len(b))]
  BY Zenon DEF terminal_read
<1>3. /\ ConsoleInv /\ b \in Seq(Byte) /\ Fits(b) /\ Len(b) \in Nat /\ own \subseteq Terminals
      /\ input_buffer \in [Terminals -> Seq(Byte)]
  BY DEF KeyboardInv, Buffers
<1> DEFINE b2 == SubSeq(b, n + 1, Len(b))
           m == Len(b) - n
<1>4. /\ b2 \in Seq(Byte) /\ Len(b2) = m
      /\ \A k \in 1 .. m : b2[k] = b[n + k]
  <2>1. n + 1 \in 1 .. Len(b) + 1 /\ Len(b) \in (n + 1) - 1 .. Len(b) /\ (n + 1) - 1 = n
    BY <1>3
  <2> QED BY <1>3, <2>1, PartOf
<1>5. ConsoleInv' /\ screens' = screens /\ outside' = outside
  BY <1>1, <1>3, NextInv, Zenon DEF vars, screens, get_terminal_output_buffer
<1>6. input_buffer'[t] = b2 /\ \A u \in Terminals : u # t => input_buffer'[u] = input_buffer[u]
  BY <1>2, <1>3, Zenon
<1> HIDE DEF b2
<1>7. Fits(b2)
  <2>1. Len(b2) < Len(b) /\ Len(b2) \in Int
    BY <1>3, <1>4
  <2> QED BY <1>3, <2>1, KeyboardAssumption DEF Fits
<1>8. ASSUME NEW u \in Terminals, u \in own \/ BACKSPACE \notin Outputs
      PROVE  Shows(screens'[u], input_buffer'[u], Printed(u)', u, own)
  <2>1. Printed(u)' = Len(input_buffer'[u]) /\ Shows(screens[u], input_buffer[u], Len(input_buffer[u]), u, own)
    BY <1>1, <1>8, Zenon DEF Printed, KeyboardInv, HasLine
  <2>2. CASE u = t
    <3>1. Cursor(screens[t]) \in Nat
      BY <1>3, ScreensType, Zenon
    <3>2. m \in Nat /\ m <= Len(b) /\ Len(b) - m = n
      BY <1>3
    <3>3. Shows(screens[t], b, Len(b), t, own)
      BY <2>1, <2>2, Zenon
    <3> HIDE DEF m, b
    <3>4. Shows(screens[t], b2, m, t, own)
      BY <1>3, <1>4, <3>1, <3>2, <3>3, SameLine, Zenon
    <3> QED BY <1>4, <1>5, <1>6, <2>1, <2>2, <3>4, Zenon
  <2>3. CASE u # t
    <3>1. input_buffer'[u] = input_buffer[u]
      BY <1>3, <1>6, <2>3, Zenon
    <3> QED BY <1>5, <2>1, <3>1, Zenon
  <2> QED BY <2>2, <2>3, Zenon
<1>9. input_buffer' \in [Terminals -> Seq(Byte)] /\ \A u \in Terminals : Fits(input_buffer'[u])
  BY <1>2, <1>3, <1>4, <1>6, <1>7, Zenon DEF KeyboardInv, Buffers, b2
<1>10. Buffers'
  BY <1>1, <1>9, Zenon DEF KeyboardInv, Buffers
<1>11. \A u \in Terminals : HasLine(u)'
  BY <1>1, <1>8, Zenon DEF HasLine
<1> QED BY <1>5, <1>10, <1>11, Zenon DEF KeyboardInv

(* The steps that neither print nor type.                                  *)
LEMMA ScreensSame ==
  ASSUME ConsoleInv, UNCHANGED vars
  PROVE  ConsoleInv' /\ screens' = screens /\ outside' = outside
BY NextInv, Zenon DEF vars, screens, get_terminal_output_buffer

LEMMA SilentKeeps ==
  ASSUME KeyboardInv,
         \/ handler_returns \/ code_dropped
         \/ \E key \in Keys : key_released(key) \/ key_silent(key)
  PROVE  KeyboardInv'
<1>1. /\ UNCHANGED <<reprint, input_buffer, own>> /\ UNCHANGED vars
      /\ at \in {"idle", "loop"} /\ at' \in {"idle", "loop"}
      /\ terminal_num' \in {0, Terminal}
  BY Zenon DEF handler_returns, code_dropped, key_released, key_silent, Pressed, Turn
<1>2. terminal_num' \in Terminals
  BY <1>1, TerminalType, ConsoleAssumption DEF Terminals
<1>3. ConsoleInv' /\ screens' = screens /\ outside' = outside
  BY <1>1, ScreensSame, Zenon DEF KeyboardInv
<1> QED BY <1>1, <1>2, <1>3, QuietKeeps, Zenon

LEMMA AltFKeeps ==
  ASSUME KeyboardInv, ~outside, NEW key, NEW t \in Terminals, key_alt_f(key, t)
  PROVE  KeyboardInv'
<1>1. /\ UNCHANGED <<reprint, input_buffer, own>> /\ switch_active_terminal(t)
      /\ at \in {"idle", "loop"} /\ at' \in {"idle", "loop"} /\ terminal_num' = Terminal
  BY Zenon DEF key_alt_f, Pressed, Turn
<1>2. ConsoleInv' /\ screens' = screens /\ outside' = outside
  BY <1>1, SwitchInv, SwitchRefines, Zenon DEF KeyboardInv, switch_active_terminal
<1> QED BY <1>1, <1>2, TerminalType, QuietKeeps, Zenon

LEMMA KeyboardStutter == KeyboardInv /\ UNCHANGED kvars => KeyboardInv'
<1> SUFFICES ASSUME KeyboardInv, UNCHANGED kvars PROVE KeyboardInv'
  BY Zenon
<1>1. UNCHANGED vars /\ UNCHANGED <<at, terminal_num, reprint, input_buffer, own>>
  BY Zenon DEF kvars, kbdVars
<1>2. ConsoleInv' /\ screens' = screens /\ outside' = outside
  BY <1>1, ScreensSame, Zenon DEF KeyboardInv
<1>3. \A t \in Terminals : Printed(t)' = Printed(t)
  BY <1>1, Zenon DEF Printed
<1>4. \A t \in Terminals : HasLine(t) => HasLine(t)'
  BY <1>1, <1>2, <1>3, Zenon DEF HasLine
<1>5. Buffers'
  BY <1>1, Zenon DEF KeyboardInv, Buffers
<1> QED BY <1>2, <1>4, <1>5, Zenon DEF KeyboardInv

LEMMA KeyboardNextKeeps == KeyboardInv /\ [KeyboardNext]_kvars => KeyboardInv'
BY CtrlLKeeps, ReprintKeeps, CharKeeps, WriteKeeps, ReadKeepsLine, SilentKeeps, AltFKeeps,
   KeyboardStutter, Zenon DEF KeyboardNext

LEMMA KeyboardStarts == KeyboardInit => KeyboardInv
<1> SUFFICES ASSUME KeyboardInit PROVE KeyboardInv
  OBVIOUS
<1>1. /\ ConsoleInv /\ at = "idle" /\ terminal_num = 0 /\ reprint = << >> /\ own = Terminals
      /\ input_buffer = [t \in Terminals |-> << >>] /\ ~outside
  BY InitInv, Zenon DEF KeyboardInit, Init, multiple_terminal_init
<1>2. 0 \in Terminals
  BY ConsoleAssumption DEF Terminals
<1>3. << >> \in Seq(Byte) /\ Len(<< >>) = 0
  OBVIOUS
<1>4. \A t \in Terminals : input_buffer[t] = << >> /\ Printed(t) = 0
  BY <1>1, <1>3, Zenon DEF Printed
<1>5. \A t \in Terminals : HasLine(t)
  <2>1. \A t \in Terminals : Shows(screens[t], input_buffer[t], Printed(t), t, own)
    BY <1>4, NewlineShown
  <2> QED BY <2>1, Zenon DEF HasLine
<1>6. \A t \in Terminals : Fits(input_buffer[t])
  BY <1>3, <1>4, KeyboardAssumption DEF Fits
<1>7. Buffers
  BY <1>1, <1>2, <1>3, <1>6, Zenon DEF Buffers
<1> QED BY <1>1, <1>5, <1>7, Zenon DEF KeyboardInv

LEMMA KeyboardInvariance == KeyboardSpec => []KeyboardInv
BY KeyboardStarts, KeyboardNextKeeps, PTL DEF KeyboardSpec

(* The driver by itself stays inside the frames: for every screen that the *)
(* longest line leaves a row of free, what a user types and erases on any  *)
(* terminal, in any state of the others and between any output, leads      *)
(* putc_internal out of one only if programs write backspaces.             *)
THEOREM EchoStays == KeyboardSpec => []EchoStaysInside
<1>1. KeyboardInv => EchoStaysInside
  BY Zenon DEF KeyboardInv, EchoStaysInside
<1> QED BY <1>1, KeyboardInvariance, PTL

(* The user sees the line that a read will return, for every size of the   *)
(* screen that a line leaves a row of free (keyboard_putc, putc_internal,  *)
(* the Ctrl+L branch and switch_active_terminal).                          *)
THEOREM LineSeen == KeyboardSpec => []LineShown
<1>1. KeyboardInv => LineShown
  <2> SUFFICES ASSUME KeyboardInv, ~outside, NEW t \in own, ~(at = "reprint" /\ t = terminal_num),
                      NEW k \in Line(t)
               PROVE  /\ Cell(Target(t), Len(input_buffer[t]), k) >= 0
                      /\ Target(t).grid[Cell(Target(t), Len(input_buffer[t]), k)] = input_buffer[t][k]
    BY DEF LineShown, Cell, Cursor, Target, Screen
  <2>1. Printed(t) = Len(input_buffer[t]) /\ t \in Terminals /\ ConsoleInv /\ HasLine(t)
    BY Zenon DEF Printed, KeyboardInv, Buffers
  <2>2. screens[t] = Target(t)
    BY <2>1, ScreensType, Zenon
  <2>3. Shows(Target(t), input_buffer[t], Len(input_buffer[t]), t, own)
    BY <2>1, <2>2, Zenon DEF HasLine
  <2> QED BY <2>3, Zenon DEF Shows, Line
<1> QED BY <1>1, KeyboardInvariance, PTL

(* What the keyboard handler and the programs do to the terminals is what  *)
(* Console allows,                                                         *)
LEMMA KeyboardConsole == KeyboardInv /\ [KeyboardNext]_kvars => [Next]_vars
<1>0. ASSUME outside, [KeyboardNext]_kvars PROVE UNCHANGED vars
  BY <1>0, Zenon DEF KeyboardNext, kvars
<1> SUFFICES ASSUME KeyboardInv, ~outside, [KeyboardNext]_kvars PROVE [Next]_vars
  BY <1>0, Zenon
<1>1. ASSUME NEW key \in Keys, key_ctrl_l(key) PROVE Next
  BY <1>1, TerminalType, Zenon DEF key_ctrl_l, Next
<1>2. ASSUME NEW key \in Keys, key_char(key) PROVE Next
  <2>1. CharOf(key) \in Char
    BY <1>2, CharOfType, ByteIsChar, Zenon DEF key_char, Char
  <2> QED BY <1>2, <2>1, TerminalType, Zenon DEF key_char, Next
<1>3. ASSUME NEW key \in Keys, NEW t \in Terminals, key_alt_f(key, t) PROVE Next
  BY <1>3, Zenon DEF key_alt_f, Next
<1>4. ASSUME reprint_char PROVE [Next]_vars
  <2>1. CASE reprint = << >>
    BY <1>4, <2>1, Zenon DEF reprint_char
  <2>2. CASE reprint # << >>
    <3>1. Head(reprint) \in Byte /\ terminal_num \in Terminals
      BY <2>2 DEF KeyboardInv, Buffers
    <3> QED BY <1>4, <2>2, <3>1, ByteIsChar, Zenon DEF reprint_char, Next
  <2> QED BY <2>1, <2>2, Zenon
<1>5. ASSUME NEW t \in Terminals, NEW ch \in Outputs, terminal_write(t, ch) PROVE Next
  BY <1>5, KeyboardAssumption, Zenon DEF terminal_write, Next
<1>6. ASSUME \/ handler_returns \/ code_dropped \/ UNCHANGED kvars
             \/ \E key \in Keys : key_released(key) \/ key_silent(key)
             \/ \E t \in Terminals : terminal_read(t)
      PROVE  UNCHANGED vars
  BY <1>6, Zenon
     DEF handler_returns, code_dropped, key_released, key_silent, terminal_read, kvars
<1> QED BY <1>1, <1>2, <1>3, <1>4, <1>5, <1>6 DEF KeyboardNext

(* so that under all keys, too, one display shared by the terminals        *)
(* implements one display each and shows the active one's cursor, and only *)
(* a backspace in a corner writes outside of the frames.                   *)
THEOREM KeyboardRefinement ==
  KeyboardSpec => ImplementsScreens /\ LeavesByErasing /\ []HardwareCursorFollows
<1>1. KeyboardInit => Init
  BY Zenon DEF KeyboardInit
<1>2. KeyboardSpec => Spec
  BY <1>1, KeyboardConsole, KeyboardInvariance, PTL DEF KeyboardSpec, Spec
<1> QED BY <1>2, Refinement, OnlyErasingLeaves, HardwareCursor, PTL
=============================================================================
