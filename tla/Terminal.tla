------------------------------ MODULE Terminal ------------------------------
(***************************************************************************)
(* One terminal of tty/terminal.c: the line the user is typing, the lines  *)
(* waiting for a reader, and the cursor that echo and program output move. *)
(* The keyboard interrupt handler and the process that reads the terminal  *)
(* run concurrently: terminal_read turns interrupts on while it waits.     *)
(*                                                                         *)
(* The input buffer is the sequence of bytes in it (CircularBuffer         *)
(* implements that view).  One process at a time runs on a terminal        *)
(* (Processes!OneRunnerPerTerminal), so there is one reader.  What a cell  *)
(* of the screen shows is in Console.                                      *)
(***************************************************************************)
EXTENDS Integers, Sequences, FiniteSets

CONSTANTS
  KEYBOARD_BUFFER_SIZE,  \* 128
  TERMINAL_COLUMNS,      \* 80
  TERMINAL_ROWS,         \* 25
  Keys,                  \* the characters the user types
  Outputs,               \* the byte strings programs write
  ReadSizes              \* the sizes programs read with

(* Characters: a printable one, and those the driver treats specially.     *)
NEWLINE   == "newline"
TAB       == "tab"
BACKSPACE == "backspace"
Char      == {"a", NEWLINE, TAB, BACKSPACE}

SPACES_IN_TAB == 4

ASSUME TerminalAssumption ==
  /\ KEYBOARD_BUFFER_SIZE \in 1 .. 255
  /\ TERMINAL_COLUMNS \in 1 .. 255
  /\ TERMINAL_ROWS \in 1 .. 255
  /\ Keys \subseteq Char
  /\ Outputs \subseteq Seq(Char)
  /\ ReadSizes \subseteq Nat

(* A line leaves a row of the screen free: 127 <= 80 * 24.                 *)
ASSUME CursorAssumption ==
  KEYBOARD_BUFFER_SIZE - 1 <= TERMINAL_COLUMNS * (TERMINAL_ROWS - 1)

VARIABLES
  input_buffer,    \* bytes in the circular buffer, oldest first
  new_line_ready,  \* uint8_t: lines announced to the reader
  cursor_x, cursor_y,  \* uint8_t: cursor_location
  pc,              \* where the process is, see Place
  nbytes,          \* the size it reads with
  regular          \* history: see Irregular

(* "user": not in terminal_read; "check": about to test new_line_ready;    *)
(* "hlt": halted until an interrupt; "got": past the loop.                 *)
Place == {"user", "check", "hlt", "got"}

vars == <<input_buffer, new_line_ready, cursor_x, cursor_y, pc, nbytes, regular>>

-----------------------------------------------------------------------------
putc_bug(c, ch) ==  \* a newline at the bottom does not scroll
  LET x == c[1]
      y == c[2]
      down(row) == (row + 1) % 256
  IN CASE ch = BACKSPACE -> IF x = 0 THEN <<TERMINAL_COLUMNS - 1, (y - 1) % 256>>
                                     ELSE <<x - 1, y>>
       [] ch = NEWLINE -> <<0, down(y)>>
       [] ch = TAB -> c
       [] OTHER -> IF x + 1 >= TERMINAL_COLUMNS THEN <<0, down(y)>>
                                                ELSE <<x + 1, y>>

(* The cursor after putc_internal.  Coordinates are bytes; a tab is not    *)
(* implemented; at the bottom the screen scrolls instead.                  *)
putc_internal(c, ch) ==
  LET x == c[1]
      y == c[2]
      down(row) == IF (row + 1) % 256 >= TERMINAL_ROWS THEN TERMINAL_ROWS - 1
                                                       ELSE (row + 1) % 256
  IN CASE ch = BACKSPACE -> IF x = 0 THEN <<TERMINAL_COLUMNS - 1, (y - 1) % 256>>
                                     ELSE <<x - 1, y>>
       [] ch = NEWLINE -> <<0, down(y)>>
       [] ch = TAB -> c
       [] OTHER -> IF x + 1 >= TERMINAL_COLUMNS THEN <<0, down(y)>>
                                                ELSE <<x + 1, y>>

(* The cursor after a byte string.                                         *)
PutAll(c, bytes) ==
  LET after[k \in 0 .. Len(bytes)] ==
        IF k = 0 THEN c ELSE putc_internal(after[k - 1], bytes[k])
  IN  after[Len(bytes)]

(* n & SPACES_IN_TAB: SPACES_IN_TAB is the single bit 4.                   *)
AndSpacesInTab(n) == IF (n \div SPACES_IN_TAB) % 2 = 1 THEN SPACES_IN_TAB ELSE 0

Repeat(ch, n) == [i \in 1 .. n |-> ch]

(* What typing a tab echoes in column x, and what erasing one echoes: both *)
(* switch statements fall through, and have no case for other values.      *)
(* A space moves the cursor as any printable character does.               *)
TabEcho(x) ==
  LET pos == AndSpacesInTab(x) IN
  Repeat("a", IF pos \in 0 .. 3 THEN 4 - pos ELSE 0)
TabErase(x) ==
  LET pos == x - AndSpacesInTab(x) IN
  Repeat(BACKSPACE, IF pos = 0 THEN 4 ELSE IF pos \in 1 .. 3 THEN pos ELSE 0)

Cursor == <<cursor_x, cursor_y>>

SetCursor(c) == cursor_x' = c[1] /\ cursor_y' = c[2]

interrupt_bug == pc' = pc  \* nothing ends hlt

(* Any interrupt ends hlt, and the loop tests its condition again.         *)
Interrupt == pc' = (IF pc = "hlt" THEN "check" ELSE pc)

-----------------------------------------------------------------------------
Init ==
  /\ input_buffer = <<>> /\ new_line_ready = 0
  /\ cursor_x = 0 /\ cursor_y = 0
  /\ pc = "user" /\ nbytes = 0
  /\ regular = TRUE

(* What the driver does not keep its books for: a tab, a read without room *)
(* for a whole line, Ctrl+5.  Resetting the terminal makes up for them.    *)
Irregular(what) == regular' = (regular /\ ~what)

LastByte(bytes) == bytes[Len(bytes)]
Erased(bytes) == SubSeq(bytes, 1, Len(bytes) - 1)

(* A backspace erases a byte of the line being typed, if there is one.     *)
Erasable == input_buffer # <<>> /\ LastByte(input_buffer) # NEWLINE

(* keyboard_putc, the keys it ignores.                                     *)
key_ignored(ch) ==
  /\ \/ ch = BACKSPACE /\ ~Erasable
     \/ ch = NEWLINE /\ Len(input_buffer) >= KEYBOARD_BUFFER_SIZE
     \/ /\ ch \notin {BACKSPACE, NEWLINE}
        /\ Len(input_buffer) >= KEYBOARD_BUFFER_SIZE - 1
  /\ Interrupt
  /\ UNCHANGED <<input_buffer, new_line_ready, cursor_x, cursor_y, nbytes, regular>>

key_backspace_bug ==  \* erases across the end of a line
  /\ input_buffer # <<>>
  /\ input_buffer' = Erased(input_buffer)
  /\ SetCursor(PutAll(Cursor, IF LastByte(input_buffer) = TAB THEN TabErase(cursor_x)
                                                             ELSE <<BACKSPACE>>))
  /\ Interrupt
  /\ UNCHANGED <<new_line_ready, nbytes, regular>>

key_backspace ==
  /\ Erasable
  /\ input_buffer' = Erased(input_buffer)
  /\ SetCursor(PutAll(Cursor, IF LastByte(input_buffer) = TAB THEN TabErase(cursor_x)
                                                             ELSE <<BACKSPACE>>))
  /\ Interrupt
  /\ UNCHANGED <<new_line_ready, nbytes, regular>>

key_newline ==
  /\ Len(input_buffer) < KEYBOARD_BUFFER_SIZE
  /\ input_buffer' = Append(input_buffer, NEWLINE)
  /\ SetCursor(putc_internal(Cursor, NEWLINE))
  /\ new_line_ready' = (new_line_ready + 1) % 256
  /\ Interrupt
  /\ UNCHANGED <<nbytes, regular>>

key_printable_bug(ch) ==  \* takes the last place, which Enter needs
  /\ Len(input_buffer) < KEYBOARD_BUFFER_SIZE
  /\ input_buffer' = Append(input_buffer, ch)
  /\ SetCursor(PutAll(Cursor, IF ch = TAB THEN TabEcho(cursor_x) ELSE <<ch>>))
  /\ Interrupt
  /\ Irregular(ch = TAB)
  /\ UNCHANGED <<new_line_ready, nbytes>>

(* A tab or a printable character leaves room for the newline.             *)
key_printable(ch) ==
  /\ Len(input_buffer) < KEYBOARD_BUFFER_SIZE - 1
  /\ input_buffer' = Append(input_buffer, ch)
  /\ SetCursor(PutAll(Cursor, IF ch = TAB THEN TabEcho(cursor_x) ELSE <<ch>>))
  /\ Interrupt
  /\ Irregular(ch = TAB)
  /\ UNCHANGED <<new_line_ready, nbytes>>

keyboard_putc(ch) ==
  \/ key_ignored(ch)
  \/ ch = BACKSPACE /\ key_backspace
  \/ ch = NEWLINE /\ key_newline
  \/ ch \notin {BACKSPACE, NEWLINE} /\ key_printable(ch)

(* Ctrl+L clears the screen and prints the input buffer again.             *)
key_ctrl_l ==
  /\ SetCursor(PutAll(<<0, 0>>, input_buffer))
  /\ Interrupt
  /\ UNCHANGED <<input_buffer, new_line_ready, nbytes, regular>>

(* Ctrl+5 while a process of this terminal is interrupted: stop_rtc_test   *)
(* calls terminal_close, which empties the buffer and nothing else.        *)
terminal_close ==
  /\ input_buffer' = <<>>
  /\ Interrupt
  /\ Irregular(TRUE)
  /\ UNCHANGED <<new_line_ready, cursor_x, cursor_y, nbytes>>

(* An interrupt that is not for this terminal: the timer, the RTC.         *)
other_interrupt ==
  /\ Interrupt
  /\ UNCHANGED <<input_buffer, new_line_ready, cursor_x, cursor_y, nbytes, regular>>

-----------------------------------------------------------------------------
terminal_write(bytes) ==
  /\ pc = "user"
  /\ SetCursor(PutAll(Cursor, bytes))
  /\ UNCHANGED <<input_buffer, new_line_ready, pc, nbytes, regular>>

(* terminal_read up to its loop.                                           *)
read_enter(n) ==
  /\ pc = "user"
  /\ pc' = "check" /\ nbytes' = n
  /\ Irregular(n < KEYBOARD_BUFFER_SIZE)
  /\ UNCHANGED <<input_buffer, new_line_ready, cursor_x, cursor_y>>

(* while (!new_line_ready[terminal_num]) hlt.  A key that arrives between  *)
(* the test and hlt is noticed at the next interrupt.                      *)
read_check ==
  /\ pc = "check"
  /\ pc' = IF new_line_ready = 0 THEN "hlt" ELSE "got"
  /\ UNCHANGED <<input_buffer, new_line_ready, cursor_x, cursor_y, nbytes, regular>>

(* The places of the newlines in a byte string.                            *)
Newlines(bytes) == {i \in 1 .. Len(bytes) : bytes[i] = NEWLINE}

line_length_bug == Len(input_buffer)  \* everything that is buffered

(* The bytes up to and including the first newline: the value of           *)
(* circular_buffer_find plus one, 0 when there is no newline.              *)
LineLength ==
  LET ends == Newlines(input_buffer) IN
  IF ends = {} THEN 0 ELSE CHOOSE i \in ends : \A j \in ends : i <= j

(* How much the read takes: circular_buffer_get of the smaller of the      *)
(* line's length and the size asked for, compared as unsigned numbers (a   *)
(* negative size is a large one).                                          *)
ReadLength == IF LineLength < nbytes THEN LineLength ELSE nbytes

(* The rest of terminal_read, with interrupts off.                         *)
read_finish ==
  /\ pc = "got"
  /\ input_buffer' = SubSeq(input_buffer, ReadLength + 1, Len(input_buffer))
  /\ new_line_ready' = (new_line_ready - 1) % 256
  /\ pc' = "user" /\ nbytes' = 0
  /\ UNCHANGED <<cursor_x, cursor_y, regular>>

reset_terminal_bug ==  \* forgets the lines announced
  /\ pc = "user"
  /\ input_buffer' = <<>>
  /\ cursor_x' = 0 /\ cursor_y' = 0
  /\ regular' = TRUE
  /\ UNCHANGED <<new_line_ready, pc, nbytes>>

(* The root shell of the terminal halts.                                   *)
reset_terminal ==
  /\ pc = "user"
  /\ input_buffer' = <<>> /\ new_line_ready' = 0
  /\ cursor_x' = 0 /\ cursor_y' = 0
  /\ regular' = TRUE
  /\ UNCHANGED <<pc, nbytes>>

Next ==
  \/ \E ch \in Keys : keyboard_putc(ch)
  \/ key_ctrl_l
  \/ terminal_close
  \/ other_interrupt
  \/ \E bytes \in Outputs : terminal_write(bytes)
  \/ \E n \in ReadSizes : read_enter(n)
  \/ read_check
  \/ read_finish
  \/ reset_terminal

Spec == Init /\ [][Next]_vars

(* The timer keeps interrupting, and the scheduler keeps coming back to    *)
(* the reader (Processes!ScheduledWithoutLastSlot), which then goes on.    *)
FairSpec == Spec /\ WF_vars(other_interrupt) /\ WF_vars(read_check)
                 /\ WF_vars(read_finish)
-----------------------------------------------------------------------------
(* The buffer holds at most KEYBOARD_BUFFER_SIZE bytes and never a         *)
(* backspace; the counters are bytes.                                      *)
TypeOK ==
  /\ input_buffer \in Seq(Char \ {BACKSPACE})
  /\ Len(input_buffer) <= KEYBOARD_BUFFER_SIZE
  /\ new_line_ready \in 0 .. 255
  /\ cursor_x \in 0 .. TERMINAL_COLUMNS - 1 /\ cursor_y \in 0 .. 255
  /\ pc \in Place
  /\ nbytes \in Nat

(* The complete lines in the buffer.                                       *)
Lines == Cardinality(Newlines(input_buffer))

Committed ==
  LET ends == Newlines(input_buffer) IN
  IF ends = {} THEN <<>>
  ELSE SubSeq(input_buffer, 1, CHOOSE i \in ends : \A j \in ends : j <= i)

StartOf(s, t) == Len(s) <= Len(t) /\ s = SubSeq(t, 1, Len(s))

(* No key changes a line once Enter has been pressed: until it is read, or *)
(* the terminal is reset or closed, what has been committed stays the      *)
(* front of the buffer, whatever the user types and however the reader is  *)
(* scheduled.                                                              *)
CommittedLinesKept ==
  [][\/ pc = "got" /\ pc' = "user"
     \/ input_buffer' = <<>> /\ (~regular' \/ (cursor_x' = 0 /\ cursor_y' = 0))
     \/ StartOf(Committed, input_buffer')]_vars

(* terminal_read counts one line for every newline that keyboard_putc      *)
(* buffered ("We read one new line", terminal.c): while programs read with *)
(* room for a whole line, new_line_ready never strays from the buffer, and *)
(* a read that has waited for Enter finds a line.                          *)
ReadyCountsLines ==
  regular => new_line_ready = Lines /\ (pc = "got" => Lines > 0)

(* Whatever sizes programs read with, and with Ctrl+5: a buffer without a  *)
(* complete line always has room for the newline that completes one        *)
(* ("because we also need new line character", terminal.c), so that the    *)
(* terminal cannot fill up and jam.                                        *)
RoomForEnter == Lines = 0 => Len(input_buffer) < KEYBOARD_BUFFER_SIZE

(* A read returns bytes of one line only: a newline is its last byte.      *)
ReadTakesOneLine ==
  [][pc = "got" /\ pc' = "user" =>
       \A i \in 1 .. Len(input_buffer) - Len(input_buffer') - 1 :
         input_buffer[i] # NEWLINE]_vars

(* A reader is not left sleeping on a line: even when Enter arrives        *)
(* between the test of new_line_ready and hlt, the read returns.  (Ctrl+5  *)
(* and Enter can take new_line_ready round to 0 again before it looks.)    *)
ReaderWakes ==
  pc # "user" /\ new_line_ready > 0 /\ regular ~> pc = "user" \/ ~regular

(* Programs write no backspaces: none of the user programs does.           *)
PlainOutputs == \A bytes \in Outputs : \A i \in 1 .. Len(bytes) : bytes[i] # BACKSPACE

(* The cursor stays on the screen, where video_buffer_putc "places the     *)
(* given character at (x, y) in video memory" (terminal.c), unless a tab   *)
(* was typed, for which the driver counts columns wrongly, or a program    *)
(* writes backspaces.                                                      *)
CursorOnScreen == PlainOutputs /\ regular => cursor_y < TERMINAL_ROWS
=============================================================================
