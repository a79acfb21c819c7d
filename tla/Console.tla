------------------------------ MODULE Console ------------------------------
(***************************************************************************)
(* Where the output of the terminals goes (tty/terminal.c): one of them    *)
(* owns video memory, the others write to a buffer in RAM, and switching   *)
(* copies one out and another one in.  All of it runs with interrupts off, *)
(* so that each function is a step.                                        *)
(***************************************************************************)
EXTENDS Cells

CONSTANT NUM_TERMINALS  \* 3

ASSUME ConsoleAssumption == NUM_TERMINALS \in Nat \ {0}

Terminals == 0 .. NUM_TERMINALS - 1

(* The frames that hold a screenful: video memory, and output_buffer[t],   *)
(* written t.                                                              *)
VIDEO_PHYS_ADDR == -1
Frames == Terminals \cup {VIDEO_PHYS_ADDR}

VARIABLES
  frame,            \* the contents of each frame
  video_memory,     \* the frame each terminal writes to
  cursor_location,  \* the cursor of each terminal
  active_terminal,
  hardware_cursor,  \* the index in the CRTC's cursor registers
  outside           \* something outside of the frames was written to

vars == <<frame, video_memory, cursor_location, active_terminal, hardware_cursor,
          outside>>

(* The frame for the output of terminal t while terminal a is active.      *)
get_terminal_output_buffer(t, a) == IF t = a THEN VIDEO_PHYS_ADDR ELSE t

(* Only the active terminal's cursor is shown.                             *)
set_hardware_cursor(t, x, y) ==
  /\ cursor_location' = [cursor_location EXCEPT ![t] = [x |-> x, y |-> y]]
  /\ hardware_cursor' = IF t = active_terminal' THEN VIDEO_INDEX(x, y)
                                                ELSE hardware_cursor

(* The screen of terminal t as its output routines see it.                 *)
Target(t) ==
  Screen(frame[video_memory[t]], cursor_location[t].x, cursor_location[t].y)

(* The state multiple_terminal_init leaves: every terminal reset, terminal *)
(* 0 active.                                                               *)
multiple_terminal_init ==
  /\ active_terminal = 0
  /\ video_memory = [t \in Terminals |-> get_terminal_output_buffer(t, 0)]
  /\ frame \in [Frames -> [CellIndices -> Glyphs]]
  /\ \A t \in Terminals : frame[video_memory[t]] = BlankGrid
  /\ cursor_location = [t \in Terminals |-> [x |-> 0, y |-> 0]]
  /\ hardware_cursor = 0
  /\ outside = FALSE

Init == multiple_terminal_init

(* The pages around video memory are not present: a write there faults and *)
(* putc_internal does not go on.  Around output_buffer is other data of    *)
(* the kernel, which is overwritten.                                       *)
putc_internal(t, ch) ==
  LET s      == PutChar(Target(t), ch)
      inside == Written(Target(t), ch) \subseteq CellIndices
  IN
  /\ outside' = (outside \/ ~inside)
  /\ UNCHANGED <<active_terminal, video_memory>>
  /\ IF inside \/ video_memory[t] # VIDEO_PHYS_ADDR
       THEN /\ frame' = [frame EXCEPT ![video_memory[t]] = s.grid]
            /\ set_hardware_cursor(t, s.x, s.y)
       ELSE UNCHANGED <<frame, cursor_location, hardware_cursor>>

clear_terminal_bug(t) ==  \* leaves the last row
  LET first == TERMINAL_COLUMNS * (TERMINAL_ROWS - 1) IN
  /\ UNCHANGED <<active_terminal, video_memory, outside>>
  /\ frame' = [frame EXCEPT ![video_memory[t]] =
       [i \in CellIndices |-> IF i < first THEN BLANK ELSE @[i]]]
  /\ set_hardware_cursor(t, 0, 0)

clear_terminal(t) ==
  /\ UNCHANGED <<active_terminal, video_memory, outside>>
  /\ frame' = [frame EXCEPT ![video_memory[t]] = BlankGrid]
  /\ set_hardware_cursor(t, 0, 0)

(* Video memory is copied to the old terminal's buffer, then the new one's *)
(* buffer to video memory.                                                 *)
switch_active_terminal(t) ==
  LET old_terminal == active_terminal
      saved == [frame EXCEPT ![old_terminal] = frame[VIDEO_PHYS_ADDR]]
  IN
  /\ active_terminal' = t
  /\ video_memory' = [video_memory EXCEPT
       ![old_terminal] = get_terminal_output_buffer(old_terminal, t),
       ![t] = get_terminal_output_buffer(t, t)]
  /\ frame' = [saved EXCEPT ![VIDEO_PHYS_ADDR] = saved[t]]
  /\ set_hardware_cursor(t, cursor_location[t].x, cursor_location[t].y)
  /\ UNCHANGED outside

(* What the machine does once other memory was written is not followed.    *)
Next ==
  /\ ~outside
  /\ \E t \in Terminals :
       \/ \E ch \in Char : putc_internal(t, ch)
       \/ clear_terminal(t)
       \/ switch_active_terminal(t)

Spec == Init /\ [][Next]_vars
-----------------------------------------------------------------------------
(* Frames keep their shape, and as long as no write has missed them every  *)
(* cursor is on its screen.                                                *)
TypeOK ==
  /\ frame \in [Frames -> [CellIndices -> Glyphs]]
  /\ video_memory \in [Terminals -> Frames]
  /\ cursor_location \in [Terminals -> [x : 0 .. TERMINAL_COLUMNS - 1, y : 0 .. LAST_BYTE]]
  /\ active_terminal \in Terminals
  /\ hardware_cursor \in CellIndices
  /\ outside \in BOOLEAN
  /\ ~outside => \A t \in Terminals : cursor_location[t].y < TERMINAL_ROWS

(* video_buffer_putc checks no bounds, and the cursors keep it inside the  *)
(* frames in all cases but one: a backspace when the cursor of a terminal  *)
(* is in its top left corner.                                              *)
LeavesByErasing ==
  [][outside' /\ ~outside =>
       \E t \in Terminals : InTopLeftCorner(Target(t)) /\ putc_internal(t, BACKSPACE)]_vars

(* The cursor the user sees is the active terminal's, after output to any  *)
(* terminal and after every switch.                                        *)
HardwareCursorFollows ==
  hardware_cursor = VIDEO_INDEX(cursor_location[active_terminal].x,
                                cursor_location[active_terminal].y)

Abstract == INSTANCE TerminalScreens WITH
  screen <- [t \in Terminals |->
               Screen(frame[get_terminal_output_buffer(t, active_terminal)],
                      cursor_location[t].x, cursor_location[t].y)],
  shown <- active_terminal,
  void <- outside

(* One display shared by the terminals behaves as one display each: output *)
(* to a terminal in the background is neither lost nor shown, and a switch *)
(* changes what is displayed and no terminal's screen.  That ends only     *)
(* with a backspace in the top left corner of a screen.                    *)
ImplementsScreens == Abstract!Spec
=============================================================================
