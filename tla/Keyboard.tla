------------------------------ MODULE Keyboard ------------------------------
(***************************************************************************)
(* The keyboard interrupt handler of tty/terminal.c over the terminals of  *)
(* Console: scan codes arrive one by one, modifiers select what a key      *)
(* means, characters go to the input buffer and the screen of a terminal,  *)
(* Alt+F1.. changes the terminal shown and Ctrl+L prints it anew.          *)
(*                                                                         *)
(* The handler runs with interrupts off.  It reads codes until the         *)
(* controller has no more, which is up to the user: each turn of its loop  *)
(* takes any code, or ends it.  Printing the buffer for Ctrl+L takes a     *)
(* step for each character.  Tabs and the test keys Ctrl+1 .. Ctrl+5 are   *)
(* in Terminal and Rtc.                                                    *)
(***************************************************************************)
EXTENDS Console, Sequences

CONSTANTS
  KEYBOARD_BUFFER_SIZE,  \* 128
  Keys,                  \* the keys of the keyboard
  Outputs                \* the characters programs write

(* A line, which Enter ends, leaves a row free: 127 <= 80 * 24.            *)
ASSUME KeyboardAssumption ==
  /\ KEYBOARD_BUFFER_SIZE \in Nat \ {0}
  /\ KEYBOARD_BUFFER_SIZE - 1 <= TERMINAL_COLUMNS * (TERMINAL_ROWS - 1)
  /\ {"l", "L"} \subseteq Glyphs
  /\ Outputs \subseteq Char

KEYBOARD_F == [t \in Terminals |-> CASE t = 0 -> "F1" [] t = 1 -> "F2" [] OTHER -> "F3"]
Modifiers  == {"ctrl", "alt", "left_shift", "right_shift"}

VARIABLES
  keyboard_state,    \* the modifiers that are pressed
  caps_lock_status,
  at,                \* the handler: "idle", "loop", "reprint"
  terminal_num,      \* its local variable
  reprint,           \* what Ctrl+L has still to print
  input_buffer,      \* of each terminal: its bytes (CircularBuffer)
  own                \* history: terminals whose line no output has joined

kbdVars == <<keyboard_state, caps_lock_status, at, terminal_num, reprint,
             input_buffer, own>>
kvars   == <<vars, kbdVars>>

NONE == "none"

(* The four tables of keyboard_map: letters follow shift and caps lock;    *)
(* the other keys here are the same in all tables.                         *)
keyboard_map(shift, caps, key) ==
  CASE key = "l"         -> IF shift # caps THEN "L" ELSE "l"
    [] key = "enter"     -> NEWLINE
    [] key = "backspace" -> BACKSPACE
    [] OTHER             -> NONE

(* The line being typed, when the first n bytes of buffer have been: those *)
(* that no newline follows.                                                *)
Typed(buffer, n) == {k \in 1 .. n : \A j \in k .. n : buffer[j] # NEWLINE}
Line(t) == Typed(input_buffer[t], Len(input_buffer[t]))

KeyboardInit ==
  /\ Init
  /\ frame = [f \in Frames |-> BlankGrid]
  /\ keyboard_state = {} /\ caps_lock_status = FALSE
  /\ at = "idle" /\ terminal_num = 0 /\ reprint = << >>
  /\ input_buffer = [t \in Terminals |-> << >>]
  /\ own = Terminals

-----------------------------------------------------------------------------
(* A turn of the loop.  The terminal it works on is the one that was       *)
(* active when the handler was entered.                                    *)
Terminal == IF at = "idle" THEN active_terminal ELSE terminal_num
Turn == at \in {"idle", "loop"} /\ terminal_num' = Terminal

(* No more codes: acknowledge and return.                                  *)
handler_returns ==
  /\ at = "loop"
  /\ at' = "idle" /\ terminal_num' = 0
  /\ UNCHANGED <<keyboard_state, caps_lock_status, reprint, input_buffer, own, vars>>

(* The escape code is dropped; so is, in effect, the release of a key that *)
(* is no modifier, since the driver never looks at the state of others.    *)
code_dropped ==
  /\ Turn /\ at' = "loop"
  /\ UNCHANGED <<keyboard_state, caps_lock_status, reprint, input_buffer, own, vars>>

key_released(key) ==
  /\ Turn /\ at' = "loop"
  /\ keyboard_state' = keyboard_state \ {key}
  /\ UNCHANGED <<caps_lock_status, reprint, input_buffer, own, vars>>

(* A key pressed.  The character is looked up before caps lock changes.    *)
Pressed(key) ==
  /\ Turn
  /\ keyboard_state' = keyboard_state \cup ({key} \cap Modifiers)
  /\ caps_lock_status' = (caps_lock_status # (key = "caps"))

Ctrl  == "ctrl" \in keyboard_state'
Alt   == "alt" \in keyboard_state'
Shift == "left_shift" \in keyboard_state' \/ "right_shift" \in keyboard_state'
CharOf(key) == keyboard_map(Shift, caps_lock_status, key)

(* What keyboard_putc ignores.                                             *)
Buffer   == input_buffer[Terminal]
Erasable == Len(Buffer) > 0 /\ Buffer[Len(Buffer)] # NEWLINE
Ignored(ch) ==
  \/ ch = BACKSPACE /\ ~Erasable
  \/ ch = NEWLINE /\ Len(Buffer) >= KEYBOARD_BUFFER_SIZE
  \/ ch \notin {BACKSPACE, NEWLINE} /\ Len(Buffer) >= KEYBOARD_BUFFER_SIZE - 1

(* A function key with Alt selects a terminal; the handler goes on with    *)
(* the terminal it started with.                                           *)
key_alt_f(key, t) ==
  /\ Pressed(key) /\ at' = "loop"
  /\ Alt /\ key = KEYBOARD_F[t]
  /\ switch_active_terminal(t)
  /\ UNCHANGED <<reprint, input_buffer, own>>

key_ctrl_l_bug(key) ==  \* the newest byte is not printed again
  /\ Pressed(key) /\ at' = "reprint"
  /\ Ctrl /\ CharOf(key) = "l"
  /\ clear_terminal(Terminal)
  /\ reprint' = SubSeq(Buffer, 1, Len(Buffer) - 1)
  /\ own' = own \cup {Terminal}
  /\ UNCHANGED input_buffer

(* Ctrl+L: the screen is cleared, then the input buffer printed again.     *)
key_ctrl_l(key) ==
  /\ Pressed(key) /\ at' = "reprint"
  /\ Ctrl /\ CharOf(key) = "l"
  /\ clear_terminal(Terminal)
  /\ reprint' = Buffer
  /\ own' = own \cup {Terminal}
  /\ UNCHANGED input_buffer

reprint_char ==
  /\ at = "reprint"
  /\ IF reprint = << >>
     THEN at' = "loop" /\ UNCHANGED <<reprint, vars>>
     ELSE /\ putc_internal(terminal_num, Head(reprint))
          /\ reprint' = Tail(reprint)
          /\ UNCHANGED at
  /\ UNCHANGED <<keyboard_state, caps_lock_status, terminal_num, input_buffer, own>>

(* A key that neither prints nor commands: a modifier, a key with Ctrl or  *)
(* Alt, or one that keyboard_putc ignores.                                 *)
key_silent(key) ==
  /\ Pressed(key) /\ at' = "loop"
  /\ ~(Alt /\ \E t \in Terminals : key = KEYBOARD_F[t])
  /\ ~(Ctrl /\ CharOf(key) = "l")
  /\ Ctrl \/ Alt \/ CharOf(key) = NONE \/ Ignored(CharOf(key))
  /\ UNCHANGED <<reprint, input_buffer, own, vars>>

(* A character: into the buffer, or the last one out of it, and echoed.    *)
key_char(key) ==
  /\ Pressed(key) /\ at' = "loop"
  /\ ~Ctrl /\ ~Alt /\ CharOf(key) # NONE /\ ~Ignored(CharOf(key))
  /\ input_buffer' = [input_buffer EXCEPT ![Terminal] =
       IF CharOf(key) = BACKSPACE THEN SubSeq(@, 1, Len(@) - 1)
                                  ELSE Append(@, CharOf(key))]
  /\ putc_internal(Terminal, CharOf(key))
  /\ own' = IF CharOf(key) = NEWLINE THEN own \cup {Terminal} ELSE own
  /\ UNCHANGED reprint

-----------------------------------------------------------------------------
(* Programs, while the handler does not run: output to their terminal, and *)
(* a read that takes the first line.                                       *)
terminal_write(t, ch) ==
  /\ at = "idle"
  /\ putc_internal(t, ch)
  /\ own' = IF Line(t) = {} THEN own ELSE own \ {t}
  /\ UNCHANGED <<keyboard_state, caps_lock_status, at, terminal_num, reprint,
                 input_buffer>>

terminal_read(t) ==
  /\ at = "idle"
  /\ \E n \in 1 .. Len(input_buffer[t]) :
       /\ input_buffer[t][n] = NEWLINE
       /\ \A k \in 1 .. n - 1 : input_buffer[t][k] # NEWLINE
       /\ input_buffer' = [input_buffer EXCEPT ![t] = SubSeq(@, n + 1, Len(@))]
  /\ UNCHANGED <<keyboard_state, caps_lock_status, at, terminal_num, reprint,
                 own, vars>>

KeyboardNext ==
  \/ /\ ~outside
     /\ \/ \E key \in Keys :
             \/ key \in Modifiers /\ key_released(key)
             \/ key_ctrl_l(key) \/ key_silent(key) \/ key_char(key)
             \/ \E t \in Terminals : key_alt_f(key, t)
        \/ code_dropped \/ reprint_char \/ handler_returns
        \/ \E t \in Terminals :
             terminal_read(t) \/ \E ch \in Outputs : terminal_write(t, ch)
  \/ outside /\ UNCHANGED kvars

KeyboardSpec == KeyboardInit /\ [][KeyboardNext]_kvars
-----------------------------------------------------------------------------
(* The user sees the line that a read will return: unless a program has    *)
(* written in the middle of it, the cells before the cursor show it, after *)
(* every key, Ctrl+L and change of terminal, shown or in the background.   *)
LineShown ==
  ~outside =>
    \A t \in own :
      ~(at = "reprint" /\ t = terminal_num) =>
        \A k \in Line(t) :
          LET cell == VIDEO_INDEX(cursor_location[t].x, cursor_location[t].y)
                        - 1 - (Len(input_buffer[t]) - k)
          IN  cell >= 0 /\ frame[video_memory[t]][cell] = input_buffer[t][k]

(* Left alone, the driver stays inside the frames: it erases no more than  *)
(* it has echoed, also behind the output of programs, after a scroll and   *)
(* in the middle of Ctrl+L.  Only a program that writes backspaces can     *)
(* lead it out of one.                                                     *)
EchoStaysInside == BACKSPACE \notin Outputs => ~outside
=============================================================================
