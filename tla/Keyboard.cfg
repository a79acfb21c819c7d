\* Two terminals of two columns and two rows: a line fits on a screen less one
\* row, as 127 characters do on 80 * 24.  Programs write newlines, which scroll,
\* and backspaces, which erase what the keys have echoed and end in the corner.
CONSTANTS
  TERMINAL_COLUMNS = 2
  TERMINAL_ROWS = 2
  Glyphs = {"blank", "l", "L"}
  NUM_TERMINALS = 2
  KEYBOARD_BUFFER_SIZE = 2
  Outputs = {"newline", "backspace"}
  Keys = {"l", "enter", "backspace", "ctrl", "alt", "F1", "F2"}
SPECIFICATION KeyboardSpec
INVARIANTS
  LineShown
PROPERTY ImplementsScreens
