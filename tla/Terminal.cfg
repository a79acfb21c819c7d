\* A small screen that wraps and scrolls, on which a full line still fits
\* (3 <= 3 * 1 here, 127 <= 80 * 24 in the kernel); all keys, reads of every
\* kind of size: new_line_ready takes all its 256 values.
CONSTANTS
  KEYBOARD_BUFFER_SIZE = 4
  TERMINAL_COLUMNS = 3
  TERMINAL_ROWS = 2
  Keys <- Char
  Outputs <- LineOutputs
  ReadSizes = {0, 1, 4}
SPECIFICATION FairSpec
INVARIANTS
  ReadyCountsLines
  RoomForEnter
  CursorOnScreen
PROPERTIES
  CommittedLinesKept
  ReadTakesOneLine
  ReaderWakes
