\* A hardware rate of 4 Hz: intervals of 1 and 2 ticks.  The programs that the
\* shells start in slot 3 use the clock.
CONSTANTS
  MAX_PROCESSES = 5
  NUM_TERMINALS = 3
  HaltArgs = {0}
  FKeys = {0}
  MAX_FREQ = 4
  MIN_FREQ = 2
  Hertz = {3, 4, 8}
  RtcSlots = {3}
  RtcFds = 2
SPECIFICATION RtcFairSpec
INVARIANTS
  NeverEarly
  NeverLate
  FreedClockIsOff
PROPERTIES
  ReadReturns
CHECK_DEADLOCK FALSE
