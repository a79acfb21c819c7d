CONSTANTS
  MAX_PROCESSES = 6
  NUM_TERMINALS = 3
  HaltArgs = {0}
  FKeys <- Terminals
SPECIFICATION Spec
INVARIANTS
  VideoPageFollowsTerminal
CHECK_DEADLOCK FALSE
