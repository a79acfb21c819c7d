CONSTANTS
  MAX_PROCESSES = 6
  NUM_TERMINALS = 3
  HaltArgs = {0}
  FKeys <- NoFKeys
SPECIFICATION FairSpec
PROPERTIES
  EveryRunnerScheduled
CHECK_DEADLOCK FALSE
