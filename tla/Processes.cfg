\* Three terminals, as in the kernel; two slots for children, and a user who
\* switches between two of the terminals.
CONSTANTS
  MAX_PROCESSES = 5
  NUM_TERMINALS = 3
  HaltArgs <- MCHaltArgs
  FKeys = {0, 1}
  buffer_page <- MCbuffer_page
SPECIFICATION MemFairSpec
INVARIANTS
  ProcessChain
  CpuRunsCurrentProcess
  FramesMatchResumption
  ExecuteReturnCodes
  UserMemoryPrivate
PROPERTIES
  LiveProgramsIntact
  ScheduledWithoutLastSlot
  VideoPageRepairedWithoutLastSlot
\* An exception in a root shell stops the machine.
CHECK_DEADLOCK FALSE
