CONSTANTS
  Programs = {"first", "second"}
  SyscallNumbers = {0, 3, 5, 10, 11}
  Faults = {0, 13, 14}
SPECIFICATION FairSpec
INVARIANTS
  ContextRestored
  AllAcknowledged
  NoneEarly
  FaultReported
PROPERTY DevicesServed
CHECK_DEADLOCK FALSE
