SPECIFICATION Spec
CONSTANTS
  Pausable = TRUE
  Calls = {"refresh", "stop", "off", "every", "pause", "wake"}
  Absent = TRUE
  MAX_SKIPS = 2
  MaxCalls = 3
  MaxFails = 1
  MaxChanges = 2
INVARIANTS
  TypeOK
PROPERTIES
  AskedIsServed
  CatchesUp
  IdleIsQuiet
CHECK_DEADLOCK FALSE
