SPECIFICATION Spec
CONSTANTS
  Shapes = {"list", "detail", "once"}
  Failing = {"list", "detail"}
  Pages = 2
  CHANNEL = 2
  MaxSubs = 3
  MaxCycles = 2
INVARIANTS
  TypeOK
  OnceIsHeard
PROPERTIES
  Implements
  NotServedStands
  ClockStops
CHECK_DEADLOCK FALSE
