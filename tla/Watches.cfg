SPECIFICATION Spec
CONSTANTS
  Contexts = {p, q}
  Home = p
  None = None
  CAPACITY = 2
  CHANNEL = 2
  MaxSessions = 2
  MaxEntries = 3
  MaxAttempts = 2
  MaxJoins = 1
INVARIANTS
  TypeOK
  OwnStory
  WatchedAtHome
PROPERTIES
  StoryEnds
CHECK_DEADLOCK FALSE
