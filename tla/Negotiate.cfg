SPECIFICATION Spec
CONSTANTS
  vm = vm
  image = image
  Candidates <- MCCandidates
  Since <- MCSince
  NEWEST = 3
  Serves <- MCServes
  Requesters <- MCRequesters
  INTERVAL = 1
  MaxFaults = 1
INVARIANTS
  TypeOK
  MissingIsOwn
PROPERTIES
  RepairsSpaced
  WayBack
CHECK_DEADLOCK FALSE
