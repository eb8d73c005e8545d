SPECIFICATION Spec
CONSTANTS
  p = p
  q = q
  vm = vm
  image = image
  lab = lab
  dr = dr
  None = None
  Procs <- MCProcs
  Kinds <- MCKinds
  Targets <- MCTargets
  FORMATS = 2
  MaxMoves = 1
  MaxJobs = 2
  MaxTurns = 3
SYMMETRY MCSymmetry
INVARIANTS
  TypeOK
  OwnRows
  WriteLands
PROPERTIES
  NewerLeftAlone
CHECK_DEADLOCK FALSE
