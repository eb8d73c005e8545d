SPECIFICATION Spec
CONSTANTS
  a = a
  b = b
  c = c
  None = None
  Contexts <- MCContexts
  Stored <- MCStored
  MaxSchedulers = 3
  MaxViews = 3
  MaxMail = 1
SYMMETRY MCSymmetry
INVARIANTS
  TypeOK
  SubsMatchViews
  OwnData
CHECK_DEADLOCK FALSE
