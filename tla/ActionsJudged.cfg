SPECIFICATION Spec
CONSTANTS
  lab = lab
  dr = dr
  power = power
  update = update
  None = None
  Primary = lab
  Peer = dr
  Held <- MCHeld
  Order <- MCOrder
  Acts = {power}
  Forms = {}
  Asking = {}
  ReadOnly = {dr}
  Denying = {}
  Confirming = {}
  MAX_BULK = 2
  MaxFlight = 0
  MaxRefused = 0
  MaxChanges = 0
PROPERTIES
  JudgedByOwnContext
CHECK_DEADLOCK FALSE
