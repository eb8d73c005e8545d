SPECIFICATION Spec
CONSTANTS
  lab = lab
  dr = dr
  power = power
  update = update
  None = None
  Primary = lab
  Peer = dr
  Held <- MCHeld
  Order <- MCOrder
  Acts = {power, update}
  Forms = {update}
  Asking = {power}
  ReadOnly = {}
  Denying = {}
  Confirming = {}
  MAX_BULK = 2
  MaxFlight = 0
  MaxRefused = 1
  MaxChanges = 1
INVARIANTS
  TypeOK
  RefutedForgotten
PROPERTIES
  SentWasAsked
  LookupEnds
CHECK_DEADLOCK FALSE
