SPECIFICATION PacingSpec
CONSTANTS
  NoTier = NoTier
  NoHold = NoHold
  Forever = 2
  Slots = {s1, s2}
  Operations = {"list", "act"}
  Catalog <- MCCatalog
  HOST_START <- MCStart
  HOST_CEILING <- MCCeiling
  MAX_RETRY_AFTER = 3
  Headers <- MCHeaders
  RetryAfters = {1, 9}
  MaxThrottles = 2
INVARIANTS
  PacingTypeOK
  NoTokenBurnt
PROPERTIES
  TierKept
  HoldHonoured
  NoFreeze
