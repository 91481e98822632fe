SPECIFICATION LadderSpec
CONSTANTS
  Lower <- MCLower
  NoOrigin = NoOrigin
  KeyRows <- MCKeyRows
  Starts <- MCStarts
  MaxChanges = 2
  MaxFaults = 1
INVARIANTS LadderTypeOK ExistenceHidden OnlyGranted CorsExact
CHECK_DEADLOCK FALSE
