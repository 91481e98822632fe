SPECIFICATION FairSdkSpec
CONSTANTS
  Width = 8
  Poly <- MCPoly
  Sources <- MCSources
  Tries = 2
INVARIANTS SdkTypeOK ObjectIsSource CleanAfterAbort ProgressIsHonest
PROPERTIES QuietOnceSettled CallSettles
CHECK_DEADLOCK FALSE
