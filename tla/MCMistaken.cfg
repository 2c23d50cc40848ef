CONSTANTS
  Frame <- MistakenFrames
  Octet <- MCOctet
  Sync1 = 5
  Sync2 = 64
  Noise = 2
  MinLength = 5
  MaxUserData = 6
  BlockSize = 5
  ResetOnReconnect = FALSE
  MaxSent = 2
  MaxErrors = 1
  MaxReconnects = 1
SPECIFICATION Spec
INVARIANT FramesGenuine
CHECK_DEADLOCK FALSE
