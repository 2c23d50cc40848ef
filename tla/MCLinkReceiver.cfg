CONSTANTS
  Frame <- MCFrame
  Octet <- MCOctet
  Sync1 = 5
  Sync2 = 64
  Noise = 2
  MinLength = 5
  MaxUserData = 6
  BlockSize = 5
  ResetOnReconnect = TRUE
  MaxSent = 2
  MaxErrors = 1
  MaxReconnects = 1
SPECIFICATION FairSpec
INVARIANTS
  LinkTypeOK
  GenuineUnlessMistaken
  NoFrameMissed
  BufferBounded
PROPERTY CallReturns
CHECK_DEADLOCK FALSE
