CONSTANTS
  Byte <- MCByte
  Fragments <- MCFragments
  MaxPayload = 2
  MaxFragment = 4
  SeqMod = 4
  MaxBurst = 3
  Reconnects = TRUE
  ResetOnReconnect = TRUE
  MaxSent = 3
SPECIFICATION FairSpec
INVARIANTS
  TypeOK
  Integrity
  NoCollateralLoss
  IInv
PROPERTIES
  ServiceSpec
  Resolved
CHECK_DEADLOCK FALSE
