CONSTANTS
  None = None
  Nothing = None
  Zone = 0
  Truncated <- MCTruncated
  Message <- MCMessage
  Foreign <- MCForeign
SPECIFICATION CodecSpec
INVARIANTS
  CodecTypeOK
  RoundTrip
  CutNeverInvents
CHECK_DEADLOCK FALSE
