CONSTANTS
  None = None
  Nothing = None
  Zone = 0
  Truncated <- MCTruncated
  Message <- SparseResponses
  Foreign = {}
SPECIFICATION CodecSpec
INVARIANTS
  ResponsesReadBack
CHECK_DEADLOCK FALSE
