\* A body in more than one chunk.
SPECIFICATION Spec
CHECK_DEADLOCK FALSE
CONSTANTS
  NULL = NULL
  Requests <- TwoChunks
  RequestIds <- SomeIds
  LongParts <- Lengths
INVARIANTS BodyArrives
