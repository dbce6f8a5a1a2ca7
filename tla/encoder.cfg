\* Requests as the application reads them.
SPECIFICATION Spec
CHECK_DEADLOCK FALSE
CONSTANTS
  NULL = NULL
  Requests <- OneChunk
  RequestIds <- SomeIds
  LongParts <- Lengths
INVARIANTS TypeOK RequestArrives BodyArrives WithinBuffer
