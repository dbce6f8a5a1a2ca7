SPECIFICATION Spec
CONSTANTS
  Streams <- MCStreams
  Lengths = {0, 2, 256}
  MaxPad = 2
  BlockSizes = {2, 3, 8, 9, 11, 255}
INVARIANTS
  TypeOK
  WithinBlock
  InSync
  DecodesStream
CHECK_DEADLOCK FALSE
