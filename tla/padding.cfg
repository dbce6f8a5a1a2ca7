SPECIFICATION Spec
CONSTANTS
  Streams <- MCStreams
  Lengths = {1}
  MaxPad = 2
  BlockSizes = {1, 9}
INVARIANTS
  WithinBlock
CHECK_DEADLOCK FALSE
