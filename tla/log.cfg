SPECIFICATION FairSpec
CONSTANTS
  BITS = 4
  FIFO_SIZE = 2
  Noise <- MCNoise
  Calls <- MCCalls
INVARIANTS
  TypeOK
  OnTheLine
  Formatted
  Computed
PROPERTY
  Delivered
CHECK_DEADLOCK FALSE
