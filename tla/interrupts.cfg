SPECIFICATION KernelFairSpec
CONSTANTS
  MaxBytes = 6
  TICKS = 8
  CLOCKS_PER_SECOND = 2
  MS = 4
  SleepBytes = 2
  ENTRIES = 4
  HIGH = 768
  VIDEO = 1
  BOOT = 0
  TEXT = 2
  TSS <- MCTSS
INVARIANTS
  TypeOK
  OneAtATime
  OwnHandler
  KeyboardAlive
  InOrder
  CodeMapped
  HighHalf
  Flat
  SleptEnough
PROPERTIES
  SetupEnds
  BytesAreRead
  SleepReturns
