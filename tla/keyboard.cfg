SPECIFICATION Spec
CONSTANTS
  Letters <- MCLetters
  Symbols <- MCSymbols
  MaxEvents = 5
  MaxPending = 2
INVARIANTS
  TypeOK
  NothingSticks
  NothingMissed
  PrintedAsTyped
CHECK_DEADLOCK FALSE
