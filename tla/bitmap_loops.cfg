SPECIFICATION FairSpec
CONSTANTS
  WORD = 4
  WIDTH = 24
  RangeMemories <- Patterns
  SearchMemories <- Bitmaps
INVARIANTS
  TypeOK
  OnlyTheRange
  WholeRange
  FirstUnsetBit
PROPERTY
  Terminates
CHECK_DEADLOCK FALSE
