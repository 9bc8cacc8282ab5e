SPECIFICATION ShortSpec
CONSTANTS
  WORD = 4
  WIDTH = 24
  RangeMemories <- Patterns
  SearchMemories <- Bitmaps
PROPERTY
  Terminates
CHECK_DEADLOCK FALSE
