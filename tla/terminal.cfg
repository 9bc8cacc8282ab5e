SPECIFICATION SpecOnLine
CONSTANTS
  VGA_HEIGHT = 2
  VGA_WIDTH = 3
  TAB = 2
  PAGE_CELLS = 8
  Glyphs = {a, b}
  NEWLINE = newline
  TABULATOR = tab
  BACKSPACE = backspace
  Blank = blank
  Junk = junk
  MaxChars = 10
INVARIANTS
  TypeOK
  CleanBelow
PROPERTY
  Implements
CHECK_DEADLOCK FALSE
