SPECIFICATION SpecRace
CONSTANTS
  VGA_HEIGHT = 2
  VGA_WIDTH = 2
  TAB = 1
  PAGE_CELLS = 5
  Glyphs = {a, b}
  NEWLINE = newline
  TABULATOR = tab
  BACKSPACE = backspace
  Blank = blank
  Junk = junk
  MaxChars = 5
  KernelChars = {a, newline, tab, backspace}
  KeyChars = {b, newline, tab, backspace}
  MaxKeys = 3
INVARIANTS
  Uninterrupted
  RowPassesByNewline
CHECK_DEADLOCK FALSE
