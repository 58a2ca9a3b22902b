SPECIFICATION Spec
CONSTANTS
  Tasks = {t1, t2}
  Chars = {a, b}
  MAX = 4
  FLASH_END_ADDR = 0
  RAM_START_ADDR = 2
  RAM_END_ADDR = 3
  MaxCount = 2
  MaxKeys = 3
  MaxScreen = 2
INVARIANTS
  TypeOK
  BufferIsLine
  ScreenShowsLine
PROPERTY
  ResultIsLine
SYMMETRY Symmetry
