SPECIFICATION Spec
CONSTANTS
  EXTRA_SPACE = 2
  EXTRA_SPACE_HEAD = 2
  Memory = 9
  MaxCount = 4
  QueueIds = {1, 2}
  BufferSizes = {2}
  Strings = {2, 3, 4}
  STRING_BLOCK = 1
  REL_BLOCK = 1
  WHATPROVIDES_BLOCK = 1
  MaxStrings = 5
  MaxRels = 3
  LateFiles = FALSE
  BadFiles = FALSE
  NumPages = 5
  MinMap = 2
  MaxRange = 3
  RRPeriod = 6
  NumTes = 3
  Bits = {1, 2}
  MaxData = 12
  Parts = {"queue", "tables", "pages", "edges"}
INVARIANTS
  QueueFits
  QueueIsSequence
  TablesSound
  PagesSound
  EdgesSound
