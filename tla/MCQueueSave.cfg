SPECIFICATION SpecSave
CONSTANTS
  DataSize = 9
  Hdr = 1
  ItemSizes = {1}
  Getters = {}
  FirstCursors = {}
  MaxId = 8
  MaxInt = 1
  Past = 2
INVARIANTS FileLoads SavedStays CloseKeepsAll
CHECK_DEADLOCK FALSE
