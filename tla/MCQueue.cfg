SPECIFICATION FairSpec
CONSTANTS
  DataSize = 11
  Hdr = 1
  ItemSizes = {1, 2}
  Getters = {g1}
  FirstCursors <- MCFirstCursors
  MaxId = 9
  MaxInt = 1
INVARIANTS TypeOK RingInv
PROPERTIES DropsOnlyWhenFull GetsNextItem ImplementsLog ReadOrGivenUp 
CHECK_DEADLOCK FALSE
