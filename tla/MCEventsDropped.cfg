SPECIFICATION SpecEvents
CONSTANTS
  Width = 8
  MAX_EVENT_SIZE = 22
  MAX_EXECVE_ACCUM_SIZE = 15
  MAX_NUM_EXECVE_RECORDS = 4
  NUM_EXECVE_RH_PRESERVE = 1
  MAX_CACHE_ENTRY = 1
  Streams <- MCStreams
  SingleRecordTypes <- MCSingles
  MaxQueued = 1
  MaxOdd = 2
  Interpreted <- MCInterpreted
INVARIANT LoopRuns
CHECK_DEADLOCK FALSE
