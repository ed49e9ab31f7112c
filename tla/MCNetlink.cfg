SPECIFICATION SpecNetlink
CONSTANTS
  Plans <- MCPlans
  Retries = 1
  MaxSeq = 4
  MaxFaults = 1
INVARIANTS Reachable OwnAnswer GetsStatus
PROPERTIES WaitEnds CloseReturns
CHECK_DEADLOCK FALSE
CONSTRAINT Whole
