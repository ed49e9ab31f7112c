SPECIFICATION Spec
CONSTANTS
  Conns = {"old", "new"}
  Quota <- MCQuota
  Threads <- MCThreads
  Callers <- MCCallers
  Order <- MCOrder
  Fds = {1, 2}
INVARIANTS CommitWaitsForReader
CHECK_DEADLOCK FALSE
