SPECIFICATION Spec
CONSTANTS
  Conns = {"old", "new"}
  Quota <- MCQuota
  Threads <- MCThreads
  Callers <- MCCallers
  Order <- MCOrder
  Fds = {1, 2}
INVARIANTS StatusTrue
PROPERTIES InTurn GetsHandled ShutdownEnds
CHECK_DEADLOCK FALSE
