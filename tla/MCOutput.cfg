SPECIFICATION SpecOutput
CONSTANTS
  me = me
  Getters = {me}
  Slack = 9
  Logs <- MCLogs
  MaxSize = 2
  FirstFiles <- MCBoth
  Capacity = 2
  MaxLosses = 1
  MaxStops = 1
INVARIANTS NoneSkipped
PROPERTIES CursorForward EventuallySettled CursorSaved StopEnds
CHECK_DEADLOCK FALSE
