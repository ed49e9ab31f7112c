SPECIFICATION Spec
CONSTANTS
  p = p  q = q  root = root  o1 = o1  o2 = o2
  Pids <- MCPids  Root = root  Exes = {"a", "b"}  Syscalls = {"open"}
  Names <- MCNames  Confs <- MCConfs  FirstDirs <- MCFirstDirs
  MaxActs = 4  MaxLost = 1  MaxUses = 2  MaxEdits = 1

PROPERTIES FilteredWhenMatched
CHECK_DEADLOCK FALSE
