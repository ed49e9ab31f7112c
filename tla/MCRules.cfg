SPECIFICATION Spec
CONSTANTS
  c1 = c1  c2 = c2  c31 = c31  r = r  w = w  file = file  folder = folder  k1 = k1
  AuomsKey = auoms  Bad = Bad  AllCalls = AllCalls
  Calls <- MCCalls  Shifted <- MCShifted  Perms <- MCPerms  Dirs <- MCDirs  Homeless = {}
  Features <- MCFeatures  Data <- MCData  Words <- MCWords  Confs <- MCConfs
  AdminRules <- MCAdminRules  AdminLines <- MCAdminLines
  MaxAdmin = 2  MaxFaults = 1
INVARIANTS CheckCovers
PROPERTIES NoChurn AdminLinesKept BootCovered DisableCleans StaysLoaded
CHECK_DEADLOCK FALSE
