SPECIFICATION Spec
CONSTANTS
  f1 = f1
  f2 = f2
  v1 = v1
  v2 = v2
  v3 = v3
  File = {f1, f2}
  UserContent = {u1, u2}
  Version = {v1, v2, v3}
  Project = {v3}
  ConfigPaths <- MCConfigPaths
  Config <- MCConfig
  Absent = Absent
  Torn = Torn
  None = None
  MaxOps = 4
  MaxEdits = 2
CHECK_DEADLOCK FALSE
INVARIANT TypeOK
INVARIANT UserContentSurvives
INVARIANT InventoryTruthful
PROPERTY RollbackRestores
