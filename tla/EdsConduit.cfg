CONSTANTS
  MaxPid = 3
  MaxUid = 3
  MaxItem = 2
  Pids <- MCPids
  Uids <- MCUids
  Items <- MCItems
  Kinds = {"plain", "calendar"}
  Sources = {home, work}
  Long = {2}
  Recurring = {}
  MultiDaySplit = TRUE
  Ops = {"synchronize", "merge to", "merge from", "copy to", "copy from"}
  MaxEdits = 1
  MaxOdd = 1
SPECIFICATION Spec
SYMMETRY SourceSymmetry
INVARIANTS
  TypeOK
  TablesInverse
  NoDuplicates
  EverythingPaired
  MapOfLastSource
PROPERTIES
  ArchivedIsRemembered
CHECK_DEADLOCK FALSE
