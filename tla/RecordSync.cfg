CONSTANTS
  a = a
  b = b
  Size = 2
  None = None
  Ids <- MCIds
  Keys <- MCIds
  Values <- MCValues
  MaxEdits = 2
  MaxOther = 1
  MaxBreaks = 1
SPECIFICATION Spec
INVARIANTS
  TypeOK
  TableRespected
  FlagsSufficient
  RepeatedSyncIsIdle
  OneCounterpart
