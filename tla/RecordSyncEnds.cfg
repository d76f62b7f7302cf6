CONSTANTS
  a = a
  b = b
  Size = 2
  None = None
  Ids <- MCIds
  Keys <- MCIds
  Values <- MCValues
  MaxEdits = 1
  MaxOther = 0
  MaxBreaks = 1
SPECIFICATION FairSpec
PROPERTIES
  SessionsEnd
