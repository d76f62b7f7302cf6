CONSTANTS
  Ids = {1, 2}
  Windows <- MCWindows
  HandleBase = 10
  MaxRequests = 4
  Commands <- MCCommands
  MaxWaiting = 3
  MaxSignals = 6
  MaxEvents = 3
SPECIFICATION Spec
INVARIANTS TypeOK NobodyWaitsInVain
PROPERTIES SettingsTakeEffect
CHECK_DEADLOCK FALSE
