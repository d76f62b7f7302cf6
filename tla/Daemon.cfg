CONSTANTS
  Devices = {1, 3}
  TypeOf <- MCTypeOf
  Slots = {0, 1, 2}
  MaxDepth = 2
SPECIFICATION FairSpec
INVARIANTS
  TypeOK
  WatchesLive
  DeafForAReason
  TypeRestored
PROPERTIES
  PausedIsQuiet
  HotSyncAnswered
