CONSTANTS
  cradle = cradle
  NoGroup = NoGroup
  NoCradle = NoCradle
  Pilots = {1, 2, 5}
  Cradles <- MCCradles
  KindsOf <- MCKindsOf
  CancelFrom = {2, 5}
  HandleBase = 5
  WordSize = 16
  MaxRequests = 3
  MaxIssued = 3
  MaxCrashes = 1
SPECIFICATION FairSpec
INVARIANTS
  TypeOK
  CounterCoversGroups
  BatchIsLive
  HandlesDecode
  SignalledOnce
  UniformContiguous
PROPERTIES
  ImplementsPending
  UniformServed
