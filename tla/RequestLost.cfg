CONSTANTS
  cradle = cradle
  NoGroup = NoGroup
  NoCradle = NoCradle
  Pilots = {1, 2}
  Cradles <- MCCradles
  KindsOf <- MCKindsOf
  CancelFrom = {}
  HandleBase = 5
  WordSize = 16
  MaxRequests = 3
  MaxIssued = 3
  MaxCrashes = 0
SPECIFICATION Spec
INVARIANT NoRequestLost
