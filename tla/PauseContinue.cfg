CONSTANTS
  Devices = {2}
  TypeOf <- MCTypeOf
  Slots = {0, 1, 2}
  MaxDepth = 2
SPECIFICATION Spec
INVARIANT ContinueListens
