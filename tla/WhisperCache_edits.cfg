CONSTANTS
  Models = {a, b}
  Requests = {r1, r2}
  Converts = {}
  Hub = {}
  SuppressChars = FALSE
  IdleTimeout = TRUE
  MaxInstances = 6
  Caps = {1, 2}
  MaxEdits = 1
  NoModel = NoModel
  NoRequest = NoRequest
SPECIFICATION Spec
SYMMETRY Symmetry
INVARIANTS
  LeaseAccounting
  RegistryMatchesCache
  BuiltWithCurrentHardware
  OverflowOnlyInUse
PROPERTY PoolSpec
