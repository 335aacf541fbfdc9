CONSTANTS
  Models = {a}
  Requests = {r1}
  Converts = {}
  Hub = {a}
  SuppressChars = FALSE
  IdleTimeout = FALSE
  MaxInstances = 3
  Caps = {1}
  MaxEdits = 1
  NoModel = NoModel
  NoRequest = NoRequest
SPECIFICATION Spec

INVARIANT BuiltFromCurrentWeights
