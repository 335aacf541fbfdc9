CONSTANTS
  Models = {a}
  Requests = {r1, r2}
  Converts = {a}
  Hub = {a}
  SuppressChars = TRUE
  IdleTimeout = FALSE
  MaxInstances = 4
  Caps = {1}
  MaxEdits = 1
  NoModel = NoModel
  NoRequest = NoRequest
SPECIFICATION FairSpec
INVARIANTS
  WaitersHaveDownload
PROPERTIES
  LoadsEnd
  HardwareEditsTakeEffect
