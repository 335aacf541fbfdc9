SPECIFICATION ServicesSpec
CONSTANTS
  Slugs = {"s1", "s2"}
  Req <- MCReq
  MaxPosts = 3
  MaxFails = 2
  Inputs <- MCInputs
  MaxGroup = 3
  Batch = 4
  MCLetters = {"a", "t", "p", "c", "m", "j", " "}
  MCReplyLen = 5
  MCCaptures = {k1, k2, k3}
  Cap = 2
  Hold = 1
  Requests = {r1, r2}
  MaxParks = 4
  Fields = {"f"}
  RuleSlugs = {"x"}
  Profiles = {"p", "q"}
  Worlds <- MCWorlds
  Candidates <- MCSilences
  Pins <- MCPins
  MaxSpeakers = 3
INVARIANTS SavesTakeEffect CuesKeepTheirWords NoReceiptLost RequestsBounded
PROPERTIES NoLostEdit TranslationAdvances
CHECK_DEADLOCK FALSE
