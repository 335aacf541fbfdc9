SPECIFICATION Spec
CONSTANTS
  NumRuns = 2
  MaxMishaps = 1
  Ownerless = Ownerless
INVARIANTS RunKeepsItsOwn ClosedStaysClosed ResultAndVideo
CHECK_DEADLOCK FALSE
