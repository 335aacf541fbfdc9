SPECIFICATION FairSpec
CONSTANTS
  Requests <- MCRequests
  Stage <- MCStage
  Family <- MCFamily
  Singletons = {"diarization"}
  MaxPlans = 2
  MaxQueue = 1
  MaxRegs = 2
  MaxStops = 1
  MaxUses = 1
INVARIANTS PlansAccounted
PROPERTIES MarksResolved
CHECK_DEADLOCK FALSE
