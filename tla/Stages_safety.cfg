SPECIFICATION StagesSpec
CONSTANTS
  Models = {m1, m2}
  Jobs = {j1, j2}
  Warmups = {w1}
  Families = {"diarization", "bgm"}
  MaxEdits = 1
  Refs = {r1, r2}
  Cap = 1
  MaxCalls = 1
  full = full
  plain = plain
  Requests = {full, plain}
  Asks <- MCAsks
  Slots = 1
  MaxMishaps <- MCMishaps
INVARIANTS PipelineAccounted GgufAccounted RequestsGiveBack AnswersExplained
PROPERTY ThreadsUndisturbed
SYMMETRY MCSymmetry
CHECK_DEADLOCK FALSE
