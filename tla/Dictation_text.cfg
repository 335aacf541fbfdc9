CONSTANTS
  MaxFrames = 5
  MinSpeech = 1
  ForcedCommit = 4
  CommitSilence = 1
  HardBreak = 2
  IdleRelease = 2
  MaxBuffer = 4
  TrimAt = 2
  TrimKeep = 0
  MaxHold = 2
  TailMargin = 1
  Joiners = {1, 3}
  Unheld = {3}
  Fillers = {4}
  Terminators = {2}
  MaxMishaps = 1
  QueueCap = 1
  MaxBumps = 0
  MaxCancels = 0
  Models <- OneModel
SPECIFICATION Spec
INVARIANTS TextKept
PROPERTY ClientSpec
CHECK_DEADLOCK FALSE
