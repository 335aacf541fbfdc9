CONSTANTS
  MaxFrames = 3
  MinSpeech = 1
  ForcedCommit = 2
  CommitSilence = 1
  HardBreak = 0
  IdleRelease = 1
  MaxBuffer = 4
  TrimAt = 1
  TrimKeep = 0
  MaxHold = 2
  TailMargin = 1
  Joiners = {1}
  Unheld = {}
  Fillers = {}
  Terminators = {2}
  MaxMishaps = 0
  QueueCap = 2
  MaxBumps = 1
  MaxCancels = 1
  Models <- TwoModels
SPECIFICATION FairSpec
INVARIANTS LeasesReturned FlushCoversAudio
PROPERTIES CutOffIsSilent StopEnds
CHECK_DEADLOCK FALSE
