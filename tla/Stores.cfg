SPECIFICATION StoresSpec
CONSTANTS
  Captures = {c1, c2, c3}
  Sids = {s1, s2}
  Callers = {t1, t2}
  Vad = vad
  Originals = {c1, c2}
  MaxSaves = 2
  Tasks = {t1, t2}
  RowCap = 1
  MaxCaptures = 3
  MaxEvents = 3
  Users = {t1, t2}
  Names = {c1, c2}
  Kinds = {"dictation", "file", "odd"}
  Deliveries = {"typed"}
  Apps = {"app"}
  Langs = {l1, l2}
  TargetsMax = 1
  Grace = 0
  JobHours = 1
  AppHours = 0
  MaxHour = 2
  MaxRequests = 2
  Uploads = {up, big}
  Audios = {audio}
  Videos = {video}
  Size <- MediaSize
  Big = big
  Made = 2
  Cap = 2
  Slots = 1
  AudioWall = 1
  VideoWall = 2
  UploadIdle = 1
  Ttl = 0
INVARIANTS SamplesCorrect CapturesAccounted MediaAccounted UsageAddsUp
PROPERTY ReviewsRespected
SYMMETRY MCSymmetry
CHECK_DEADLOCK FALSE
