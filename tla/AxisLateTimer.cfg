SPECIFICATION LiveSpec
CONSTANTS
  c1 = c1
  c2 = c2
  Clients = {c1, c2}
  Slewers = {c1}
  QueueSize = 2
  PoolSize = 2
  GuideQueueSize = 2
  SlewSpeeds = {1}
  TrackSpeeds = {0}
  GuideSpeeds = {1}
  CorrectionSpeed = 1
  MaxWaitMs = 2
  MaxLateMs = 1
  Preemptible = TRUE
  Ops <- CommandOps
  Requests <- PlainGoto
PROPERTIES
  SlewEnds
CHECK_DEADLOCK FALSE
