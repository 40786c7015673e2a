SPECIFICATION LiveSpec
CONSTANTS
  c1 = c1
  c2 = c2
  Clients = {c1, c2}
  Slewers = {c1}
  QueueSize = 2
  PoolSize = 2
  GuideQueueSize = 2
  SlewSpeeds = {2}
  TrackSpeeds = {0}
  GuideSpeeds = {1}
  CorrectionSpeed = 1
  MaxWaitMs = 2
  MaxLateMs = 1
  Preemptible = FALSE
  Ops <- KeepOps
  Requests <- PlainNudge
PROPERTIES
  EmergencyStopIsFinal
