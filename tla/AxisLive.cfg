SPECIFICATION LiveSpec
CONSTANTS
  c1 = c1
  c2 = c2
  Clients = {c1, c2}
  Slewers = {c1}
  QueueSize = 1
  PoolSize = 1
  GuideQueueSize = 1
  SlewSpeeds = {2}
  TrackSpeeds = {0, 1}
  GuideSpeeds = {2}
  CorrectionSpeed = 1
  MaxWaitMs = 1
  MaxLateMs = 0
  Preemptible = FALSE
  Ops <- LiveOps
  Requests <- MixedRequests
PROPERTIES
  ImplementsPort
  StopIsFinal
  EmergencyStopIsFinal
  SlewEnds
