SPECIFICATION Spec
CONSTANTS
  c1 = c1
  c2 = c2
  Clients = {c1, c2}
  Slewers = {}
  QueueSize = 1
  PoolSize = 2
  GuideQueueSize = 1
  SlewSpeeds = {2}
  TrackSpeeds = {1, 2}
  GuideSpeeds = {1, 3}
  CorrectionSpeed = 1
  MaxWaitMs = 2
  MaxLateMs = 1
  Preemptible = TRUE
  Ops <- ModeOps
  Requests <- ModeRequests
INVARIANTS
  PoolConserved
  GuideRestoresTracking
  NoLostGuidePulse
PROPERTIES
  ModeChangesAtRest
