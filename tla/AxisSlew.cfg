SPECIFICATION Spec
CONSTANTS
  c1 = c1
  c2 = c2
  Clients = {c1, c2}
  Slewers = {c1}
  QueueSize = 2
  PoolSize = 2
  GuideQueueSize = 2
  SlewSpeeds = {1, 3}
  TrackSpeeds = {0}
  GuideSpeeds = {1}
  CorrectionSpeed = 1
  MaxWaitMs = 1
  MaxLateMs = 1
  Preemptible = TRUE
  Ops <- SlewOps
  Requests <- SlewRequests
INVARIANTS
  TypeOK
  StoppedMeansStill
  IdleTaskStatus
  MotorFollowsGoto
  NoEarlyWake
  NoLostSpeedChange
  PutNeverFails
PROPERTIES
  ImplementsPort
  AccelerationLimited
  EmergencyStopIsImmediate
  SlewEndsStopped
