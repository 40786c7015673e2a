SPECIFICATION Spec
CONSTANTS
  Servers = {usb, serial}
  Usb = usb
  Threads <- MCThreads
  NoThread <- MCNoThread
  Lines <- TwoLines
  GotoDirs <- BothDirs
  TrackSpeed = 1
  FirstSpeed = 2
  Value <- MCValue
  MaxSpeed = 4
  MaxGuideTime = 50
  EvqSize = 1
  MaxCommands = 3
INVARIANTS MountTypeOK MutexDiscipline TrackingIsReal GotoIsLast EachAnsweredOnce
PROPERTIES GotoEnds
CHECK_DEADLOCK FALSE
