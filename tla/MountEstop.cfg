SPECIFICATION Spec
CONSTANTS
  Servers = {usb}
  Usb = usb
  Threads <- MCThreads
  NoThread <- MCNoThread
  Lines <- EstopLines
  GotoDirs <- BothDirs
  TrackSpeed = 1
  FirstSpeed = 2
  Value <- MCValue
  MaxSpeed = 4
  MaxGuideTime = 50
  EvqSize = 1
  MaxCommands = 2
INVARIANTS EstopHolds
CHECK_DEADLOCK FALSE
