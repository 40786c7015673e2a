SPECIFICATION DevicesSpec
CONSTANTS
  Units = {"serial", "lcd", "count", "alignment", "config", "pointing"}
  r1 = r1
  w1 = w1
  w2 = w2
  NoThread = NoThread
  Readers = {r1}
  Writers = {w1, w2}
  QueueSize = 3
  DataPacket = 2
  WaitSlots = 2
  MaxChars = 3
  HostRequests <- MCRequests
  DescLen <- MCDescLen
  MaxPacket = 2
  MaxConfig = 1
  Speeds = {"FULL"}
  Codings = {0}
  stdout = stdout
  stderr = stderr
  Printers = {stdout, stderr}
  Blank = Blank
  Nobody = Nobody
  TextWidth = 2
  TextHeight = 2
  MaxPrinted = 6
  PulsesInStart = 1
  MaxMoves = 3
  MaxPulses = 3
  usb = usb
  serial = serial
  Aligners = {usb, serial}
  Stars = {"vega", "deneb"}
  MaxStars = 2
  MaxAligns = 3
  Table <- MCTable
  ExtraNames = {"default_acceleration", "observatory"}
  Original <- MCOriginal
  Texts <- MCTexts
  One = 100
  MaxTyped = 2
  MaxBoots = 2
  HourAngles <- TheHourAngles
  Declinations <- TheDeclinations
  Offsets <- TheOffsets
INVARIANTS
  DevicesTypeOK
  TransmitMatches
  ReaderIsWoken
  DrawnIsWritten
  StepsCounted
  AlignedAlone
  SavedIsRead
  PositionReadBack
PROPERTIES
  TransmitIsFifo
  ReceiveIsFifo
SYMMETRY Alike
CHECK_DEADLOCK FALSE
