SPECIFICATION Spec
CONSTANTS
  HostRequests <- MCRequests
  DescLen <- MCDescLen
  MaxPacket = 2
  MaxConfig = 1
  Speeds = {"HIGH", "FULL"}
  Codings = {0, 1}
INVARIANTS
  TypeOK
  ClassFollowsState
  NoTransferStalls
  ReadDelivered
  HostReadsBack
