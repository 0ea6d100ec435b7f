SPECIFICATION FairSpec
CONSTANTS
  PACKET_SIZE = 5
  Base = 3
  Junk = Junk
  BUFFER_SIZE = 3
  Window = 7
  Files <- MCFiles
  MaxTransfers = 2
INVARIANTS
  TypeOK
  StreamCut
  NoBacklog
PROPERTIES
  IsDelivery
  CopyInside
  TransferReturns
  FileArrives
CHECK_DEADLOCK FALSE
