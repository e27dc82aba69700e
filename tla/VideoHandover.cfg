SPECIFICATION FairSpec
CONSTANTS
  NoPts = NoPts
  Capacity = 2
  Lead = 1
  ClearSettings <- Either
  MaxConnections = 2
  MaxPackets = 2
INVARIANTS
  PacketsMeetTheirDecoder ClearIsFinal CleanStart
PROPERTIES
  DisconnectBlanks VideoEnds
CHECK_DEADLOCK FALSE
