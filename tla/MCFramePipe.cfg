CONSTANTS
  Slots = {f1, f2}
  Sessions = {1, 2}
  IdMod = 7
  Horizon = 2
  Shape <- TwoShards
  Deadline = 1
  Datagrams <- WrappingDatagrams
  AllocMayFail = TRUE
  NoFrame = NoFrame
  NoPacket = NoPacket
SPECIFICATION FairSpec
INVARIANTS
  TypeOK
  ChainUnbroken
  GapAnnounced
  SlotsAccounted
  SlotsComeFree
  FecExact
PROPERTIES
  StallEnds
  FeedsDecoder
