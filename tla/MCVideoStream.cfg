CONSTANTS
  Slots = {f1, f2}
  Sessions = {1,2}
  IdMod = 15
  Horizon = 5
  Shape <- TwoShards
  Deadline = 1
  Datagrams <- DataDatagrams
  AllocMayFail = FALSE
  NoFrame = NoFrame
  NoPacket = NoPacket
  Gop = 3
  Outage = 4
SPECIFICATION StreamSpec
INVARIANTS StaysInReach
PROPERTIES StreamResumes GapsEnd
