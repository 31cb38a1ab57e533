CONSTANTS
  Slots = {s1}
  Frames = 1
  Encoders = 1
  NoSlots = NoSlots
SPECIFICATION FairSpec
CHECK_DEADLOCK FALSE
PROPERTIES StopEnds
