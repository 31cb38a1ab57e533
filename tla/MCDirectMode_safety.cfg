CONSTANTS
  Slots = {s1, s2}
  Frames = 3
  Encoders = 2
  NoSlots = NoSlots
SPECIFICATION Spec
SYMMETRY SlotSymmetry
CHECK_DEADLOCK FALSE
INVARIANTS TypeOK WorkerOwns NewestFirst SocketOutlivesSend StopLeavesNothing
