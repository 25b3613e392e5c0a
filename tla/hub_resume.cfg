SPECIFICATION Spec
CONSTANTS
  c1 = c1
  c2 = c2
  p1 = p1
  p2 = p2
  NoVersion = NoVersion
  Client = {c1, c2}
  Publisher = {p1, p2}
  Capacity = 2
  Backlog = 2
  ByteLimit = TRUE
  MaxPublish = 3
  MaxCreations = 2
  MaxRooms = 1
  Strangers = 1
SYMMETRY MCSymmetry
INVARIANTS RoomHeld RoomsBounded ResumeLossless
CHECK_DEADLOCK FALSE
