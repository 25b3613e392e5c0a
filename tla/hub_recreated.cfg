SPECIFICATION Spec
CONSTANTS
  c1 = c1
  c2 = c2
  p1 = p1
  p2 = p2
  NoVersion = NoVersion
  Client = {c1, c2}
  Publisher = {p1}
  Capacity = 2
  Backlog = 2
  ByteLimit = FALSE
  MaxPublish = 2
  MaxCreations = 2
  MaxRooms = 1
  Strangers = 0
INVARIANTS ReplayedIsComplete
CHECK_DEADLOCK FALSE
