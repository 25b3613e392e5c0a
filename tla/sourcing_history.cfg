SPECIFICATION Spec
CONSTANTS
  c1 = c1
  c2 = c2
  Client = {c1, c2}
  SnapshotEvery = 2
  MaxEvents = 3
  MaxFaults = 1
  MaxDeletes = 1
  MaxRetries = 1
SYMMETRY MCSymmetry
INVARIANTS HistoryOnce
PROPERTIES FindIsReplay
CHECK_DEADLOCK FALSE
