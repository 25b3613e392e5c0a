SPECIFICATION Spec
CONSTANTS
  c1 = c1
  c2 = c2
  None = None
  Client = {c1, c2}
  Modes <- MCModes
  MaxEvents = 2
  MaxVersion = 2
  MaxUpsets = 2
SYMMETRY MCSymmetry
INVARIANTS VersionHonest NoEventLost DeliveredOnceInOrder
PROPERTIES NoLostUpdate
CHECK_DEADLOCK FALSE
