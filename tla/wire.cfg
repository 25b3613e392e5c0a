SPECIFICATION FairSpec
CONSTANTS
  s1 = s1
  s2 = s2
  Service = {s1, s2}
  LastRelease = 2
  MaxEvents = 3
  Flow = 9
  Width = 4
INVARIANTS DecodedCurrent FlowTraced
PROPERTIES EventuallyDecoded
CHECK_DEADLOCK FALSE
