CONSTANTS
  Servers = {s1, s2, s3}
  MAX_ADDRESSES = 3
  MaxGarbled = 1
  MaxLate = 1
  None = None
SPECIFICATION Spec
INVARIANTS TypeOK KnownIsUnique KnownIsTaken DoneIsComplete
PROPERTIES KnownIsFinal DiscoveryEnds
CHECK_DEADLOCK FALSE
