CONSTANTS
  Servers = {s1, s2}
  MAX_ADDRESSES = 3
  MaxGarbled = 1
  MaxLate = 0
  None = None
SPECIFICATION Spec
INVARIANT NoConflictsWhenDone
CHECK_DEADLOCK FALSE
