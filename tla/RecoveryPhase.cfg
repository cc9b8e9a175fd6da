CONSTANTS
  N = 6
  None = None
  MAX_EVENTS = 3
  MaxLogged = 4
  MaxRestarts = 1
SPECIFICATION Spec
INVARIANT RecoveryConsumesAll
