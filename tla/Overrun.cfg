CONSTANTS
  N = 6
  None = None
  MAX_EVENTS = 2
  MaxLogged = 4
  MaxRestarts = 0
SPECIFICATION Spec
INVARIANT OverrunSignalled
