CONSTANTS
  N = 3
  None = None
  MAX_EVENTS = 2
  MaxLogged = 3
  MaxRestarts = 0
  MaxInFlight = 1
SPECIFICATION Spec
PROPERTY CatchesUp
