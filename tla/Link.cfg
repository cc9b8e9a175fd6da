CONSTANTS
  N = 6
  None = None
  MAX_EVENTS = 2
  MaxLogged = 5
  MaxRestarts = 2
  MaxInFlight = 2
SPECIFICATION Spec
INVARIANT TypeOK
PROPERTIES CatchesUp ImplementsDelivery
