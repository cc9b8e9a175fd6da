\* Offsets wrap after four events, and the history overruns after two.
CONSTANTS
  N = 4
  None = None
  MAX_EVENTS = 2
  MaxLogged = 5
  MaxRestarts = 1
SPECIFICATION Spec
INVARIANTS TypeOK NoEventSkipped NoSpuriousRecovery
