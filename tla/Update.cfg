CONSTANTS
  NumServers = 1
  UPDATE_BYTES_SIZE = 2
  UPDATE_BYTES_PROCESSING_THRESHOLD = 3
  current_version <- MCCurrent
  Offers <- MCOffers
  CHANNEL_SIZE = 3
  MaxUpdates = 2
  None = None
SPECIFICATION Spec
INVARIANTS TypeOK InstallsWholeImage OnlyNewerIsInstalled BufferSuffices PausesForHeavyWork ReadIsInstalled
PROPERTY HeardIsInstalled
CHECK_DEADLOCK FALSE
