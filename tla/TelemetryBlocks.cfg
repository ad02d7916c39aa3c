CONSTANTS
  Flusher = flusher
  Stopper = stopper
  Corrupt = corrupt
  CoreUrlSet = TRUE
  Workers = {w1}
  MaxQueue = 2
  MaxEvents = 1
  MaxRestarts = 0
SPECIFICATION FairSpec
PROPERTY PublishReturns
CHECK_DEADLOCK FALSE
