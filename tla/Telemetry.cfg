SPECIFICATION LiveSpec
CONSTANTS
  Workers = {w1, w2}
  Flusher = flusher
  Stopper = stopper
  Corrupt = corrupt
  CoreUrlSet = TRUE
  MaxQueue = 2
  MaxEvents = 3
  MaxRestarts = 1
INVARIANTS
  TypeOK
  NoHoles
  KeptUntilDelivered
  CrashSafeWhenQuiet
  CleanStopKeeps
  BlockedOnlyWhenDrained
PROPERTIES
  InOrder
  OnlyFlushBlocks
  EventuallyFlushed
CHECK_DEADLOCK FALSE
