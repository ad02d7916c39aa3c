SPECIFICATION FairSpec
CONSTANTS
  Publishers = {w1}
  MaxClients = 2
  MaxBreaks = 2
  MaxPending = 2
  MaxPublishes = 1
INVARIANTS
  ClientTypeOK
  FlagFollowsClient
  OneClientConnects
  ReconnectsCounted
PROPERTIES
  RetainedHealthRecovers
  DeathIsAnnounced
  ReplacementEnds
CHECK_DEADLOCK FALSE
