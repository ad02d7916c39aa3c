SPECIFICATION Spec
CONSTANTS
  GroupIds <- MCGroupIds
  Broker = "broker"
  Manifests <- MCManifests
  Selections <- MCSelections
  Urls = {u1}
  Threads = {t1}
  MaxRequests = 1
  MaxCuts = 0
  Nil = Nil
INVARIANT FullMeansActive
CHECK_DEADLOCK FALSE
