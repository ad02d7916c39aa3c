SPECIFICATION LiveSpec
CONSTANTS
  GroupIds <- MCGroupIds
  Broker = "broker"
  Manifests <- MCManifests
  Selections <- MCSelections
  Urls = {u1, u2}
  Threads = {t1, t2}
  MaxRequests = 2
  MaxCuts = 1
  Nil = Nil
INVARIANTS
  DesiredTypeOK
  SideStateFollows
  SelectionResolved
PROPERTIES
  DesiredIsAtomic
  StatusSettles
CHECK_DEADLOCK FALSE
