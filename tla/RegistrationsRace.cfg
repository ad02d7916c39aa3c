CONSTANTS
  Nil = nil
  Torn = torn
SPECIFICATION Spec
CONSTANTS
  Addons = {a1, a2}
  Threads = {t1, t2}
  TopicRequests <- SmallTopics
  MaxEntries = 2
  MaxActive = 2
  MaxRequests = 2
  MaxCuts = 0
INVARIANTS
  RegistrationsKept
