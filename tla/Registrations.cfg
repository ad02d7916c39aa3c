CONSTANTS
  Nil = nil
  Torn = torn
SPECIFICATION Spec
CONSTANTS
  Addons = {a1, a2}
  Threads = {t1}
  TopicRequests <- SmallTopics
  MaxEntries = 2
  MaxActive = 1
  MaxRequests = 3
  MaxCuts = 1
SYMMETRY AddonSymmetry
INVARIANTS
  RegistrationTypeOK
  RegistrationsKept
  TopicFileFollowsRecord
PROPERTIES
  CredentialsChangeOnRequest
