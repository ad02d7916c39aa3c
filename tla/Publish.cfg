SPECIFICATION Spec
CONSTANTS
  a1 = a1
  a2 = a2
  g1 = g1
  t1 = t1
  Nil = nil
  Torn = torn
  Consumers = {a1}
  GrantIds = {g1}
  Tokens = {t1}
  Owner <- MCOwner
  Requests = {r1, r2}
  Token <- MCToken
  Addons = {a1, a2}
  Settings <- MCSettings
  Now = 1
  Calls <- MCCalls
  FirstRegistered <- MCFirst
  Registered <- MCRegistered
  FirstGrants <- MCFirstGrants
  Feed <- MCFeed
  WildcardLike = {"+", "#"}
  LifecycleLike = {"announce", "health"}
  MaxEntries = 2
  MaxRequests = 2
  MaxChanges = 2
SYMMETRY ThreadSymmetry
INVARIANTS
  PublishTypeOK
  
PROPERTIES
  SentWhileAllowed
CHECK_DEADLOCK FALSE
