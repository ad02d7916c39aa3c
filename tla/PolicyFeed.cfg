SPECIFICATION FairSpec
CONSTANTS
  c1 = c1
  c2 = c2
  g1 = g1
  g2 = g2
  g3 = g3
  t1 = t1
  t2 = t2
  r1 = r1

  Nil = nil
  Consumers = {c1, c2}
  GrantIds = {g1, g2, g3}
  Tokens = {t1, t2}
  Owner <- MCOwner
  Requests = {r1}
  Token <- MCToken
  CoreMessages <- MCCoreMessages
  MaxPublishes = 3
  MaxBreaks = 2
INVARIANTS
  PolicyTypeOK
  
  RevokedWhenQuiet
  
PROPERTIES
  LedgerSpec
  DecidesLikeLedger
  RevocationArrives
CHECK_DEADLOCK FALSE
