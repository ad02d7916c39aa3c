CONSTANTS
  Embedded = embedded
  Nil = nil
  Torn = torn
  Missing = missing
SPECIFICATION Spec
CHECK_DEADLOCK FALSE
CONSTANTS
  Threads = {t1}
  MaxActive = 1
  Endpoints = {e1}
INVARIANT RebuiltAfterLoss
