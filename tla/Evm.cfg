SPECIFICATION FairSpec
CONSTANTS
  a = a
  b = b
  c = c
  m1 = m1
  m2 = m2
  Altered = Altered
  Node <- MCNode
  Message <- MCMessage
  SenderOf <- MCSenderOf
  MayAlter = TRUE
  MayLag = TRUE
  MayFail = TRUE
CHECK_DEADLOCK FALSE
INVARIANTS
  TypeOK
  EmittedAsCommitted
  OkMeansEverywhere
PROPERTIES
  SenderHearsItself
