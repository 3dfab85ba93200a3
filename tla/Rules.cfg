SPECIFICATION FairSpec
CONSTANTS
  s1 = s1
  eval = eval
  k1 = k1
  k2 = k2
  r1 = r1
  r2 = r2
  Service <- MCService
  Evaluator = eval
  Silent = {s1}
  Hanging = {s1}
  Check <- MCCheck
  Subject <- MCSubject
  Rule <- MCRule
  GlobalConstraints <- MCGlobal
  MaxEvents = 3
  MaxRestart = 1
CHECK_DEADLOCK FALSE
INVARIANTS
  TypeOK
  VerdictsAreJustified
PROPERTIES
  ImplementsRuleCheck
  RegistryConverges
  EveryCheckEnds
