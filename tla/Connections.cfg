SPECIFICATION FairSpecH
CONSTANTS
  Message = {m1, m2, m3}
  Nothing = Nothing
  MayFail = TRUE
CHECK_DEADLOCK FALSE
INVARIANTS
  TypeOK
  
  OnlyOverlapsHurt

  
