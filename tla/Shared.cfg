SPECIFICATION SpecH
CONSTANTS
  Message = {m1, m2, m3}
  Nothing = Nothing
  MayFail = FALSE
CHECK_DEADLOCK FALSE
PROPERTIES
  ClosedOnlyWhenIdle
