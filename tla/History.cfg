SPECIFICATION Spec
CONSTANTS
  Participant = {p1}
  NoRecord = NoRecord
  Undefined = Undefined
  Thrown = Thrown
  NoParticipant = NoParticipant
  Workflow = {w1}
  Instance = {i1}
  State <- MCState
  Initial <- MCInitial
  Target <- MCTarget
  WorkflowOf <- MCWorkflowOf
  Environment <- MCEnvironment
  Known = {}
  ReadLimit = 5
  MaxClock = 1
  MaxTransitions = 2
  MaxEvents = 6
INVARIANTS
  TypeOK
  LastTransitionDecides
  NowIsNow
  LogsAreChronological
PROPERTIES
  PastIsFinal
CHECK_DEADLOCK FALSE
