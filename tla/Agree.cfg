SPECIFICATION Spec
CONSTANTS
  n1 = n1
  n2 = n2
  order = order
  purchase = purchase
  NoParent = NoParent
  NoState = NoState
  NoRecord = NoRecord
  Undefined = Undefined
  Thrown = Thrown
  Node = {n1, n2}
  Participant = {n1, n2}
  State <- MCState
  Proposal <- Both
  Proposer <- ProposedByFirst
  Parent <- MCParent
  Strategy = {"EventStore", "OrbitDB"}
  RuleOutcome = {"accepted", "rejected", "unreachable"}
  PostMayFail = TRUE
  MaxRestart = 1
INVARIANTS
  TypeOK
  AnswersAreTrue
  RejectionPrevails
  FailsOnlyWhenOvertaken
  EveryNodeAnswers
  ViewsConverge
CHECK_DEADLOCK FALSE
