SPECIFICATION FairSpec
CONSTANTS
  requester = requester
  suppliers = {s1, s2}
  p1 = p1
  p2 = p2
  NoInstance = NoInstance
  NoCondition = NoCondition
  NoExchange = NoExchange
  NoState = NoState
  NoRequest = NoRequest
  Workflow <- MCWorkflow
  Activity <- MCActivity
  Participant <- MCParticipant
  Event <- MCEvent
  Instance <- MCInstance
  Initial <- MCInitial
  External <- MCExternal
  On <- MCOn
  ExternalParticipants <- MCExternalParticipants
  ExternalCondition <- OneSuffices
  AssignsOnAcceptance <- MCAssignsOnAcceptance
  Organization <- MCOrganization
  OrganizationOf <- MCOrganizationOf
  WorkflowOf <- MCWorkflowOf
  Recipient <- MCRecipient
  ClientInstance <- MCClientInstance
  ClientEvent = {"SUBMIT"}
  FallibleEvent = {}
  Client = {c1}
  RuleOutcome = {"accepted", "rejected"}
  SendMayFail = FALSE
  MaxLog = 3
  MaxCrash = 1
INVARIANTS
  AppliedAtMostOnce
  ProtocolInvariant
PROPERTIES
  EveryExchangeSettles
CHECK_DEADLOCK FALSE
