SPECIFICATION FairSpec
CONSTANTS
  buyer = buyer
  seller = seller
  NoInstance = NoInstance
  NoCondition = NoCondition
  NoExchange = NoExchange
  NoState = NoState
  NoRequest = NoRequest
  Workflow <- MCWorkflow
  Activity <- MCActivity
  Participant <- MCParticipant
  Event <- MCEvent
  Instance <- MCInstance
  Initial <- MCInitial
  External <- MCExternal
  On <- MCOn
  ExternalParticipants <- MCExternalParticipants
  ExternalCondition <- MCExternalCondition
  AssignsOnAcceptance <- MCAssignsOnAcceptance
  Organization <- MCOrganization
  OrganizationOf <- MCOrganizationOf
  WorkflowOf <- MCWorkflowOf
  Recipient <- MCRecipient
  ClientInstance <- MCClientInstance
  ClientEvent <- MCClientEvent
  FallibleEvent = {}
  Client = {c1}
  RuleOutcome = {"accepted"}
  SendMayFail = FALSE
  MaxLog = 4
  MaxCrash = 0
PROPERTIES
  EveryRequestAnswered
CHECK_DEADLOCK FALSE
