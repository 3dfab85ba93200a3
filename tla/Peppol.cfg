SPECIFICATION Spec
CONSTANTS
  buyer = buyer
  seller = seller
  NoInstance = NoInstance
  NoCondition = NoCondition
  NoExchange = NoExchange
  NoState = NoState
  NoRequest = NoRequest
  Workflow <- MCWorkflow
  Activity <- MCActivity
  Participant <- MCParticipant
  Event <- MCEvent
  Instance <- MCInstance
  Initial <- MCInitial
  External <- MCExternal
  On <- MCOn
  ExternalParticipants <- MCExternalParticipants
  ExternalCondition <- MCExternalCondition
  AssignsOnAcceptance <- MCAssignsOnAcceptance
  Organization <- MCOrganization
  OrganizationOf <- MCOrganizationOf
  WorkflowOf <- MCWorkflowOf
  Recipient <- MCRecipient
  ClientInstance <- MCClientInstance
  ClientEvent <- MCClientEvent
  FallibleEvent <- MCFallibleEvent
  Client = {c1}
  RuleOutcome = {"accepted", "rejected", "unreachable"}
  SendMayFail = TRUE
  MaxLog = 4
  MaxCrash = 1
INVARIANTS
  TypeOK
  LeftOnlyWhenApproved
  RecordsMatchDecisions
  LinearHistory
PROPERTIES
  RejectionStands
  DecisionsStand
  ImplementsAgreement
CHECK_DEADLOCK FALSE
