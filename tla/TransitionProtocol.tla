-------------------------- MODULE TransitionProtocol --------------------------
(***************************************************************************)
(* How a state transition travels between organizations under the OrbitDB  *)
(* persistence and consistency strategies.                                 *)
(*                                                                         *)
(* Every organization runs one node.  A node appends events to the local   *)
(* event log of a workflow instance; an append triggers RulesService       *)
(* (which asks the rule services and appends their verdict) and then       *)
(* ConsistencyService (which sends messages to other organizations).  Each *)
(* handler is asynchronous: what it read before an await may be stale when *)
(* it appends, and a crash loses it, because a restarted node replays no   *)
(* past event to its subscribers.  An exception that a handler does not    *)
(* catch ends the handler; that it may end the whole Node.js process too   *)
(* is the crash that may follow any step.                                  *)
(*                                                                         *)
(* An exchange <<i, n, p>> is what the n-th transition of instance i, one  *)
(* that enters an external activity, has with external participant p.      *)
(***************************************************************************)
EXTENDS StateChart, Sequences

CONSTANTS
  Organization,    \* nodes
  OrganizationOf,  \* OrganizationOf[w]: the node that owns workflow w
  WorkflowOf,      \* WorkflowOf[i]: the workflow that i is an instance of
  Recipient,       \* Recipient[w][p]: an Address, from ExternalParticipant.recipientInfo
  Client,          \* concurrent REST requests
  ClientInstance,  \* instances that are launched over REST
  ClientEvent,     \* events that clients submit
  FallibleEvent,   \* events whose payload may fail its JSON schema at the receiver
  RuleOutcome,     \* what the rule services may answer, subset of Outcome
  SendMayFail,     \* BOOLEAN: opening or writing a remote database may throw
  NoExchange,      \* the transition was not requested by another organization
  NoState,         \* no handler holds a state it has read
  NoRequest,       \* an idle client
  MaxLog,          \* bound: transitions in one instance's log
  MaxCrash         \* bound: crashes

Slot == 1 .. MaxLog
Exchange ==
  {x \in Instance \X Slot \X Participant : x[3] \in DOMAIN Recipient[WorkflowOf[x[1]]]}

\* `launches`: recipientInfo has no WORKFLOW_INSTANCE_ID, the receiver launches an
\* instance of `workflow`; otherwise organization, workflow and instance are all read
\* from the context.
Address == [workflow: Workflow, event: Event, launches: BOOLEAN]

\* A rule service denies, approves, or does not answer at all.
Outcome == {"accepted", "rejected", "unreachable"}

\* advanceWorkflowInstance and receivedTransition events of the log.
Entry == [from: State, to: State, origin: Exchange \union {NoExchange}]

\* A client request that has read its instance and not yet appended.
Request == [instance: Instance, from: State, to: State]

\* External participants are other organizations: what a node writes to a database of
\* its own is not handed to its own handlers.
ASSUME ProtocolAssumption ==
  /\ OrganizationOf \in [Workflow -> Organization]
  /\ WorkflowOf \in [Instance -> Workflow]
  /\ \A w \in Workflow : \A p \in DOMAIN Recipient[w] : Recipient[w][p] \in Address
  /\ \A w \in Workflow : \A a \in Activity : ExternalParticipants[w][a] \subseteq DOMAIN Recipient[w]
  /\ \A w \in Workflow : \A p \in DOMAIN Recipient[w] :
       OrganizationOf[Recipient[w][p].workflow] # OrganizationOf[w]
  /\ RuleOutcome \subseteq Outcome
  /\ SendMayFail \in BOOLEAN
  /\ NoExchange \notin Exchange
  /\ NoState \notin State
  /\ NoRequest \notin Request
  /\ MaxLog \in Nat
  /\ MaxCrash \in Nat

Verdict == {"none", "checking", "accepted", "rejected", "lost"}
Flag == {"undefined", "true", "false"}

RequestStatus == {"none", "ready", "sent", "handling", "appended", "refused", "ignored", "lost"}

\* An approval and a denial run through disjoint sets of statuses.
AcceptStatus == {"acceptReady", "acceptSent", "acking", "acked", "recorded", "accepted",
                 "acceptLost", "acceptCut"}
RejectStatus == {"rejectReady", "rejectSent", "rejectRecorded", "rejected",
                 "rejectLost", "rejectCut"}
ResponseStatus == {"none"} \union AcceptStatus \union RejectStatus

VARIABLES
  launched,                \* instances with a launch event in their log
  opened,                  \* instances whose externalEvents database is open at their owner
  launchRule,              \* verdict of the rule services on the launch
  log,                     \* log[i]: transition events of instance i, in append order
  rule,                    \* rule[i][n]: verdict of the rule services on log[i][n]
  currentState,            \* the fields of WorkflowInstance, as the log aggregates to
  acceptedByRuleServices,
  acceptedByParticipants,
  participantsAccepted,
  participantsRejected,
  client,                  \* client[c]: the request a client call is working on
  request,                 \* request[x]: the advanceWorkflowInstance message of x
  response,                \* response[x]: the acceptTransition or rejectTransition message of x
  receiver,                \* receiver[x]: the instance that the message of x was delivered to
  seen,                    \* seen[x]: the state read by the handler working on x
  crashes

view == <<currentState, acceptedByRuleServices, acceptedByParticipants,
          participantsAccepted, participantsRejected>>
vars == <<launched, opened, launchRule, log, rule, view, client, request, response,
          receiver, seen, crashes>>

\* Types of all variables.
TypeOK ==
  /\ launched \subseteq Instance
  /\ opened \subseteq Instance
  /\ launchRule \in [Instance -> Verdict]
  /\ log \in [Instance -> Seq(Entry)]
  /\ \A i \in Instance : Len(log[i]) <= MaxLog
  /\ rule \in [Instance -> [Slot -> Verdict]]
  /\ currentState \in [Instance -> State]
  /\ acceptedByRuleServices \in [Instance -> Flag]
  /\ acceptedByParticipants \in [Instance -> Flag]
  /\ participantsAccepted \in [Instance -> SUBSET Exchange]
  /\ participantsRejected \in [Instance -> SUBSET Exchange]
  /\ client \in [Client -> Request \union {NoRequest}]
  /\ request \in [Exchange -> RequestStatus]
  /\ response \in [Exchange -> ResponseStatus]
  /\ receiver \in [Exchange -> Instance \union {NoInstance}]
  /\ seen \in [Exchange -> State \union {NoState}]
  /\ crashes \in 0 .. MaxCrash

Init ==
  /\ launched = {}
  /\ opened = {}
  /\ launchRule = [i \in Instance |-> "none"]
  /\ log = [i \in Instance |-> <<>>]
  /\ rule = [i \in Instance |-> [n \in Slot |-> "none"]]
  /\ currentState = [i \in Instance |-> InitialState(WorkflowOf[i])]
  /\ acceptedByRuleServices = [i \in Instance |-> "undefined"]
  /\ acceptedByParticipants = [i \in Instance |-> "undefined"]
  /\ participantsAccepted = [i \in Instance |-> {}]
  /\ participantsRejected = [i \in Instance |-> {}]
  /\ client = [c \in Client |-> NoRequest]
  /\ request = [x \in Exchange |-> "none"]
  /\ response = [x \in Exchange |-> "none"]
  /\ receiver = [x \in Exchange |-> NoInstance]
  /\ seen = [x \in Exchange |-> NoState]
  /\ crashes = 0

-----------------------------------------------------------------------------
(* Shared steps *)

Owner(i) == OrganizationOf[WorkflowOf[i]]

\* The address of an exchange, and the instance it names (if it names one).
AddressOf(x) == Recipient[WorkflowOf[x[1]]][x[3]]
Addressee(x) == log[x[1]][x[2]].to.partner

\* The node whose database the request of x is written to.
RecipientNode(x) ==
  IF AddressOf(x).launches THEN OrganizationOf[AddressOf(x).workflow] ELSE Owner(Addressee(x))

\* getExternalTransitions: whom the transition has to be sent to.
ExternalTransitions(i, e) ==
  IF IsExternal(WorkflowOf[i], e.to) /\ e.from.activity # e.to.activity
  THEN ExternalParticipants[WorkflowOf[i]][e.to.activity]
  ELSE {}

\* advanceWorkflowInstanceState: append advanceWorkflowInstance or
\* receivedTransition, aggregate it, and start the rule check it triggers.
AppendTransition(i, from, to, origin) ==
  /\ Len(log[i]) < MaxLog
  /\ log' = [log EXCEPT ![i] = Append(@, [from |-> from, to |-> to, origin |-> origin])]
  /\ rule' = [rule EXCEPT ![i][Len(log[i]) + 1] = "checking"]
  /\ currentState' = [currentState EXCEPT ![i] = to]
  /\ acceptedByRuleServices' = [acceptedByRuleServices EXCEPT ![i] = "undefined"]
  /\ acceptedByParticipants' = [acceptedByParticipants EXCEPT ![i] = "undefined"]
  /\ participantsAccepted' = [participantsAccepted EXCEPT ![i] = {}]
  /\ participantsRejected' = [participantsRejected EXCEPT ![i] = {}]

\* Mutated: the last word counts.
ApproveAnyway(flag) == "true"

\* An acceptance never overrides an earlier rejection.
Approve(flag) == IF flag = "false" THEN "false" ELSE "true"

\* The rule services' verdict is appended to the log and aggregated.  A service
\* that does not answer counts as a denial.
RecordVerdict(i, outcome) ==
  acceptedByRuleServices' = [acceptedByRuleServices EXCEPT
    ![i] = IF outcome = "accepted" THEN Approve(@) ELSE "false"]

\* Mutated: the answer of the rule services is stored as it came.
StoreAnswer(outcome) == outcome

\* Mutated: their denial is not looked at.
IgnoreAnswer(outcome) == "accepted"

VerdictOf(outcome) == IF outcome = "accepted" THEN "accepted" ELSE "rejected"

-----------------------------------------------------------------------------
(* Launching *)

\* launchWorkflowInstance: the launch event is appended.
Launch(i) ==
  /\ i \notin launched
  /\ launched' = launched \union {i}
  /\ launchRule' = [launchRule EXCEPT ![i] = "checking"]

\* POST /workflows/:id/launch
ClientLaunch(i) ==
  /\ i \in ClientInstance
  /\ Launch(i)
  /\ UNCHANGED <<opened, log, rule, view, client, request, response, receiver, seen, crashes>>

\* onLocalWorkflowInstance: the rule services judge the launch.  Their verdict is kept
\* in another log, which is aggregated before the transitions: the first of these
\* resets it, even when it was appended earlier.
LaunchVerdict(i, outcome) ==
  /\ launchRule[i] = "checking"
  /\ launchRule' = [launchRule EXCEPT ![i] = VerdictOf(outcome)]
  /\ IF log[i] = <<>> THEN RecordVerdict(i, outcome) ELSE UNCHANGED acceptedByRuleServices
  /\ UNCHANGED <<launched, opened, log, rule, currentState, acceptedByParticipants,
       participantsAccepted, participantsRejected, client, request, response, receiver, seen, crashes>>

\* Mutated: only for instances that another organization's message launched.
OpenWhenLaunchedRemotely(i) ==
  /\ launchRule[i] = "accepted"
  /\ i \notin opened \union ClientInstance
  /\ opened' = opened \union {i}
  /\ UNCHANGED <<launched, launchRule, log, rule, view, client, request, response, receiver, seen, crashes>>

\* dispatch(launchWorkflowInstance): open the instance's externalEvents database.
OpenExternalEvents(i) ==
  /\ launchRule[i] = "accepted"
  /\ i \notin opened
  /\ opened' = opened \union {i}
  /\ UNCHANGED <<launched, launchRule, log, rule, view, client, request, response, receiver, seen, crashes>>

-----------------------------------------------------------------------------
(* A client advances an instance: read, compute, append *)

\* Mutated: clients may fire what other organizations have to fire.
ClientReadAny(c, i, e) ==
  /\ client[c] = NoRequest
  /\ i \in launched
  /\ e \in ClientEvent \intersect DOMAIN On[WorkflowOf[i]][currentState[i].activity]
  /\ client' = [client EXCEPT ![c] = [instance |-> i, from |-> currentState[i],
                                     to |-> Fire(WorkflowOf[i], currentState[i], e, NoInstance)]]
  /\ UNCHANGED <<launched, opened, launchRule, log, rule, view, request, response,
       receiver, seen, crashes>>

\* advanceWorkflowInstance up to the await of the append.
ClientRead(c, i, e) ==
  LET w == WorkflowOf[i]
      s == currentState[i]
  IN  /\ client[c] = NoRequest
      /\ i \in launched
      /\ e \in ClientEvent
      /\ ClientMayFire(w, s, e)
      /\ client' = [client EXCEPT
           ![c] = [instance |-> i, from |-> s, to |-> Fire(w, s, e, NoInstance)]]
      /\ UNCHANGED <<launched, opened, launchRule, log, rule, view, request, response,
           receiver, seen, crashes>>

ClientAppend(c) ==
  /\ client[c] # NoRequest
  /\ AppendTransition(client[c].instance, client[c].from, client[c].to, NoExchange)
  /\ client' = [client EXCEPT ![c] = NoRequest]
  /\ UNCHANGED <<launched, opened, launchRule, request, response, receiver, seen, crashes>>

-----------------------------------------------------------------------------
(* The rule check of a transition and the dispatch that follows *)

\* onLocalInstanceTransition, then the localTransitionAcceptedByRuleService
\* handler: one message for every external participant of the entered activity.
LocalTransitionVerdict(i, n, outcome) ==
  /\ rule[i][n] = "checking"
  /\ log[i][n].origin = NoExchange
  /\ rule' = [rule EXCEPT ![i][n] = VerdictOf(outcome)]
  /\ RecordVerdict(i, outcome)
  /\ request' = [x \in Exchange |->
       IF /\ outcome = "accepted"
          /\ x[1] = i /\ x[2] = n /\ x[3] \in ExternalTransitions(i, log[i][n])
       THEN "ready" ELSE request[x]]
  /\ UNCHANGED <<launched, opened, launchRule, log, currentState, acceptedByParticipants,
       participantsAccepted, participantsRejected, client, response, receiver, seen, crashes>>

\* onExternalInstanceTransition, then the handlers that prepare the response.  The
\* denial of a service that did not answer is null: reading its reason throws,
\* nobody catches it, and no response is sent.
ReceivedTransitionVerdict(i, n, outcome) ==
  /\ rule[i][n] = "checking"
  /\ log[i][n].origin # NoExchange
  /\ rule' = [rule EXCEPT ![i][n] = VerdictOf(outcome)]
  /\ RecordVerdict(i, outcome)
  /\ response' = [response EXCEPT ![log[i][n].origin] =
       CASE outcome = "accepted"    -> "acceptReady"
         [] outcome = "rejected"    -> "rejectReady"
         [] outcome = "unreachable" -> "rejectLost"]
  /\ UNCHANGED <<launched, opened, launchRule, log, currentState, acceptedByParticipants,
       participantsAccepted, participantsRejected, client, request, receiver, seen, crashes>>

\* sendWorkflowToExternalParticipants.  A message addressed through a context that
\* names no instance is written to a database that nobody opens.
SendRequest(x) ==
  /\ request[x] = "ready"
  /\ request' = [request EXCEPT ![x] =
       IF AddressOf(x).launches \/ Addressee(x) # NoInstance THEN "sent" ELSE "lost"]
  /\ UNCHANGED <<launched, opened, launchRule, log, rule, view, client, response,
       receiver, seen, crashes>>

\* Its catch branch: the rejection is made up locally for the recipient's instance,
\* which this node does not have, so its handler throws, uncaught, and nothing is
\* recorded.
SendRequestFails(x) ==
  /\ SendMayFail
  /\ request[x] = "ready"
  /\ request' = [request EXCEPT ![x] = "lost"]
  /\ UNCHANGED <<launched, opened, launchRule, log, rule, view, client, response,
       receiver, seen, crashes>>

-----------------------------------------------------------------------------
(* The receiver: onAdvanceExternalWorkflowInstance *)

\* The message is in the instance's database: its state is read.
DeliverToInstance(x, i) ==
  /\ request[x] = "sent"
  /\ ~AddressOf(x).launches
  /\ i = Addressee(x)
  /\ i \in opened
  /\ request' = [request EXCEPT ![x] = "handling"]
  /\ receiver' = [receiver EXCEPT ![x] = i]
  /\ seen' = [seen EXCEPT ![x] = currentState[i]]
  /\ UNCHANGED <<launched, opened, launchRule, log, rule, view, client, response, crashes>>

\* The message is in the workflow's database: an instance is launched, and the
\* handler goes on with the initial state without waiting for its rule check.
DeliverToWorkflow(x, i) ==
  /\ request[x] = "sent"
  /\ AddressOf(x).launches
  /\ WorkflowOf[i] = AddressOf(x).workflow
  /\ i \notin ClientInstance
  /\ Launch(i)
  /\ request' = [request EXCEPT ![x] = "handling"]
  /\ receiver' = [receiver EXCEPT ![x] = i]
  /\ seen' = [seen EXCEPT ![x] = InitialState(WorkflowOf[i])]
  /\ UNCHANGED <<opened, log, rule, view, client, response, crashes>>

\* onExternalAdvanceWorkflowInstance returns early: no append, no response.
IgnoreRequest(x) ==
  /\ request[x] = "handling"
  /\ IsExternal(WorkflowOf[receiver[x]], seen[x])
  /\ request' = [request EXCEPT ![x] = "ignored"]
  /\ seen' = [seen EXCEPT ![x] = NoState]
  /\ UNCHANGED <<launched, opened, launchRule, log, rule, view, client, response, receiver, crashes>>

\* It throws, because the state does not expect the event or the payload does not
\* match its schema: rejectTransition is dispatched.
RefuseRequest(x) ==
  LET w == WorkflowOf[receiver[x]]
      e == AddressOf(x).event
  IN  /\ request[x] = "handling"
      /\ ~IsExternal(w, seen[x])
      /\ ~ParticipantMayFire(w, seen[x], e) \/ e \in FallibleEvent
      /\ request' = [request EXCEPT ![x] = "refused"]
      /\ response' = [response EXCEPT ![x] = "rejectReady"]
      /\ seen' = [seen EXCEPT ![x] = NoState]
      /\ UNCHANGED <<launched, opened, launchRule, log, rule, view, client, receiver, crashes>>

\* receivedTransition is appended with the state computed from what was read.
AppendReceived(x) ==
  LET i == receiver[x]
      w == WorkflowOf[i]
      e == AddressOf(x).event
  IN  /\ request[x] = "handling"
      /\ ~IsExternal(w, seen[x])
      /\ ParticipantMayFire(w, seen[x], e)
      /\ AppendTransition(i, seen[x], Fire(w, seen[x], e, x[1]), x)
      /\ request' = [request EXCEPT ![x] = "appended"]
      /\ seen' = [seen EXCEPT ![x] = NoState]
      /\ UNCHANGED <<launched, opened, launchRule, client, response, receiver, crashes>>

\* Mutated: a rejection is sent as an acceptance.
SendAcceptance(x) ==
  /\ response[x] \in {"acceptReady", "rejectReady"}
  /\ response' = [response EXCEPT ![x] = "acceptSent"]
  /\ UNCHANGED <<launched, opened, launchRule, log, rule, view, client, request,
       receiver, seen, crashes>>

\* sendMessageToExternalWorkflowInstance
SendResponse(x) ==
  /\ \/ /\ response[x] = "acceptReady"
        /\ response' = [response EXCEPT ![x] = "acceptSent"]
     \/ /\ response[x] = "rejectReady"
        /\ response' = [response EXCEPT ![x] = "rejectSent"]
  /\ UNCHANGED <<launched, opened, launchRule, log, rule, view, client, request,
       receiver, seen, crashes>>

\* The dispatch fails: its "NOK" is not looked at.
SendResponseFails(x) ==
  /\ SendMayFail
  /\ \/ /\ response[x] = "acceptReady"
        /\ response' = [response EXCEPT ![x] = "acceptLost"]
     \/ /\ response[x] = "rejectReady"
        /\ response' = [response EXCEPT ![x] = "rejectLost"]
  /\ UNCHANGED <<launched, opened, launchRule, log, rule, view, client, request,
       receiver, seen, crashes>>

-----------------------------------------------------------------------------
(* The originator: onParticipantAcceptedTransition, onParticipantRejectedTransition *)

\* onExternalTransitionAcknowledge reads the instance; outside an external activity
\* it throws, which ends the handler.
ReadAcknowledged(x) ==
  LET i == x[1]
  IN  /\ response[x] = "acceptSent"
      /\ i \in opened
      /\ IF IsExternal(WorkflowOf[i], currentState[i])
         THEN /\ response' = [response EXCEPT ![x] = "acking"]
              /\ seen' = [seen EXCEPT ![x] = currentState[i]]
         ELSE /\ response' = [response EXCEPT ![x] = "acceptLost"]
              /\ UNCHANGED seen
      /\ UNCHANGED <<launched, opened, launchRule, log, rule, view, client, request,
           receiver, crashes>>

\* ... and appends the acknowledgement as an ordinary advance of the instance.
AppendAcknowledged(x) ==
  LET i == x[1]
  IN  /\ response[x] = "acking"
      /\ AppendTransition(i, seen[x], Acknowledge(WorkflowOf[i], seen[x], x[3], receiver[x]),
           NoExchange)
      /\ response' = [response EXCEPT ![x] = "acked"]
      /\ seen' = [seen EXCEPT ![x] = NoState]
      /\ UNCHANGED <<launched, opened, launchRule, client, request, receiver, crashes>>

\* transitionAcceptedByParticipant
RecordAccepted(x) ==
  /\ response[x] = "acked"
  /\ response' = [response EXCEPT ![x] = "recorded"]
  /\ participantsAccepted' = [participantsAccepted EXCEPT ![x[1]] = @ \union {x}]
  /\ UNCHANGED <<launched, opened, launchRule, log, rule, currentState, acceptedByRuleServices,
       acceptedByParticipants, participantsRejected, client, request, receiver, seen, crashes>>

\* transitionAccepted
CompleteAccepted(x) ==
  /\ response[x] = "recorded"
  /\ response' = [response EXCEPT ![x] = "accepted"]
  /\ acceptedByParticipants' = [acceptedByParticipants EXCEPT ![x[1]] = Approve(@)]
  /\ UNCHANGED <<launched, opened, launchRule, log, rule, currentState, acceptedByRuleServices,
       participantsAccepted, participantsRejected, client, request, receiver, seen, crashes>>

\* transitionRejectedByParticipant; the state machine is told nothing.
RecordRejected(x) ==
  /\ response[x] = "rejectSent"
  /\ x[1] \in opened
  /\ response' = [response EXCEPT ![x] = "rejectRecorded"]
  /\ participantsRejected' = [participantsRejected EXCEPT ![x[1]] = @ \union {x}]
  /\ UNCHANGED <<launched, opened, launchRule, log, rule, currentState, acceptedByRuleServices,
       acceptedByParticipants, participantsAccepted, client, request, receiver, seen, crashes>>

\* transitionRejected
CompleteRejected(x) ==
  /\ response[x] = "rejectRecorded"
  /\ response' = [response EXCEPT ![x] = "rejected"]
  /\ acceptedByParticipants' = [acceptedByParticipants EXCEPT ![x[1]] = "false"]
  /\ UNCHANGED <<launched, opened, launchRule, log, rule, currentState, acceptedByRuleServices,
       participantsAccepted, participantsRejected, client, request, receiver, seen, crashes>>

-----------------------------------------------------------------------------
(* Crash and restart *)

\* Mutated: a crash also loses verdicts that had been appended.
LoseVerdicts(v) == IF v = "none" THEN v ELSE "lost"

\* A rule check under way is lost.
VerdictAfterCrash(v) == IF v = "checking" THEN "lost" ELSE v

\* Mutated: the restarted node replays the messages in its databases.
ReplayRequests(o, x, missed) ==
  IF request[x] \in {"handling", "appended"} /\ Owner(receiver[x]) = o THEN "sent" ELSE request[x]

\* What a crash of node o makes of a request: its own unsent ones and those it was
\* handling are gone.  So are those in `missed`: written by o and not replicated
\* yet, or replicated to o before the restarted node listens again.
RequestAfterCrash(o, x, missed) ==
  IF \/ request[x] = "ready" /\ Owner(x[1]) = o
     \/ request[x] = "sent" /\ x \in missed
     \/ request[x] = "handling" /\ Owner(receiver[x]) = o
  THEN "lost" ELSE request[x]

\* The same for a response: prepared by the receiver, handled by the originator,
\* which may be cut off between the events it appends.
ResponseAfterCrash(o, x, missed) ==
  CASE \/ response[x] = "acceptReady" /\ Owner(receiver[x]) = o
       \/ response[x] = "acceptSent" /\ x \in missed
       \/ response[x] = "acking" /\ Owner(x[1]) = o -> "acceptLost"
    [] response[x] \in {"acked", "recorded"} /\ Owner(x[1]) = o -> "acceptCut"
    [] \/ response[x] = "rejectReady" /\ Owner(receiver[x]) = o
       \/ response[x] = "rejectSent" /\ x \in missed -> "rejectLost"
    [] response[x] = "rejectRecorded" /\ Owner(x[1]) = o -> "rejectCut"
    [] OTHER -> response[x]

\* The node stops and comes back: logs survive, handlers do not, no past event is
\* replayed.  createInitialDatabases opens the database of every launched instance,
\* whatever its rule check said.
Crash(o, missed) ==
  LET mine == {i \in launched : Owner(i) = o}
      working(x) == \/ request[x] = "handling" /\ Owner(receiver[x]) = o
                    \/ response[x] = "acking" /\ Owner(x[1]) = o
  IN  /\ crashes < MaxCrash
      /\ crashes' = crashes + 1
      /\ opened' = opened \union mine
      /\ launchRule' = [i \in Instance |->
           IF i \in mine THEN VerdictAfterCrash(launchRule[i]) ELSE launchRule[i]]
      /\ rule' = [i \in Instance |->
           IF i \in mine THEN [n \in Slot |-> VerdictAfterCrash(rule[i][n])] ELSE rule[i]]
      /\ client' = [c \in Client |->
           IF client[c] # NoRequest /\ client[c].instance \in mine THEN NoRequest ELSE client[c]]
      /\ request' = [x \in Exchange |-> RequestAfterCrash(o, x, missed)]
      /\ response' = [x \in Exchange |-> ResponseAfterCrash(o, x, missed)]
      /\ seen' = [x \in Exchange |-> IF working(x) THEN NoState ELSE seen[x]]
      /\ UNCHANGED <<launched, log, view, receiver>>

\* The messages that a crash of o can make disappear.
InTransit(o) ==
  {x \in Exchange :
     \/ request[x] = "sent" /\ o \in {Owner(x[1]), RecipientNode(x)}
     \/ response[x] \in {"acceptSent", "rejectSent"} /\ o \in {Owner(x[1]), Owner(receiver[x])}}

-----------------------------------------------------------------------------
\* What the nodes do by themselves once something has been triggered.
Handler ==
  \/ \E i \in Instance :
       \/ \E outcome \in RuleOutcome : LaunchVerdict(i, outcome)
       \/ OpenExternalEvents(i)
       \/ \E n \in 1 .. Len(log[i]), outcome \in RuleOutcome :
            \/ LocalTransitionVerdict(i, n, outcome)
            \/ ReceivedTransitionVerdict(i, n, outcome)
  \/ \E x \in Exchange :
       \/ SendRequest(x)
       \/ \E i \in Instance : DeliverToInstance(x, i) \/ DeliverToWorkflow(x, i)
       \/ IgnoreRequest(x) \/ RefuseRequest(x) \/ AppendReceived(x)
       \/ SendResponse(x)
       \/ ReadAcknowledged(x) \/ AppendAcknowledged(x)
       \/ RecordAccepted(x) \/ CompleteAccepted(x)
       \/ RecordRejected(x) \/ CompleteRejected(x)
  \/ \E c \in Client : ClientAppend(c)

\* What clients and faults do.
Environment ==
  \/ \E i \in Instance : ClientLaunch(i)
  \/ \E c \in Client, i \in Instance, e \in Event : ClientRead(c, i, e)
  \/ \E x \in Exchange : SendRequestFails(x) \/ SendResponseFails(x)
  \/ \E o \in Organization : \E missed \in SUBSET InTransit(o) : Crash(o, missed)

Next == Handler \/ Environment

Spec == Init /\ [][Next]_vars

\* Node.js runs every pending continuation and OrbitDB keeps replicating; nobody
\* promises that clients call or that nodes fail.
FairSpec == Spec /\ WF_vars(Handler)
=============================================================================
