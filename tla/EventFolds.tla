----------------------------- MODULE EventFolds -----------------------------
(***************************************************************************)
(* What the events of one workflow or one workflow instance aggregate to.  *)
(* The code does this twice: aggregateAllWorkflowEvents and                *)
(* aggregateAllWorkflowInstanceEvents fold a list of events in the client, *)
(* and two projections of the EventStore database do it on the server.     *)
(* An event is a record with the fields type, about (a proposal or a       *)
(* transition), to (the state it leads to) and by (the participant that    *)
(* decided).                                                               *)
(*                                                                         *)
(* An exception thrown for one event leaves no aggregate at all, whichever *)
(* record was asked for: Thrown stands for that.                           *)
(***************************************************************************)
EXTENDS Naturals, SequencesExt

CONSTANTS
  Participant,
  State,
  Undefined,   \* the value undefined
  NoRecord,    \* the aggregate has no such workflow or instance
  Thrown       \* the aggregation threw

Flag == {"undefined", "true", "false"}

\* Workflow and WorkflowInstance; a workflow never changes its currentState.
Aggregate ==
  [currentState: State \union {Undefined}, acceptedByRuleServices: Flag, acceptedByParticipants: Flag,
   participantsAccepted: SUBSET Participant, participantsRejected: SUBSET Participant]

\* proposeWorkflow or launchWorkflowInstance, and what another participant sent of it.
Proposals == {"proposed", "received"}
\* advanceWorkflowInstance and receivedTransition.
Transitions == {"advanced", "transitionReceived"}
\* What the rule services answered on a local or a received proposal or transition.
RuleVerdicts == {"localAccepted", "localRejected", "receivedAccepted", "receivedRejected"}
\* What participants answered: each decision and the follow-up event dispatched with it.
ParticipantVerdicts == {"acceptedByParticipant", "accepted", "rejectedByParticipant", "rejected"}
EventType == Proposals \union Transitions \union RuleVerdicts \union ParticipantVerdicts

Proposed(state) ==
  [currentState |-> state, acceptedByRuleServices |-> "undefined",
   acceptedByParticipants |-> "undefined",
   participantsAccepted |-> {}, participantsRejected |-> {}]

\* Mutated: the verdict itself is stored.
StoreVerdict(flag) == "accepted"

\* Mutated: the last verdict counts.
SetAnyway(flag) == "true"

\* An acceptance never overrides a rejection.
Accept(flag) == IF flag = "false" THEN "false" ELSE "true"

\* The verdicts, which the fold and the projection treat alike.
Judge(r, e) ==
  CASE e.type \in {"localAccepted", "receivedAccepted"} ->
         [r EXCEPT !.acceptedByRuleServices = Accept(@)]
    [] e.type \in {"localRejected", "receivedRejected"} ->
         [r EXCEPT !.acceptedByRuleServices = "false"]
    [] e.type = "acceptedByParticipant" -> [r EXCEPT !.participantsAccepted = @ \union {e.by}]
    [] e.type = "rejectedByParticipant" -> [r EXCEPT !.participantsRejected = @ \union {e.by}]
    [] e.type = "accepted" -> [r EXCEPT !.acceptedByParticipants = Accept(@)]
    [] e.type = "rejected" -> [r EXCEPT !.acceptedByParticipants = "false"]

\* What a transition changes in both.
Moved(r, to) ==
  [r EXCEPT !.participantsAccepted = {}, !.participantsRejected = {},
            !.currentState = to, !.acceptedByParticipants = "undefined"]

\* The folds: a received proposal replaces the record, a transition forgets the
\* verdict of the rule services.
FoldEvent(r, e) ==
  CASE r = Thrown -> Thrown
    [] r # Thrown /\ e.type \in Proposals -> Proposed(e.to)
    [] r = NoRecord /\ e.type \in Transitions -> NoRecord
    [] r = NoRecord /\ e.type \notin Proposals \union Transitions -> Thrown
    [] OTHER ->
         CASE e.type \in Transitions ->
                [Moved(r, e.to) EXCEPT !.acceptedByRuleServices = "undefined"]
           [] OTHER -> Judge(r, e)

\* The projections: a received proposal is merged into the record, which keeps its
\* flags and decisions; a rejected transition is rolled back to the field from of the
\* denial, which denials do not have.
ProjectEvent(r, e) ==
  CASE r = Thrown -> Thrown
    [] r = NoRecord /\ e.type \in Proposals -> Proposed(e.to)
    [] r = NoRecord /\ e.type \notin Proposals -> Thrown
    [] OTHER ->
         CASE e.type = "proposed" -> Proposed(e.to)
           [] e.type = "received" -> [r EXCEPT !.currentState = e.to]
           [] e.type \in Transitions -> Moved(r, e.to)
           [] e.type = "rejected" /\ e.about = "transition" ->
                [r EXCEPT !.currentState = Undefined, !.acceptedByParticipants = "true"]
           [] OTHER -> Judge(r, e)

\* The record that the events at these places of a log make of r.
Fold(r, log, places) ==
  LET f[n \in 0 .. Len(log)] ==
        IF n = 0 THEN r
        ELSE IF n \in places THEN FoldEvent(f[n - 1], log[n]) ELSE f[n - 1]
  IN  f[Len(log)]

Projection(log, places) ==
  LET f[n \in 0 .. Len(log)] ==
        IF n = 0 THEN NoRecord
        ELSE IF n \in places THEN ProjectEvent(f[n - 1], log[n]) ELSE f[n - 1]
  IN  f[Len(log)]
=============================================================================
