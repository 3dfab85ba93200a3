------------------------------ MODULE StateChart ------------------------------
(***************************************************************************)
(* The state machine that `convertStateChartWorkflowConfig` builds from a  *)
(* workflow definition, and what xstate's interpreter does with it when    *)
(* `WorkflowService` restores a persisted state, sends one event and reads *)
(* the resulting state back.                                               *)
(*                                                                         *)
(* An external activity is a parallel xstate node with one region per      *)
(* external participant.  A region is either empty or in                   *)
(* $EXTERNAL_RECEIVED_ACK, so the set of acknowledged participants is the  *)
(* whole of the node's inner state.  Of the context only the remembered    *)
(* counterpart instance is kept (`assign` from $.origin): it is what later *)
(* messages are addressed with.                                            *)
(***************************************************************************)
EXTENDS Naturals, FiniteSets

CONSTANTS
  Workflow,              \* workflow definitions
  Activity,              \* keys of WorkflowDefinitionDto.activities
  Participant,           \* ids of external participants
  Event,                 \* keys of ActivityObject.on, Eventless among them
  Instance,              \* workflow instances (what a context can refer to)
  NoInstance,            \* the context remembers no instance
  NoCondition,           \* externalCondition is absent
  Initial,               \* Initial[w]: WorkflowDefinitionDto.initial
  External,              \* External[w]: activities with external = true
  On,                    \* On[w][a]: a function from events to Transition
  ExternalParticipants,  \* ExternalParticipants[w][a]: participant ids
  ExternalCondition,     \* ExternalCondition[w][a]: NoCondition or a ListCondition
  AssignsOnAcceptance    \* AssignsOnAcceptance[w]: participants whose
                         \* acceptance stores $.origin.workflowInstanceId

\* The key "" of `on`: taken by itself as soon as its condition holds.
Eventless == ""

\* EventObject | string.  `trigger` says who may fire the transition: an object
\* without `external` only a local client, one with it only another organization,
\* the string shorthand either.
Transition == [target: Activity, trigger: {"local", "external", "any"}, assigns: BOOLEAN]

\* An absent field of ListCondition is encoded by the value that does not
\* constrain: allOf and anyOf {}, min 0, max Cardinality(Participant).
ListCondition == [allOf: SUBSET Participant, anyOf: SUBSET Participant, min: Nat, max: Nat]

\* What is persisted as `currentState`, `from` and `to`.
State == [activity: Activity, acked: SUBSET Participant, partner: Instance \union {NoInstance}]

ASSUME ChartAssumption ==
  /\ NoInstance \notin Instance
  /\ Initial \in [Workflow -> Activity]
  /\ External \in [Workflow -> SUBSET Activity]
  /\ ExternalParticipants \in [Workflow -> [Activity -> SUBSET Participant]]
  /\ AssignsOnAcceptance \in [Workflow -> SUBSET Participant]
  /\ \A w \in Workflow, a \in Activity :
       /\ ExternalCondition[w][a] \in ListCondition \union {NoCondition}
       /\ DOMAIN On[w][a] \subseteq Event
       /\ \A e \in DOMAIN On[w][a] : On[w][a][e] \in Transition

\* Limits of the model: no chain of eventless transitions, no external activity
\* that targets itself, and no assignment in an eventless transition.
ASSUME ChartLimits ==
  \A w \in Workflow, a \in Activity : \A e \in DOMAIN On[w][a] :
    LET t == On[w][a][e]
    IN  /\ e = Eventless => ~t.assigns /\ Eventless \notin DOMAIN On[w][t.target]
        /\ a \in External[w] => t.target # a

-----------------------------------------------------------------------------
\* createExternalTransitionCondition: may external activity a be left once the
\* participants in acked have acknowledged?
ExternalTransitionCondition(w, a, acked) ==
  LET c  == ExternalCondition[w][a]
      ps == ExternalParticipants[w][a]
  IN  IF c = NoCondition
      THEN ps \subseteq acked
      ELSE /\ c.allOf \subseteq acked
           /\ c.anyOf = {} \/ c.anyOf \intersect acked # {}
           /\ Cardinality(ps \intersect acked) \in c.min .. c.max

\* Every transition written in `on` of an external activity gets the condition.
Enabled(w, s, e) ==
  /\ e \in DOMAIN On[w][s.activity]
  /\ s.activity \in External[w] => ExternalTransitionCondition(w, s.activity, s.acked)

\* Taking transition e: regions of the target start empty, `assign` may store
\* the instance the event came from.
Enter(w, s, e, origin) ==
  LET t == On[w][s.activity][e]
  IN  [activity |-> t.target,
       acked    |-> {},
       partner  |-> IF t.assigns THEN origin ELSE s.partner]

\* xstate re-evaluates the eventless transition after every step.
Settle(w, s) ==
  IF Enabled(w, s, Eventless) THEN Enter(w, s, Eventless, NoInstance) ELSE s

InitialState(w) ==
  Settle(w, [activity |-> Initial[w], acked |-> {}, partner |-> NoInstance])

\* service.send(e): an event without an enabled transition changes nothing.
Fire(w, s, e, origin) ==
  IF Enabled(w, s, e) THEN Settle(w, Enter(w, s, e, origin)) ELSE s

\* Mutated: one acknowledgement counts for all participants of the activity.
AcknowledgeAll(w, s, p, origin) ==
  IF s.activity \in External[w]
  THEN Settle(w, [s EXCEPT !.acked = ExternalParticipants[w][s.activity]])
  ELSE s

\* service.send($RECEIVE_ACK_p): the transition that the converter adds to an
\* external activity for each of its participants; no other activity has it.
Acknowledge(w, s, p, origin) ==
  IF s.activity \in External[w] /\ p \in ExternalParticipants[w][s.activity]
  THEN Settle(w, [activity |-> s.activity,
                  acked    |-> s.acked \union {p},
                  partner  |-> IF p \in AssignsOnAcceptance[w] THEN origin ELSE s.partner])
  ELSE s

\* The current state value is an object: the only case is an active external
\* activity.
IsExternal(w, s) == s.activity \in External[w]

\* advanceWorkflowInstance of the REST API rejects an undefined transition and
\* one that is marked external.
ClientMayFire(w, s, e) ==
  /\ e \in DOMAIN On[w][s.activity]
  /\ On[w][s.activity][e].trigger \in {"local", "any"}

\* onExternalAdvanceWorkflowInstance rejects an undefined transition and an
\* object that is not marked external.
ParticipantMayFire(w, s, e) ==
  /\ e \in DOMAIN On[w][s.activity]
  /\ On[w][s.activity][e].trigger \in {"external", "any"}
=============================================================================
