---------------------------- MODULE EventSourcing ----------------------------
(***************************************************************************)
(* The persistence of one node: events are created, land in append-only    *)
(* logs a moment later, and every question about a workflow or an instance *)
(* is answered by aggregating logs, up to now or up to a point in time.    *)
(*                                                                         *)
(* The OrbitDB strategy keeps all workflows in one log, the proposals of   *)
(* all instances of a workflow in a second one and the transitions of an   *)
(* instance in a third; it folds the second before the third, whatever the *)
(* order in which their events happened.  The EventStore strategy keeps    *)
(* one stream for each workflow and instance, answers for now by a         *)
(* projection of the database and for the past by the client's fold.  The  *)
(* database runs its projections in the background, one of all workflows   *)
(* and one of all instances, and every start of the node creates both      *)
(* anew: what they show may be any prefix of what was appended.            *)
(*                                                                         *)
(* RulesService and ConsistencyService subscribe to the landed events.     *)
(* Under the noop strategy a node receives its own proposals and answers;  *)
(* under the orbitdb strategy it sends no proposals and receives           *)
(* transitions and answers of other organizations instead.                 *)
(***************************************************************************)
EXTENDS EventFolds

CONSTANTS
  Workflow, Instance,
  WorkflowOf,       \* WorkflowOf[i]: the workflow that i is an instance of
  Known,            \* workflows proposed before the model starts
  Initial,          \* the state in which an instance is launched
  Target,           \* Target[s]: the states that the state machine can reach from s
  NoParticipant,    \* the event is no decision of a participant
  Environment,      \* the pairs of strategies that environment.ts may select
  ReadLimit,        \* what EventStore's readStream returns at most: maxCount
  MaxClock,         \* bound: ticks
  MaxTransitions,   \* bound: transitions that clients and other organizations start
  MaxEvents         \* bound: events created

Subject == Workflow \union Instance
Event ==
  [type: EventType, about: {"proposal", "transition"}, subject: Subject, to: State,
   by: Participant \union {NoParticipant}, created: 0 .. MaxClock]

ASSUME SourcingAssumption ==
  /\ WorkflowOf \in [Instance -> Workflow]
  /\ Workflow \intersect Instance = {}
  /\ Known \subseteq Workflow
  /\ Initial \in State
  /\ Target \in [State -> SUBSET State]
  /\ NoParticipant \notin Participant
  /\ NoRecord \notin Aggregate /\ Thrown \notin Aggregate /\ NoRecord # Thrown
  /\ Environment \subseteq [persistence: {"OrbitDB", "EventStore"}, consistency: {"noop", "orbitdb"}]
  /\ ReadLimit \in Nat
  /\ MaxClock \in Nat

VARIABLES
  environment, \* the strategies the node runs with, for as long as the data lives
  clock,
  inFlight,   \* created and handed to the database, in that order, not yet appended
  stream,     \* all appended events of all logs, in append order
  projected,  \* projected[k]: how many of these the projection k has processed
  todo        \* <<n, task>>: what a subscriber or a handler still does because of stream[n]

vars == <<environment, clock, inFlight, stream, projected, todo>>

Persistence == environment.persistence
Consistency == environment.consistency

Task == {"rules", "consistency", "continue"}

\* The projections of the EventStore database, both from all streams.
Kind == {"workflows", "instances"}
KindOf(s) == IF s \in Workflow THEN "workflows" ELSE "instances"

\* Types of all variables.
TypeOK ==
  /\ environment \in Environment
  /\ clock \in 0 .. MaxClock
  /\ inFlight \in Seq(Event)
  /\ stream \in Seq(Event)
  /\ projected \in [Kind -> 0 .. Len(stream)]
  /\ todo \subseteq (1 .. Len(stream)) \X Task

NothingProjected == [k \in Kind |-> 0]

Init ==
  /\ environment \in Environment
  /\ clock = 0 /\ inFlight = <<>> /\ stream = <<>> /\ todo = {}
  /\ projected = NothingProjected

-----------------------------------------------------------------------------
(* Logs and queries *)

\* The database an event is written to.
LogOf(e) ==
  CASE Persistence = "EventStore" -> <<"stream", e.subject>>
    [] Persistence = "OrbitDB" /\ e.subject \in Workflow -> <<"workflows">>
    [] OTHER -> IF e.about = "proposal" THEN <<"instances", WorkflowOf[e.subject]>>
                                        ELSE <<"localEvents", e.subject>>

\* A list of events read from a log is the set of their places in the stream.
PlacesOf(s) == {n \in DOMAIN stream : stream[n].subject = s}
PlacesAbout(s, about) == {n \in DOMAIN stream : stream[n].subject = s /\ stream[n].about = about}
CreatedUntil(t) == {n \in DOMAIN stream : stream[n].created <= t}

\* Mutated: one list in the order of the appends.
InAppendOrder(s, kept) == Fold(NoRecord, stream, kept \intersect PlacesOf(s))

\* getWorkflowInstancesAggregate: the proposals, then the local events, of those that
\* the filter keeps.
FoldInTurn(s, kept) ==
  Fold(Fold(NoRecord, stream, kept \intersect PlacesAbout(s, "proposal")),
       stream, kept \intersect PlacesAbout(s, "transition"))

\* The local logs are those of the instances that the filtered proposals name.
OrbitFold(s, kept) ==
  IF \E n \in kept \intersect PlacesOf(s) : stream[n].type \in Proposals
  THEN FoldInTurn(s, kept) ELSE NoRecord

\* Mutated: the loop does not stop.
ReadOn(places, t) == places

\* for await ... break at the first event that is later than t.
Until(places, t) == {n \in places : \A m \in places : m <= n => stream[m].created <= t}

\* EventStore's readStream, which stops at ReadLimit events.
ReadStream(s) ==
  {n \in PlacesOf(s) : Cardinality({m \in PlacesOf(s) : m <= n}) <= ReadLimit}

\* The events of s among the first k that were appended.
FirstOf(s, k) == {n \in PlacesOf(s) : n <= k}

\* The events of s that the projection that shows s has processed.
Seen(s) == FirstOf(s, projected[KindOf(s)])

\* getProjectionResult: what the database's projection has come to.
ProjectionResult(s) == Projection(stream, Seen(s))

\* getWorkflowById, getAllWorkflows, getWorkflowInstancesOfWorkflow
Current(s) ==
  IF Persistence = "OrbitDB" THEN OrbitFold(s, DOMAIN stream) ELSE ProjectionResult(s)

\* getWorkflowInstanceById is called with a workflow and an instance; the EventStore
\* strategy declares one parameter and looks the first up among the instances.
WorkflowInstanceById(w, i) ==
  IF Persistence = "EventStore" /\ w \notin Instance THEN NoRecord ELSE Current(i)

\* getWorkflowStateAt, getWorkflowInstanceStateAt of the two strategies; an exception
\* of the EventStore strategy's fold is caught.
OrbitStateAt(s, t) == OrbitFold(s, CreatedUntil(t))

ServerStateAt(s, t) ==
  LET r == Fold(NoRecord, stream, Until(ReadStream(s), t)) IN IF r = Thrown THEN NoRecord ELSE r

\* Mutated: the events of the very moment asked for are left out.
StateBefore(s, t) ==
  IF Persistence = "OrbitDB" THEN OrbitFold(s, CreatedUntil(t - 1)) ELSE ServerStateAt(s, t)

StateAt(s, t) == IF Persistence = "OrbitDB" THEN OrbitStateAt(s, t) ELSE ServerStateAt(s, t)

\* getWorkflowInstanceStateTransitionPayloadsUntil of the two: the places of the
\* transitions whose payloads they list.
OrbitPayloads(i, t) ==
  {n \in Until(PlacesAbout(i, "transition"), t) : stream[n].type = "advanced"}

ServerPayloads(i, t) == {n \in Until(ReadStream(i), t) : stream[n].type = "advanced"}

PayloadsUntil(i, t) ==
  IF Persistence = "OrbitDB" THEN OrbitPayloads(i, t) ELSE ServerPayloads(i, t)

-----------------------------------------------------------------------------
(* Writing *)

\* createPersistenceEvent: the event gets the time of its creation.
New(type, about, s, to, by) ==
  [type |-> type, about |-> about, subject |-> s, to |-> to, by |-> by, created |-> clock]

\* appendToStream: the event is handed to the database.
Write(e) ==
  /\ Len(inFlight) + Len(stream) < MaxEvents
  /\ inFlight' = Append(inFlight, e)

Tick ==
  /\ clock < MaxClock
  /\ clock' = clock + 1
  /\ UNCHANGED <<inFlight, stream, todo>>

\* proposeWorkflow
Propose(w) ==
  /\ w \notin Known
  /\ \A e \in ToSet(inFlight) \union ToSet(stream) : e.subject # w
  /\ Write(New("proposed", "proposal", w, Initial, NoParticipant))
  /\ UNCHANGED <<clock, stream, todo>>

\* launchWorkflowInstance: the workflow must exist; nobody asks whether it was accepted.
Launch(i) ==
  /\ WorkflowOf[i] \in Known \/ Current(WorkflowOf[i]) # NoRecord
  /\ \A e \in ToSet(inFlight) \union ToSet(stream) : e.subject # i
  /\ Write(New("proposed", "proposal", i, Initial, NoParticipant))
  /\ UNCHANGED <<clock, stream, todo>>

\* advanceWorkflowInstanceState: by a client, by a message of another organization, or
\* by the acknowledgement of participant p; all read the instance first.  The EventStore
\* strategy writes every transition as an advance.
Advance(i, type, to, p) ==
  LET r == WorkflowInstanceById(WorkflowOf[i], i)
  IN  /\ Len(SelectSeq(inFlight \o stream, LAMBDA e : e.type \in Transitions)) < MaxTransitions
      /\ type = "transitionReceived" => Consistency = "orbitdb" /\ Persistence = "OrbitDB"
      /\ p # NoParticipant => Consistency = "orbitdb" /\ type = "advanced"
      /\ r # NoRecord
      /\ r.currentState # Undefined /\ to \in Target[r.currentState]
      /\ Write(New(type, "transition", i, to, p))
      /\ UNCHANGED <<clock, stream, todo>>

\* onParticipantRejectedTransition reads nothing; it answers a transition of i.
RejectedBy(i, p) ==
  /\ Consistency = "orbitdb"
  /\ \E n \in DOMAIN stream : stream[n].subject = i /\ stream[n].type \in Transitions
  /\ \A e \in ToSet(inFlight) \union ToSet(stream) : e.by # p
  /\ Write(New("rejectedByParticipant", "transition", i, Initial, p))
  /\ UNCHANGED <<clock, stream, todo>>

\* Who acts on an appended event: RulesService judges proposals and transitions,
\* ConsistencyService sends what the rule services answered (and under noop receives it),
\* and a handler that recorded a participant's answer goes on to its follow-up event.
TasksOf(e) ==
  {t \in Task :
     CASE t = "rules" -> e.type \in Proposals \union Transitions
       [] t = "consistency" ->
            /\ Consistency = "noop" /\ e.about = "proposal"
            /\ e.type \in {"localAccepted", "receivedAccepted", "receivedRejected"}
       [] t = "continue" ->
            \/ e.type \in {"acceptedByParticipant", "rejectedByParticipant"}
            \/ e.type = "advanced" /\ e.by # NoParticipant}

\* Mutated: the subscribers are told although the append failed.
TellAnyway(n) ==
  /\ \A m \in 1 .. n - 1 : LogOf(inFlight[m]) # LogOf(inFlight[n])
  /\ inFlight' = RemoveAt(inFlight, n)
  /\ todo' = todo \union {<<Len(stream) + 1, t>> : t \in TasksOf(inFlight[n])}
  /\ UNCHANGED <<clock, stream>>

\* The time that is kept: that of the event's creation, or the one at which the EventStore
\* server appends it.
Stamped(e) ==
  [type |-> e.type, about |-> e.about, subject |-> e.subject, to |-> e.to, by |-> e.by,
   created |-> IF Persistence = "EventStore" THEN clock ELSE e.created]

\* The database appends the oldest event it was handed for one of its logs, and tells
\* the subscribers.
Land(n) ==
  /\ \A m \in 1 .. n - 1 : LogOf(inFlight[m]) # LogOf(inFlight[n])
  /\ stream' = Append(stream, Stamped(inFlight[n]))
  /\ inFlight' = RemoveAt(inFlight, n)
  /\ todo' = todo \union {<<Len(stream) + 1, t>> : t \in TasksOf(inFlight[n])}
  /\ UNCHANGED clock

\* Mutated: the answer takes over the time of the event it answers.
AnswerThen(n, task, type, by) ==
  /\ <<n, task>> \in todo
  /\ todo' = todo \ {<<n, task>>}
  /\ Write([New(type, stream[n].about, stream[n].subject, stream[n].to, by)
             EXCEPT !.created = stream[n].created])
  /\ UNCHANGED <<clock, stream>>

\* A subscriber or handler appends the next event because of stream[n].
Answer(n, task, type, by) ==
  /\ <<n, task>> \in todo
  /\ todo' = todo \ {<<n, task>>}
  /\ Write(New(type, stream[n].about, stream[n].subject, stream[n].to, by))
  /\ UNCHANGED <<clock, stream>>

\* RulesService appends its verdict.
Validate(n, accepted) ==
  /\ n \in DOMAIN stream
  /\ Answer(n, "rules",
       IF stream[n].type \in {"proposed", "advanced"}
       THEN IF accepted THEN "localAccepted" ELSE "localRejected"
       ELSE IF accepted THEN "receivedAccepted" ELSE "receivedRejected", NoParticipant)

\* ConsistencyService dispatches, the noop strategy feeds the message back.
Dispatch(n, self) ==
  /\ n \in DOMAIN stream
  /\ CASE stream[n].type = "localAccepted" -> Answer(n, "consistency", "received", NoParticipant)
       [] stream[n].type = "receivedAccepted" ->
            Answer(n, "consistency", "acceptedByParticipant", self)
       [] stream[n].type = "receivedRejected" ->
            Answer(n, "consistency", "rejectedByParticipant", self)
       [] OTHER -> FALSE

\* ... and the follow-up event of a recorded answer.
FollowUp(n) ==
  /\ n \in DOMAIN stream
  /\ Answer(n, "continue",
       CASE stream[n].type = "advanced" -> "acceptedByParticipant"
         [] stream[n].type = "acceptedByParticipant" -> "accepted"
         [] OTHER -> "rejected", stream[n].by)

\* The database runs a projection on, by the next appended event.
Project(k) ==
  /\ Persistence = "EventStore"
  /\ projected[k] < Len(stream)
  /\ projected' = [projected EXCEPT ![k] = @ + 1]
  /\ UNCHANGED <<clock, inFlight, stream, todo>>

\* The node crashes: what it had not written, and what its handlers were about to do, is gone.
\* It starts again with projections that have processed nothing.
Crash ==
  /\ inFlight # <<>> \/ todo # {} \/ projected # NothingProjected
  /\ inFlight' = <<>> /\ todo' = {}
  /\ projected' = NothingProjected
  /\ UNCHANGED <<clock, stream>>

\* What a node does under the strategies it was started with.
Step ==
  \/ Tick
  \/ \E w \in Workflow : Propose(w)
  \/ \E i \in Instance :
       \/ Launch(i)
       \/ \E type \in Transitions, to \in State, p \in Participant \union {NoParticipant} :
            Advance(i, type, to, p)
       \/ \E p \in Participant : RejectedBy(i, p)
  \/ \E n \in DOMAIN inFlight : Land(n)
  \/ \E n \in DOMAIN stream :
       \/ \E accepted \in BOOLEAN : Validate(n, accepted)
       \/ \E self \in Participant : Dispatch(n, self)
       \/ FollowUp(n)

Next ==
  /\ UNCHANGED environment
  /\ \/ Step /\ UNCHANGED projected
     \/ \E k \in Kind : Project(k)
     \/ Crash

Spec == Init /\ [][Next]_vars
=============================================================================
