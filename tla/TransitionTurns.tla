---------------------------- MODULE TransitionTurns ----------------------------
(***************************************************************************)
(* When the history of an instance is linear.  A client or a handler       *)
(* appends the state it computed from what it read a while ago, and        *)
(* nothing in the code keeps another one from appending in between.  What  *)
(* can keep it is the workflow definitions: here are conditions on them    *)
(* (and on clients) under which the parties of a workflow take turns, and  *)
(* the inductive invariant that shows it.                                  *)
(***************************************************************************)
EXTENDS TransitionInvariants

\* Clients' requests come one after the other.
OneClient == \A c, d \in Client : c = d

\* An external activity addresses one participant.
OneParticipant ==
  \A w \in Workflow : \A a \in External[w] : \A p, q \in ExternalParticipants[w][a] : p = q

\* A state that a client may advance waits for nobody else: neither for the
\* acknowledgement of a participant nor for a message.
ClientsMayAdvance(w, s) == \E e \in ClientEvent : ClientMayFire(w, s, e)

MessagesMayAdvance(w, s) ==
  \E v \in Workflow : \E p \in DOMAIN Recipient[v] : ParticipantMayFire(w, s, Recipient[v][p].event)

OneSideAdvances ==
  \A w \in Workflow : \A s \in State :
    ClientsMayAdvance(w, s) => ~IsExternal(w, s) /\ ~MessagesMayAdvance(w, s)

\* The activities whose message launches an instance, and those that may follow.
Launching ==
  [w \in Workflow |->
     {a \in External[w] : \E p \in ExternalParticipants[w][a] : Recipient[w][p].launches}]

Closed(w, S) == \A a \in S : \A e \in DOMAIN On[w][a] : On[w][a][e].target \in S

SinceLaunching ==
  [w \in Workflow |->
     {a \in Activity :
        \A S \in SUBSET Activity : Launching[w] \subseteq S /\ Closed(w, S) => a \in S}]

\* A workflow talks to one other: it launches an instance in one activity at most, to
\* which it cannot come back, and none if its own instances are launched by a message.
OnePeer ==
  \A w \in Workflow :
    /\ \A a, b \in Launching[w] : a = b
    /\ \A a \in SinceLaunching[w] : \A e \in DOMAIN On[w][a] : On[w][a][e].target \notin Launching[w]
    /\ \A p \in DOMAIN Recipient[w] :
         Recipient[w][p].launches => Launching[Recipient[w][p].workflow] = {}

TakesTurns == OneClient /\ OneParticipant /\ OneSideAdvances /\ OnePeer

-----------------------------------------------------------------------------
(* Beginnings *)

\* Only launched instances are advanced, delivered to and read by clients.
LaunchedFirst ==
  /\ \A i \in Instance \ launched : log[i] = <<>>
  /\ \A x \in Exchange : receiver[x] \in launched \union {NoInstance}
  /\ \A c \in Client : client[c] # NoRequest => client[c].instance \in launched

\* A message is delivered once.
DeliveredOnce ==
  \A x \in Exchange : receiver[x] # NoInstance => request[x] \notin {"none", "ready", "sent"}

\* x has launched its receiver.
Launched(x) == AddressOf(x).launches /\ receiver[x] # NoInstance

\* ... which no other message has.
LaunchedOnce ==
  \A x \in Exchange : Launched(x) =>
    /\ WorkflowOf[receiver[x]] = AddressOf(x).workflow
    /\ \A y \in Exchange : Launched(y) /\ receiver[y] = receiver[x] => y = x

-----------------------------------------------------------------------------
(* Logs *)

\* An instance is in the state that its last transition led to.
CurrentIsLast ==
  \A i \in Instance : currentState[i] =
    IF log[i] = <<>> THEN InitialState(WorkflowOf[i]) ELSE log[i][Len(log[i])].to

\* A message is sent to a participant of the activity that was entered.
RequestsAddressed ==
  \A x \in Exchange : request[x] # "none" =>
    x[3] \in ExternalTransitions(x[1], log[x[1]][x[2]])

\* An external state is left behind by the acknowledgement it waited for.
Acknowledged == {"acked", "recorded", "accepted", "acceptCut"}

LeftByAnswer ==
  \A i \in Instance : \A n \in 1 .. Len(log[i]) :
    n # Len(log[i]) /\ IsExternal(WorkflowOf[i], log[i][n].to) =>
      \E x \in Exchange : x[1] = i /\ x[2] = n /\ response[x] \in Acknowledged

\* A step stays in its activity or goes on, and never back to a launching one.
Forward(w, s, t) ==
  \/ s.activity = t.activity
  \/ s.activity \in SinceLaunching[w] =>
       t.activity \in SinceLaunching[w] /\ t.activity \notin Launching[w]

StepsForward ==
  /\ \A i \in Instance : \A n \in 1 .. Len(log[i]) :
       Forward(WorkflowOf[i], log[i][n].from, log[i][n].to)
  /\ \A c \in Client : client[c] # NoRequest =>
       Forward(WorkflowOf[client[c].instance], client[c].from, client[c].to)

LaunchingIsPast ==
  \A i \in Instance : \A n \in 1 .. Len(log[i]) :
    log[i][n].to.activity \in SinceLaunching[WorkflowOf[i]] =>
      currentState[i].activity \in SinceLaunching[WorkflowOf[i]]

\* An instance enters its launching activity once.
EntersLaunching(i, n) ==
  /\ log[i][n].to.activity \in Launching[WorkflowOf[i]]
  /\ log[i][n].from.activity # log[i][n].to.activity

LaunchesOnce ==
  \A i \in Instance : \A n, m \in 1 .. Len(log[i]) :
    EntersLaunching(i, n) /\ EntersLaunching(i, m) => n = m

-----------------------------------------------------------------------------
(* Whoever is about to append a transition has read the current state. *)

ClientsAreCurrent ==
  \A c \in Client : client[c] # NoRequest =>
    LET i == client[c].instance
    IN  client[c].from = currentState[i] /\ ClientsMayAdvance(WorkflowOf[i], client[c].from)

\* The handler of x is going to append a received transition.
WillAppend(x) ==
  LET w == WorkflowOf[receiver[x]]
  IN  /\ request[x] = "handling"
      /\ ~IsExternal(w, seen[x])
      /\ ParticipantMayFire(w, seen[x], AddressOf(x).event)

ReceiversAreCurrent == \A x \in Exchange : WillAppend(x) => seen[x] = currentState[receiver[x]]

OriginatorsAreCurrent ==
  \A x \in Exchange : response[x] = "acking" =>
    seen[x] = currentState[x[1]] /\ IsExternal(WorkflowOf[x[1]], seen[x])

-----------------------------------------------------------------------------
(* Instances talk in pairs. *)

\* One of the two has launched the other.
Peers(i, j) ==
  \E x \in Exchange :
    /\ Launched(x)
    /\ \/ x[1] = i /\ receiver[x] = j
       \/ x[1] = j /\ receiver[x] = i

PeersTalk ==
  /\ \A x \in Exchange : receiver[x] # NoInstance => Peers(x[1], receiver[x])
  /\ \A i \in Instance : \A n \in 1 .. Len(log[i]) :
       log[i][n].to.partner # NoInstance => Peers(i, log[i][n].to.partner)
  /\ \A c \in Client : client[c] # NoRequest /\ client[c].to.partner # NoInstance =>
       Peers(client[c].instance, client[c].to.partner)

TurnsInv ==
  /\ LaunchedFirst /\ DeliveredOnce /\ LaunchedOnce
  /\ CurrentIsLast /\ LinearHistory /\ RequestsAddressed /\ LeftByAnswer
  /\ StepsForward /\ LaunchingIsPast /\ LaunchesOnce
  /\ ClientsAreCurrent /\ ReceiversAreCurrent /\ OriginatorsAreCurrent
  /\ PeersTalk
=============================================================================
