------------------------------ MODULE TurnsProofs ------------------------------
(***************************************************************************)
(* Histories are linear where the parties of a workflow take turns         *)
(* (TransitionTurns).  The argument: whoever is about to append has read   *)
(* the current state, and no two are about to append to one log.  Clients  *)
(* and handlers exclude each other by the state they wait in; two          *)
(* acknowledgements, because a transition is sent to one participant and   *)
(* the next one needs its answer; two messages, because instances talk in  *)
(* pairs and the sender waits for the answer to the first.                 *)
(***************************************************************************)
EXTENDS TransitionProofs, TransitionTurns

-----------------------------------------------------------------------------
(* Steps of the chart go forward *)

\* The activities since launching are activities, contain the launching ones, and are
\* not left by any transition.
LEMMA SinceLaunchingClosed ==
  ASSUME NEW w \in Workflow
  PROVE  /\ Launching[w] \subseteq SinceLaunching[w]
         /\ SinceLaunching[w] \subseteq Activity
         /\ Closed(w, SinceLaunching[w])
<1>1. Launching[w] \subseteq Activity
  BY ChartAssumption DEF ChartAssumption, Launching
<1>2. Launching[w] \subseteq SinceLaunching[w] /\ SinceLaunching[w] \subseteq Activity
  BY <1>1 DEF SinceLaunching
<1>3. Closed(w, SinceLaunching[w])
  <2> SUFFICES ASSUME NEW a \in SinceLaunching[w], NEW e \in DOMAIN On[w][a]
               PROVE  On[w][a][e].target \in SinceLaunching[w]
    BY DEF Closed
  <2>1. a \in Activity
    BY <1>2
  <2>2. On[w][a][e].target \in Activity
    BY <2>1, TransitionType DEF Transition
  <2>3. ASSUME NEW S \in SUBSET Activity, Launching[w] \subseteq S, Closed(w, S)
        PROVE  On[w][a][e].target \in S
    <3>1. a \in S
      BY <2>3 DEF SinceLaunching
    <3> QED
      BY <2>3, <3>1 DEF Closed
  <2> QED
    BY <2>2, <2>3 DEF SinceLaunching
<1> QED
  BY <1>2, <1>3

\* A transition of the chart goes forward and keeps the partner or stores the origin.
LEMMA EnterForward ==
  ASSUME OnePeer, NEW w \in Workflow, NEW s \in State, NEW e, NEW o, Enabled(w, s, e)
  PROVE  /\ s.activity \in SinceLaunching[w] =>
              /\ Enter(w, s, e, o).activity \in SinceLaunching[w]
              /\ Enter(w, s, e, o).activity \notin Launching[w]
         /\ Enter(w, s, e, o).partner \in {s.partner, o}
<1>1. e \in DOMAIN On[w][s.activity]
  BY DEF Enabled
<1>2. Enter(w, s, e, o).activity = On[w][s.activity][e].target
  BY DEF Enter
<1>3. s.activity \in SinceLaunching[w] =>
        /\ On[w][s.activity][e].target \in SinceLaunching[w]
        /\ On[w][s.activity][e].target \notin Launching[w]
  BY <1>1, SinceLaunchingClosed DEF Closed, OnePeer
<1>4. Enter(w, s, e, o).partner \in {s.partner, o}
  BY DEF Enter
<1> QED
  BY <1>2, <1>3, <1>4

\* So does the eventless one, which stores nothing.
LEMMA SettleForward ==
  ASSUME OnePeer, NEW w \in Workflow, NEW s \in State
  PROVE  Forward(w, s, Settle(w, s)) /\ Settle(w, s).partner = s.partner
<1>1. CASE Enabled(w, s, Eventless)
  <2>1. s.activity \in Activity /\ Eventless \in DOMAIN On[w][s.activity]
    BY <1>1 DEF Enabled, State
  <2>2. ~On[w][s.activity][Eventless].assigns
    BY <2>1, ChartLimits DEF ChartLimits
  <2>3. Settle(w, s) = Enter(w, s, Eventless, NoInstance)
    BY <1>1 DEF Settle
  <2>4. Settle(w, s).partner = s.partner
    BY <2>2, <2>3 DEF Enter
  <2> QED
    BY <1>1, <2>3, <2>4, EnterForward DEF Forward
<1>2. CASE ~Enabled(w, s, Eventless)
  BY <1>2 DEF Settle, Forward
<1> QED
  BY <1>1, <1>2

\* A new instance remembers nobody.
LEMMA InitialPartner ==
  ASSUME OnePeer, NEW w \in Workflow
  PROVE  InitialState(w).partner = NoInstance
<1> DEFINE s == [activity |-> Initial[w], acked |-> {}, partner |-> NoInstance]
<1>1. s \in State /\ s.partner = NoInstance
  BY ChartAssumption DEF ChartAssumption, State
<1>2. InitialState(w) = Settle(w, s)
  BY DEF InitialState
<1> HIDE DEF s
<1> QED
  BY <1>1, <1>2, SettleForward

\* An event moves an instance forward; it remembers whom it did, or the sender.
LEMMA FireForward ==
  ASSUME OnePeer, NEW w \in Workflow, NEW s \in State, NEW o \in Instance \union {NoInstance}, NEW e
  PROVE  Forward(w, s, Fire(w, s, e, o)) /\ Fire(w, s, e, o).partner \in {s.partner, o}
<1>1. CASE Enabled(w, s, e)
  <2>1. PICK t : t = Enter(w, s, e, o)
    OBVIOUS
  <2>2. /\ s.activity \in SinceLaunching[w] =>
             t.activity \in SinceLaunching[w] /\ t.activity \notin Launching[w]
        /\ t.partner \in {s.partner, o}
    BY <1>1, <2>1, EnterForward
  <2>3. t \in State
    BY <1>1, <2>1, EnterType
  <2>4. Forward(w, t, Settle(w, t)) /\ Settle(w, t).partner = t.partner
    BY <2>3, SettleForward
  <2>5. Fire(w, s, e, o) = Settle(w, t)
    BY <1>1, <2>1 DEF Fire
  <2> QED
    BY <2>2, <2>4, <2>5 DEF Forward
<1>2. CASE ~Enabled(w, s, e)
  BY <1>2 DEF Fire, Forward
<1> QED
  BY <1>1, <1>2

\* So does an acknowledgement.
LEMMA AcknowledgeForward ==
  ASSUME OnePeer, NEW w \in Workflow, NEW s \in State, NEW p \in Participant,
         NEW o \in Instance \union {NoInstance}
  PROVE  /\ Forward(w, s, Acknowledge(w, s, p, o))
         /\ Acknowledge(w, s, p, o).partner \in {s.partner, o}
<1>1. CASE s.activity \in External[w] /\ p \in ExternalParticipants[w][s.activity]
  <2>1. PICK t : t = [activity |-> s.activity, acked |-> s.acked \union {p},
                      partner  |-> IF p \in AssignsOnAcceptance[w] THEN o ELSE s.partner]
    OBVIOUS
  <2>2. t \in State /\ t.activity = s.activity /\ t.partner \in {s.partner, o}
    BY <2>1 DEF State
  <2>3. Acknowledge(w, s, p, o) = Settle(w, t)
    BY <1>1, <2>1 DEF Acknowledge
  <2>4. Forward(w, t, Settle(w, t)) /\ Settle(w, t).partner = t.partner
    BY <2>2, SettleForward
  <2> QED
    BY <2>2, <2>3, <2>4 DEF Forward
<1>2. CASE ~(s.activity \in External[w] /\ p \in ExternalParticipants[w][s.activity])
  BY <1>2 DEF Acknowledge, Forward
<1> QED
  BY <1>1, <1>2

-----------------------------------------------------------------------------
(* Only one is about to append *)

\* What the proofs about a step start from.
TurnsContext == TypeInv /\ SafetyInv /\ TurnsInv /\ TakesTurns /\ TypeInv'

\* A message that was sent tells of a transition that entered an external activity.
LEMMA RequestEntry ==
  ASSUME TypeInv, RequestsAddressed, NEW x \in Exchange, request[x] # "none"
  PROVE  /\ x[2] \in 1 .. Len(log[x[1]])
         /\ IsExternal(WorkflowOf[x[1]], log[x[1]][x[2]].to)
         /\ log[x[1]][x[2]].from.activity # log[x[1]][x[2]].to.activity
         /\ x[3] \in ExternalParticipants[WorkflowOf[x[1]]][log[x[1]][x[2]].to.activity]
<1>1. x[3] \in ExternalTransitions(x[1], log[x[1]][x[2]])
  BY DEF RequestsAddressed
<1> QED
  BY <1>1 DEF ExternalTransitions, TypeInv, RequestsFollowVerdicts

\* Two messages sent for the same transition are the same.
LEMMA OneMessage ==
  ASSUME TypeInv, OneParticipant, RequestsAddressed, NEW x \in Exchange, NEW y \in Exchange,
         x[1] = y[1], x[2] = y[2], request[x] # "none", request[y] # "none"
  PROVE  x = y
<1>1. PICK w, e : w \in Workflow /\ w = WorkflowOf[x[1]] /\ e = log[x[1]][x[2]]
  BY ExchangeType, Zenon
<1>2. IsExternal(w, e.to) /\ x[3] \in ExternalParticipants[w][e.to.activity]
  BY <1>1, RequestEntry, Zenon
<1>3. y[3] \in ExternalParticipants[w][e.to.activity]
  <2>1. y[3] \in ExternalParticipants[WorkflowOf[y[1]]][log[y[1]][y[2]].to.activity]
    BY RequestEntry, Zenon
  <2>2. w = WorkflowOf[y[1]] /\ e = log[y[1]][y[2]]
    BY <1>1
  <2> QED
    BY <2>1, <2>2
<1>4. x[3] = y[3]
  <2>1. \A p, q \in ExternalParticipants[w][e.to.activity] : p = q
    BY <1>1, <1>2, Zenon DEF OneParticipant, IsExternal
  <2> QED
    BY <1>2, <1>3, <2>1
<1>5. x = <<x[1], x[2], x[3]>> /\ y = <<y[1], y[2], y[3]>>
  BY ExchangeType, Zenon
<1> QED
  BY <1>4, <1>5, Zenon

\* While a message is not acknowledged, its transition is the last one of its log.
LEMMA RequestIsLast ==
  ASSUME TypeInv, OneParticipant, RequestsAddressed, LeftByAnswer,
         NEW x \in Exchange, request[x] # "none", response[x] \notin Acknowledged
  PROVE  x[2] = Len(log[x[1]])
<1> SUFFICES ASSUME x[2] # Len(log[x[1]]) PROVE FALSE
  BY Zenon
<1>1. x[2] \in 1 .. Len(log[x[1]]) /\ IsExternal(WorkflowOf[x[1]], log[x[1]][x[2]].to)
  BY RequestEntry
<1>2. PICK y \in Exchange : y[1] = x[1] /\ y[2] = x[2] /\ response[y] \in Acknowledged
  BY <1>1, ExchangeType DEF LeftByAnswer
<1>3. request[y] # "none"
  BY <1>2 DEF Acknowledged, TypeInv, ResponsesFollowRequests
<1> QED
  BY <1>2, <1>3, OneMessage

\* An instance launches one other.
LEMMA LaunchesOne ==
  ASSUME TypeInv, OneParticipant, OnePeer, RequestsAddressed, LaunchesOnce, DeliveredOnce,
         NEW x \in Exchange, NEW y \in Exchange, Launched(x), Launched(y), x[1] = y[1]
  PROVE  x = y
<1>1. request[x] # "none" /\ request[y] # "none"
  BY Zenon DEF Launched, DeliveredOnce
<1>2. ASSUME NEW z \in Exchange, Launched(z), request[z] # "none"
      PROVE  z[2] \in 1 .. Len(log[z[1]]) /\ EntersLaunching(z[1], z[2])
  <2>1. /\ z[2] \in 1 .. Len(log[z[1]])
        /\ log[z[1]][z[2]].to.activity \in External[WorkflowOf[z[1]]]
        /\ log[z[1]][z[2]].from.activity # log[z[1]][z[2]].to.activity
        /\ z[3] \in ExternalParticipants[WorkflowOf[z[1]]][log[z[1]][z[2]].to.activity]
    BY <1>2, RequestEntry DEF IsExternal
  <2>2. Recipient[WorkflowOf[z[1]]][z[3]].launches /\ WorkflowOf[z[1]] \in Workflow
    BY <1>2, ExchangeType DEF Launched, AddressOf
  <2> QED
    BY <2>1, <2>2, Zenon DEF EntersLaunching, Launching
<1>3. x[2] = y[2]
  BY <1>1, <1>2, ExchangeType DEF LaunchesOnce
<1> QED
  BY <1>1, <1>3, OneMessage

\* An instance launched by a message launches none.
LEMMA LaunchedLaunchesNone ==
  ASSUME TypeInv, OnePeer, RequestsAddressed, DeliveredOnce, LaunchedOnce,
         NEW x \in Exchange, NEW y \in Exchange, Launched(x), Launched(y), receiver[x] = y[1]
  PROVE  FALSE
<1>1. request[y] # "none"
  BY DEF Launched, DeliveredOnce
<1>2. PICK w : w = WorkflowOf[y[1]]
  OBVIOUS
<1>3. w = AddressOf(x).workflow /\ AddressOf(x).launches
  BY <1>2 DEF LaunchedOnce, Launched
<1>4. x[3] \in DOMAIN Recipient[WorkflowOf[x[1]]] /\ WorkflowOf[x[1]] \in Workflow
  BY ExchangeType DEF Exchange
<1>5. Launching[w] = {}
  BY <1>3, <1>4, Zenon DEF OnePeer, AddressOf
<1>6. /\ log[y[1]][y[2]].to.activity \in External[w]
      /\ y[3] \in ExternalParticipants[w][log[y[1]][y[2]].to.activity]
  BY <1>1, <1>2, RequestEntry DEF IsExternal
<1>7. Recipient[w][y[3]].launches /\ w \in Workflow
  BY <1>2, ExchangeType DEF Launched, AddressOf
<1> QED
  BY <1>5, <1>6, <1>7 DEF Launching

\* An instance has one peer.
LEMMA OnePartner ==
  ASSUME TurnsContext, NEW i, NEW j, NEW k, Peers(i, j), Peers(i, k)
  PROVE  j = k
<1>1. PICK x \in Exchange : /\ Launched(x)
                            /\ \/ x[1] = i /\ receiver[x] = j
                               \/ x[1] = j /\ receiver[x] = i
  BY DEF Peers
<1>2. PICK y \in Exchange : /\ Launched(y)
                            /\ \/ y[1] = i /\ receiver[y] = k
                               \/ y[1] = k /\ receiver[y] = i
  BY DEF Peers
<1>3. /\ TypeInv /\ OnePeer /\ OneParticipant
      /\ RequestsAddressed /\ LaunchesOnce /\ DeliveredOnce /\ LaunchedOnce
  BY DEF TurnsContext, TurnsInv, TakesTurns
<1>4. CASE x[1] = i /\ y[1] = i
  <2>1. x = y
    BY <1>1, <1>2, <1>3, <1>4, LaunchesOne
  <2> QED
    BY <1>1, <1>2, <1>3, <1>4, <2>1, LaunchedLaunchesNone
<1>5. CASE receiver[x] = i /\ receiver[y] = i
  <2>1. x = y
    BY <1>1, <1>2, <1>3, <1>5 DEF LaunchedOnce
  <2> QED
    BY <1>1, <1>2, <1>3, <1>5, <2>1, LaunchedLaunchesNone
<1>6. CASE x[1] = i /\ receiver[y] = i
  BY <1>1, <1>2, <1>3, <1>6, LaunchedLaunchesNone
<1>7. CASE receiver[x] = i /\ y[1] = i
  BY <1>1, <1>2, <1>3, <1>7, LaunchedLaunchesNone
<1> QED
  BY <1>1, <1>2, <1>4, <1>5, <1>6, <1>7

\* An instance handles one message at a time.
LEMMA OneHandled ==
  ASSUME TurnsContext, NEW x \in Exchange, NEW y \in Exchange,
         request[x] = "handling", request[y] = "handling", receiver[x] = receiver[y]
  PROVE  x = y
<1>1. /\ TypeInv /\ OneParticipant /\ RequestsAddressed /\ LeftByAnswer /\ PeersTalk
  BY DEF TurnsContext, TurnsInv, TakesTurns
<1>2. receiver[x] \in Instance /\ response[x] = "none" /\ response[y] = "none"
  BY <1>1 DEF TypeInv, HandlersHoldStates
<1>3. receiver[x] # NoInstance
  BY <1>2, ChartAssumption DEF ChartAssumption
<1>4. Peers(x[1], receiver[x]) /\ Peers(y[1], receiver[x])
  BY <1>1, <1>3 DEF PeersTalk
<1>5. Peers(receiver[x], x[1]) /\ Peers(receiver[x], y[1])
  BY <1>4 DEF Peers
<1>6. x[1] = y[1]
  BY <1>5, OnePartner
<1>7. x[2] = Len(log[x[1]]) /\ y[2] = Len(log[y[1]])
  BY <1>1, <1>2, RequestIsLast DEF Acknowledged
<1> QED
  BY <1>1, <1>6, <1>7, OneMessage

\* Nor two acknowledgements.
LEMMA OneAcknowledging ==
  ASSUME TurnsContext, NEW x \in Exchange, NEW y \in Exchange,
         response[x] = "acking", response[y] = "acking", x[1] = y[1]
  PROVE  x = y
<1>1. /\ TypeInv /\ OneParticipant /\ RequestsAddressed /\ LeftByAnswer
  BY DEF TurnsContext, TurnsInv, TakesTurns
<1>2. request[x] # "none" /\ request[y] # "none"
  BY <1>1 DEF TypeInv, ResponsesFollowRequests
<1>3. x[2] = Len(log[x[1]]) /\ y[2] = Len(log[y[1]])
  BY <1>1, <1>2, RequestIsLast DEF Acknowledged
<1> QED
  BY <1>1, <1>2, <1>3, OneMessage

\* A client at work is alone: the state it has read waits for nobody else.
LEMMA ClientAlone ==
  ASSUME TurnsContext, NEW c \in Client, client[c] # NoRequest
  PROVE  /\ ~IsExternal(WorkflowOf[client[c].instance], currentState[client[c].instance])
         /\ \A x \in Exchange : WillAppend(x) => receiver[x] # client[c].instance
         /\ \A x \in Exchange : response[x] = "acking" => x[1] # client[c].instance
<1>1. PICK i : i = client[c].instance
  OBVIOUS
<1>2. i \in Instance /\ currentState[i] \in State /\ WorkflowOf[i] \in Workflow
  BY <1>1, ProtocolAssumption DEF TurnsContext, TypeInv, TypeOK, Request, ProtocolAssumption
<1>3. ClientsMayAdvance(WorkflowOf[i], currentState[i])
  BY <1>1 DEF TurnsContext, TurnsInv, ClientsAreCurrent
<1>4. /\ ~IsExternal(WorkflowOf[i], currentState[i])
      /\ ~MessagesMayAdvance(WorkflowOf[i], currentState[i])
  BY <1>2, <1>3 DEF TurnsContext, TakesTurns, OneSideAdvances
<1>5. ASSUME NEW x \in Exchange, WillAppend(x) PROVE receiver[x] # i
  <2> SUFFICES ASSUME receiver[x] = i PROVE FALSE
    OBVIOUS
  <2>1. ParticipantMayFire(WorkflowOf[i], seen[x], AddressOf(x).event)
    BY <1>5 DEF WillAppend
  <2>2. seen[x] = currentState[i]
    BY <1>5 DEF TurnsContext, TurnsInv, ReceiversAreCurrent
  <2>3. x[3] \in DOMAIN Recipient[WorkflowOf[x[1]]] /\ WorkflowOf[x[1]] \in Workflow
    BY ExchangeType DEF Exchange
  <2> QED
    BY <1>4, <2>1, <2>2, <2>3 DEF MessagesMayAdvance, AddressOf
<1>6. ASSUME NEW x \in Exchange, response[x] = "acking" PROVE x[1] # i
  BY <1>4, <1>6 DEF TurnsContext, TurnsInv, OriginatorsAreCurrent
<1> QED
  BY <1>1, <1>4, <1>5, <1>6

\* A handler that is going to append a received transition is alone.
LEMMA ReceiverAlone ==
  ASSUME TurnsContext, NEW x \in Exchange, WillAppend(x)
  PROVE  /\ \A c \in Client : client[c] # NoRequest => client[c].instance # receiver[x]
         /\ \A y \in Exchange : WillAppend(y) /\ y # x => receiver[y] # receiver[x]
         /\ \A y \in Exchange : response[y] = "acking" => y[1] # receiver[x]
<1>1. \A c \in Client : client[c] # NoRequest => client[c].instance # receiver[x]
  BY ClientAlone
<1>2. \A y \in Exchange : WillAppend(y) /\ y # x => receiver[y] # receiver[x]
  BY OneHandled DEF WillAppend
<1>3. ASSUME NEW y \in Exchange, response[y] = "acking" PROVE y[1] # receiver[x]
  <2>1. /\ seen[x] = currentState[receiver[x]]
        /\ ~IsExternal(WorkflowOf[receiver[x]], seen[x])
    BY DEF TurnsContext, TurnsInv, ReceiversAreCurrent, WillAppend
  <2>2. seen[y] = currentState[y[1]] /\ IsExternal(WorkflowOf[y[1]], seen[y])
    BY <1>3 DEF TurnsContext, TurnsInv, OriginatorsAreCurrent
  <2> QED
    BY <2>1, <2>2
<1> QED
  BY <1>1, <1>2, <1>3

\* And so is one that is going to append an acknowledgement.
LEMMA OriginatorAlone ==
  ASSUME TurnsContext, NEW x \in Exchange, response[x] = "acking"
  PROVE  /\ \A c \in Client : client[c] # NoRequest => client[c].instance # x[1]
         /\ \A y \in Exchange : WillAppend(y) => receiver[y] # x[1]
         /\ \A y \in Exchange : response[y] = "acking" /\ y # x => y[1] # x[1]
BY ClientAlone, ReceiverAlone, OneAcknowledging

-----------------------------------------------------------------------------
(* Parts of the invariant that a step does not touch *)

\* No transition is appended.
LEMMA LogsStand ==
  ASSUME TurnsContext, UNCHANGED <<log, currentState>>,
         \A x \in Exchange : response[x] \in Acknowledged => response'[x] \in Acknowledged
  PROVE  CurrentIsLast' /\ LinearHistory' /\ LeftByAnswer' /\ LaunchingIsPast' /\ LaunchesOnce'
<1>1. CurrentIsLast' /\ LinearHistory'
  BY DEF TurnsContext, TurnsInv, CurrentIsLast, LinearHistory
<1>2. LeftByAnswer'
  BY DEF TurnsContext, TurnsInv, LeftByAnswer
<1>3. LaunchingIsPast' /\ LaunchesOnce'
  BY DEF TurnsContext, TurnsInv, LaunchingIsPast, LaunchesOnce, EntersLaunching
<1> QED
  BY <1>1, <1>2, <1>3

\* No message is sent that was not there.
LEMMA RequestsStand ==
  ASSUME TurnsContext, UNCHANGED log,
         \A x \in Exchange : request[x] = "none" => request'[x] = "none"
  PROVE  RequestsAddressed'
BY DEF TurnsContext, TurnsInv, RequestsAddressed

\* No message is delivered.
LEMMA DeliveriesStand ==
  ASSUME TurnsContext, UNCHANGED receiver,
         \A x \in Exchange : request'[x] \in {"none", "ready", "sent"} =>
           request[x] \in {"none", "ready", "sent"}
  PROVE  DeliveredOnce' /\ LaunchedOnce'
BY DEF TurnsContext, TurnsInv, DeliveredOnce, LaunchedOnce, Launched

\* Clients' requests stay or end.
LEMMA ClientsStand ==
  ASSUME TurnsContext, UNCHANGED <<log, currentState, receiver>>, launched \subseteq launched',
         \A c \in Client : client'[c] \in {client[c], NoRequest}
  PROVE  LaunchedFirst' /\ StepsForward' /\ ClientsAreCurrent' /\ PeersTalk'
<1>1. LaunchedFirst'
  BY DEF TurnsContext, TurnsInv, LaunchedFirst
<1>2. StepsForward' /\ ClientsAreCurrent'
  BY DEF TurnsContext, TurnsInv, StepsForward, ClientsAreCurrent
<1>3. PeersTalk'
  BY DEF TurnsContext, TurnsInv, PeersTalk, Peers, Launched
<1> QED
  BY <1>1, <1>2, <1>3

\* Handlers keep what they hold, or end.
LEMMA HandlersStand ==
  ASSUME TurnsContext, UNCHANGED currentState,
         \A x \in Exchange :
           /\ request'[x] = "handling" =>
                request[x] = "handling" /\ receiver'[x] = receiver[x] /\ seen'[x] = seen[x]
           /\ response'[x] = "acking" => response[x] = "acking" /\ seen'[x] = seen[x]
  PROVE  ReceiversAreCurrent' /\ OriginatorsAreCurrent'
<1>1. ReceiversAreCurrent'
  <2> SUFFICES ASSUME NEW x \in Exchange, WillAppend(x)'
               PROVE  seen'[x] = currentState[receiver'[x]]
    BY DEF ReceiversAreCurrent
  <2>1. WillAppend(x) /\ receiver'[x] = receiver[x] /\ seen'[x] = seen[x]
    BY DEF WillAppend, AddressOf
  <2> QED
    BY <2>1 DEF TurnsContext, TurnsInv, ReceiversAreCurrent
<1>2. OriginatorsAreCurrent'
  BY DEF TurnsContext, TurnsInv, OriginatorsAreCurrent
<1> QED
  BY <1>1, <1>2

\* Steps that append nothing and read nothing.
LEMMA QuietTurn ==
  ASSUME TurnsContext, UNCHANGED <<log, currentState, receiver>>, launched \subseteq launched',
         \A c \in Client : client'[c] \in {client[c], NoRequest},
         \A x \in Exchange :
           /\ request[x] = "none" => request'[x] = "none"
           /\ request'[x] \in {"none", "ready", "sent"} => request[x] \in {"none", "ready", "sent"}
           /\ response[x] \in Acknowledged => response'[x] \in Acknowledged
           /\ request'[x] = "handling" => request[x] = "handling" /\ seen'[x] = seen[x]
           /\ response'[x] = "acking" => response[x] = "acking" /\ seen'[x] = seen[x]
  PROVE  TurnsInv'
BY LogsStand, RequestsStand, DeliveriesStand, ClientsStand, HandlersStand DEF TurnsInv

-----------------------------------------------------------------------------
(* One lemma per kind of step *)

\* Launches, their verdicts and databases.
LEMMA LaunchTurns ==
  ASSUME TurnsContext, NEW i \in Instance,
         \/ ClientLaunch(i)
         \/ OpenExternalEvents(i)
         \/ \E outcome \in RuleOutcome : LaunchVerdict(i, outcome)
  PROVE  TurnsInv'
<1>1. /\ UNCHANGED <<log, currentState, receiver, client, request, response, seen>>
      /\ launched \subseteq launched'
  BY DEF ClientLaunch, Launch, OpenExternalEvents, LaunchVerdict, view
<1> QED
  BY <1>1, QuietTurn

\* Messages on their way, and handlers that decline.
LEMMA MessageTurns ==
  ASSUME TurnsContext, NEW x \in Exchange,
         \/ SendRequest(x) \/ SendRequestFails(x) \/ SendResponse(x) \/ SendResponseFails(x)
         \/ IgnoreRequest(x) \/ RefuseRequest(x)
  PROVE  TurnsInv'
<1>1. UNCHANGED <<log, currentState, receiver, client, launched>>
  BY DEF SendRequest, SendRequestFails, SendResponse, SendResponseFails, IgnoreRequest,
         RefuseRequest, view
<1>2. \A y \in Exchange : y # x =>
        request'[y] = request[y] /\ response'[y] = response[y] /\ seen'[y] = seen[y]
  BY DEF SendRequest, SendRequestFails, SendResponse, SendResponseFails, IgnoreRequest,
         RefuseRequest, TurnsContext, TypeInv, TypeOK
<1>3. CASE SendRequest(x) \/ SendRequestFails(x)
  <2>1. /\ request[x] = "ready" /\ request'[x] \in {"sent", "lost"}
        /\ UNCHANGED <<response, seen>>
    BY <1>3 DEF SendRequest, SendRequestFails, TurnsContext, TypeInv, TypeOK
  <2> QED
    BY <1>1, <1>2, <2>1, QuietTurn
<1>4. CASE SendResponse(x) \/ SendResponseFails(x)
  <2>1. /\ response[x] \in {"acceptReady", "rejectReady"}
        /\ response'[x] \in {"acceptSent", "rejectSent", "acceptLost", "rejectLost"}
        /\ UNCHANGED <<request, seen>>
    BY <1>4 DEF SendResponse, SendResponseFails, TurnsContext, TypeInv, TypeOK
  <2> QED
    BY <1>1, <1>2, <2>1, QuietTurn DEF Acknowledged
<1>5. CASE IgnoreRequest(x) \/ RefuseRequest(x)
  <2>1. /\ request[x] = "handling" /\ request'[x] \in {"ignored", "refused"}
        /\ response'[x] \in {response[x], "rejectReady"}
    BY <1>5 DEF IgnoreRequest, RefuseRequest, TurnsContext, TypeInv, TypeOK
  <2>2. response[x] = "none"
    BY <2>1 DEF TurnsContext, TypeInv, HandlersHoldStates
  <2> QED
    BY <1>1, <1>2, <2>1, <2>2, QuietTurn DEF Acknowledged
<1> QED
  BY <1>3, <1>4, <1>5

\* Decisions recorded by the originator.
LEMMA RecordTurns ==
  ASSUME TurnsContext, NEW x \in Exchange,
         RecordAccepted(x) \/ CompleteAccepted(x) \/ RecordRejected(x) \/ CompleteRejected(x)
  PROVE  TurnsInv'
<1>1. UNCHANGED <<log, currentState, receiver, client, launched, request, seen>>
  BY DEF RecordAccepted, CompleteAccepted, RecordRejected, CompleteRejected
<1>2. \A y \in Exchange : y # x => response'[y] = response[y]
  BY DEF RecordAccepted, CompleteAccepted, RecordRejected, CompleteRejected,
         TurnsContext, TypeInv, TypeOK
<1>3. \/ response[x] = "acked" /\ response'[x] = "recorded"
      \/ response[x] = "recorded" /\ response'[x] = "accepted"
      \/ response[x] \in {"rejectSent", "rejectRecorded"}
           /\ response'[x] \in {"rejectRecorded", "rejected"}
  BY DEF RecordAccepted, CompleteAccepted, RecordRejected, CompleteRejected,
         TurnsContext, TypeInv, TypeOK
<1> QED
  BY <1>1, <1>2, <1>3, QuietTurn DEF Acknowledged

\* The verdict on a received transition.
LEMMA ReceivedVerdictTurns ==
  ASSUME TurnsContext, NEW i \in Instance, NEW n \in 1 .. Len(log[i]), NEW outcome \in RuleOutcome,
         ReceivedTransitionVerdict(i, n, outcome)
  PROVE  TurnsInv'
<1>1. UNCHANGED <<log, currentState, receiver, client, launched, request, seen>>
  BY DEF ReceivedTransitionVerdict
<1>2. PICK x \in Exchange : x = log[i][n].origin /\ response[x] = "none"
  BY UnjudgedIsUnanswered DEF ReceivedTransitionVerdict, TurnsContext, ProtocolInvariant
<1>3. outcome \in {"accepted", "rejected", "unreachable"}
  BY ProtocolAssumption DEF ProtocolAssumption, Outcome
<1>4. \E r \in {"acceptReady", "rejectReady", "rejectLost"} : response' = [response EXCEPT ![x] = r]
  BY <1>2, <1>3 DEF ReceivedTransitionVerdict
<1>5. /\ response'[x] \in {"acceptReady", "rejectReady", "rejectLost"}
      /\ \A y \in Exchange : y # x => response'[y] = response[y]
  BY <1>4 DEF TurnsContext, TypeInv, TypeOK
<1> QED
  BY <1>1, <1>2, <1>5, QuietTurn DEF Acknowledged

\* A crash: handlers and clients' requests end, and deliver and append nothing.
LEMMA CrashTurns ==
  ASSUME TurnsContext, NEW o \in Organization, NEW missed \in SUBSET InTransit(o), Crash(o, missed)
  PROVE  TurnsInv'
<1>1. UNCHANGED <<log, currentState, receiver, launched>>
  BY DEF Crash, view
<1>2. \A c \in Client : client'[c] \in {client[c], NoRequest}
  BY DEF Crash
<1>3. ASSUME NEW x \in Exchange
      PROVE  /\ request[x] = "none" => request'[x] = "none"
             /\ request'[x] \in {"none", "ready", "sent"} => request[x] \in {"none", "ready", "sent"}
             /\ request'[x] = "handling" =>
                  request[x] = "handling" /\ Owner(receiver[x]) # o
  BY DEF Crash, RequestAfterCrash
<1>4. ASSUME NEW x \in Exchange
      PROVE  /\ response[x] \in Acknowledged => response'[x] \in Acknowledged
             /\ response'[x] = "acking" => response[x] = "acking" /\ Owner(x[1]) # o
  BY DEF Crash, ResponseAfterCrash, Acknowledged
<1>5. ASSUME NEW x \in Exchange
      PROVE  /\ request'[x] = "handling" => seen'[x] = seen[x]
             /\ response'[x] = "acking" => seen'[x] = seen[x]
  <2>1. ~(request[x] = "handling" /\ response[x] = "acking")
    BY DEF TurnsContext, TypeInv, HandlersHoldStates
  <2>2. seen'[x] = IF \/ request[x] = "handling" /\ Owner(receiver[x]) = o
                      \/ response[x] = "acking" /\ Owner(x[1]) = o
                   THEN NoState ELSE seen[x]
    BY DEF Crash
  <2> QED
    BY <1>3, <1>4, <2>1, <2>2
<1> QED
  BY <1>1, <1>2, <1>3, <1>4, <1>5, QuietTurn

\* The verdict on a transition of the instance itself: messages are made for those it
\* addresses, and for nobody that it addressed before.
LEMMA LocalVerdictTurns ==
  ASSUME TurnsContext, NEW i \in Instance, NEW n \in 1 .. Len(log[i]), NEW outcome \in RuleOutcome,
         LocalTransitionVerdict(i, n, outcome)
  PROVE  TurnsInv'
<1>1. UNCHANGED <<log, currentState, receiver, client, launched, response, seen>>
  BY DEF LocalTransitionVerdict
<1>2. ASSUME NEW x \in Exchange
      PROVE  \/ request'[x] = request[x]
             \/ /\ request[x] = "none" /\ request'[x] = "ready"
                /\ x[1] = i /\ x[2] = n /\ x[3] \in ExternalTransitions(i, log[i][n])
  <2>1. CASE x[1] = i /\ x[2] = n /\ x[3] \in ExternalTransitions(i, log[i][n])
    <3>1. request[x] = "none"
      BY <2>1 DEF LocalTransitionVerdict, TurnsContext, TypeInv, RequestsFollowVerdicts
    <3>2. request'[x] \in {"ready", request[x]}
      BY DEF LocalTransitionVerdict
    <3> QED
      BY <2>1, <3>1, <3>2
  <2>2. CASE ~(x[1] = i /\ x[2] = n /\ x[3] \in ExternalTransitions(i, log[i][n]))
    BY <2>2 DEF LocalTransitionVerdict
  <2> QED
    BY <2>1, <2>2
<1>3. RequestsAddressed'
  <2> SUFFICES ASSUME NEW x \in Exchange, request'[x] # "none"
               PROVE  x[3] \in ExternalTransitions(x[1], log[x[1]][x[2]])
    BY <1>1 DEF RequestsAddressed
  <2> QED
    BY <1>2 DEF TurnsContext, TurnsInv, RequestsAddressed
<1>4. CurrentIsLast' /\ LinearHistory' /\ LeftByAnswer' /\ LaunchingIsPast' /\ LaunchesOnce'
  BY <1>1, LogsStand
<1>5. DeliveredOnce' /\ LaunchedOnce'
  BY <1>1, <1>2, DeliveriesStand
<1>6. LaunchedFirst' /\ StepsForward' /\ ClientsAreCurrent' /\ PeersTalk'
  BY <1>1, ClientsStand
<1>7. ReceiversAreCurrent' /\ OriginatorsAreCurrent'
  BY <1>1, <1>2, HandlersStand
<1> QED
  BY <1>3, <1>4, <1>5, <1>6, <1>7 DEF TurnsInv

\* An instance remembers its peer, if anybody.
LEMMA CurrentPartner ==
  ASSUME TurnsContext, NEW i \in Instance, currentState[i].partner # NoInstance
  PROVE  Peers(i, currentState[i].partner)
<1>1. currentState[i] = IF log[i] = <<>> THEN InitialState(WorkflowOf[i]) ELSE log[i][Len(log[i])].to
  BY DEF TurnsContext, TurnsInv, CurrentIsLast
<1>2. InitialState(WorkflowOf[i]).partner = NoInstance
  BY InitialPartner, ProtocolAssumption DEF ProtocolAssumption, TurnsContext, TakesTurns
<1>3. log[i] # <<>>
  BY <1>1, <1>2
<1>4. Len(log[i]) \in 1 .. Len(log[i])
  BY <1>3 DEF TurnsContext, TypeInv, TypeOK
<1> QED
  BY <1>1, <1>3, <1>4 DEF TurnsContext, TurnsInv, PeersTalk

\* A client reads the current state, and computes a step forward.
LEMMA ClientReadTurns ==
  ASSUME TurnsContext, NEW c \in Client, NEW i \in Instance, NEW e \in Event, ClientRead(c, i, e)
  PROVE  TurnsInv'
<1>1. UNCHANGED <<log, currentState, receiver, launched, request, response, seen>>
  BY DEF ClientRead, view
<1>2. /\ i \in launched /\ ClientsMayAdvance(WorkflowOf[i], currentState[i])
      /\ client'[c] = [instance |-> i, from |-> currentState[i],
                       to |-> Fire(WorkflowOf[i], currentState[i], e, NoInstance)]
      /\ \A d \in Client : d # c => client'[d] = client[d]
  BY DEF ClientRead, ClientsMayAdvance, TurnsContext, TypeInv, TypeOK
<1>3. PICK t : t = Fire(WorkflowOf[i], currentState[i], e, NoInstance)
  OBVIOUS
<1>4. WorkflowOf[i] \in Workflow /\ currentState[i] \in State
  BY ProtocolAssumption DEF ProtocolAssumption, TurnsContext, TypeInv, TypeOK
<1>5. Forward(WorkflowOf[i], currentState[i], t) /\ t.partner \in {currentState[i].partner, NoInstance}
  BY <1>3, <1>4, FireForward DEF TurnsContext, TakesTurns
<1>6. t.partner # NoInstance => Peers(i, t.partner)
  BY <1>5, CurrentPartner
<1>7. client'[c] = [instance |-> i, from |-> currentState[i], to |-> t]
  BY <1>2, <1>3
<1>8. LaunchedFirst'
  BY <1>1, <1>2 DEF TurnsContext, TurnsInv, LaunchedFirst
<1>9. StepsForward'
  BY <1>1, <1>2, <1>5, <1>7 DEF TurnsContext, TurnsInv, StepsForward
<1>10. ClientsAreCurrent'
  BY <1>1, <1>2, <1>7 DEF TurnsContext, TurnsInv, ClientsAreCurrent
<1>11. PeersTalk'
  <2>1. \A j, k : Peers(j, k) => Peers(j, k)'
    BY <1>1 DEF Peers, Launched
  <2>2. \A d \in Client : client'[d] # NoRequest /\ client'[d].to.partner # NoInstance =>
          Peers(client'[d].instance, client'[d].to.partner)
    BY <1>2, <1>6, <1>7 DEF TurnsContext, TurnsInv, PeersTalk
  <2> QED
    BY <1>1, <2>1, <2>2 DEF TurnsContext, TurnsInv, PeersTalk
<1>12. CurrentIsLast' /\ LinearHistory' /\ LeftByAnswer' /\ LaunchingIsPast' /\ LaunchesOnce'
  BY <1>1, LogsStand
<1>13. DeliveredOnce' /\ LaunchedOnce' /\ RequestsAddressed'
  BY <1>1, DeliveriesStand, RequestsStand
<1>14. ReceiversAreCurrent' /\ OriginatorsAreCurrent'
  BY <1>1, HandlersStand
<1> QED
  BY <1>8, <1>9, <1>10, <1>11, <1>12, <1>13, <1>14 DEF TurnsInv

\* An acceptance arrives: its handler reads the current state.
LEMMA ReadAcknowledgedTurns ==
  ASSUME TurnsContext, NEW x \in Exchange, ReadAcknowledged(x)
  PROVE  TurnsInv'
<1>1. UNCHANGED <<log, currentState, receiver, launched, client, request>>
  BY DEF ReadAcknowledged, view
<1>2. /\ response[x] = "acceptSent"
      /\ \A y \in Exchange : y # x => response'[y] = response[y] /\ seen'[y] = seen[y]
  BY DEF ReadAcknowledged, TurnsContext, TypeInv, TypeOK
<1>3. \/ response'[x] = "acceptLost"
      \/ /\ response'[x] = "acking" /\ seen'[x] = currentState[x[1]]
         /\ IsExternal(WorkflowOf[x[1]], currentState[x[1]])
  BY DEF ReadAcknowledged, TurnsContext, TypeInv, TypeOK
<1>4. request[x] # "handling"
  BY <1>2 DEF TurnsContext, TypeInv, HandlersHoldStates
<1>5. CurrentIsLast' /\ LinearHistory' /\ LeftByAnswer' /\ LaunchingIsPast' /\ LaunchesOnce'
  BY <1>1, <1>2, LogsStand DEF Acknowledged
<1>6. DeliveredOnce' /\ LaunchedOnce' /\ RequestsAddressed'
  BY <1>1, DeliveriesStand, RequestsStand
<1>7. LaunchedFirst' /\ StepsForward' /\ ClientsAreCurrent' /\ PeersTalk'
  BY <1>1, ClientsStand
<1>8. ReceiversAreCurrent'
  <2> SUFFICES ASSUME NEW y \in Exchange, WillAppend(y)'
               PROVE  seen'[y] = currentState[receiver[y]]
    BY <1>1 DEF ReceiversAreCurrent
  <2>1. y # x
    BY <1>1, <1>4 DEF WillAppend
  <2>2. WillAppend(y)
    BY <1>1, <1>2, <2>1 DEF WillAppend, AddressOf
  <2> QED
    BY <1>2, <2>1, <2>2 DEF TurnsContext, TurnsInv, ReceiversAreCurrent
<1>9. OriginatorsAreCurrent'
  BY <1>1, <1>2, <1>3 DEF TurnsContext, TurnsInv, OriginatorsAreCurrent
<1> QED
  BY <1>5, <1>6, <1>7, <1>8, <1>9 DEF TurnsInv

\* A message is delivered: to an instance that is there, or to one that is launched.
LEMMA DeliverTurns ==
  ASSUME TurnsContext, NEW x \in Exchange, NEW i \in Instance, request[x] = "sent",
         request' = [request EXCEPT ![x] = "handling"],
         receiver' = [receiver EXCEPT ![x] = i],
         seen' = [seen EXCEPT ![x] = currentState[i]],
         UNCHANGED <<log, currentState, client, response>>,
         launched \subseteq launched', i \in launched',
         AddressOf(x).launches => WorkflowOf[i] = AddressOf(x).workflow /\ i \notin launched,
         ~AddressOf(x).launches => Peers(x[1], i)
  PROVE  TurnsInv'
<1>1. /\ request'[x] = "handling" /\ receiver'[x] = i /\ seen'[x] = currentState[i]
      /\ \A y \in Exchange : y # x =>
           request'[y] = request[y] /\ receiver'[y] = receiver[y] /\ seen'[y] = seen[y]
  BY DEF TurnsContext, TypeInv, TypeOK
<1>2. receiver[x] = NoInstance /\ i # NoInstance
  BY ChartAssumption DEF ChartAssumption, TurnsContext, TurnsInv, DeliveredOnce
<1>3. response[x] = "none"
  BY DEF TurnsContext, TypeInv, ResponsesFollowRequests
<1>4. LaunchedFirst'
  BY <1>1 DEF TurnsContext, TurnsInv, LaunchedFirst
<1>5. DeliveredOnce'
  BY <1>1 DEF TurnsContext, TurnsInv, DeliveredOnce
<1>6. \A y \in Exchange : Launched(y)' => IF y = x THEN i \notin launched
                                          ELSE Launched(y) /\ receiver[y] \in launched
  BY <1>1 DEF Launched, TurnsContext, TurnsInv, LaunchedFirst, AddressOf
<1>7. LaunchedOnce'
  <2> SUFFICES ASSUME NEW y \in Exchange, Launched(y)'
               PROVE  /\ WorkflowOf[receiver'[y]] = AddressOf(y).workflow
                      /\ \A z \in Exchange : Launched(z)' /\ receiver'[z] = receiver'[y] => z = y
    BY DEF LaunchedOnce, AddressOf
  <2>1. CASE y = x
    <3>1. AddressOf(x).launches
      BY <2>1 DEF Launched, AddressOf
    <3> QED
      BY <1>1, <1>6, <2>1, <3>1
  <2>2. CASE y # x
    <3>1. Launched(y) /\ receiver'[y] = receiver[y] /\ receiver[y] \in launched
      BY <1>1, <1>6, <2>2
    <3>2. ASSUME NEW z \in Exchange, Launched(z)', receiver'[z] = receiver'[y] PROVE z = y
      BY <1>1, <1>6, <3>1, <3>2 DEF TurnsContext, TurnsInv, LaunchedOnce
    <3> QED
      BY <3>1, <3>2 DEF TurnsContext, TurnsInv, LaunchedOnce
  <2> QED
    BY <2>1, <2>2
<1>8. \A j, k : Peers(j, k) => Peers(j, k)'
  <2>1. \A y \in Exchange : Launched(y) => Launched(y)' /\ receiver'[y] = receiver[y]
    BY <1>1, <1>2 DEF Launched, AddressOf
  <2> QED
    BY <2>1 DEF Peers
<1>9. Peers(x[1], i)'
  <2>1. CASE AddressOf(x).launches
    <3>1. Launched(x)'
      BY <1>1, <1>2, <2>1 DEF Launched, AddressOf
    <3> QED
      BY <1>1, <3>1 DEF Peers
  <2>2. CASE ~AddressOf(x).launches
    BY <1>8, <2>2
  <2> QED
    BY <2>1, <2>2
<1>10. PeersTalk'
  <2>1. ASSUME NEW y \in Exchange, receiver'[y] # NoInstance
        PROVE  Peers(y[1], receiver[y])'
    <3>1. PICK k : k = receiver'[y]
      OBVIOUS
    <3>2. CASE y = x
      BY <1>1, <1>9, <3>2 DEF Peers
    <3>3. CASE y # x
      <4>1. Peers(y[1], k)
        BY <1>1, <2>1, <3>1, <3>3 DEF TurnsContext, TurnsInv, PeersTalk
      <4>2. Peers(y[1], k)'
        BY <1>8, <4>1
      <4> QED
        BY <3>1, <4>2 DEF Peers
    <3> QED
      BY <3>2, <3>3
  <2>2. ASSUME NEW j \in Instance, NEW n \in 1 .. Len(log[j]), log[j][n].to.partner # NoInstance
        PROVE  Peers(j, log[j][n].to.partner)'
    <3>1. PICK k : k = log[j][n].to.partner
      OBVIOUS
    <3>2. Peers(j, k)'
      BY <1>8, <2>2, <3>1 DEF TurnsContext, TurnsInv, PeersTalk
    <3> QED
      BY <3>1, <3>2 DEF Peers
  <2>3. ASSUME NEW c \in Client, client[c] # NoRequest, client[c].to.partner # NoInstance
        PROVE  Peers(client[c].instance, client[c].to.partner)'
    <3>1. PICK j, k : j = client[c].instance /\ k = client[c].to.partner
      OBVIOUS
    <3>2. Peers(j, k)'
      BY <1>8, <2>3, <3>1 DEF TurnsContext, TurnsInv, PeersTalk
    <3> QED
      BY <3>1, <3>2 DEF Peers
  <2> QED
    BY <2>1, <2>2, <2>3 DEF PeersTalk
<1>11. CurrentIsLast' /\ LinearHistory' /\ LeftByAnswer' /\ LaunchingIsPast' /\ LaunchesOnce'
  BY LogsStand
<1>12. RequestsAddressed'
  BY <1>1, RequestsStand
<1>13. StepsForward' /\ ClientsAreCurrent'
  BY DEF TurnsContext, TurnsInv, StepsForward, ClientsAreCurrent
<1>14. ReceiversAreCurrent'
  <2> SUFFICES ASSUME NEW y \in Exchange, WillAppend(y)'
               PROVE  seen'[y] = currentState[receiver'[y]]
    BY DEF ReceiversAreCurrent
  <2>1. CASE y # x
    <3>1. WillAppend(y)
      BY <1>1, <2>1 DEF WillAppend, AddressOf
    <3> QED
      BY <1>1, <2>1, <3>1 DEF TurnsContext, TurnsInv, ReceiversAreCurrent
  <2> QED
    BY <1>1, <2>1
<1>15. OriginatorsAreCurrent'
  BY <1>1, <1>3 DEF TurnsContext, TurnsInv, OriginatorsAreCurrent
<1> QED
  BY <1>4, <1>5, <1>7, <1>10, <1>11, <1>12, <1>13, <1>14, <1>15 DEF TurnsInv

\* Whoever an instance may be told to write to has been launched.
LEMMA PeersAreLaunched ==
  ASSUME TurnsContext, NEW i, NEW j \in Instance, Peers(i, j)
  PROVE  j \in launched
<1>1. PICK x \in Exchange : Launched(x) /\ (receiver[x] = j \/ x[1] = j)
  BY DEF Peers
<1>2. CASE receiver[x] = j
  BY <1>1, <1>2, ChartAssumption DEF ChartAssumption, TurnsContext, TurnsInv, LaunchedFirst
<1>3. CASE x[1] = j
  <2>1. request[x] # "none"
    BY <1>1 DEF Launched, TurnsContext, TurnsInv, DeliveredOnce
  <2>2. x[2] \in 1 .. Len(log[j])
    BY <1>3, <2>1 DEF TurnsContext, TypeInv, RequestsFollowVerdicts
  <2>3. x[2] \in Nat /\ Len(<<>>) = 0
    BY ExchangeType DEF Slot
  <2>4. log[j] # <<>>
    BY <2>2, <2>3
  <2> QED
    BY <2>4 DEF TurnsContext, TurnsInv, LaunchedFirst
<1> QED
  BY <1>1, <1>2, <1>3

\* A message to an instance: it is the sender's peer.
LEMMA DeliverToInstanceTurns ==
  ASSUME TurnsContext, NEW x \in Exchange, NEW i \in Instance, DeliverToInstance(x, i)
  PROVE  TurnsInv'
<1>1. request[x] = "sent" /\ ~AddressOf(x).launches /\ i = log[x[1]][x[2]].to.partner
  BY DEF DeliverToInstance, Addressee
<1>2. x[1] \in Instance /\ x[2] \in 1 .. Len(log[x[1]]) /\ i # NoInstance
  BY <1>1, ExchangeType, ChartAssumption
     DEF ChartAssumption, TurnsContext, TypeInv, RequestsFollowVerdicts
<1>3. Peers(x[1], i)
  BY <1>1, <1>2 DEF TurnsContext, TurnsInv, PeersTalk
<1>4. i \in launched
  BY <1>3, PeersAreLaunched
<1>5. /\ request' = [request EXCEPT ![x] = "handling"]
      /\ receiver' = [receiver EXCEPT ![x] = i]
      /\ seen' = [seen EXCEPT ![x] = currentState[i]]
      /\ UNCHANGED <<log, currentState, client, response, launched>>
  BY DEF DeliverToInstance, view
<1> QED
  BY <1>1, <1>3, <1>4, <1>5, DeliverTurns, Zenon

\* A message that launches an instance: nobody has advanced it yet.
LEMMA DeliverToWorkflowTurns ==
  ASSUME TurnsContext, NEW x \in Exchange, NEW i \in Instance, DeliverToWorkflow(x, i)
  PROVE  TurnsInv'
<1>1. /\ request[x] = "sent" /\ AddressOf(x).launches /\ WorkflowOf[i] = AddressOf(x).workflow
      /\ i \notin launched /\ launched' = launched \union {i}
  BY DEF DeliverToWorkflow, Launch
<1>2. currentState[i] = InitialState(WorkflowOf[i])
  BY <1>1 DEF TurnsContext, TurnsInv, CurrentIsLast, LaunchedFirst
<1>3. /\ request' = [request EXCEPT ![x] = "handling"]
      /\ receiver' = [receiver EXCEPT ![x] = i]
      /\ seen' = [seen EXCEPT ![x] = currentState[i]]
      /\ UNCHANGED <<log, currentState, client, response>>
  BY <1>2 DEF DeliverToWorkflow, view
<1> QED
  BY <1>1, <1>3, DeliverTurns

\* What a transition adds to a log that was linear and ended in the current state.
LEMMA AppendLogs ==
  ASSUME TurnsContext, NEW i \in Instance, NEW from \in State, NEW to \in State, NEW origin,
         AppendTransition(i, from, to, origin), from = currentState[i],
         Forward(WorkflowOf[i], from, to),
         \A x \in Exchange : response[x] \in Acknowledged => response'[x] \in Acknowledged,
         IsExternal(WorkflowOf[i], from) =>
           \E x \in Exchange : x[1] = i /\ x[2] = Len(log[i]) /\ response'[x] \in Acknowledged
  PROVE  CurrentIsLast' /\ LinearHistory' /\ LeftByAnswer' /\ LaunchingIsPast' /\ LaunchesOnce'
<1>1. PICK m : m = Len(log[i])
  OBVIOUS
<1>2. /\ Len(log'[i]) = m + 1
      /\ log'[i][m + 1] = [from |-> from, to |-> to, origin |-> origin]
      /\ \A j \in Instance : j # i => log'[j] = log[j]
      /\ \A n \in 1 .. m : log'[i][n] = log[i][n]
  BY <1>1, AppendGrows DEF TurnsContext, TypeInv
<1>3. /\ m \in Nat /\ (log[i] = <<>> <=> m = 0)
      /\ \A j \in Instance : Len(log[j]) \in Nat
  BY <1>1 DEF TurnsContext, TypeInv, TypeOK
<1>4. /\ currentState'[i] = to
      /\ \A j \in Instance : j # i => currentState'[j] = currentState[j]
  BY DEF AppendTransition, TurnsContext, TypeInv, TypeOK
<1>5. currentState[i] = IF m = 0 THEN InitialState(WorkflowOf[i]) ELSE log[i][m].to
  BY <1>1, <1>3 DEF TurnsContext, TurnsInv, CurrentIsLast
<1>6. CurrentIsLast'
  <2> SUFFICES ASSUME NEW j \in Instance
               PROVE  currentState'[j] = IF log'[j] = <<>> THEN InitialState(WorkflowOf[j])
                                         ELSE log'[j][Len(log'[j])].to
    BY DEF CurrentIsLast
  <2>1. CASE j = i
    <3>1. log'[i] # <<>>
      BY <1>2, <1>3
    <3> QED
      BY <1>2, <1>4, <2>1, <3>1
  <2>2. CASE j # i
    BY <1>2, <1>4, <2>2 DEF TurnsContext, TurnsInv, CurrentIsLast
  <2> QED
    BY <2>1, <2>2
<1>7. LinearHistory'
  <2> SUFFICES ASSUME NEW j \in Instance, NEW n \in 1 .. Len(log'[j])
               PROVE  log'[j][n].from =
                        IF n = 1 THEN InitialState(WorkflowOf[j]) ELSE log'[j][n - 1].to
    BY DEF LinearHistory
  <2>1. CASE j = i /\ n = m + 1
    <3>1. log'[i][n].from = currentState[i]
      BY <1>2, <2>1
    <3>2. n # 1 => log'[i][n - 1] = log[i][m]
      BY <1>2, <1>3, <2>1
    <3> QED
      BY <1>3, <1>5, <2>1, <3>1, <3>2
  <2>2. CASE ~(j = i /\ n = m + 1)
    <3>1. n \in 1 .. Len(log[j]) /\ log'[j][n] = log[j][n]
      BY <1>1, <1>2, <1>3, <2>2
    <3>2. CASE j = i
      <4>1. n # 1 => n - 1 \in 1 .. m /\ log'[i][n - 1] = log[i][n - 1]
        BY <1>1, <1>2, <1>3, <3>1, <3>2
      <4> QED
        BY <1>1, <3>1, <3>2, <4>1 DEF TurnsContext, TurnsInv, LinearHistory
    <3>3. CASE j # i
      BY <1>2, <3>1, <3>3 DEF TurnsContext, TurnsInv, LinearHistory
    <3> QED
      BY <3>2, <3>3
  <2> QED
    BY <2>1, <2>2
<1>8. LeftByAnswer'
  <2> SUFFICES ASSUME NEW j \in Instance, NEW n \in 1 .. Len(log'[j]), n # Len(log'[j]),
                      IsExternal(WorkflowOf[j], log'[j][n].to)
               PROVE  \E x \in Exchange : x[1] = j /\ x[2] = n /\ response'[x] \in Acknowledged
    BY DEF LeftByAnswer
  <2>1. n \in 1 .. Len(log[j]) /\ log'[j][n] = log[j][n]
    BY <1>1, <1>2, <1>3
  <2>2. CASE j = i /\ n = m
    <3>1. IsExternal(WorkflowOf[i], from)
      BY <1>1, <1>3, <1>5, <2>1, <2>2
    <3> QED
      BY <1>1, <2>2, <3>1
  <2>3. CASE ~(j = i /\ n = m)
    <3>1. n # Len(log[j])
      BY <1>1, <1>2, <2>3
    <3>2. \E x \in Exchange : x[1] = j /\ x[2] = n /\ response[x] \in Acknowledged
      BY <2>1, <3>1 DEF TurnsContext, TurnsInv, LeftByAnswer
    <3> QED
      BY <3>2
  <2> QED
    BY <2>2, <2>3
<1>9. \A n \in 1 .. m : log[i][n].to.activity \in SinceLaunching[WorkflowOf[i]] =>
        from.activity \in SinceLaunching[WorkflowOf[i]]
  BY <1>1 DEF TurnsContext, TurnsInv, LaunchingIsPast
<1>10. LaunchingIsPast'
  <2> SUFFICES ASSUME NEW j \in Instance, NEW n \in 1 .. Len(log'[j]),
                      log'[j][n].to.activity \in SinceLaunching[WorkflowOf[j]]
               PROVE  currentState'[j].activity \in SinceLaunching[WorkflowOf[j]]
    BY DEF LaunchingIsPast
  <2>1. CASE j = i /\ n = m + 1
    BY <1>2, <1>4, <2>1
  <2>2. CASE j = i /\ n # m + 1
    <3>1. n \in 1 .. m /\ log'[i][n] = log[i][n]
      BY <1>2, <1>3, <2>2
    <3>2. from.activity \in SinceLaunching[WorkflowOf[i]]
      BY <1>9, <2>2, <3>1
    <3> QED
      BY <1>4, <2>2, <3>2 DEF Forward
  <2>3. CASE j # i
    BY <1>2, <1>4, <2>3 DEF TurnsContext, TurnsInv, LaunchingIsPast
  <2> QED
    BY <2>1, <2>2, <2>3
<1>11. LaunchesOnce'
  <2>1. WorkflowOf[i] \in Workflow
    BY ProtocolAssumption DEF ProtocolAssumption
  <2>2. ASSUME NEW n \in 1 .. m, EntersLaunching(i, n), EntersLaunching(i, m + 1)'
        PROVE  FALSE
    <3>1. log[i][n].to.activity \in SinceLaunching[WorkflowOf[i]]
      BY <2>1, <2>2, SinceLaunchingClosed DEF EntersLaunching
    <3>2. from.activity \in SinceLaunching[WorkflowOf[i]]
      BY <1>9, <3>1
    <3>3. to.activity \in Launching[WorkflowOf[i]] /\ from.activity # to.activity
      BY <1>2, <2>2 DEF EntersLaunching
    <3> QED
      BY <3>2, <3>3 DEF Forward
  <2>3. \A j \in Instance : \A n \in 1 .. Len(log'[j]) :
          \/ j = i /\ n = m + 1
          \/ n \in 1 .. Len(log[j]) /\ (EntersLaunching(j, n)' => EntersLaunching(j, n))
    BY <1>1, <1>2, <1>3 DEF EntersLaunching
  <2> SUFFICES ASSUME NEW j \in Instance, NEW n \in 1 .. Len(log'[j]), NEW k \in 1 .. Len(log'[j]),
                      EntersLaunching(j, n)', EntersLaunching(j, k)'
               PROVE  n = k
    BY DEF LaunchesOnce
  <2>4. CASE j = i /\ n = m + 1
    BY <1>1, <2>2, <2>3, <2>4
  <2>5. CASE j = i /\ k = m + 1
    BY <1>1, <2>2, <2>3, <2>5
  <2>6. CASE ~(j = i /\ n = m + 1) /\ ~(j = i /\ k = m + 1)
    BY <2>3, <2>6 DEF TurnsContext, TurnsInv, LaunchesOnce
  <2> QED
    BY <2>4, <2>5, <2>6
<1> QED
  BY <1>6, <1>7, <1>8, <1>10, <1>11

\* A transition is appended by the one that was about to.
LEMMA AppendTurns ==
  ASSUME TurnsContext, NEW i \in Instance, NEW from \in State, NEW to \in State, NEW origin,
         AppendTransition(i, from, to, origin), from = currentState[i], i \in launched,
         Forward(WorkflowOf[i], from, to),
         to.partner # NoInstance => Peers(i, to.partner),
         UNCHANGED <<launched, receiver>>,
         \A c \in Client : client'[c] # NoRequest =>
           client'[c] = client[c] /\ client[c].instance # i,
         \A x \in Exchange :
           /\ request[x] = "none" => request'[x] = "none"
           /\ request'[x] \in {"none", "ready", "sent"} => request[x] \in {"none", "ready", "sent"}
           /\ response[x] \in Acknowledged => response'[x] \in Acknowledged
           /\ request'[x] = "handling" =>
                /\ request[x] = "handling" /\ seen'[x] = seen[x]
                /\ WillAppend(x) => receiver[x] # i
           /\ response'[x] = "acking" =>
                response[x] = "acking" /\ seen'[x] = seen[x] /\ x[1] # i,
         IsExternal(WorkflowOf[i], from) =>
           \E x \in Exchange : x[1] = i /\ x[2] = Len(log[i]) /\ response'[x] \in Acknowledged
  PROVE  TurnsInv'
<1>1. CurrentIsLast' /\ LinearHistory' /\ LeftByAnswer' /\ LaunchingIsPast' /\ LaunchesOnce'
  BY AppendLogs
<1>2. PICK m : m = Len(log[i])
  OBVIOUS
<1>3. /\ Len(log'[i]) = m + 1
      /\ log'[i][m + 1] = [from |-> from, to |-> to, origin |-> origin]
      /\ \A j \in Instance : j # i => log'[j] = log[j]
      /\ \A n \in 1 .. m : log'[i][n] = log[i][n]
  BY <1>2, AppendGrows DEF TurnsContext, TypeInv
<1>4. \A j \in Instance : Len(log[j]) \in Nat
  BY DEF TurnsContext, TypeInv, TypeOK
<1>5. \A j \in Instance : \A n \in 1 .. Len(log'[j]) :
        \/ j = i /\ n = m + 1
        \/ n \in 1 .. Len(log[j]) /\ log'[j][n] = log[j][n]
  BY <1>2, <1>3, <1>4
<1>6. \A j \in Instance : j # i => currentState'[j] = currentState[j]
  BY DEF AppendTransition, TurnsContext, TypeInv, TypeOK
<1>7. LaunchedFirst'
  BY <1>3 DEF TurnsContext, TurnsInv, LaunchedFirst
<1>8. DeliveredOnce' /\ LaunchedOnce'
  BY DeliveriesStand
<1>9. RequestsAddressed'
  <2> SUFFICES ASSUME NEW x \in Exchange, request'[x] # "none"
               PROVE  x[3] \in ExternalTransitions(x[1], log'[x[1]][x[2]])
    BY DEF RequestsAddressed
  <2>1. /\ x[2] \in 1 .. Len(log[x[1]])
        /\ x[3] \in ExternalTransitions(x[1], log[x[1]][x[2]])
    BY DEF TurnsContext, TurnsInv, RequestsAddressed, TypeInv, RequestsFollowVerdicts
  <2>2. log'[x[1]][x[2]] = log[x[1]][x[2]]
    BY <1>2, <1>3, <2>1, ExchangeType
  <2> QED
    BY <2>1, <2>2
<1>10. StepsForward'
  <2>1. ASSUME NEW j \in Instance, NEW n \in 1 .. Len(log'[j])
        PROVE  Forward(WorkflowOf[j], log'[j][n].from, log'[j][n].to)
    <3>1. CASE j = i /\ n = m + 1
      BY <1>3, <3>1
    <3>2. CASE ~(j = i /\ n = m + 1)
      BY <1>5, <3>2 DEF TurnsContext, TurnsInv, StepsForward
    <3> QED
      BY <3>1, <3>2
  <2>2. \A c \in Client : client'[c] # NoRequest =>
          Forward(WorkflowOf[client'[c].instance], client'[c].from, client'[c].to)
    BY DEF TurnsContext, TurnsInv, StepsForward
  <2> QED
    BY <2>1, <2>2 DEF StepsForward
<1>11. ClientsAreCurrent'
  <2> SUFFICES ASSUME NEW c \in Client, client'[c] # NoRequest
               PROVE  /\ client'[c].from = currentState'[client'[c].instance]
                      /\ ClientsMayAdvance(WorkflowOf[client'[c].instance], client'[c].from)
    BY DEF ClientsAreCurrent
  <2>1. client'[c] = client[c] /\ client[c] # NoRequest /\ client[c].instance # i
    OBVIOUS
  <2>2. client[c].instance \in Instance
    BY <2>1 DEF TurnsContext, TypeInv, TypeOK, Request
  <2> QED
    BY <1>6, <2>1, <2>2 DEF TurnsContext, TurnsInv, ClientsAreCurrent
<1>12. ReceiversAreCurrent'
  <2> SUFFICES ASSUME NEW x \in Exchange, WillAppend(x)'
               PROVE  seen'[x] = currentState'[receiver[x]]
    BY DEF ReceiversAreCurrent
  <2>1. WillAppend(x) /\ seen'[x] = seen[x] /\ receiver[x] # i
    BY DEF WillAppend, AddressOf
  <2>2. receiver[x] \in Instance
    BY <2>1 DEF WillAppend, TurnsContext, TypeInv, HandlersHoldStates
  <2> QED
    BY <1>6, <2>1, <2>2 DEF TurnsContext, TurnsInv, ReceiversAreCurrent
<1>13. OriginatorsAreCurrent'
  <2> SUFFICES ASSUME NEW x \in Exchange, response'[x] = "acking"
               PROVE  /\ seen'[x] = currentState'[x[1]]
                      /\ IsExternal(WorkflowOf[x[1]], seen'[x])
    BY DEF OriginatorsAreCurrent
  <2> QED
    BY <1>6, ExchangeType DEF TurnsContext, TurnsInv, OriginatorsAreCurrent
<1>14. PeersTalk'
  <2>1. \A j, k : Peers(j, k) => Peers(j, k)'
    BY DEF Peers, Launched, AddressOf
  <2>2. ASSUME NEW x \in Exchange, receiver[x] # NoInstance
        PROVE  Peers(x[1], receiver[x])'
    BY <2>2 DEF TurnsContext, TurnsInv, PeersTalk, Peers, Launched, AddressOf
  <2>3. ASSUME NEW j \in Instance, NEW n \in 1 .. Len(log'[j]), log'[j][n].to.partner # NoInstance
        PROVE  Peers(j, log[j][n].to.partner)'
    <3>1. PICK k : k = log'[j][n].to.partner
      OBVIOUS
    <3>2. CASE j = i /\ n = m + 1
      <4>1. k = to.partner /\ Peers(i, k)
        BY <1>3, <2>3, <3>1, <3>2
      <4> QED
        BY <2>1, <3>1, <3>2, <4>1 DEF Peers
    <3>3. CASE ~(j = i /\ n = m + 1)
      <4>1. Peers(j, k)
        BY <1>5, <2>3, <3>1, <3>3 DEF TurnsContext, TurnsInv, PeersTalk
      <4>2. Peers(j, k)'
        BY <2>1, <4>1
      <4> QED
        BY <3>1, <4>2 DEF Peers
    <3> QED
      BY <3>2, <3>3
  <2>4. ASSUME NEW c \in Client, client'[c] # NoRequest, client'[c].to.partner # NoInstance
        PROVE  Peers(client[c].instance, client[c].to.partner)'
    <3>1. PICK j, k : j = client'[c].instance /\ k = client'[c].to.partner
      OBVIOUS
    <3>2. Peers(j, k)
      BY <2>4, <3>1 DEF TurnsContext, TurnsInv, PeersTalk
    <3>3. Peers(j, k)'
      BY <2>1, <3>2
    <3> QED
      BY <3>1, <3>3 DEF Peers
  <2> QED
    BY <2>2, <2>3, <2>4 DEF PeersTalk
<1> QED
  BY <1>1, <1>7, <1>8, <1>9, <1>10, <1>11, <1>12, <1>13, <1>14 DEF TurnsInv

\* A client appends.
LEMMA ClientAppendTurns ==
  ASSUME TurnsContext, NEW c \in Client, ClientAppend(c)
  PROVE  TurnsInv'
<1>1. PICK i, from, to : i = client[c].instance /\ from = client[c].from /\ to = client[c].to
  OBVIOUS
<1>2. /\ client[c] # NoRequest
      /\ AppendTransition(i, from, to, NoExchange)
      /\ client'[c] = NoRequest
      /\ UNCHANGED <<launched, receiver, request, response, seen>>
  BY <1>1 DEF ClientAppend, TurnsContext, TypeInv, TypeOK
<1>3. i \in Instance /\ from \in State /\ to \in State
  BY <1>1, <1>2 DEF TurnsContext, TypeInv, TypeOK, Request
<1>4. /\ from = currentState[i] /\ i \in launched
      /\ Forward(WorkflowOf[i], from, to)
      /\ to.partner # NoInstance => Peers(i, to.partner)
  BY <1>1, <1>2 DEF TurnsContext, TurnsInv, ClientsAreCurrent, LaunchedFirst, StepsForward, PeersTalk
<1>5. /\ ~IsExternal(WorkflowOf[i], from)
      /\ \A x \in Exchange : WillAppend(x) => receiver[x] # i
      /\ \A x \in Exchange : response[x] = "acking" => x[1] # i
  BY <1>1, <1>2, <1>4, ClientAlone
<1>6. \A d \in Client : client'[d] = NoRequest
  BY <1>2 DEF TurnsContext, TakesTurns, OneClient
<1> QED
  BY <1>2, <1>3, <1>4, <1>5, <1>6, AppendTurns

\* The handler of a message appends.
LEMMA AppendReceivedTurns ==
  ASSUME TurnsContext, NEW x \in Exchange, AppendReceived(x)
  PROVE  TurnsInv'
<1>1. PICK i, from, to :
        /\ i = receiver[x] /\ from = seen[x]
        /\ to = Fire(WorkflowOf[i], seen[x], AddressOf(x).event, x[1])
  OBVIOUS
<1>2. /\ request[x] = "handling" /\ WillAppend(x) /\ ~IsExternal(WorkflowOf[i], from)
      /\ AppendTransition(i, from, to, x)
      /\ request'[x] = "appended"
      /\ \A y \in Exchange : y # x => request'[y] = request[y] /\ seen'[y] = seen[y]
      /\ UNCHANGED <<launched, receiver, client, response>>
  BY <1>1 DEF AppendReceived, WillAppend, TurnsContext, TypeInv, TypeOK
<1>3. i \in Instance /\ from \in State /\ response[x] = "none" /\ i # NoInstance
  BY <1>1, <1>2, ChartAssumption
     DEF ChartAssumption, TurnsContext, TypeInv, HandlersHoldStates
<1>4. WorkflowOf[i] \in Workflow /\ x[1] \in Instance
  BY <1>3, ExchangeType, ProtocolAssumption DEF ProtocolAssumption
<1>5. to \in State /\ Forward(WorkflowOf[i], from, to) /\ to.partner \in {from.partner, x[1]}
  BY <1>1, <1>3, <1>4, FireType, FireForward DEF TurnsContext, TakesTurns
<1>6. from = currentState[i] /\ i \in launched
  BY <1>1, <1>2, <1>3 DEF TurnsContext, TurnsInv, ReceiversAreCurrent, LaunchedFirst
<1>7. to.partner # NoInstance => Peers(i, to.partner)
  <2>1. Peers(x[1], i)
    BY <1>1, <1>3 DEF TurnsContext, TurnsInv, PeersTalk
  <2>2. Peers(i, x[1])
    BY <2>1 DEF Peers
  <2> QED
    BY <1>3, <1>5, <1>6, <2>2, CurrentPartner
<1>8. /\ \A c \in Client : client[c] # NoRequest => client[c].instance # i
      /\ \A y \in Exchange : WillAppend(y) /\ y # x => receiver[y] # i
      /\ \A y \in Exchange : response[y] = "acking" => y[1] # i
  BY <1>1, <1>2, ReceiverAlone
<1> QED
  BY <1>2, <1>3, <1>5, <1>6, <1>7, <1>8, AppendTurns

\* The handler of an acceptance appends.
LEMMA AppendAcknowledgedTurns ==
  ASSUME TurnsContext, NEW x \in Exchange, AppendAcknowledged(x)
  PROVE  TurnsInv'
<1>1. PICK i, from, to :
        /\ i = x[1] /\ from = seen[x]
        /\ to = Acknowledge(WorkflowOf[i], seen[x], x[3], receiver[x])
  OBVIOUS
<1>2. /\ response[x] = "acking"
      /\ AppendTransition(i, from, to, NoExchange)
      /\ response'[x] = "acked"
      /\ \A y \in Exchange : y # x => response'[y] = response[y] /\ seen'[y] = seen[y]
      /\ UNCHANGED <<launched, receiver, client, request>>
  BY <1>1 DEF AppendAcknowledged, TurnsContext, TypeInv, TypeOK
<1>3. /\ i \in Instance /\ from \in State /\ WorkflowOf[i] \in Workflow /\ x[3] \in Participant
      /\ receiver[x] \in Instance \union {NoInstance}
  BY <1>1, <1>2, ExchangeType DEF TurnsContext, TypeInv, TypeOK, HandlersHoldStates
<1>4. to \in State /\ Forward(WorkflowOf[i], from, to) /\ to.partner \in {from.partner, receiver[x]}
  BY <1>1, <1>3, AcknowledgeType, AcknowledgeForward DEF TurnsContext, TakesTurns
<1>5. from = currentState[i]
  BY <1>1, <1>2 DEF TurnsContext, TurnsInv, OriginatorsAreCurrent
<1>6. request[x] # "none" /\ request[x] # "handling"
  BY <1>2 DEF TurnsContext, TypeInv, ResponsesFollowRequests
<1>7. x[2] = Len(log[i]) /\ x[2] \in 1 .. Len(log[i])
  BY <1>1, <1>2, <1>6, RequestIsLast
     DEF Acknowledged, TurnsContext, TurnsInv, TakesTurns, TypeInv, RequestsFollowVerdicts
<1>8. i \in launched
  BY <1>3, <1>7 DEF TurnsContext, TurnsInv, LaunchedFirst
<1>9. to.partner # NoInstance => Peers(i, to.partner)
  <2>1. receiver[x] # NoInstance => Peers(i, receiver[x])
    BY <1>1 DEF TurnsContext, TurnsInv, PeersTalk
  <2> QED
    BY <1>3, <1>4, <1>5, <2>1, CurrentPartner
<1>10. /\ \A c \in Client : client[c] # NoRequest => client[c].instance # i
       /\ \A y \in Exchange : WillAppend(y) => receiver[y] # i
       /\ \A y \in Exchange : response[y] = "acking" /\ y # x => y[1] # i
  BY <1>1, <1>2, OriginatorAlone
<1>11. \E y \in Exchange : y[1] = i /\ y[2] = Len(log[i]) /\ response'[y] \in Acknowledged
  BY <1>1, <1>2, <1>7 DEF Acknowledged
<1>12. \A y \in Exchange : response[y] \in Acknowledged => response'[y] \in Acknowledged
  BY <1>2 DEF Acknowledged
<1>13. \A y \in Exchange :
         /\ request'[y] = "handling" => seen'[y] = seen[y]
         /\ response'[y] = "acking" => response[y] = "acking" /\ seen'[y] = seen[y] /\ y[1] # i
  BY <1>2, <1>6, <1>10
<1> QED
  BY <1>2, <1>3, <1>4, <1>5, <1>8, <1>9, <1>10, <1>11, <1>12, <1>13, AppendTurns

-----------------------------------------------------------------------------
\* In the beginning there is no history.
LEMMA TurnsInit == OnePeer /\ Init => TurnsInv
<1> SUFFICES ASSUME OnePeer, Init PROVE TurnsInv
  OBVIOUS
<1>1. \A i \in Instance : log[i] = <<>> /\ Len(log[i]) = 0
  BY DEF Init
<1>2. LaunchedFirst /\ DeliveredOnce /\ LaunchedOnce
  BY <1>1 DEF Init, LaunchedFirst, DeliveredOnce, LaunchedOnce, Launched
<1>3. CurrentIsLast /\ LinearHistory /\ RequestsAddressed /\ LeftByAnswer
  BY <1>1 DEF Init, CurrentIsLast, LinearHistory, RequestsAddressed, LeftByAnswer
<1>4. StepsForward /\ LaunchingIsPast /\ LaunchesOnce
  BY <1>1 DEF Init, StepsForward, LaunchingIsPast, LaunchesOnce
<1>5. ClientsAreCurrent /\ ReceiversAreCurrent /\ OriginatorsAreCurrent
  BY DEF Init, ClientsAreCurrent, ReceiversAreCurrent, OriginatorsAreCurrent, WillAppend
<1>6. PeersTalk
  BY <1>1 DEF Init, PeersTalk
<1> QED
  BY <1>2, <1>3, <1>4, <1>5, <1>6 DEF TurnsInv

\* Every step keeps the turns.
LEMMA TurnsStep == TurnsContext /\ [Next]_vars => TurnsInv'
<1> SUFFICES ASSUME TurnsContext, [Next]_vars PROVE TurnsInv'
  OBVIOUS
<1>1. CASE UNCHANGED vars
  <2>1. UNCHANGED <<log, currentState, receiver, launched, client, request, response, seen>>
    BY <1>1 DEF vars, view
  <2> QED
    BY <2>1, QuietTurn
<1>2. ASSUME NEW i \in Instance,
             \/ ClientLaunch(i) \/ OpenExternalEvents(i)
             \/ \E outcome \in RuleOutcome : LaunchVerdict(i, outcome)
      PROVE  TurnsInv'
  BY <1>2, LaunchTurns
<1>3. ASSUME NEW i \in Instance, NEW n \in 1 .. Len(log[i]), NEW outcome \in RuleOutcome,
             LocalTransitionVerdict(i, n, outcome) \/ ReceivedTransitionVerdict(i, n, outcome)
      PROVE  TurnsInv'
  BY <1>3, LocalVerdictTurns, ReceivedVerdictTurns
<1>4. ASSUME NEW x \in Exchange,
             \/ SendRequest(x) \/ SendRequestFails(x) \/ SendResponse(x) \/ SendResponseFails(x)
             \/ IgnoreRequest(x) \/ RefuseRequest(x)
      PROVE  TurnsInv'
  BY <1>4, MessageTurns
<1>5. ASSUME NEW x \in Exchange,
             RecordAccepted(x) \/ CompleteAccepted(x) \/ RecordRejected(x) \/ CompleteRejected(x)
      PROVE  TurnsInv'
  BY <1>5, RecordTurns
<1>6. ASSUME NEW x \in Exchange, NEW i \in Instance, DeliverToInstance(x, i) \/ DeliverToWorkflow(x, i)
      PROVE  TurnsInv'
  BY <1>6, DeliverToInstanceTurns, DeliverToWorkflowTurns
<1>7. ASSUME NEW x \in Exchange,
             AppendReceived(x) \/ ReadAcknowledged(x) \/ AppendAcknowledged(x)
      PROVE  TurnsInv'
  BY <1>7, AppendReceivedTurns, ReadAcknowledgedTurns, AppendAcknowledgedTurns
<1>8. ASSUME NEW c \in Client, ClientAppend(c)
      PROVE  TurnsInv'
  BY <1>8, ClientAppendTurns
<1>9. ASSUME NEW c \in Client, NEW i \in Instance, NEW e \in Event, ClientRead(c, i, e)
      PROVE  TurnsInv'
  BY <1>9, ClientReadTurns
<1>10. ASSUME NEW o \in Organization, NEW missed \in SUBSET InTransit(o), Crash(o, missed)
       PROVE  TurnsInv'
  BY <1>10, CrashTurns
<1> QED
  BY <1>1, <1>2, <1>3, <1>4, <1>5, <1>6, <1>7, <1>8, <1>9, <1>10 DEF Next, Handler, Environment

\* Each entry of a log starts where the previous one ended, in whatever order clients,
\* messages, verdicts and crashes come, if the workflow definitions make the parties take
\* turns (advanceWorkflowInstanceState appends what was computed before its awaits).
THEOREM HistoryIsLinear == ASSUME TakesTurns PROVE Spec => []LinearHistory
<1>1. ProtocolInvariant /\ ProtocolInvariant' /\ TurnsInv /\ [Next]_vars => TurnsInv'
  BY TurnsStep DEF TurnsContext, ProtocolInvariant
<1>2. Init => TurnsInv
  BY TurnsInit DEF TakesTurns
<1>3. TurnsInv => LinearHistory
  BY DEF TurnsInv
<1> QED
  BY <1>1, <1>2, <1>3, ProtocolCorrect, PTL DEF Spec
=============================================================================
