--------------------------- MODULE TransitionProofs ---------------------------
(***************************************************************************)
(* The safety properties of the transition protocol, for every choice of   *)
(* workflows, organizations, instances, clients, rule answers and bounds:  *)
(* types first, then what is guaranteed about acknowledgements and         *)
(* decisions.  The argument: verdicts stand and logs only grow, so what    *)
(* has been approved stays approved; therefore a stale state that a        *)
(* handler or a client writes back counts nobody as acknowledged who did   *)
(* not approve.                                                            *)
(***************************************************************************)
EXTENDS TransitionInvariants, TLAPS

-----------------------------------------------------------------------------
(* The operators of the state chart *)

\* A transition definition is a record of the declared type.
LEMMA TransitionType ==
  ASSUME NEW w \in Workflow, NEW a \in Activity, NEW e \in DOMAIN On[w][a]
  PROVE  On[w][a][e] \in Transition
BY ChartAssumption DEF ChartAssumption

\* Taking an enabled transition leads to a state.
LEMMA EnterType ==
  ASSUME NEW w \in Workflow, NEW s \in State, NEW o \in Instance \union {NoInstance},
         NEW e, Enabled(w, s, e)
  PROVE  Enter(w, s, e, o) \in State
<1>1. s.activity \in Activity /\ s.partner \in Instance \union {NoInstance}
  BY DEF State
<1>2. On[w][s.activity][e] \in Transition
  BY <1>1, TransitionType DEF Enabled
<1> QED
  BY <1>1, <1>2 DEF Enter, State, Transition

\* Taking the eventless transition, if there is one, leads to a state.
LEMMA SettleType ==
  ASSUME NEW w \in Workflow, NEW s \in State
  PROVE  Settle(w, s) \in State
BY EnterType DEF Settle

\* An instance is launched in a state without acknowledgements.
LEMMA InitialStateType ==
  ASSUME NEW w \in Workflow
  PROVE  InitialState(w) \in State /\ InitialState(w).acked = {}
<1> DEFINE s == [activity |-> Initial[w], acked |-> {}, partner |-> NoInstance]
<1>1. s \in State
  BY ChartAssumption DEF ChartAssumption, State
<1>2. Settle(w, s) \in State
  BY <1>1, SettleType
<1>3. Settle(w, s).acked = {}
  BY DEF Settle, Enter
<1> QED
  BY <1>2, <1>3 DEF InitialState

\* service.send(e): the result is a state, and it acknowledges nobody whom the
\* previous state did not.
LEMMA FireType ==
  ASSUME NEW w \in Workflow, NEW s \in State, NEW o \in Instance \union {NoInstance}, NEW e
  PROVE  Fire(w, s, e, o) \in State /\ Fire(w, s, e, o).acked \subseteq s.acked
<1>1. CASE Enabled(w, s, e)
  <2> DEFINE t == Enter(w, s, e, o)
  <2>1. t \in State /\ t.acked = {}
    <3>1. t \in State
      BY <1>1, EnterType
    <3>2. t.acked = {}
      BY DEF Enter
    <3> QED
      BY <3>1, <3>2
  <2>2. Settle(w, t) \in State /\ Settle(w, t).acked = {}
    BY <2>1, SettleType DEF Settle, Enter
  <2> QED
    BY <1>1, <2>2 DEF Fire
<1>2. CASE ~Enabled(w, s, e)
  BY <1>2 DEF Fire
<1> QED
  BY <1>1, <1>2

\* An external activity is left by an event only if its condition holds.
LEMMA FireLeaves ==
  ASSUME NEW w \in Workflow, NEW s \in State, NEW o, NEW e,
         IsExternal(w, s), Fire(w, s, e, o).activity # s.activity
  PROVE  ExternalTransitionCondition(w, s.activity, s.acked)
BY DEF Fire, Enabled, IsExternal

\* The acknowledgement of p: the result is a state that acknowledges at most p more,
\* and an activity is left only if its condition holds with p acknowledged.
LEMMA AcknowledgeFacts ==
  ASSUME NEW w \in Workflow, NEW s \in State, NEW p \in Participant,
         NEW o \in Instance \union {NoInstance}
  PROVE  /\ Acknowledge(w, s, p, o) \in State
         /\ Acknowledge(w, s, p, o).acked \subseteq s.acked \union {p}
         /\ Acknowledge(w, s, p, o).activity # s.activity =>
              ExternalTransitionCondition(w, s.activity, s.acked \union {p})
<1> DEFINE t == [activity |-> s.activity,
                 acked    |-> s.acked \union {p},
                 partner  |-> IF p \in AssignsOnAcceptance[w] THEN o ELSE s.partner]
<1>1. CASE s.activity \in External[w] /\ p \in ExternalParticipants[w][s.activity]
  <2>1. t \in State
    BY DEF State
  <2>2. Acknowledge(w, s, p, o) = Settle(w, t)
    BY <1>1 DEF Acknowledge
  <2>3. Settle(w, t) \in State
    BY <2>1, SettleType
  <2>4. \/ Settle(w, t) = t
        \/ /\ Settle(w, t).acked = {}
           /\ Enabled(w, t, Eventless)
    BY DEF Settle, Enter
  <2>5. Enabled(w, t, Eventless) =>
          ExternalTransitionCondition(w, s.activity, s.acked \union {p})
    BY <1>1 DEF Enabled
  <2>6. t.activity = s.activity /\ t.acked = s.acked \union {p}
    OBVIOUS
  <2> HIDE DEF t
  <2> QED
    BY <2>2, <2>3, <2>4, <2>5, <2>6
<1>2. CASE ~(s.activity \in External[w] /\ p \in ExternalParticipants[w][s.activity])
  BY <1>2 DEF Acknowledge
<1> QED
  BY <1>1, <1>2

\* The acknowledgement of p leads to a state.
LEMMA AcknowledgeType ==
  ASSUME NEW w \in Workflow, NEW s \in State, NEW p \in Participant,
         NEW o \in Instance \union {NoInstance}
  PROVE  Acknowledge(w, s, p, o) \in State
BY AcknowledgeFacts

\* It acknowledges at most p in addition.
LEMMA AcknowledgeAcks ==
  ASSUME NEW w \in Workflow, NEW s \in State, NEW p \in Participant,
         NEW o \in Instance \union {NoInstance}
  PROVE  Acknowledge(w, s, p, o).acked \subseteq s.acked \union {p}
BY AcknowledgeFacts

\* It leaves the external activity only if the condition holds with p acknowledged.
LEMMA AcknowledgeLeaves ==
  ASSUME NEW w \in Workflow, NEW s \in State, NEW p \in Participant,
         NEW o \in Instance \union {NoInstance}
  PROVE  Acknowledge(w, s, p, o).activity # s.activity =>
           ExternalTransitionCondition(w, s.activity, s.acked \union {p})
BY AcknowledgeFacts

-----------------------------------------------------------------------------
(* Type correctness *)

\* The components of an exchange.
LEMMA ExchangeType ==
  ASSUME NEW x \in Exchange
  PROVE  /\ x[1] \in Instance /\ x[2] \in Slot /\ x[3] \in Participant
         /\ x = <<x[1], x[2], x[3]>>
         /\ AddressOf(x) \in Address
         /\ WorkflowOf[x[1]] \in Workflow
BY ProtocolAssumption DEF Exchange, AddressOf, ProtocolAssumption

\* Appending a transition keeps the types of what it changes.
LEMMA AppendType ==
  ASSUME TypeOK, NEW i \in Instance, NEW from \in State, NEW to \in State,
         NEW origin \in Exchange \union {NoExchange},
         AppendTransition(i, from, to, origin)
  PROVE  /\ log' \in [Instance -> Seq(Entry)]
         /\ \A j \in Instance : Len(log'[j]) <= MaxLog
         /\ rule' \in [Instance -> [Slot -> Verdict]]
         /\ currentState' \in [Instance -> State]
         /\ acceptedByRuleServices' \in [Instance -> Flag]
         /\ acceptedByParticipants' \in [Instance -> Flag]
         /\ participantsAccepted' \in [Instance -> SUBSET Exchange]
         /\ participantsRejected' \in [Instance -> SUBSET Exchange]
<1> DEFINE e == [from |-> from, to |-> to, origin |-> origin]
<1>1. e \in Entry
  BY DEF Entry
<1>2. log' \in [Instance -> Seq(Entry)] /\ \A j \in Instance : Len(log'[j]) <= MaxLog
  <2>1. log' = [log EXCEPT ![i] = Append(log[i], e)] /\ Len(log[i]) < MaxLog
    BY DEF AppendTransition
  <2> HIDE DEF e
  <2>2. Append(log[i], e) \in Seq(Entry) /\ Len(Append(log[i], e)) = Len(log[i]) + 1
    BY <1>1 DEF TypeOK
  <2>3. Len(log[i]) \in Nat /\ MaxLog \in Nat
    BY ProtocolAssumption DEF TypeOK, ProtocolAssumption
  <2> QED
    BY <2>1, <2>2, <2>3 DEF TypeOK
<1>3. rule' \in [Instance -> [Slot -> Verdict]]
  BY DEF AppendTransition, TypeOK, Verdict
<1>4. currentState' \in [Instance -> State]
  BY DEF AppendTransition, TypeOK
<1>5. /\ acceptedByRuleServices' \in [Instance -> Flag]
      /\ acceptedByParticipants' \in [Instance -> Flag]
  BY DEF AppendTransition, TypeOK, Flag
<1>6. /\ participantsAccepted' \in [Instance -> SUBSET Exchange]
      /\ participantsRejected' \in [Instance -> SUBSET Exchange]
  BY DEF AppendTransition, TypeOK
<1> QED
  BY <1>2, <1>3, <1>4, <1>5, <1>6

\* What every step keeps: transitions are appended behind those that are there, and
\* a verdict stands.
LogsGrow ==
  \A i \in Instance :
    /\ Len(log[i]) <= Len(log'[i])
    /\ \A n \in 1 .. Len(log[i]) :
         /\ log'[i][n] = log[i][n]
         /\ rule[i][n] \in {"accepted", "rejected"} => rule'[i][n] = rule[i][n]

\* Appending a transition adds one entry at the end of one log.
LEMMA AppendGrows ==
  ASSUME TypeOK, NEW i \in Instance, NEW from, NEW to, NEW origin,
         AppendTransition(i, from, to, origin)
  PROVE  /\ LogsGrow
         /\ Len(log'[i]) = Len(log[i]) + 1
         /\ log'[i][Len(log[i]) + 1] = [from |-> from, to |-> to, origin |-> origin]
         /\ rule'[i][Len(log[i]) + 1] = "checking"
         /\ \A j \in Instance \ {i} : log'[j] = log[j] /\ rule'[j] = rule[j]
         /\ \A n \in 1 .. Len(log[i]) : log'[i][n] = log[i][n] /\ rule'[i][n] = rule[i][n]
<1> DEFINE e == [from |-> from, to |-> to, origin |-> origin]
<1>1. log' = [log EXCEPT ![i] = Append(log[i], e)] /\ Len(log[i]) < MaxLog
  BY DEF AppendTransition
<1>2. rule' = [rule EXCEPT ![i][Len(log[i]) + 1] = "checking"]
  BY DEF AppendTransition
<1> HIDE DEF e
<1>3. Len(log[i]) \in Nat /\ MaxLog \in Nat /\ Len(log[i]) + 1 \in Slot
  BY <1>1, ProtocolAssumption DEF TypeOK, ProtocolAssumption, Slot
<1>4. /\ log'[i] = Append(log[i], e)
      /\ Len(log'[i]) = Len(log[i]) + 1
      /\ log'[i][Len(log[i]) + 1] = e
      /\ \A n \in 1 .. Len(log[i]) : log'[i][n] = log[i][n]
  BY <1>1, <1>3 DEF TypeOK
<1>5. /\ rule'[i][Len(log[i]) + 1] = "checking"
      /\ \A n \in 1 .. Len(log[i]) : rule'[i][n] = rule[i][n]
      /\ \A j \in Instance \ {i} : log'[j] = log[j] /\ rule'[j] = rule[j]
  BY <1>1, <1>2, <1>3 DEF TypeOK
<1>6. LogsGrow
  <2> SUFFICES ASSUME NEW j \in Instance
               PROVE  /\ Len(log[j]) <= Len(log'[j])
                      /\ \A n \in 1 .. Len(log[j]) :
                           /\ log'[j][n] = log[j][n]
                           /\ rule[j][n] \in {"accepted", "rejected"} => rule'[j][n] = rule[j][n]
    BY DEF LogsGrow
  <2>1. CASE j = i
    BY <1>3, <1>4, <1>5, <2>1
  <2>2. CASE j # i
    <3>1. Len(log[j]) \in Nat
      BY DEF TypeOK
    <3> QED
      BY <1>5, <2>2, <3>1
  <2> QED
    BY <2>1, <2>2
<1> QED
  BY <1>4, <1>5, <1>6 DEF e

\* The verdict of the rule services keeps the type of the flag it sets.
LEMMA RecordVerdictType ==
  ASSUME TypeOK, NEW i \in Instance, NEW outcome, RecordVerdict(i, outcome)
  PROVE  acceptedByRuleServices' \in [Instance -> Flag]
BY DEF RecordVerdict, Approve, TypeOK, Flag

\* A message that was sent keeps the verdict it was sent for.
LEMMA VerdictsStand ==
  ASSUME TypeInv, LogsGrow,
         \A x \in Exchange : request[x] = "none" => request'[x] = "none"
  PROVE  RequestsFollowVerdicts'
<1> SUFFICES ASSUME NEW x \in Exchange, request'[x] # "none"
             PROVE  x[2] \in 1 .. Len(log'[x[1]]) /\ rule'[x[1]][x[2]] = "accepted"
  BY DEF RequestsFollowVerdicts
<1>1. x[1] \in Instance /\ log[x[1]] \in Seq(Entry)
  BY ExchangeType DEF TypeInv, TypeOK
<1>2. x[2] \in 1 .. Len(log[x[1]]) /\ rule[x[1]][x[2]] = "accepted"
  BY DEF TypeInv, RequestsFollowVerdicts
<1>3. Len(log[x[1]]) \in Nat /\ Len(log[x[1]]) <= Len(log'[x[1]])
  BY <1>1 DEF LogsGrow
<1> QED
  BY <1>1, <1>2, <1>3 DEF LogsGrow

\* An appended transition keeps the origins in order, if its own message is appended.
LEMMA AppendOrigins ==
  ASSUME TypeInv, NEW i \in Instance, NEW from, NEW to, NEW origin,
         AppendTransition(i, from, to, origin),
         \A x \in Exchange : request[x] = "appended" => request'[x] = "appended",
         origin # NoExchange => request'[origin] = "appended"
  PROVE  OriginsAppended' /\ LogsGrow
<1>1. /\ LogsGrow
      /\ Len(log'[i]) = Len(log[i]) + 1
      /\ log'[i][Len(log[i]) + 1] = [from |-> from, to |-> to, origin |-> origin]
      /\ \A j \in Instance \ {i} : log'[j] = log[j]
      /\ \A n \in 1 .. Len(log[i]) : log'[i][n] = log[i][n]
  BY AppendGrows DEF TypeInv
<1>2. SUFFICES ASSUME NEW j \in Instance, NEW m \in 1 .. Len(log'[j]),
                      log'[j][m].origin # NoExchange
               PROVE  request'[log'[j][m].origin] = "appended"
  BY <1>1 DEF OriginsAppended
<1>3. CASE j = i /\ m = Len(log[i]) + 1
  BY <1>1, <1>2, <1>3
<1>4. CASE ~(j = i /\ m = Len(log[i]) + 1)
  <2>1. log[j] \in Seq(Entry) /\ Len(log[j]) \in Nat
    BY DEF TypeInv, TypeOK
  <2>2. m \in 1 .. Len(log[j]) /\ log'[j][m] = log[j][m]
    BY <1>1, <1>4, <2>1
  <2>3. log[j][m] \in Entry
    BY <2>1, <2>2
  <2>4. log[j][m].origin \in Exchange
    BY <1>2, <2>2, <2>3 DEF Entry
  <2> QED
    BY <1>2, <2>2, <2>4 DEF TypeInv, OriginsAppended
<1> QED
  BY <1>3, <1>4

\* Steps that touch no log, no verdict and no message.
LEMMA MessagesUnchanged ==
  ASSUME TypeInv, UNCHANGED <<log, rule, request, response, receiver, seen>>
  PROVE  /\ HandlersHoldStates' /\ OriginsAppended'
         /\ ResponsesFollowRequests' /\ RequestsFollowVerdicts'
BY DEF TypeInv, HandlersHoldStates, OriginsAppended, ResponsesFollowRequests,
       RequestsFollowVerdicts

\* The initial states satisfy the invariant.
LEMMA TypeInit == Init => TypeInv
<1> SUFFICES ASSUME Init PROVE TypeInv
  OBVIOUS
<1>1. \A i \in Instance : WorkflowOf[i] \in Workflow /\ InitialState(WorkflowOf[i]) \in State
  BY ProtocolAssumption, InitialStateType DEF ProtocolAssumption
<1>2. MaxLog \in Nat /\ MaxCrash \in Nat
  BY ProtocolAssumption DEF ProtocolAssumption
<1>3. log \in [Instance -> Seq(Entry)] /\ \A i \in Instance : Len(log[i]) = 0
  BY DEF Init
<1>4. rule \in [Instance -> [Slot -> Verdict]]
  BY DEF Init, Verdict
<1>5. TypeOK
  BY <1>1, <1>2, <1>3, <1>4
     DEF Init, TypeOK, Verdict, Flag, RequestStatus, ResponseStatus
<1>6. HandlersHoldStates /\ ResponsesFollowRequests /\ RequestsFollowVerdicts
  BY DEF Init, HandlersHoldStates, ResponsesFollowRequests, RequestsFollowVerdicts
<1>7. OriginsAppended
  BY <1>3 DEF OriginsAppended
<1> QED
  BY <1>5, <1>6, <1>7 DEF TypeInv

\* A launch changes no transition, message or handler.
LEMMA LaunchingKeepsTypes ==
  ASSUME TypeInv, NEW i \in Instance
  PROVE  /\ ClientLaunch(i) => TypeInv'
         /\ \A outcome \in RuleOutcome : LaunchVerdict(i, outcome) => TypeInv'
         /\ OpenExternalEvents(i) => TypeInv'
<1>1. ASSUME ClientLaunch(i) PROVE TypeInv'
  <2>1. TypeOK'
    BY <1>1 DEF ClientLaunch, Launch, view, TypeInv, TypeOK, Verdict
  <2> QED
    BY <1>1, <2>1, MessagesUnchanged DEF ClientLaunch, TypeInv
<1>2. ASSUME NEW outcome \in RuleOutcome, LaunchVerdict(i, outcome) PROVE TypeInv'
  <2>1. acceptedByRuleServices' \in [Instance -> Flag]
    <3>1. CASE log[i] = <<>>
      BY <1>2, <3>1, RecordVerdictType DEF LaunchVerdict, TypeInv
    <3>2. CASE log[i] # <<>>
      BY <1>2, <3>2 DEF LaunchVerdict, TypeInv, TypeOK
    <3> QED
      BY <3>1, <3>2
  <2>2. TypeOK'
    BY <1>2, <2>1 DEF LaunchVerdict, VerdictOf, TypeInv, TypeOK, Verdict
  <2> QED
    BY <1>2, <2>2, MessagesUnchanged DEF LaunchVerdict, TypeInv
<1>3. ASSUME OpenExternalEvents(i) PROVE TypeInv'
  <2>1. TypeOK'
    BY <1>3 DEF OpenExternalEvents, view, TypeInv, TypeOK
  <2> QED
    BY <1>3, <2>1, MessagesUnchanged DEF OpenExternalEvents, TypeInv
<1> QED
  BY <1>1, <1>2, <1>3

\* A client reads an instance, and later appends what it has computed.
LEMMA ClientKeepsTypes ==
  ASSUME TypeInv, NEW c \in Client
  PROVE  /\ \A i \in Instance, e \in Event : ClientRead(c, i, e) => TypeInv'
         /\ ClientAppend(c) => TypeInv'
<1>1. ASSUME NEW i \in Instance, NEW e \in Event, ClientRead(c, i, e) PROVE TypeInv'
  <2>1. WorkflowOf[i] \in Workflow /\ currentState[i] \in State
    BY ProtocolAssumption DEF ProtocolAssumption, TypeInv, TypeOK
  <2>2. Fire(WorkflowOf[i], currentState[i], e, NoInstance) \in State
    BY <2>1, FireType
  <2>3. client' \in [Client -> Request \union {NoRequest}]
    BY <1>1, <2>1, <2>2 DEF ClientRead, TypeInv, TypeOK, Request
  <2>4. TypeOK'
    BY <1>1, <2>3 DEF ClientRead, view, TypeInv, TypeOK
  <2> QED
    BY <1>1, <2>4, MessagesUnchanged DEF ClientRead, TypeInv
<1>2. ASSUME ClientAppend(c) PROVE TypeInv'
  <2> DEFINE r == client[c]
  <2>1. r \in Request
    BY <1>2 DEF ClientAppend, TypeInv, TypeOK
  <2>2. AppendTransition(r.instance, r.from, r.to, NoExchange)
    BY <1>2 DEF ClientAppend
  <2>3. r.instance \in Instance /\ r.from \in State /\ r.to \in State
    BY <2>1 DEF Request
  <2> HIDE DEF r
  <2>4. TypeOK'
    BY <1>2, <2>2, <2>3, AppendType DEF ClientAppend, TypeInv, TypeOK
  <2>5. OriginsAppended' /\ LogsGrow
    BY <1>2, <2>2, <2>3, AppendOrigins DEF ClientAppend, TypeInv
  <2>6. RequestsFollowVerdicts'
    BY <1>2, <2>5, VerdictsStand DEF ClientAppend
  <2> QED
    BY <1>2, <2>4, <2>5, <2>6
       DEF ClientAppend, TypeInv, HandlersHoldStates, ResponsesFollowRequests
<1> QED
  BY <1>1, <1>2

\* Steps that append nothing.
LEMMA LogUnchanged ==
  ASSUME TypeInv, log' = log,
         \A i \in Instance : \A n \in Slot :
           rule[i][n] \in {"accepted", "rejected"} => rule'[i][n] = rule[i][n],
         \A x \in Exchange : request[x] = "appended" => request'[x] = "appended"
  PROVE  OriginsAppended' /\ LogsGrow
<1>1. \A i \in Instance : Len(log[i]) \in Nat /\ 1 .. Len(log[i]) \subseteq Slot
  BY ProtocolAssumption DEF TypeInv, TypeOK, Slot, ProtocolAssumption
<1>2. LogsGrow
  BY <1>1 DEF LogsGrow
<1>3. ASSUME NEW j \in Instance, NEW m \in 1 .. Len(log[j]), log[j][m].origin # NoExchange
      PROVE  request'[log[j][m].origin] = "appended"
  <2>1. log[j][m] \in Entry
    BY DEF TypeInv, TypeOK
  <2> QED
    BY <1>3, <2>1 DEF Entry, TypeInv, OriginsAppended
<1>4. OriginsAppended'
  BY <1>3 DEF OriginsAppended
<1> QED
  BY <1>2, <1>4

\* The verdict on a transition, and the messages it makes ready.
LEMMA VerdictKeepsTypes ==
  ASSUME TypeInv, NEW i \in Instance, NEW n \in 1 .. Len(log[i]), NEW outcome \in RuleOutcome
  PROVE  /\ LocalTransitionVerdict(i, n, outcome) => TypeInv'
         /\ ReceivedTransitionVerdict(i, n, outcome) => TypeInv'
<1>1. n \in Slot /\ log[i][n] \in Entry
  BY ProtocolAssumption DEF ProtocolAssumption, TypeInv, TypeOK, Slot
<1>2. ASSUME LocalTransitionVerdict(i, n, outcome) PROVE TypeInv'
  <2>1. acceptedByRuleServices' \in [Instance -> Flag]
    BY <1>2, RecordVerdictType DEF LocalTransitionVerdict, TypeInv
  <2>2. rule' \in [Instance -> [Slot -> Verdict]]
    BY <1>1, <1>2 DEF LocalTransitionVerdict, TypeInv, TypeOK, Verdict, VerdictOf
  <2>3. request' \in [Exchange -> RequestStatus]
    BY <1>2 DEF LocalTransitionVerdict, TypeInv, TypeOK, RequestStatus
  <2>4. TypeOK'
    BY <1>2, <2>1, <2>2, <2>3 DEF LocalTransitionVerdict, TypeInv, TypeOK
  <2>5. \A x \in Exchange :
          \/ request'[x] = request[x]
          \/ /\ request[x] = "none" /\ request'[x] = "ready"
             /\ x[1] = i /\ x[2] = n /\ rule'[i][n] = "accepted"
    BY <1>1, <1>2 DEF LocalTransitionVerdict, VerdictOf, TypeInv, TypeOK, RequestsFollowVerdicts
  <2>6. /\ log' = log
        /\ \A j \in Instance : \A m \in Slot :
             rule[j][m] \in {"accepted", "rejected"} => rule'[j][m] = rule[j][m]
    BY <1>2 DEF LocalTransitionVerdict, TypeInv, TypeOK
  <2>7. OriginsAppended'
    BY <2>5, <2>6, LogUnchanged
  <2>8. HandlersHoldStates' /\ ResponsesFollowRequests'
    BY <1>2, <2>5
       DEF LocalTransitionVerdict, TypeInv, HandlersHoldStates, ResponsesFollowRequests
  <2>9. RequestsFollowVerdicts'
    <3> SUFFICES ASSUME NEW x \in Exchange, request'[x] # "none"
                 PROVE  x[2] \in 1 .. Len(log'[x[1]]) /\ rule'[x[1]][x[2]] = "accepted"
      BY DEF RequestsFollowVerdicts
    <3> QED
      BY <2>5, <2>6, ExchangeType DEF TypeInv, RequestsFollowVerdicts
  <2> QED
    BY <2>4, <2>7, <2>8, <2>9 DEF TypeInv
<1>3. ASSUME ReceivedTransitionVerdict(i, n, outcome) PROVE TypeInv'
  <2> DEFINE y == log[i][n].origin
  <2>1. acceptedByRuleServices' \in [Instance -> Flag]
    BY <1>3, RecordVerdictType DEF ReceivedTransitionVerdict, TypeInv
  <2>2. rule' \in [Instance -> [Slot -> Verdict]]
    BY <1>1, <1>3 DEF ReceivedTransitionVerdict, TypeInv, TypeOK, Verdict, VerdictOf
  <2>3. y \in Exchange /\ request[y] = "appended"
    BY <1>1, <1>3 DEF ReceivedTransitionVerdict, Entry, TypeInv, OriginsAppended
  <2>4. \E r \in {"acceptReady", "rejectReady", "rejectLost"} : response' = [response EXCEPT ![y] = r]
    BY <1>3, ProtocolAssumption DEF ReceivedTransitionVerdict, ProtocolAssumption, Outcome
  <2> HIDE DEF y
  <2>5. response' \in [Exchange -> ResponseStatus]
    BY <2>4 DEF TypeInv, TypeOK, ResponseStatus, AcceptStatus, RejectStatus
  <2>6. TypeOK'
    BY <1>3, <2>1, <2>2, <2>5 DEF ReceivedTransitionVerdict, TypeInv, TypeOK
  <2>7. \A x \in Exchange :
          \/ response'[x] = response[x]
          \/ request[x] = "appended" /\ response'[x] # "acking"
    BY <2>3, <2>4 DEF TypeInv, TypeOK
  <2>8. \A j \in Instance : \A m \in Slot :
          rule[j][m] \in {"accepted", "rejected"} => rule'[j][m] = rule[j][m]
    BY <1>3 DEF ReceivedTransitionVerdict, TypeInv, TypeOK
  <2>9. OriginsAppended' /\ LogsGrow
    BY <1>3, <2>8, LogUnchanged DEF ReceivedTransitionVerdict
  <2>10. RequestsFollowVerdicts'
    BY <1>3, <2>9, VerdictsStand DEF ReceivedTransitionVerdict
  <2>11. HandlersHoldStates' /\ ResponsesFollowRequests'
    BY <1>3, <2>7
       DEF ReceivedTransitionVerdict, TypeInv, HandlersHoldStates, ResponsesFollowRequests
  <2> QED
    BY <2>6, <2>9, <2>10, <2>11 DEF TypeInv
<1> QED
  BY <1>2, <1>3

\* Steps that only move messages: no log and no verdict changes.
LEMMA OnlyMessages ==
  ASSUME TypeInv, UNCHANGED <<log, rule>>,
         \A x \in Exchange : /\ request[x] = "appended" => request'[x] = "appended"
                             /\ request[x] = "none" => request'[x] = "none"
  PROVE  OriginsAppended' /\ RequestsFollowVerdicts'
BY LogUnchanged, VerdictsStand

\* Sending, and failing to send.
LEMMA SendKeepsTypes ==
  ASSUME TypeInv, NEW x \in Exchange
  PROVE  /\ SendRequest(x) \/ SendRequestFails(x) => TypeInv'
         /\ SendResponse(x) \/ SendResponseFails(x) => TypeInv'
<1>1. ASSUME SendRequest(x) \/ SendRequestFails(x) PROVE TypeInv'
  <2>1. /\ request[x] = "ready"
        /\ \E r \in {"sent", "lost"} : request' = [request EXCEPT ![x] = r]
        /\ UNCHANGED <<launched, opened, launchRule, log, rule, view, client, response,
             receiver, seen, crashes>>
    BY <1>1 DEF SendRequest, SendRequestFails
  <2>2. TypeOK'
    BY <2>1 DEF view, TypeInv, TypeOK, RequestStatus
  <2>3. OriginsAppended' /\ RequestsFollowVerdicts'
    BY <2>1, OnlyMessages DEF TypeInv, TypeOK
  <2>4. HandlersHoldStates' /\ ResponsesFollowRequests'
    BY <2>1 DEF TypeInv, TypeOK, HandlersHoldStates, ResponsesFollowRequests
  <2> QED
    BY <2>2, <2>3, <2>4 DEF TypeInv
<1>2. ASSUME SendResponse(x) \/ SendResponseFails(x) PROVE TypeInv'
  <2>1. /\ response[x] \in {"acceptReady", "rejectReady"}
        /\ \E r \in {"acceptSent", "rejectSent", "acceptLost", "rejectLost"} :
             response' = [response EXCEPT ![x] = r]
        /\ UNCHANGED <<launched, opened, launchRule, log, rule, view, client, request,
             receiver, seen, crashes>>
    BY <1>2 DEF SendResponse, SendResponseFails
  <2>2. TypeOK'
    BY <2>1 DEF view, TypeInv, TypeOK, ResponseStatus, AcceptStatus, RejectStatus
  <2>3. OriginsAppended' /\ RequestsFollowVerdicts'
    BY <2>1, OnlyMessages
  <2>4. HandlersHoldStates' /\ ResponsesFollowRequests'
    BY <2>1 DEF TypeInv, TypeOK, HandlersHoldStates, ResponsesFollowRequests
  <2> QED
    BY <2>2, <2>3, <2>4 DEF TypeInv
<1> QED
  BY <1>1, <1>2

\* A message reaches an instance.
LEMMA DeliverKeepsTypes ==
  ASSUME TypeInv, NEW x \in Exchange, NEW i \in Instance
  PROVE  DeliverToInstance(x, i) \/ DeliverToWorkflow(x, i) => TypeInv'
<1> SUFFICES ASSUME DeliverToInstance(x, i) \/ DeliverToWorkflow(x, i) PROVE TypeInv'
  OBVIOUS
<1>1. WorkflowOf[i] \in Workflow /\ InitialState(WorkflowOf[i]) \in State /\ currentState[i] \in State
  BY ProtocolAssumption, InitialStateType DEF ProtocolAssumption, TypeInv, TypeOK
<1>2. /\ request[x] = "sent"
      /\ request' = [request EXCEPT ![x] = "handling"]
      /\ receiver' = [receiver EXCEPT ![x] = i]
      /\ \E s \in State : seen' = [seen EXCEPT ![x] = s]
      /\ UNCHANGED <<opened, log, rule, view, client, response, crashes>>
  BY <1>1 DEF DeliverToInstance, DeliverToWorkflow
<1>3. launched' \subseteq Instance /\ launchRule' \in [Instance -> Verdict]
  BY DEF DeliverToInstance, DeliverToWorkflow, Launch, TypeInv, TypeOK, Verdict
<1>4. TypeOK'
  BY <1>2, <1>3 DEF view, TypeInv, TypeOK, RequestStatus
<1>5. OriginsAppended' /\ RequestsFollowVerdicts'
  BY <1>2, OnlyMessages DEF TypeInv, TypeOK
<1>6. ResponsesFollowRequests' /\ response[x] = "none"
  BY <1>2 DEF TypeInv, TypeOK, ResponsesFollowRequests
<1>7. HandlersHoldStates'
  BY <1>2, <1>6 DEF TypeInv, TypeOK, HandlersHoldStates
<1> QED
  BY <1>4, <1>5, <1>6, <1>7 DEF TypeInv

\* The receiver's handler ends without a transition.
LEMMA DeclineKeepsTypes ==
  ASSUME TypeInv, NEW x \in Exchange
  PROVE  IgnoreRequest(x) \/ RefuseRequest(x) => TypeInv'
<1> SUFFICES ASSUME IgnoreRequest(x) \/ RefuseRequest(x) PROVE TypeInv'
  OBVIOUS
<1>1. /\ request[x] = "handling"
      /\ seen' = [seen EXCEPT ![x] = NoState]
      /\ \/ /\ request' = [request EXCEPT ![x] = "ignored"]
            /\ response' = response
         \/ /\ request' = [request EXCEPT ![x] = "refused"]
            /\ response' = [response EXCEPT ![x] = "rejectReady"]
      /\ UNCHANGED <<launched, opened, launchRule, log, rule, view, client, receiver, crashes>>
  BY DEF IgnoreRequest, RefuseRequest
<1>2. TypeOK'
  BY <1>1 DEF view, TypeInv, TypeOK, RequestStatus, ResponseStatus, AcceptStatus, RejectStatus
<1>3. OriginsAppended' /\ RequestsFollowVerdicts'
  BY <1>1, OnlyMessages DEF TypeInv, TypeOK
<1>4. response[x] = "none"
  BY <1>1 DEF TypeInv, HandlersHoldStates
<1>5. HandlersHoldStates' /\ ResponsesFollowRequests'
  BY <1>1, <1>4 DEF TypeInv, TypeOK, HandlersHoldStates, ResponsesFollowRequests
<1> QED
  BY <1>2, <1>3, <1>5 DEF TypeInv

\* The receiver's handler appends the transition.
LEMMA ReceiveKeepsTypes ==
  ASSUME TypeInv, NEW x \in Exchange
  PROVE  AppendReceived(x) => TypeInv'
<1> SUFFICES ASSUME AppendReceived(x) PROVE TypeInv'
  OBVIOUS
<1> DEFINE i  == receiver[x]
           to == Fire(WorkflowOf[i], seen[x], AddressOf(x).event, x[1])
<1>1. /\ request[x] = "handling" /\ response[x] = "none"
      /\ i \in Instance /\ seen[x] \in State /\ WorkflowOf[i] \in Workflow
  BY ProtocolAssumption DEF AppendReceived, TypeInv, HandlersHoldStates, ProtocolAssumption
<1>2. to \in State
  BY <1>1, FireType, ExchangeType
<1>3. /\ AppendTransition(i, seen[x], to, x)
      /\ request' = [request EXCEPT ![x] = "appended"]
      /\ seen' = [seen EXCEPT ![x] = NoState]
      /\ UNCHANGED <<launched, opened, launchRule, client, response, receiver, crashes>>
  BY DEF AppendReceived
<1> HIDE DEF i, to
<1>4. TypeOK'
  BY <1>1, <1>2, <1>3, AppendType DEF TypeInv, TypeOK, RequestStatus
<1>5. OriginsAppended' /\ LogsGrow
  BY <1>1, <1>3, AppendOrigins DEF TypeInv, TypeOK
<1>6. RequestsFollowVerdicts'
  BY <1>1, <1>3, <1>5, VerdictsStand DEF TypeInv, TypeOK
<1>7. HandlersHoldStates' /\ ResponsesFollowRequests'
  BY <1>1, <1>3 DEF TypeInv, TypeOK, HandlersHoldStates, ResponsesFollowRequests
<1> QED
  BY <1>4, <1>5, <1>6, <1>7 DEF TypeInv

\* The originator's handler of an acceptance.
LEMMA AcknowledgeKeepsTypes ==
  ASSUME TypeInv, NEW x \in Exchange
  PROVE  /\ ReadAcknowledged(x) => TypeInv'
         /\ AppendAcknowledged(x) => TypeInv'
<1>1. ASSUME ReadAcknowledged(x) PROVE TypeInv'
  <2>1. currentState[x[1]] \in State
    BY ExchangeType DEF TypeInv, TypeOK
  <2>2. /\ response[x] = "acceptSent"
        /\ \/ /\ response' = [response EXCEPT ![x] = "acking"]
              /\ seen' = [seen EXCEPT ![x] = currentState[x[1]]]
           \/ /\ response' = [response EXCEPT ![x] = "acceptLost"]
              /\ UNCHANGED seen
        /\ UNCHANGED <<launched, opened, launchRule, log, rule, view, client, request,
             receiver, crashes>>
    BY <1>1 DEF ReadAcknowledged
  <2>3. TypeOK'
    BY <2>1, <2>2 DEF view, TypeInv, TypeOK, ResponseStatus, AcceptStatus
  <2>4. OriginsAppended' /\ RequestsFollowVerdicts'
    BY <2>2, OnlyMessages
  <2>5. request[x] # "handling"
    BY <2>2 DEF TypeInv, HandlersHoldStates
  <2>6. HandlersHoldStates' /\ ResponsesFollowRequests'
    BY <2>1, <2>2, <2>5 DEF TypeInv, TypeOK, HandlersHoldStates, ResponsesFollowRequests
  <2> QED
    BY <2>3, <2>4, <2>6 DEF TypeInv
<1>2. ASSUME AppendAcknowledged(x) PROVE TypeInv'
  <2> DEFINE i  == x[1]
             to == Acknowledge(WorkflowOf[i], seen[x], x[3], receiver[x])
  <2>1. response[x] = "acking" /\ seen[x] \in State /\ request[x] # "handling"
    BY <1>2 DEF AppendAcknowledged, TypeInv, HandlersHoldStates
  <2>2. /\ i \in Instance /\ WorkflowOf[i] \in Workflow
        /\ x[3] \in Participant /\ receiver[x] \in Instance \union {NoInstance}
    BY ExchangeType DEF TypeInv, TypeOK
  <2>3. to \in State
    BY <2>1, <2>2, AcknowledgeType
  <2>4. /\ AppendTransition(i, seen[x], to, NoExchange)
        /\ response' = [response EXCEPT ![x] = "acked"]
        /\ seen' = [seen EXCEPT ![x] = NoState]
        /\ UNCHANGED <<launched, opened, launchRule, client, request, receiver, crashes>>
    BY <1>2 DEF AppendAcknowledged
  <2> HIDE DEF i, to
  <2>5. TypeOK'
    BY <2>1, <2>2, <2>3, <2>4, AppendType DEF TypeInv, TypeOK, ResponseStatus, AcceptStatus
  <2>6. OriginsAppended' /\ LogsGrow
    BY <2>2, <2>4, AppendOrigins
  <2>7. RequestsFollowVerdicts'
    BY <2>4, <2>6, VerdictsStand
  <2>8. HandlersHoldStates' /\ ResponsesFollowRequests'
    BY <2>1, <2>4 DEF TypeInv, TypeOK, HandlersHoldStates, ResponsesFollowRequests
  <2> QED
    BY <2>5, <2>6, <2>7, <2>8 DEF TypeInv
<1> QED
  BY <1>1, <1>2

\* The originator records what the participant decided.
LEMMA RecordKeepsTypes ==
  ASSUME TypeInv, NEW x \in Exchange
  PROVE  /\ RecordAccepted(x) \/ CompleteAccepted(x) => TypeInv'
         /\ RecordRejected(x) \/ CompleteRejected(x) => TypeInv'
<1> SUFFICES ASSUME \/ RecordAccepted(x) \/ CompleteAccepted(x)
                    \/ RecordRejected(x) \/ CompleteRejected(x)
             PROVE  TypeInv'
  OBVIOUS
<1>1. /\ response[x] \in {"acked", "recorded", "rejectSent", "rejectRecorded"}
      /\ \E r \in {"recorded", "accepted", "rejectRecorded", "rejected"} :
           response' = [response EXCEPT ![x] = r]
      /\ UNCHANGED <<launched, opened, launchRule, log, rule, currentState,
           acceptedByRuleServices, client, request, receiver, seen, crashes>>
  BY DEF RecordAccepted, CompleteAccepted, RecordRejected, CompleteRejected
<1>2. /\ acceptedByParticipants' \in [Instance -> Flag]
      /\ participantsAccepted' \in [Instance -> SUBSET Exchange]
      /\ participantsRejected' \in [Instance -> SUBSET Exchange]
  <2>1. CASE RecordAccepted(x)
    BY <2>1 DEF RecordAccepted, TypeInv, TypeOK
  <2>2. CASE CompleteAccepted(x)
    BY <2>2 DEF CompleteAccepted, Approve, TypeInv, TypeOK, Flag
  <2>3. CASE RecordRejected(x)
    BY <2>3 DEF RecordRejected, TypeInv, TypeOK
  <2>4. CASE CompleteRejected(x)
    BY <2>4 DEF CompleteRejected, TypeInv, TypeOK, Flag
  <2> QED
    BY <2>1, <2>2, <2>3, <2>4
<1>3. TypeOK'
  BY <1>1, <1>2 DEF TypeInv, TypeOK, ResponseStatus, AcceptStatus, RejectStatus
<1>4. OriginsAppended' /\ RequestsFollowVerdicts'
  BY <1>1, OnlyMessages
<1>5. HandlersHoldStates' /\ ResponsesFollowRequests'
  BY <1>1 DEF TypeInv, TypeOK, HandlersHoldStates, ResponsesFollowRequests
<1> QED
  BY <1>3, <1>4, <1>5 DEF TypeInv

\* A crash loses handlers and messages, and nothing that was appended.
LEMMA CrashKeepsTypes ==
  ASSUME TypeInv, NEW o \in Organization, NEW missed \in SUBSET InTransit(o)
  PROVE  Crash(o, missed) => TypeInv'
<1> SUFFICES ASSUME Crash(o, missed) PROVE TypeInv'
  OBVIOUS
<1>1. opened' \subseteq Instance /\ crashes' \in 0 .. MaxCrash
  BY ProtocolAssumption DEF Crash, VerdictAfterCrash, TypeInv, TypeOK, ProtocolAssumption
<1>2. launchRule' \in [Instance -> Verdict] /\ rule' \in [Instance -> [Slot -> Verdict]]
  BY DEF Crash, VerdictAfterCrash, TypeInv, TypeOK, Verdict
<1>3. client' \in [Client -> Request \union {NoRequest}]
  BY DEF Crash, VerdictAfterCrash, TypeInv, TypeOK
<1>4. \A x \in Exchange :
        /\ request'[x] = request[x] \/ (request'[x] = "lost" /\
             request[x] \in {"ready", "sent", "handling"})
        /\ \/ response'[x] = response[x]
           \/ response[x] # "none" /\ response'[x] \in {"acceptLost", "acceptCut", "rejectLost", "rejectCut"}
  BY DEF Crash, VerdictAfterCrash, RequestAfterCrash, ResponseAfterCrash
<1>5. /\ request' \in [Exchange -> RequestStatus]
      /\ response' \in [Exchange -> ResponseStatus]
  <2>1. /\ request' = [x \in Exchange |-> RequestAfterCrash(o, x, missed)]
        /\ response' = [x \in Exchange |-> ResponseAfterCrash(o, x, missed)]
    BY DEF Crash, VerdictAfterCrash
  <2> QED
    BY <1>4, <2>1 DEF TypeInv, TypeOK, RequestStatus, ResponseStatus, AcceptStatus, RejectStatus
<1>6. seen' \in [Exchange -> State \union {NoState}]
  BY DEF Crash, VerdictAfterCrash, TypeInv, TypeOK
<1>7. TypeOK'
  BY <1>1, <1>2, <1>3, <1>5, <1>6 DEF Crash, VerdictAfterCrash, view, TypeInv, TypeOK
<1>8. /\ log' = log /\ receiver' = receiver
      /\ \A i \in Instance : \A n \in Slot :
           rule[i][n] \in {"accepted", "rejected"} => rule'[i][n] = rule[i][n]
  BY DEF Crash, VerdictAfterCrash
<1>9. OriginsAppended' /\ LogsGrow
  BY <1>4, <1>8, LogUnchanged
<1>10. RequestsFollowVerdicts' /\ ResponsesFollowRequests'
  <2>1. \A x \in Exchange : request[x] = "none" => request'[x] = "none"
    BY <1>4
  <2> QED
    BY <1>4, <1>9, <2>1, VerdictsStand DEF TypeInv, ResponsesFollowRequests
<1>11. HandlersHoldStates'
  <2> SUFFICES ASSUME NEW x \in Exchange
               PROVE  /\ request'[x] = "handling" =>
                           receiver'[x] \in Instance /\ seen'[x] \in State /\ response'[x] = "none"
                      /\ response'[x] = "acking" => seen'[x] \in State
    BY DEF HandlersHoldStates
  <2>1. request'[x] = "handling" =>
          request[x] = "handling" /\ Owner(receiver[x]) # o /\ response[x] = "none"
    BY DEF Crash, VerdictAfterCrash, RequestAfterCrash, TypeInv, HandlersHoldStates
  <2>2. response'[x] = "acking" =>
          response[x] = "acking" /\ Owner(x[1]) # o /\ request[x] # "handling"
    BY DEF Crash, VerdictAfterCrash, ResponseAfterCrash, TypeInv, HandlersHoldStates
  <2>3. \/ request[x] = "handling" /\ Owner(receiver[x]) # o /\ response[x] = "none"
        \/ response[x] = "acking" /\ Owner(x[1]) # o /\ request[x] # "handling"
        => seen'[x] = seen[x]
    BY DEF Crash, VerdictAfterCrash
  <2> QED
    BY <1>4, <1>8, <2>1, <2>2, <2>3 DEF TypeInv, HandlersHoldStates
<1> QED
  BY <1>7, <1>9, <1>10, <1>11 DEF TypeInv

\* Every step keeps the invariant.
LEMMA TypeStep == TypeInv /\ [Next]_vars => TypeInv'
<1> SUFFICES ASSUME TypeInv, [Next]_vars PROVE TypeInv'
  OBVIOUS
<1>1. CASE \E i \in Instance :
             \/ \E outcome \in RuleOutcome : LaunchVerdict(i, outcome)
             \/ OpenExternalEvents(i)
             \/ ClientLaunch(i)
  BY <1>1, LaunchingKeepsTypes
<1>2. CASE \E i \in Instance : \E n \in 1 .. Len(log[i]), outcome \in RuleOutcome :
             LocalTransitionVerdict(i, n, outcome) \/ ReceivedTransitionVerdict(i, n, outcome)
  BY <1>2, VerdictKeepsTypes
<1>3. CASE \E x \in Exchange : \/ SendRequest(x) \/ SendRequestFails(x)
                               \/ SendResponse(x) \/ SendResponseFails(x)
  BY <1>3, SendKeepsTypes
<1>4. CASE \E x \in Exchange, i \in Instance : DeliverToInstance(x, i) \/ DeliverToWorkflow(x, i)
  BY <1>4, DeliverKeepsTypes
<1>5. CASE \E x \in Exchange : IgnoreRequest(x) \/ RefuseRequest(x) \/ AppendReceived(x)
  BY <1>5, DeclineKeepsTypes, ReceiveKeepsTypes
<1>6. CASE \E x \in Exchange : \/ ReadAcknowledged(x) \/ AppendAcknowledged(x)
                               \/ RecordAccepted(x) \/ CompleteAccepted(x)
                               \/ RecordRejected(x) \/ CompleteRejected(x)
  BY <1>6, AcknowledgeKeepsTypes, RecordKeepsTypes
<1>7. CASE \E c \in Client : \/ ClientAppend(c)
                             \/ \E i \in Instance, e \in Event : ClientRead(c, i, e)
  BY <1>7, ClientKeepsTypes
<1>8. CASE \E o \in Organization : \E missed \in SUBSET InTransit(o) : Crash(o, missed)
  BY <1>8, CrashKeepsTypes
<1>9. CASE UNCHANGED vars
  BY <1>9 DEF vars, view, TypeInv, TypeOK, HandlersHoldStates, OriginsAppended,
              ResponsesFollowRequests, RequestsFollowVerdicts
<1> QED
  BY <1>1, <1>2, <1>3, <1>4, <1>5, <1>6, <1>7, <1>8, <1>9 DEF Next, Handler, Environment

\* The first half of the inductive invariant holds always.
LEMMA TypeInvariant == Spec => []TypeInv
BY TypeInit, TypeStep, PTL DEF Spec

\* Every variable keeps its type, through every interleaving of handlers, clients,
\* lost messages and crashes.
THEOREM TypeCorrect == Spec => []TypeOK
<1>1. TypeInv => TypeOK
  BY DEF TypeInv
<1> QED
  BY <1>1, TypeInvariant, PTL

-----------------------------------------------------------------------------
(* What every step does to logs and verdicts *)

\* A message whose handler ended stays where it is.
EndedRequestsStay ==
  \A x \in Exchange : request[x] \in {"appended", "refused"} => request'[x] = request[x]

\* A received transition is only appended for a message that is being handled.
NewOriginsHandled ==
  \A j \in Instance : \A m \in 1 .. Len(log'[j]) :
    \/ m \in 1 .. Len(log[j])
    \/ log'[j][m].origin = NoExchange
    \/ log'[j][m].origin \in Exchange /\ request[log'[j][m].origin] = "handling"

\* An appended transition is the only new one.
LEMMA AppendNewOrigins ==
  ASSUME TypeInv, NEW i \in Instance, NEW from, NEW to, NEW origin,
         AppendTransition(i, from, to, origin),
         origin # NoExchange => origin \in Exchange /\ request[origin] = "handling"
  PROVE  NewOriginsHandled /\ LogsGrow
<1>1. /\ LogsGrow
      /\ Len(log'[i]) = Len(log[i]) + 1
      /\ log'[i][Len(log[i]) + 1] = [from |-> from, to |-> to, origin |-> origin]
      /\ \A j \in Instance \ {i} : log'[j] = log[j]
  BY AppendGrows DEF TypeInv
<1>2. \A j \in Instance : Len(log[j]) \in Nat
  BY DEF TypeInv, TypeOK
<1> SUFFICES ASSUME NEW j \in Instance, NEW m \in 1 .. Len(log'[j]), m \notin 1 .. Len(log[j])
             PROVE  \/ log'[j][m].origin = NoExchange
                    \/ log'[j][m].origin \in Exchange /\ request[log'[j][m].origin] = "handling"
  BY <1>1 DEF NewOriginsHandled
<1>3. j = i /\ m = Len(log[i]) + 1
  BY <1>1, <1>2
<1> QED
  BY <1>1, <1>3

\* Steps that append nothing.
LEMMA QuietFacts ==
  ASSUME TypeInv, log' = log, EndedRequestsStay,
         \A i \in Instance : \A n \in Slot :
           rule[i][n] \in {"accepted", "rejected"} => rule'[i][n] = rule[i][n]
  PROVE  LogsGrow /\ NewOriginsHandled
<1>1. LogsGrow
  BY LogUnchanged DEF EndedRequestsStay
<1>2. NewOriginsHandled
  BY DEF NewOriginsHandled
<1> QED
  BY <1>1, <1>2

\* What every step guarantees.
LEMMA StepFacts == TypeInv /\ [Next]_vars => LogsGrow /\ EndedRequestsStay /\ NewOriginsHandled
<1> SUFFICES ASSUME TypeInv, [Next]_vars
             PROVE  LogsGrow /\ EndedRequestsStay /\ NewOriginsHandled
  OBVIOUS
<1>1. CASE \E i \in Instance :
             \/ \E outcome \in RuleOutcome : LaunchVerdict(i, outcome)
             \/ OpenExternalEvents(i)
             \/ ClientLaunch(i)
  <2>1. UNCHANGED <<log, rule, request>>
    BY <1>1 DEF LaunchVerdict, OpenExternalEvents, ClientLaunch
  <2> QED
    BY <2>1, QuietFacts DEF EndedRequestsStay
<1>2. CASE \E i \in Instance : \E n \in 1 .. Len(log[i]), outcome \in RuleOutcome :
             LocalTransitionVerdict(i, n, outcome)
  <2> PICK i \in Instance :
        \E n \in 1 .. Len(log[i]), outcome \in RuleOutcome : LocalTransitionVerdict(i, n, outcome)
    BY <1>2
  <2>1. PICK n \in 1 .. Len(log[i]), outcome \in RuleOutcome : LocalTransitionVerdict(i, n, outcome)
    OBVIOUS
  <2>2. EndedRequestsStay
    BY <2>1 DEF LocalTransitionVerdict, EndedRequestsStay, TypeInv, RequestsFollowVerdicts
  <2>3. \A j \in Instance : \A m \in Slot :
          rule[j][m] \in {"accepted", "rejected"} => rule'[j][m] = rule[j][m]
    BY <2>1 DEF LocalTransitionVerdict, TypeInv, TypeOK
  <2> QED
    BY <2>1, <2>2, <2>3, QuietFacts DEF LocalTransitionVerdict
<1>3. CASE \E i \in Instance : \E n \in 1 .. Len(log[i]), outcome \in RuleOutcome :
             ReceivedTransitionVerdict(i, n, outcome)
  <2> PICK i \in Instance :
        \E n \in 1 .. Len(log[i]), outcome \in RuleOutcome : ReceivedTransitionVerdict(i, n, outcome)
    BY <1>3
  <2>1. PICK n \in 1 .. Len(log[i]), outcome \in RuleOutcome : ReceivedTransitionVerdict(i, n, outcome)
    OBVIOUS
  <2>2. \A j \in Instance : \A m \in Slot :
          rule[j][m] \in {"accepted", "rejected"} => rule'[j][m] = rule[j][m]
    BY <2>1 DEF ReceivedTransitionVerdict, TypeInv, TypeOK
  <2> QED
    BY <2>1, <2>2, QuietFacts DEF ReceivedTransitionVerdict, EndedRequestsStay
<1>4. CASE \E x \in Exchange : \/ SendRequest(x) \/ SendRequestFails(x)
                               \/ SendResponse(x) \/ SendResponseFails(x)
                               \/ IgnoreRequest(x) \/ RefuseRequest(x)
                               \/ \E i \in Instance : DeliverToInstance(x, i) \/ DeliverToWorkflow(x, i)
  <2>1. /\ UNCHANGED <<log, rule>>
        /\ \/ request' = request
           \/ \E x \in Exchange, r \in RequestStatus :
                /\ request[x] \in {"ready", "sent", "handling"}
                /\ request' = [request EXCEPT ![x] = r]
    BY <1>4 DEF SendRequest, SendRequestFails, SendResponse, SendResponseFails, IgnoreRequest,
                RefuseRequest, DeliverToInstance, DeliverToWorkflow, RequestStatus
  <2>2. EndedRequestsStay
    BY <2>1 DEF EndedRequestsStay, TypeInv, TypeOK
  <2> QED
    BY <2>1, <2>2, QuietFacts
<1>5. CASE \E x \in Exchange : \/ ReadAcknowledged(x) \/ RecordAccepted(x) \/ CompleteAccepted(x)
                               \/ RecordRejected(x) \/ CompleteRejected(x)
  <2>1. UNCHANGED <<log, rule, request>>
    BY <1>5 DEF ReadAcknowledged, RecordAccepted, CompleteAccepted, RecordRejected, CompleteRejected
  <2> QED
    BY <2>1, QuietFacts DEF EndedRequestsStay
<1>6. CASE \E c \in Client, i \in Instance, e \in Event : ClientRead(c, i, e)
  <2>1. UNCHANGED <<log, rule, request>>
    BY <1>6 DEF ClientRead
  <2> QED
    BY <2>1, QuietFacts DEF EndedRequestsStay
<1>7. CASE \E o \in Organization : \E missed \in SUBSET InTransit(o) : Crash(o, missed)
  <2>1. /\ log' = log
        /\ \A j \in Instance : \A m \in Slot :
             rule[j][m] \in {"accepted", "rejected"} => rule'[j][m] = rule[j][m]
    BY <1>7 DEF Crash, VerdictAfterCrash
  <2>2. EndedRequestsStay
    BY <1>7 DEF Crash, VerdictAfterCrash, RequestAfterCrash, EndedRequestsStay
  <2> QED
    BY <2>1, <2>2, QuietFacts
<1>8. CASE UNCHANGED vars
  <2>1. UNCHANGED <<log, rule, request>>
    BY <1>8 DEF vars
  <2> QED
    BY <2>1, QuietFacts DEF EndedRequestsStay
<1>9. CASE \E c \in Client : ClientAppend(c)
  <2>1. PICK c \in Client : ClientAppend(c)
    BY <1>9
  <2>2. client[c].instance \in Instance
    BY <2>1 DEF ClientAppend, TypeInv, TypeOK, Request
  <2>3. /\ AppendTransition(client[c].instance, client[c].from, client[c].to, NoExchange)
        /\ request' = request
    BY <2>1 DEF ClientAppend
  <2>4. LogsGrow /\ NewOriginsHandled
    BY <2>2, <2>3, AppendNewOrigins
  <2> QED
    BY <2>3, <2>4 DEF EndedRequestsStay
<1>10. CASE \E x \in Exchange : AppendReceived(x)
  <2>1. PICK x \in Exchange : AppendReceived(x)
    BY <1>10
  <2>2. receiver[x] \in Instance /\ request[x] = "handling"
    BY <2>1 DEF AppendReceived, TypeInv, HandlersHoldStates
  <2>3. EndedRequestsStay
    BY <2>1, <2>2 DEF AppendReceived, EndedRequestsStay, TypeInv, TypeOK
  <2> QED
    BY <2>1, <2>2, <2>3, AppendNewOrigins DEF AppendReceived
<1>11. CASE \E x \in Exchange : AppendAcknowledged(x)
  <2>1. PICK x \in Exchange : AppendAcknowledged(x)
    BY <1>11
  <2>2. x[1] \in Instance
    BY ExchangeType
  <2>3. /\ \E to : AppendTransition(x[1], seen[x], to, NoExchange)
        /\ request' = request
    BY <2>1 DEF AppendAcknowledged
  <2>4. LogsGrow /\ NewOriginsHandled
    BY <2>2, <2>3, AppendNewOrigins
  <2> QED
    BY <2>3, <2>4 DEF EndedRequestsStay
<1> QED
  BY <1>1, <1>2, <1>3, <1>4, <1>5, <1>6, <1>7, <1>8, <1>9, <1>10, <1>11
     DEF Next, Handler, Environment

-----------------------------------------------------------------------------
(* What stays true of a decision *)

\* Approvals and denials stand, and whom an instance may count as acknowledged stays so.
LEMMA DecisionsStay ==
  ASSUME TypeInv, LogsGrow, EndedRequestsStay, NewOriginsHandled
  PROVE  /\ Approvals \subseteq Approvals'
         /\ Denials \subseteq Denials'
         /\ \A i \in Instance : Backed[i] \subseteq Backed'[i]
<1>1. \A j \in Instance : Len(log[j]) \in Nat
  BY DEF TypeInv, TypeOK
<1>2. Approvals \subseteq Approvals'
  <2> SUFFICES ASSUME NEW x \in Exchange, Approved(x)
               PROVE  Approved(x)'
    BY DEF Approvals
  <2> PICK j \in Instance :
        \E m \in 1 .. Len(log[j]) : log[j][m].origin = x /\ rule[j][m] = "accepted"
    BY DEF Approved
  <2>1. PICK m \in 1 .. Len(log[j]) : log[j][m].origin = x /\ rule[j][m] = "accepted"
    OBVIOUS
  <2>2. m \in 1 .. Len(log'[j]) /\ log'[j][m].origin = x /\ rule'[j][m] = "accepted"
    BY <1>1, <2>1 DEF LogsGrow
  <2> QED
    BY <2>2 DEF Approved
<1>3. Denials \subseteq Denials'
  <2> SUFFICES ASSUME NEW x \in Denials PROVE x \in Denials'
    OBVIOUS
  <2>1. /\ x \in Exchange /\ request[x] \in {"appended", "refused"}
        /\ \A j \in Instance : \A m \in 1 .. Len(log[j]) :
             log[j][m].origin = x => rule[j][m] = "rejected"
    BY DEF Denials
  <2>2. request'[x] \in {"appended", "refused"}
    BY <2>1 DEF EndedRequestsStay
  <2>3. ASSUME NEW j \in Instance, NEW m \in 1 .. Len(log'[j]), log'[j][m].origin = x
        PROVE  rule'[j][m] = "rejected"
    <3>1. x # NoExchange
      BY <2>1, ProtocolAssumption DEF ProtocolAssumption
    <3>2. m \in 1 .. Len(log[j])
      BY <2>1, <2>3, <3>1 DEF NewOriginsHandled
    <3> QED
      BY <2>1, <2>3, <3>2 DEF LogsGrow
  <2> QED
    BY <2>1, <2>2, <2>3 DEF Denials
<1>4. \A i \in Instance : Backed[i] \subseteq Backed'[i]
  <2> SUFFICES ASSUME NEW i \in Instance, NEW p \in Backed[i] PROVE p \in Backed'[i]
    OBVIOUS
  <2>1. p \in Participant
    BY DEF Backed
  <2>2. PICK n \in 1 .. Len(log[i]) : rule[i][n] = "accepted" /\ <<i, n, p>> \in Approvals
    BY DEF Backed
  <2>3. n \in 1 .. Len(log'[i]) /\ rule'[i][n] = "accepted"
    BY <1>1, <2>2 DEF LogsGrow
  <2>4. <<i, n, p>> \in Approvals'
    BY <1>2, <2>2
  <2> QED
    BY <2>1, <2>3, <2>4 DEF Backed
<1> QED
  BY <1>2, <1>3, <1>4

\* What a step may rely on: the invariant holds, and decisions stay.
StepContext ==
  /\ TypeInv /\ SafetyInv
  /\ LogsGrow /\ EndedRequestsStay /\ NewOriginsHandled
  /\ Approvals \subseteq Approvals'
  /\ Denials \subseteq Denials'
  /\ \A i \in Instance : Backed[i] \subseteq Backed'[i]

\* What the proofs of single steps use: both halves of the invariant, and sets that only grow.
LEMMA ContextOfStep == TypeInv /\ SafetyInv /\ [Next]_vars => StepContext
BY StepFacts, DecisionsStay DEF StepContext

-----------------------------------------------------------------------------
(* Parts of the invariant that a step does not touch *)

\* No transition is appended.
LEMMA HistoryKept ==
  ASSUME StepContext, log' = log
  PROVE  AppliedAtMostOnce' /\ LoggedStepsMayLeave'
<1>1. AppliedAtMostOnce'
  BY DEF StepContext, SafetyInv, AppliedAtMostOnce
<1>2. LoggedStepsMayLeave'
  <2> SUFFICES ASSUME NEW i \in Instance, NEW n \in 1 .. Len(log[i])
               PROVE  MayLeave(WorkflowOf[i], log[i][n].from, log[i][n].to, Backed'[i])
    BY DEF LoggedStepsMayLeave
  <2>1. MayLeave(WorkflowOf[i], log[i][n].from, log[i][n].to, Backed[i])
    BY DEF StepContext, SafetyInv, LoggedStepsMayLeave
  <2>2. Backed[i] \subseteq Backed'[i]
    BY DEF StepContext
  <2> QED
    BY <2>1, <2>2 DEF MayLeave
<1> QED
  BY <1>1, <1>2

\* The records about participants do not change, or are reset.
LEMMA RecordsKept ==
  ASSUME StepContext,
         \A i \in Instance : /\ participantsAccepted'[i] \subseteq participantsAccepted[i]
                             /\ participantsRejected'[i] \subseteq participantsRejected[i]
  PROVE  RecordsMatchResponses'
BY DEF StepContext, SafetyInv, RecordsMatchResponses

\* Responses move on without changing what they say.
LEMMA ResponsesKept ==
  ASSUME StepContext,
         \A x \in Exchange : /\ response'[x] \in AcceptStatus => response[x] \in AcceptStatus
                             /\ response'[x] \in RejectStatus => response[x] \in RejectStatus
  PROVE  ResponsesMatchDecisions'
BY DEF StepContext, SafetyInv, ResponsesMatchDecisions

\* No instance is advanced.
LEMMA CurrentStatesKept ==
  ASSUME StepContext, currentState' = currentState
  PROVE  CurrentStatesEarned'
BY DEF StepContext, SafetyInv, CurrentStatesEarned

\* Client requests stay or end.
LEMMA ClientsKept ==
  ASSUME StepContext, \A c \in Client : client'[c] \in {client[c], NoRequest}
  PROVE  ClientStatesEarned' /\ ClientStepsMayLeave'
<1> SUFFICES ASSUME NEW c \in Client, client'[c] # NoRequest
             PROVE  /\ client'[c].to.acked \subseteq Backed'[client'[c].instance]
                    /\ MayLeave(WorkflowOf[client'[c].instance], client'[c].from, client'[c].to,
                         Backed'[client'[c].instance])
  BY DEF ClientStatesEarned, ClientStepsMayLeave
<1>1. client'[c] = client[c] /\ client[c] # NoRequest
  OBVIOUS
<1>2. client[c].instance \in Instance
  BY <1>1 DEF StepContext, TypeInv, TypeOK, Request
<1>3. Backed[client[c].instance] \subseteq Backed'[client[c].instance]
  BY <1>2 DEF StepContext
<1>4. client[c].to.acked \subseteq Backed[client[c].instance]
  BY <1>1 DEF StepContext, SafetyInv, ClientStatesEarned
<1>5. MayLeave(WorkflowOf[client[c].instance], client[c].from, client[c].to,
        Backed[client[c].instance])
  BY <1>1 DEF StepContext, SafetyInv, ClientStepsMayLeave
<1> QED
  BY <1>1, <1>3, <1>4, <1>5 DEF MayLeave

\* Handlers keep what they hold, or end.
LEMMA HandlersKept ==
  ASSUME StepContext,
         \A x \in Exchange :
           /\ request'[x] = "handling" =>
                request[x] = "handling" /\ receiver'[x] = receiver[x] /\ seen'[x] = seen[x]
           /\ response'[x] = "acking" => response[x] = "acking" /\ seen'[x] = seen[x]
  PROVE  HandlerStatesEarned'
<1> SUFFICES ASSUME NEW x \in Exchange
             PROVE  /\ request'[x] = "handling" => seen'[x].acked \subseteq Backed'[receiver'[x]]
                    /\ response'[x] = "acking" => seen'[x].acked \subseteq Backed'[x[1]]
  BY DEF HandlerStatesEarned
<1>1. ASSUME request'[x] = "handling" PROVE seen'[x].acked \subseteq Backed'[receiver'[x]]
  <2>1. receiver[x] \in Instance /\ seen[x].acked \subseteq Backed[receiver[x]]
    BY <1>1 DEF StepContext, TypeInv, HandlersHoldStates, SafetyInv, HandlerStatesEarned
  <2> QED
    BY <1>1, <2>1 DEF StepContext
<1>2. ASSUME response'[x] = "acking" PROVE seen'[x].acked \subseteq Backed'[x[1]]
  <2>1. x[1] \in Instance /\ seen[x].acked \subseteq Backed[x[1]]
    BY <1>2, ExchangeType DEF StepContext, SafetyInv, HandlerStatesEarned
  <2> QED
    BY <1>2, <2>1 DEF StepContext
<1> QED
  BY <1>1, <1>2


-----------------------------------------------------------------------------
(* One lemma per kind of step *)

\* Steps that change no instance, and no message beyond moving it on.
LEMMA QuietStep ==
  ASSUME StepContext,
         UNCHANGED <<log, currentState, participantsAccepted, participantsRejected>>,
         \A c \in Client : client'[c] \in {client[c], NoRequest},
         \A x \in Exchange :
           /\ response'[x] \in AcceptStatus => response[x] \in AcceptStatus
           /\ response'[x] \in RejectStatus => response[x] \in RejectStatus
           /\ request'[x] = "handling" =>
                request[x] = "handling" /\ receiver'[x] = receiver[x] /\ seen'[x] = seen[x]
           /\ response'[x] = "acking" => response[x] = "acking" /\ seen'[x] = seen[x]
  PROVE  SafetyInv'
<1>1. AppliedAtMostOnce' /\ LoggedStepsMayLeave'
  BY HistoryKept
<1>2. RecordsMatchResponses' /\ CurrentStatesEarned'
  BY RecordsKept, CurrentStatesKept
<1>3. ResponsesMatchDecisions'
  BY ResponsesKept
<1>4. ClientStatesEarned' /\ ClientStepsMayLeave'
  BY ClientsKept
<1>5. HandlerStatesEarned'
  BY HandlersKept
<1> QED
  BY <1>1, <1>2, <1>3, <1>4, <1>5 DEF SafetyInv

\* An appended transition, if its state is as well earned as it has to be.
LEMMA AppendStep ==
  ASSUME StepContext, NEW i \in Instance, NEW from, NEW to, NEW origin,
         AppendTransition(i, from, to, origin),
         to.acked \subseteq Backed[i],
         MayLeave(WorkflowOf[i], from, to, Backed[i]),
         origin # NoExchange => origin \in Exchange /\ request[origin] = "handling"
  PROVE  /\ AppliedAtMostOnce' /\ LoggedStepsMayLeave'
         /\ CurrentStatesEarned' /\ RecordsMatchResponses'
<1> DEFINE k == Len(log[i]) + 1
<1>1. /\ Len(log'[i]) = k
      /\ log'[i][k] = [from |-> from, to |-> to, origin |-> origin]
      /\ \A j \in Instance \ {i} : log'[j] = log[j]
      /\ \A n \in 1 .. Len(log[i]) : log'[i][n] = log[i][n]
  BY AppendGrows DEF StepContext, TypeInv
<1>2. \A j \in Instance : Len(log[j]) \in Nat
  BY DEF StepContext, TypeInv, TypeOK
<1>3. \A j \in Instance : Backed[j] \subseteq Backed'[j]
  BY DEF StepContext
<1>4. \A j \in Instance : \A n \in 1 .. Len(log'[j]) :
        \/ j = i /\ n = k
        \/ n \in 1 .. Len(log[j]) /\ log'[j][n] = log[j][n]
  BY <1>1, <1>2
<1>5. AppliedAtMostOnce'
  <2> SUFFICES ASSUME NEW a \in Instance, NEW b \in Instance,
                      NEW n \in 1 .. Len(log'[a]), NEW m \in 1 .. Len(log'[b]),
                      log'[a][n].origin = log'[b][m].origin, log'[a][n].origin # NoExchange
               PROVE  a = b /\ n = m
    BY DEF AppliedAtMostOnce
  <2>1. \A j \in Instance : \A l \in 1 .. Len(log[j]) :
          log[j][l].origin # NoExchange => request[log[j][l].origin] # "handling"
    BY DEF StepContext, TypeInv, OriginsAppended
  <2>2. CASE (a = i /\ n = k) /\ (b = i /\ m = k)
    BY <2>2
  <2>3. CASE (a = i /\ n = k) /\ ~(b = i /\ m = k)
    <3>1. m \in 1 .. Len(log[b]) /\ log'[b][m] = log[b][m]
      BY <1>4, <2>3
    <3>2. log[b][m].origin = origin /\ origin # NoExchange
      BY <1>1, <2>3, <3>1
    <3> QED
      BY <2>1, <3>1, <3>2
  <2>4. CASE ~(a = i /\ n = k) /\ (b = i /\ m = k)
    <3>1. n \in 1 .. Len(log[a]) /\ log'[a][n] = log[a][n]
      BY <1>4, <2>4
    <3>2. log[a][n].origin = origin /\ origin # NoExchange
      BY <1>1, <2>4, <3>1
    <3> QED
      BY <2>1, <3>1, <3>2
  <2>5. CASE ~(a = i /\ n = k) /\ ~(b = i /\ m = k)
    <3>1. /\ n \in 1 .. Len(log[a]) /\ log'[a][n] = log[a][n]
          /\ m \in 1 .. Len(log[b]) /\ log'[b][m] = log[b][m]
      BY <1>4, <2>5
    <3>2. AppliedAtMostOnce
      BY DEF StepContext, SafetyInv
    <3> QED
      BY <3>1, <3>2 DEF AppliedAtMostOnce
  <2> QED
    BY <2>2, <2>3, <2>4, <2>5
<1>6. LoggedStepsMayLeave'
  <2> SUFFICES ASSUME NEW j \in Instance, NEW n \in 1 .. Len(log'[j])
               PROVE  MayLeave(WorkflowOf[j], log'[j][n].from, log'[j][n].to, Backed'[j])
    BY DEF LoggedStepsMayLeave
  <2>1. CASE j = i /\ n = k
    BY <1>1, <1>3, <2>1 DEF MayLeave
  <2>2. CASE ~(j = i /\ n = k)
    <3>1. MayLeave(WorkflowOf[j], log[j][n].from, log[j][n].to, Backed[j])
      BY <1>4, <2>2 DEF StepContext, SafetyInv, LoggedStepsMayLeave
    <3> QED
      BY <1>3, <1>4, <2>2, <3>1 DEF MayLeave
  <2> QED
    BY <2>1, <2>2
<1>7. CurrentStatesEarned'
  <2>1. currentState' = [currentState EXCEPT ![i] = to]
    BY DEF AppendTransition
  <2> QED
    BY <1>3, <2>1 DEF StepContext, SafetyInv, TypeInv, TypeOK, CurrentStatesEarned
<1>8. RecordsMatchResponses'
  <2>1. \A j \in Instance : /\ participantsAccepted'[j] \subseteq participantsAccepted[j]
                            /\ participantsRejected'[j] \subseteq participantsRejected[j]
    BY DEF AppendTransition, StepContext, TypeInv, TypeOK
  <2> QED
    BY <2>1, RecordsKept
<1> QED
  BY <1>5, <1>6, <1>7, <1>8


\* Launches, rule checks of one's own transitions, and everything that is lost.
LEMMA QuietActions ==
  ASSUME StepContext,
         \/ \E i \in Instance : \/ \E outcome \in RuleOutcome : LaunchVerdict(i, outcome)
                                \/ OpenExternalEvents(i)
                                \/ ClientLaunch(i)
         \/ \E i \in Instance : \E n \in 1 .. Len(log[i]), outcome \in RuleOutcome :
              LocalTransitionVerdict(i, n, outcome)
         \/ \E x \in Exchange : \/ SendRequest(x) \/ SendRequestFails(x)
                                \/ SendResponse(x) \/ SendResponseFails(x)
                                \/ IgnoreRequest(x)
                                \/ CompleteAccepted(x) \/ CompleteRejected(x)
         \/ \E o \in Organization : \E missed \in SUBSET InTransit(o) : Crash(o, missed)
         \/ UNCHANGED vars
  PROVE  SafetyInv'
<1>1. UNCHANGED <<log, currentState, participantsAccepted, participantsRejected>>
  BY DEF LaunchVerdict, OpenExternalEvents, ClientLaunch, LocalTransitionVerdict, SendRequest,
         SendRequestFails, SendResponse, SendResponseFails, IgnoreRequest, CompleteAccepted,
         CompleteRejected, Crash, vars, view
<1>2. \A c \in Client : client'[c] \in {client[c], NoRequest}
  BY DEF LaunchVerdict, OpenExternalEvents, ClientLaunch, LocalTransitionVerdict, SendRequest,
         SendRequestFails, SendResponse, SendResponseFails, IgnoreRequest, CompleteAccepted,
         CompleteRejected, Crash, vars
<1>3. ASSUME NEW x \in Exchange
      PROVE  /\ response'[x] \in AcceptStatus => response[x] \in AcceptStatus
             /\ response'[x] \in RejectStatus => response[x] \in RejectStatus
             /\ request'[x] = "handling" =>
                  request[x] = "handling" /\ receiver'[x] = receiver[x] /\ seen'[x] = seen[x]
             /\ response'[x] = "acking" => response[x] = "acking" /\ seen'[x] = seen[x]
  <2>1. TypeOK /\ HandlersHoldStates
    BY DEF StepContext, TypeInv
  <2>2. CASE \E i \in Instance : \/ \E outcome \in RuleOutcome : LaunchVerdict(i, outcome)
                                 \/ OpenExternalEvents(i)
                                 \/ ClientLaunch(i)
    BY <2>2 DEF LaunchVerdict, OpenExternalEvents, ClientLaunch
  <2>3. CASE \E i \in Instance : \E n \in 1 .. Len(log[i]), outcome \in RuleOutcome :
               LocalTransitionVerdict(i, n, outcome)
    BY <2>3 DEF LocalTransitionVerdict
  <2>4. CASE \E y \in Exchange : SendRequest(y) \/ SendRequestFails(y)
    BY <2>1, <2>4 DEF SendRequest, SendRequestFails, TypeOK
  <2>5. CASE \E y \in Exchange : SendResponse(y) \/ SendResponseFails(y)
    BY <2>1, <2>5 DEF SendResponse, SendResponseFails, TypeOK, AcceptStatus, RejectStatus
  <2>6. CASE \E y \in Exchange : IgnoreRequest(y)
    BY <2>1, <2>6 DEF IgnoreRequest, TypeOK, HandlersHoldStates
  <2>7. CASE \E y \in Exchange : CompleteAccepted(y) \/ CompleteRejected(y)
    BY <2>1, <2>7 DEF CompleteAccepted, CompleteRejected, TypeOK, AcceptStatus, RejectStatus
  <2>8. CASE \E o \in Organization : \E missed \in SUBSET InTransit(o) : Crash(o, missed)
    <3> PICK o \in Organization : \E missed \in SUBSET InTransit(o) : Crash(o, missed)
      BY <2>8
    <3>1. PICK missed \in SUBSET InTransit(o) : Crash(o, missed)
      OBVIOUS
    <3>2. /\ response'[x] \in AcceptStatus => response[x] \in AcceptStatus
          /\ response'[x] \in RejectStatus => response[x] \in RejectStatus
      BY <3>1 DEF Crash, VerdictAfterCrash, ResponseAfterCrash, AcceptStatus, RejectStatus
    <3>3. request'[x] = "handling" =>
            request[x] = "handling" /\ receiver'[x] = receiver[x] /\ seen'[x] = seen[x]
      BY <2>1, <3>1 DEF Crash, VerdictAfterCrash, RequestAfterCrash, HandlersHoldStates
    <3>4. response'[x] = "acking" => response[x] = "acking" /\ seen'[x] = seen[x]
      BY <2>1, <3>1 DEF Crash, VerdictAfterCrash, ResponseAfterCrash, HandlersHoldStates
    <3> QED
      BY <3>2, <3>3, <3>4
  <2>9. CASE UNCHANGED vars
    BY <2>9 DEF vars
  <2> QED
    BY <2>2, <2>3, <2>4, <2>5, <2>6, <2>7, <2>8, <2>9
<1> QED
  BY <1>1, <1>2, <1>3, QuietStep

\* A client computes the next state from the current one.
LEMMA ClientReadSafe ==
  ASSUME StepContext, NEW c \in Client, NEW i \in Instance, NEW e \in Event, ClientRead(c, i, e)
  PROVE  SafetyInv'
<1> DEFINE s  == currentState[i]
           to == Fire(WorkflowOf[i], s, e, NoInstance)
<1>1. /\ client' = [client EXCEPT ![c] = [instance |-> i, from |-> s, to |-> to]]
      /\ UNCHANGED <<log, currentState, participantsAccepted, participantsRejected, request,
           response, receiver, seen>>
  BY DEF ClientRead, view
<1>2. s \in State /\ WorkflowOf[i] \in Workflow
  BY ProtocolAssumption DEF StepContext, TypeInv, TypeOK, ProtocolAssumption
<1>3. s.acked \subseteq Backed[i] /\ Backed[i] \subseteq Backed'[i]
  BY DEF StepContext, SafetyInv, CurrentStatesEarned
<1>4. to.acked \subseteq s.acked
  BY <1>2, FireType
<1>5. MayLeave(WorkflowOf[i], s, to, Backed'[i])
  <2> SUFFICES ASSUME IsExternal(WorkflowOf[i], s), to.activity # s.activity
               PROVE  \E A \in SUBSET Backed'[i] :
                        ExternalTransitionCondition(WorkflowOf[i], s.activity, A)
    BY DEF MayLeave
  <2>1. ExternalTransitionCondition(WorkflowOf[i], s.activity, s.acked)
    BY <1>2, FireLeaves
  <2> QED
    BY <1>3, <2>1
<1> HIDE DEF s, to
<1>6. ClientStatesEarned' /\ ClientStepsMayLeave'
  <2> SUFFICES ASSUME NEW d \in Client, client'[d] # NoRequest
               PROVE  /\ client'[d].to.acked \subseteq Backed'[client'[d].instance]
                      /\ MayLeave(WorkflowOf[client'[d].instance], client'[d].from, client'[d].to,
                           Backed'[client'[d].instance])
    BY DEF ClientStatesEarned, ClientStepsMayLeave
  <2>1. CASE d = c
    <3>1. client'[d] = [instance |-> i, from |-> s, to |-> to]
      BY <1>1, <2>1 DEF StepContext, TypeInv, TypeOK
    <3> QED
      BY <1>3, <1>4, <1>5, <3>1
  <2>2. CASE d # c
    <3>1. client'[d] = client[d] /\ client[d] # NoRequest
      BY <1>1, <2>2 DEF StepContext, TypeInv, TypeOK
    <3>2. client[d].instance \in Instance
      BY <3>1 DEF StepContext, TypeInv, TypeOK, Request
    <3>3. Backed[client[d].instance] \subseteq Backed'[client[d].instance]
      BY <3>2 DEF StepContext
    <3>4. client[d].to.acked \subseteq Backed[client[d].instance]
      BY <3>1 DEF StepContext, SafetyInv, ClientStatesEarned
    <3>5. MayLeave(WorkflowOf[client[d].instance], client[d].from, client[d].to,
            Backed[client[d].instance])
      BY <3>1 DEF StepContext, SafetyInv, ClientStepsMayLeave
    <3> QED
      BY <3>1, <3>3, <3>4, <3>5 DEF MayLeave
  <2> QED
    BY <2>1, <2>2
<1>7. AppliedAtMostOnce' /\ LoggedStepsMayLeave' /\ CurrentStatesEarned'
  BY <1>1, HistoryKept, CurrentStatesKept
<1>8. RecordsMatchResponses' /\ ResponsesMatchDecisions' /\ HandlerStatesEarned'
  BY <1>1, RecordsKept, ResponsesKept, HandlersKept
<1> QED
  BY <1>6, <1>7, <1>8 DEF SafetyInv


\* It appends what it has computed, however old the state was that it had read.
LEMMA ClientAppendSafe ==
  ASSUME StepContext, NEW c \in Client, ClientAppend(c)
  PROVE  SafetyInv'
<1> DEFINE r == client[c]
<1>1. /\ r # NoRequest
      /\ AppendTransition(r.instance, r.from, r.to, NoExchange)
      /\ client' = [client EXCEPT ![c] = NoRequest]
      /\ UNCHANGED <<request, response, receiver, seen>>
  BY DEF ClientAppend
<1>2. r.instance \in Instance
  BY <1>1 DEF StepContext, TypeInv, TypeOK, Request
<1>3. /\ r.to.acked \subseteq Backed[r.instance]
      /\ MayLeave(WorkflowOf[r.instance], r.from, r.to, Backed[r.instance])
  BY <1>1 DEF StepContext, SafetyInv, ClientStatesEarned, ClientStepsMayLeave
<1> HIDE DEF r
<1>4. /\ AppliedAtMostOnce' /\ LoggedStepsMayLeave'
      /\ CurrentStatesEarned' /\ RecordsMatchResponses'
  BY <1>1, <1>2, <1>3, AppendStep
<1>5. ClientStatesEarned' /\ ClientStepsMayLeave'
  BY <1>1, ClientsKept DEF StepContext, TypeInv, TypeOK
<1>6. ResponsesMatchDecisions' /\ HandlerStatesEarned'
  BY <1>1, ResponsesKept, HandlersKept
<1> QED
  BY <1>4, <1>5, <1>6 DEF SafetyInv

\* The receiver answers: with the verdict on the one transition that stems from the
\* message, or with a refusal when there is none.
LEMMA AnswerSafe ==
  ASSUME StepContext
  PROVE  /\ \A i \in Instance : \A n \in 1 .. Len(log[i]), outcome \in RuleOutcome :
              ReceivedTransitionVerdict(i, n, outcome) => SafetyInv'
         /\ \A x \in Exchange : RefuseRequest(x) => SafetyInv'
<1>1. ASSUME NEW i \in Instance, NEW n \in 1 .. Len(log[i]), NEW outcome \in RuleOutcome,
             ReceivedTransitionVerdict(i, n, outcome)
      PROVE  SafetyInv'
  <2> DEFINE y == log[i][n].origin
  <2>1. /\ UNCHANGED <<log, currentState, participantsAccepted, participantsRejected, client,
             request, receiver, seen>>
        /\ rule[i][n] = "checking"
        /\ y # NoExchange
        /\ rule' = [rule EXCEPT ![i][n] = VerdictOf(outcome)]
    BY <1>1 DEF ReceivedTransitionVerdict
  <2>2. n \in Slot /\ log[i][n] \in Entry
    BY ProtocolAssumption DEF ProtocolAssumption, StepContext, TypeInv, TypeOK, Slot
  <2>3. y \in Exchange /\ request[y] = "appended"
    BY <2>1, <2>2 DEF Entry, StepContext, TypeInv, OriginsAppended
  <2>4. rule'[i][n] = VerdictOf(outcome)
    BY <2>1, <2>2 DEF StepContext, TypeInv, TypeOK
  <2>5. \A j \in Instance : \A m \in 1 .. Len(log[j]) :
          log[j][m].origin = y => j = i /\ m = n
    BY <2>1 DEF StepContext, SafetyInv, AppliedAtMostOnce
  <2>6. outcome = "accepted" => y \in Approvals'
    BY <2>1, <2>3, <2>4 DEF Approvals, Approved, VerdictOf
  <2>7. outcome # "accepted" => y \in Denials'
    BY <2>1, <2>3, <2>4, <2>5 DEF Denials, VerdictOf
  <2>8. \/ outcome = "accepted" /\ response' = [response EXCEPT ![y] = "acceptReady"]
        \/ /\ outcome # "accepted"
           /\ \E r \in {"rejectReady", "rejectLost"} : response' = [response EXCEPT ![y] = r]
    BY <1>1, ProtocolAssumption DEF ReceivedTransitionVerdict, ProtocolAssumption, Outcome
  <2> HIDE DEF y
  <2>9. ResponsesMatchDecisions'
    <3> SUFFICES ASSUME NEW x \in Exchange
                 PROVE  /\ response'[x] \in AcceptStatus => x \in Approvals'
                        /\ response'[x] \in RejectStatus => x \in Denials'
      BY DEF ResponsesMatchDecisions
    <3>1. CASE x = y
      BY <2>3, <2>6, <2>7, <2>8, <3>1
         DEF StepContext, TypeInv, TypeOK, AcceptStatus, RejectStatus
    <3>2. CASE x # y
      <4>1. response'[x] = response[x]
        BY <2>8, <3>2 DEF StepContext, TypeInv, TypeOK
      <4> QED
        BY <4>1 DEF StepContext, SafetyInv, ResponsesMatchDecisions
    <3> QED
      BY <3>1, <3>2
  <2>10. \A x \in Exchange : response'[x] = "acking" => response[x] = "acking"
    BY <2>8 DEF StepContext, TypeInv, TypeOK
  <2>11. AppliedAtMostOnce' /\ LoggedStepsMayLeave' /\ CurrentStatesEarned' /\ RecordsMatchResponses'
    BY <2>1, HistoryKept, CurrentStatesKept, RecordsKept
  <2>12. ClientStatesEarned' /\ ClientStepsMayLeave' /\ HandlerStatesEarned'
    BY <2>1, <2>10, ClientsKept, HandlersKept
  <2> QED
    BY <2>9, <2>11, <2>12 DEF SafetyInv
<1>2. ASSUME NEW x \in Exchange, RefuseRequest(x) PROVE SafetyInv'
  <2>1. /\ UNCHANGED <<log, rule, currentState, participantsAccepted, participantsRejected,
             client, receiver>>
        /\ request[x] = "handling"
        /\ request' = [request EXCEPT ![x] = "refused"]
        /\ response' = [response EXCEPT ![x] = "rejectReady"]
        /\ seen' = [seen EXCEPT ![x] = NoState]
    BY <1>2 DEF RefuseRequest, view
  <2>2. x \in Denials'
    <3>1. ASSUME NEW j \in Instance, NEW m \in 1 .. Len(log[j]), log[j][m].origin = x
          PROVE  FALSE
      BY <2>1, <3>1, ProtocolAssumption
         DEF StepContext, TypeInv, OriginsAppended, ProtocolAssumption
    <3>2. request'[x] = "refused"
      BY <2>1 DEF StepContext, TypeInv, TypeOK
    <3> QED
      BY <2>1, <3>1, <3>2 DEF Denials
  <2>3. ResponsesMatchDecisions'
    <3> SUFFICES ASSUME NEW z \in Exchange
                 PROVE  /\ response'[z] \in AcceptStatus => z \in Approvals'
                        /\ response'[z] \in RejectStatus => z \in Denials'
      BY DEF ResponsesMatchDecisions
    <3>1. CASE z = x
      BY <2>1, <2>2, <3>1 DEF StepContext, TypeInv, TypeOK, AcceptStatus
    <3>2. CASE z # x
      <4>1. response'[z] = response[z]
        BY <2>1, <3>2 DEF StepContext, TypeInv, TypeOK
      <4> QED
        BY <4>1 DEF StepContext, SafetyInv, ResponsesMatchDecisions
    <3> QED
      BY <3>1, <3>2
  <2>4. response[x] = "none"
    BY <2>1 DEF StepContext, TypeInv, HandlersHoldStates
  <2>5. HandlerStatesEarned'
    BY <2>1, <2>4, HandlersKept DEF StepContext, TypeInv, TypeOK
  <2>6. AppliedAtMostOnce' /\ LoggedStepsMayLeave' /\ CurrentStatesEarned' /\ RecordsMatchResponses'
    BY <2>1, HistoryKept, CurrentStatesKept, RecordsKept
  <2>7. ClientStatesEarned' /\ ClientStepsMayLeave'
    BY <2>1, ClientsKept
  <2> QED
    BY <2>3, <2>5, <2>6, <2>7 DEF SafetyInv
<1> QED
  BY <1>1, <1>2


\* A handler, the receiver's or the originator's, reads the state of its instance.
LEMMA ReadSafe ==
  ASSUME StepContext, NEW x \in Exchange
  PROVE  /\ \A i \in Instance : DeliverToInstance(x, i) \/ DeliverToWorkflow(x, i) => SafetyInv'
         /\ ReadAcknowledged(x) => SafetyInv'
<1>1. ASSUME NEW i \in Instance, DeliverToInstance(x, i) \/ DeliverToWorkflow(x, i)
      PROVE  SafetyInv'
  <2>1. WorkflowOf[i] \in Workflow
    BY ProtocolAssumption DEF ProtocolAssumption
  <2>2. InitialState(WorkflowOf[i]).acked \subseteq Backed[i]
    BY <2>1, InitialStateType
  <2>3. currentState[i].acked \subseteq Backed[i] /\ Backed[i] \subseteq Backed'[i]
    BY DEF StepContext, SafetyInv, CurrentStatesEarned
  <2>4. /\ UNCHANGED <<log, currentState, participantsAccepted, participantsRejected, client, response>>
        /\ request[x] = "sent"
        /\ request' = [request EXCEPT ![x] = "handling"]
        /\ receiver' = [receiver EXCEPT ![x] = i]
        /\ \E s : s.acked \subseteq Backed[i] /\ seen' = [seen EXCEPT ![x] = s]
    BY <1>1, <2>2, <2>3 DEF DeliverToInstance, DeliverToWorkflow, view
  <2>5. response[x] = "none"
    BY <2>4 DEF StepContext, TypeInv, TypeOK, ResponsesFollowRequests
  <2>6. HandlerStatesEarned'
    <3> SUFFICES ASSUME NEW z \in Exchange
                 PROVE  /\ request'[z] = "handling" => seen'[z].acked \subseteq Backed'[receiver'[z]]
                        /\ response'[z] = "acking" => seen'[z].acked \subseteq Backed'[z[1]]
      BY DEF HandlerStatesEarned
    <3>1. CASE z = x
      BY <2>3, <2>4, <2>5, <3>1 DEF StepContext, TypeInv, TypeOK
    <3>2. CASE z # x
      <4>1. /\ request'[z] = request[z] /\ receiver'[z] = receiver[z] /\ seen'[z] = seen[z]
            /\ response'[z] = response[z]
        BY <2>4, <3>2 DEF StepContext, TypeInv, TypeOK
      <4>2. request[z] = "handling" =>
              receiver[z] \in Instance /\ seen[z].acked \subseteq Backed[receiver[z]]
        BY DEF StepContext, TypeInv, HandlersHoldStates, SafetyInv, HandlerStatesEarned
      <4>3. response[z] = "acking" => z[1] \in Instance /\ seen[z].acked \subseteq Backed[z[1]]
        BY ExchangeType DEF StepContext, SafetyInv, HandlerStatesEarned
      <4> QED
        BY <4>1, <4>2, <4>3 DEF StepContext
    <3> QED
      BY <3>1, <3>2
  <2>7. AppliedAtMostOnce' /\ LoggedStepsMayLeave' /\ CurrentStatesEarned' /\ RecordsMatchResponses'
    BY <2>4, HistoryKept, CurrentStatesKept, RecordsKept
  <2>8. ClientStatesEarned' /\ ClientStepsMayLeave' /\ ResponsesMatchDecisions'
    BY <2>4, ClientsKept, ResponsesKept
  <2> QED
    BY <2>6, <2>7, <2>8 DEF SafetyInv
<1>2. ASSUME ReadAcknowledged(x) PROVE SafetyInv'
  <2>1. /\ UNCHANGED <<log, currentState, participantsAccepted, participantsRejected, client,
             request, receiver>>
        /\ response[x] = "acceptSent"
        /\ \/ /\ response' = [response EXCEPT ![x] = "acking"]
              /\ seen' = [seen EXCEPT ![x] = currentState[x[1]]]
           \/ /\ response' = [response EXCEPT ![x] = "acceptLost"]
              /\ seen' = seen
    BY <1>2 DEF ReadAcknowledged, view
  <2>2. request[x] # "handling"
    BY <2>1 DEF StepContext, TypeInv, HandlersHoldStates
  <2>3. /\ x[1] \in Instance
        /\ currentState[x[1]].acked \subseteq Backed[x[1]]
        /\ Backed[x[1]] \subseteq Backed'[x[1]]
    BY ExchangeType DEF StepContext, SafetyInv, CurrentStatesEarned
  <2>4. HandlerStatesEarned'
    <3> SUFFICES ASSUME NEW z \in Exchange
                 PROVE  /\ request'[z] = "handling" => seen'[z].acked \subseteq Backed'[receiver'[z]]
                        /\ response'[z] = "acking" => seen'[z].acked \subseteq Backed'[z[1]]
      BY DEF HandlerStatesEarned
    <3>1. CASE z = x
      BY <2>1, <2>2, <2>3, <3>1 DEF StepContext, TypeInv, TypeOK
    <3>2. CASE z # x
      <4>1. /\ request'[z] = request[z] /\ receiver'[z] = receiver[z] /\ seen'[z] = seen[z]
            /\ response'[z] = response[z]
        BY <2>1, <3>2 DEF StepContext, TypeInv, TypeOK
      <4>2. request[z] = "handling" =>
              receiver[z] \in Instance /\ seen[z].acked \subseteq Backed[receiver[z]]
        BY DEF StepContext, TypeInv, HandlersHoldStates, SafetyInv, HandlerStatesEarned
      <4>3. response[z] = "acking" => z[1] \in Instance /\ seen[z].acked \subseteq Backed[z[1]]
        BY ExchangeType DEF StepContext, SafetyInv, HandlerStatesEarned
      <4> QED
        BY <4>1, <4>2, <4>3 DEF StepContext
    <3> QED
      BY <3>1, <3>2
  <2>5. ResponsesMatchDecisions'
    BY <2>1, ResponsesKept DEF StepContext, TypeInv, TypeOK, AcceptStatus, RejectStatus
  <2>6. AppliedAtMostOnce' /\ LoggedStepsMayLeave' /\ CurrentStatesEarned' /\ RecordsMatchResponses'
    BY <2>1, HistoryKept, CurrentStatesKept, RecordsKept
  <2>7. ClientStatesEarned' /\ ClientStepsMayLeave'
    BY <2>1, ClientsKept
  <2> QED
    BY <2>4, <2>5, <2>6, <2>7 DEF SafetyInv
<1> QED
  BY <1>1, <1>2

\* The receiver's handler appends the transition.
LEMMA ReceiveSafe ==
  ASSUME StepContext, NEW x \in Exchange, AppendReceived(x)
  PROVE  SafetyInv'
<1> DEFINE i  == receiver[x]
           to == Fire(WorkflowOf[i], seen[x], AddressOf(x).event, x[1])
<1>1. /\ request[x] = "handling" /\ response[x] = "none"
      /\ i \in Instance /\ seen[x] \in State /\ WorkflowOf[i] \in Workflow
      /\ seen[x].acked \subseteq Backed[i]
  BY ProtocolAssumption DEF AppendReceived, StepContext, TypeInv, HandlersHoldStates, SafetyInv,
       HandlerStatesEarned, ProtocolAssumption
<1>2. to.acked \subseteq seen[x].acked
  BY <1>1, FireType, ExchangeType
<1>3. /\ AppendTransition(i, seen[x], to, x)
      /\ MayLeave(WorkflowOf[i], seen[x], to, Backed[i])
      /\ request' = [request EXCEPT ![x] = "appended"]
      /\ seen' = [seen EXCEPT ![x] = NoState]
      /\ UNCHANGED <<client, response, receiver>>
  BY DEF AppendReceived, MayLeave
<1> HIDE DEF i, to
<1>4. /\ AppliedAtMostOnce' /\ LoggedStepsMayLeave'
      /\ CurrentStatesEarned' /\ RecordsMatchResponses'
  BY <1>1, <1>2, <1>3, AppendStep
<1>5. HandlerStatesEarned'
  BY <1>1, <1>3, HandlersKept DEF StepContext, TypeInv, TypeOK
<1>6. ClientStatesEarned' /\ ClientStepsMayLeave' /\ ResponsesMatchDecisions'
  BY <1>3, ClientsKept, ResponsesKept
<1> QED
  BY <1>4, <1>5, <1>6 DEF SafetyInv

\* The originator's handler appends the acknowledgement: the participant approved, and
\* the state the handler had read counted nobody who did not.
LEMMA AcknowledgeSafe ==
  ASSUME StepContext, NEW x \in Exchange, AppendAcknowledged(x)
  PROVE  SafetyInv'
<1> DEFINE i  == x[1]
           w  == WorkflowOf[i]
           to == Acknowledge(w, seen[x], x[3], receiver[x])
<1>1. /\ response[x] = "acking" /\ seen[x] \in State /\ request[x] # "handling"
      /\ seen[x].acked \subseteq Backed[i]
  BY DEF AppendAcknowledged, StepContext, TypeInv, HandlersHoldStates, SafetyInv,
         HandlerStatesEarned
<1>2. /\ i \in Instance /\ w \in Workflow /\ x[3] \in Participant
      /\ receiver[x] \in Instance \union {NoInstance}
  BY ExchangeType DEF StepContext, TypeInv, TypeOK
<1>3. x[3] \in Backed[i]
  <2>1. x \in Approvals
    BY <1>1 DEF StepContext, SafetyInv, ResponsesMatchDecisions, AcceptStatus
  <2>2. x[2] \in 1 .. Len(log[i]) /\ rule[i][x[2]] = "accepted"
    BY <1>1 DEF StepContext, TypeInv, ResponsesFollowRequests, RequestsFollowVerdicts
  <2>3. <<i, x[2], x[3]>> \in Approvals
    BY <2>1, ExchangeType
  <2> QED
    BY <1>2, <2>2, <2>3 DEF Backed
<1>4. /\ to.acked \subseteq seen[x].acked \union {x[3]}
      /\ to.activity # seen[x].activity =>
           ExternalTransitionCondition(w, seen[x].activity, seen[x].acked \union {x[3]})
  <2>1. to.acked \subseteq seen[x].acked \union {x[3]}
    BY <1>1, <1>2, AcknowledgeAcks
  <2>2. to.activity # seen[x].activity =>
          ExternalTransitionCondition(w, seen[x].activity, seen[x].acked \union {x[3]})
    BY <1>1, <1>2, AcknowledgeLeaves
  <2> QED
    BY <2>1, <2>2
<1>5. /\ AppendTransition(i, seen[x], to, NoExchange)
      /\ response' = [response EXCEPT ![x] = "acked"]
      /\ seen' = [seen EXCEPT ![x] = NoState]
      /\ UNCHANGED <<client, request, receiver>>
  BY DEF AppendAcknowledged
<1> HIDE DEF to
<1>6. MayLeave(w, seen[x], to, Backed[i]) /\ to.acked \subseteq Backed[i]
  BY <1>1, <1>3, <1>4 DEF MayLeave
<1> HIDE DEF i
<1>7. /\ AppliedAtMostOnce' /\ LoggedStepsMayLeave'
      /\ CurrentStatesEarned' /\ RecordsMatchResponses'
  BY <1>2, <1>5, <1>6, AppendStep
<1>8. HandlerStatesEarned'
  BY <1>1, <1>5, HandlersKept DEF StepContext, TypeInv, TypeOK
<1>9. ResponsesMatchDecisions'
  BY <1>1, <1>5, ResponsesKept DEF StepContext, TypeInv, TypeOK, AcceptStatus, RejectStatus
<1>10. ClientStatesEarned' /\ ClientStepsMayLeave'
  BY <1>5, ClientsKept
<1> QED
  BY <1>7, <1>8, <1>9, <1>10 DEF SafetyInv

\* The originator records what the participant decided.
LEMMA RecordSafe ==
  ASSUME StepContext, NEW x \in Exchange, RecordAccepted(x) \/ RecordRejected(x)
  PROVE  SafetyInv'
<1>1. /\ UNCHANGED <<log, currentState, client, request, receiver, seen>>
      /\ response[x] \in {"acked", "rejectSent"}
      /\ response' = [response EXCEPT
           ![x] = IF response[x] = "acked" THEN "recorded" ELSE "rejectRecorded"]
  BY DEF RecordAccepted, RecordRejected
<1>2. RecordsMatchResponses'
  <2>1. /\ response[x] = "acked" => x \in Approvals'
        /\ response[x] = "rejectSent" => x \in Denials'
    BY DEF StepContext, SafetyInv, ResponsesMatchDecisions, AcceptStatus, RejectStatus
  <2>2. \A i \in Instance :
          /\ \A z \in participantsAccepted'[i] :
               z \in participantsAccepted[i] \/ (z = x /\ i = x[1] /\ response[x] = "acked")
          /\ \A z \in participantsRejected'[i] :
               z \in participantsRejected[i] \/ (z = x /\ i = x[1] /\ response[x] = "rejectSent")
    BY DEF RecordAccepted, RecordRejected, StepContext, TypeInv, TypeOK
  <2>3. \A i \in Instance :
          /\ \A z \in participantsAccepted[i] : z[1] = i /\ z \in Approvals'
          /\ \A z \in participantsRejected[i] : z[1] = i /\ z \in Denials'
    BY DEF StepContext, SafetyInv, RecordsMatchResponses
  <2> QED
    BY <2>1, <2>2, <2>3 DEF RecordsMatchResponses
<1>3. ResponsesMatchDecisions'
  BY <1>1, ResponsesKept DEF StepContext, TypeInv, TypeOK, AcceptStatus, RejectStatus
<1>4. HandlerStatesEarned'
  BY <1>1, HandlersKept DEF StepContext, TypeInv, TypeOK
<1>5. AppliedAtMostOnce' /\ LoggedStepsMayLeave' /\ CurrentStatesEarned'
  BY <1>1, HistoryKept, CurrentStatesKept
<1>6. ClientStatesEarned' /\ ClientStepsMayLeave'
  BY <1>1, ClientsKept
<1> QED
  BY <1>2, <1>3, <1>4, <1>5, <1>6 DEF SafetyInv


-----------------------------------------------------------------------------
(* The inductive invariant *)

\* The initial states satisfy it.
LEMMA SafetyInit == Init => SafetyInv
<1> SUFFICES ASSUME Init PROVE SafetyInv
  OBVIOUS
<1>1. \A i \in Instance : Len(log[i]) = 0
  BY DEF Init
<1>2. AppliedAtMostOnce /\ LoggedStepsMayLeave
  BY <1>1 DEF AppliedAtMostOnce, LoggedStepsMayLeave
<1>3. ResponsesMatchDecisions /\ RecordsMatchResponses /\ HandlerStatesEarned
  BY DEF Init, ResponsesMatchDecisions, RecordsMatchResponses, HandlerStatesEarned,
         AcceptStatus, RejectStatus
<1>4. ClientStatesEarned /\ ClientStepsMayLeave
  BY DEF Init, ClientStatesEarned, ClientStepsMayLeave
<1>5. CurrentStatesEarned
  <2>1. \A i \in Instance : WorkflowOf[i] \in Workflow
    BY ProtocolAssumption DEF ProtocolAssumption
  <2> QED
    BY <2>1, InitialStateType DEF Init, CurrentStatesEarned
<1> QED
  BY <1>2, <1>3, <1>4, <1>5 DEF SafetyInv

\* Every step keeps it.
LEMMA SafetyStep == TypeInv /\ SafetyInv /\ [Next]_vars => SafetyInv'
<1> SUFFICES ASSUME TypeInv, SafetyInv, [Next]_vars PROVE SafetyInv'
  OBVIOUS
<1>1. StepContext
  BY ContextOfStep
<1>2. CASE \/ \E i \in Instance : \/ \E outcome \in RuleOutcome : LaunchVerdict(i, outcome)
                                  \/ OpenExternalEvents(i)
                                  \/ ClientLaunch(i)
           \/ \E i \in Instance : \E n \in 1 .. Len(log[i]), outcome \in RuleOutcome :
                LocalTransitionVerdict(i, n, outcome)
           \/ \E x \in Exchange : \/ SendRequest(x) \/ SendRequestFails(x)
                                  \/ SendResponse(x) \/ SendResponseFails(x)
                                  \/ IgnoreRequest(x)
                                  \/ CompleteAccepted(x) \/ CompleteRejected(x)
           \/ \E o \in Organization : \E missed \in SUBSET InTransit(o) : Crash(o, missed)
           \/ UNCHANGED vars
  BY <1>1, <1>2, QuietActions
<1>3. CASE \E c \in Client : \/ ClientAppend(c)
                             \/ \E i \in Instance, e \in Event : ClientRead(c, i, e)
  BY <1>1, <1>3, ClientReadSafe, ClientAppendSafe
<1>4. CASE \/ \E i \in Instance : \E n \in 1 .. Len(log[i]), outcome \in RuleOutcome :
                ReceivedTransitionVerdict(i, n, outcome)
           \/ \E x \in Exchange : RefuseRequest(x)
  BY <1>1, <1>4, AnswerSafe
<1>5. CASE \E x \in Exchange :
             \/ \E i \in Instance : DeliverToInstance(x, i) \/ DeliverToWorkflow(x, i)
             \/ ReadAcknowledged(x)
  BY <1>1, <1>5, ReadSafe
<1>6. CASE \E x \in Exchange : \/ AppendReceived(x) \/ AppendAcknowledged(x)
                               \/ RecordAccepted(x) \/ RecordRejected(x)
  BY <1>1, <1>6, ReceiveSafe, AcknowledgeSafe, RecordSafe
<1> QED
  BY <1>2, <1>3, <1>4, <1>5, <1>6 DEF Next, Handler, Environment

\* The invariant that the runs check on small instances holds in every behaviour.
THEOREM ProtocolCorrect == Spec => []ProtocolInvariant
<1>1. Init => ProtocolInvariant
  BY TypeInit, SafetyInit DEF ProtocolInvariant
<1>2. ProtocolInvariant /\ [Next]_vars => ProtocolInvariant'
  BY TypeStep, SafetyStep DEF ProtocolInvariant
<1> QED
  BY <1>1, <1>2, PTL DEF Spec

-----------------------------------------------------------------------------
(* The properties *)

\* No interleaving of clients, handlers, losses and crashes makes an instance count a
\* participant as acknowledged that did not approve (onExternalTransitionAcknowledge).
THEOREM AcksAreEarned == Spec => []EveryAckIsEarned
<1>1. ProtocolInvariant => EveryAckIsEarned
  BY DEF ProtocolInvariant, SafetyInv, CurrentStatesEarned, Backed, Approvals, EveryAckIsEarned
<1> QED
  BY <1>1, ProtocolCorrect, PTL

\* An external activity is left only with approvals that satisfy its condition
\* (createExternalTransitionCondition), also by a client or a handler that had read an
\* older state.
THEOREM LeavingIsApproved == Spec => []LeftOnlyWhenApproved
<1>1. ProtocolInvariant => LeftOnlyWhenApproved
  <2> SUFFICES ASSUME ProtocolInvariant, NEW i \in Instance, NEW n \in 1 .. Len(log[i]),
                      IsExternal(WorkflowOf[i], log[i][n].from),
                      log[i][n].to.activity # log[i][n].from.activity
               PROVE  \E A \in SUBSET ApprovedBy(i) :
                        ExternalTransitionCondition(WorkflowOf[i], log[i][n].from.activity, A)
    BY DEF LeftOnlyWhenApproved
  <2>1. Backed[i] \subseteq ApprovedBy(i)
    BY DEF Backed, Approvals, ApprovedBy
  <2>2. MayLeave(WorkflowOf[i], log[i][n].from, log[i][n].to, Backed[i])
    BY DEF ProtocolInvariant, SafetyInv, LoggedStepsMayLeave
  <2> QED
    BY <2>1, <2>2 DEF MayLeave
<1> QED
  BY <1>1, ProtocolCorrect, PTL

\* What an instance records of its participants is what they decided
\* (onParticipantAcceptedTransition, onParticipantRejectedTransition).
THEOREM RecordsAreTrue == Spec => []RecordsMatchDecisions
<1>1. ProtocolInvariant => RecordsMatchDecisions
  <2> SUFFICES ASSUME ProtocolInvariant, NEW i \in Instance
               PROVE  /\ \A x \in participantsAccepted[i] : x[1] = i /\ Approved(x)
                      /\ \A x \in participantsRejected[i] : x[1] = i /\ ~Approved(x)
    BY DEF RecordsMatchDecisions
  <2>1. RecordsMatchResponses
    BY DEF ProtocolInvariant, SafetyInv
  <2>2. \A x \in Denials : ~Approved(x)
    BY DEF Denials, Approved
  <2> QED
    BY <2>1, <2>2 DEF RecordsMatchResponses, Approvals
<1> QED
  BY <1>1, ProtocolCorrect, PTL

\* One message advances at most one instance, once (onAdvanceExternalWorkflowInstance).
THEOREM MessagesAppliedOnce == Spec => []AppliedAtMostOnce
<1>1. ProtocolInvariant => AppliedAtMostOnce
  BY DEF ProtocolInvariant, SafetyInv
<1> QED
  BY <1>1, ProtocolCorrect, PTL

\* A participant's approval is never taken back, not even by a crash.
THEOREM DecisionsAreFinal == Spec => DecisionsStand
<1>1. TypeInv /\ [Next]_vars => [\A x \in Exchange : Approved(x) => Approved(x)']_vars
  <2> SUFFICES ASSUME TypeInv, [Next]_vars, NEW x \in Exchange, Approved(x)
               PROVE  Approved(x)'
    OBVIOUS
  <2>1. Approvals \subseteq Approvals'
    BY StepFacts, DecisionsStay
  <2> QED
    BY <2>1 DEF Approvals
<1> QED
  BY <1>1, TypeInvariant, PTL DEF Spec, DecisionsStand

\* Between two transitions, no verdict and no response that comes later turns a rejection
\* into an acceptance (localTransitionAcceptedByRuleService, transitionAccepted in
\* aggregateAllWorkflowInstanceEvents).
THEOREM RejectionsStand == Spec => RejectionStands
<1> DEFINE Stands == \A i \in Instance : log'[i] = log[i] =>
             /\ acceptedByRuleServices[i] = "false" => acceptedByRuleServices'[i] = "false"
             /\ acceptedByParticipants[i] = "false" => acceptedByParticipants'[i] = "false"
<1>1. ASSUME TypeInv, NEW i \in Instance, NEW from, NEW to, NEW origin,
             AppendTransition(i, from, to, origin)
      PROVE  Stands
  <2> TypeOK
    BY <1>1 DEF TypeInv
  <2>1. Len(log'[i]) = Len(log[i]) + 1 /\ Len(log[i]) \in Nat
    <3>1. Len(log'[i]) = Len(log[i]) + 1
      BY <1>1, AppendGrows
    <3>2. Len(log[i]) \in Nat
      BY DEF TypeOK
    <3> QED
      BY <3>1, <3>2
  <2>2. log'[i] # log[i]
    BY <2>1
  <2>3. \A j \in Instance \ {i} : /\ acceptedByRuleServices'[j] = acceptedByRuleServices[j]
                                  /\ acceptedByParticipants'[j] = acceptedByParticipants[j]
    BY <1>1 DEF AppendTransition, TypeInv, TypeOK
  <2> QED
    BY <2>2, <2>3
<1>2. ASSUME TypeInv, NEW i \in Instance, NEW outcome, RecordVerdict(i, outcome),
             acceptedByParticipants' = acceptedByParticipants
      PROVE  Stands
  BY <1>2 DEF RecordVerdict, Approve, TypeInv, TypeOK
<1>3. ASSUME TypeInv, [Next]_vars PROVE Stands
  <2>1. CASE \E i \in Instance :
               \/ \E outcome \in RuleOutcome : LaunchVerdict(i, outcome)
               \/ \E n \in 1 .. Len(log[i]), outcome \in RuleOutcome :
                    LocalTransitionVerdict(i, n, outcome) \/ ReceivedTransitionVerdict(i, n, outcome)
    <3>1. \/ \E i \in Instance, outcome \in RuleOutcome :
               RecordVerdict(i, outcome) /\ acceptedByParticipants' = acceptedByParticipants
          \/ UNCHANGED <<acceptedByRuleServices, acceptedByParticipants>>
      BY <2>1 DEF LaunchVerdict, LocalTransitionVerdict, ReceivedTransitionVerdict
    <3> QED
      BY <1>2, <1>3, <3>1
  <2>2. CASE \/ \E i \in Instance : OpenExternalEvents(i) \/ ClientLaunch(i)
             \/ \E x \in Exchange : \/ SendRequest(x) \/ SendRequestFails(x)
                                    \/ SendResponse(x) \/ SendResponseFails(x)
                                    \/ IgnoreRequest(x) \/ RefuseRequest(x)
                                    \/ ReadAcknowledged(x) \/ RecordAccepted(x) \/ RecordRejected(x)
                                    \/ \E i \in Instance : \/ DeliverToInstance(x, i)
                                                           \/ DeliverToWorkflow(x, i)
             \/ \E c \in Client, i \in Instance, e \in Event : ClientRead(c, i, e)
             \/ \E o \in Organization : \E missed \in SUBSET InTransit(o) : Crash(o, missed)
             \/ UNCHANGED vars
    <3>1. UNCHANGED <<acceptedByRuleServices, acceptedByParticipants>>
      BY <2>2 DEF OpenExternalEvents, ClientLaunch, SendRequest, SendRequestFails, SendResponse,
                  SendResponseFails, IgnoreRequest, RefuseRequest, ReadAcknowledged, RecordAccepted,
                  RecordRejected, DeliverToInstance, DeliverToWorkflow, ClientRead, Crash, vars, view
    <3> QED
      BY <3>1
  <2>3. CASE \E x \in Exchange : CompleteAccepted(x) \/ CompleteRejected(x)
    <3>1. \E x \in Exchange :
            acceptedByParticipants' \in
              {[acceptedByParticipants EXCEPT ![x[1]] = Approve(@)],
               [acceptedByParticipants EXCEPT ![x[1]] = "false"]}
      BY <2>3 DEF CompleteAccepted, CompleteRejected
    <3>2. acceptedByRuleServices' = acceptedByRuleServices
      BY <2>3 DEF CompleteAccepted, CompleteRejected
    <3> QED
      BY <1>3, <3>1, <3>2 DEF Approve, TypeInv, TypeOK
  <2>4. CASE \/ \E c \in Client : ClientAppend(c)
             \/ \E x \in Exchange : AppendReceived(x) \/ AppendAcknowledged(x)
    <3>1. \A c \in Client : client[c] # NoRequest => client[c].instance \in Instance
      BY <1>3 DEF TypeInv, TypeOK, Request
    <3>2. \A x \in Exchange : /\ x[1] \in Instance
                              /\ request[x] = "handling" => receiver[x] \in Instance
      BY <1>3, ExchangeType DEF TypeInv, HandlersHoldStates
    <3>3. \E i \in Instance : \E from, to, origin : AppendTransition(i, from, to, origin)
      BY <2>4, <3>1, <3>2 DEF ClientAppend, AppendReceived, AppendAcknowledged
    <3> QED
      BY <1>1, <1>3, <3>3
  <2> QED
    BY <1>3, <2>1, <2>2, <2>3, <2>4 DEF Next, Handler, Environment
<1>4. TypeInv /\ [Next]_vars => [Stands]_vars
  BY <1>3
<1> QED
  BY <1>4, TypeInvariant, PTL DEF Spec, RejectionStands

-----------------------------------------------------------------------------
(* The protocol implements ExchangeAgreement *)

Phases == [x \in Exchange |-> PhaseOf(x)]

\* What neither sends a first request nor touches the response leaves the phase alone.
LEMMA PhaseKept ==
  ASSUME NEW x \in Exchange, response'[x] = response[x],
         request'[x] = "none" <=> request[x] = "none"
  PROVE  PhaseOf(x)' = PhaseOf(x)
BY DEF PhaseOf

\* A step that changes no phase is a stutter of the agreement.
LEMMA Stutter ==
  ASSUME \A x \in Exchange : PhaseOf(x)' = PhaseOf(x)
  PROVE  Phases' = Phases
BY DEF Phases

\* A step that changes the phase of one exchange is its move.
LEMMA MoveOf ==
  ASSUME NEW y \in Exchange, NEW from, NEW to, PhaseOf(y) = from, PhaseOf(y)' = to,
         \A x \in Exchange \ {y} : PhaseOf(x)' = PhaseOf(x)
  PROVE  Agreement!Move(y, from, to)
BY DEF Agreement!Move

\* As long as the rule services have not judged a received transition, nothing is
\* answered: an answer would tell of an approval or a denial, and there is only one
\* received transition to be judged.
LEMMA UnjudgedIsUnanswered ==
  ASSUME ProtocolInvariant, NEW i \in Instance, NEW n \in 1 .. Len(log[i]),
         rule[i][n] = "checking", log[i][n].origin # NoExchange
  PROVE  /\ log[i][n].origin \in Exchange
         /\ request[log[i][n].origin] = "appended"
         /\ response[log[i][n].origin] = "none"
<1> DEFINE y == log[i][n].origin
<1>1. y \in Exchange /\ request[y] = "appended" /\ response[y] \in ResponseStatus
  <2>1. log[i] \in Seq(Entry)
    BY DEF ProtocolInvariant, TypeInv, TypeOK
  <2>2. log[i][n] \in Entry
    BY <2>1
  <2> QED
    BY <2>2 DEF Entry, ProtocolInvariant, TypeInv, TypeOK, OriginsAppended
<1>2. response[y] \notin AcceptStatus
  <2> SUFFICES ASSUME response[y] \in AcceptStatus PROVE FALSE
    OBVIOUS
  <2>1. PICK j \in Instance : \E m \in 1 .. Len(log[j]) : log[j][m].origin = y /\ rule[j][m] = "accepted"
    BY <1>1 DEF ProtocolInvariant, SafetyInv, ResponsesMatchDecisions, Approvals, Approved
  <2>2. PICK m \in 1 .. Len(log[j]) : log[j][m].origin = y /\ rule[j][m] = "accepted"
    BY <2>1
  <2>3. j = i /\ m = n
    BY <2>2 DEF ProtocolInvariant, SafetyInv, AppliedAtMostOnce
  <2> QED
    BY <2>2, <2>3
<1>3. response[y] \notin RejectStatus
  BY <1>1 DEF ProtocolInvariant, SafetyInv, ResponsesMatchDecisions, Denials
<1> QED
  BY <1>1, <1>2, <1>3 DEF ResponseStatus

\* A verdict on a transition of the instance itself offers it to its participants.
LEMMA OfferStep ==
  ASSUME ProtocolInvariant, NEW i \in Instance, NEW n \in 1 .. Len(log[i]), NEW outcome,
         LocalTransitionVerdict(i, n, outcome)
  PROVE  Agreement!Offer
<1>1. ASSUME NEW x \in Exchange
      PROVE  /\ PhaseOf(x)' # PhaseOf(x) => PhaseOf(x) = "idle" /\ PhaseOf(x)' = "offered"
             /\ PhaseOf(x)' \in Agreement!Phase
  <2>1. response'[x] = response[x] /\ request'[x] \in {request[x], "ready"}
    BY DEF LocalTransitionVerdict
  <2>2. CASE request'[x] = request[x]
    BY <2>1, <2>2, PhaseKept DEF PhaseOf, Agreement!Phase
  <2>3. CASE request'[x] # request[x]
    <3>1. x[1] = i /\ x[2] = n /\ rule[i][n] = "checking" /\ request'[x] = "ready"
      BY <2>3 DEF LocalTransitionVerdict
    <3>2. request[x] = "none"
      BY <3>1 DEF ProtocolInvariant, TypeInv, RequestsFollowVerdicts
    <3>3. response[x] = "none"
      BY <3>2 DEF ProtocolInvariant, TypeInv, ResponsesFollowRequests
    <3> QED
      BY <2>1, <3>1, <3>2, <3>3 DEF PhaseOf, Agreement!Phase
  <2> QED
    BY <2>2, <2>3
<1> QED
  BY <1>1 DEF Agreement!Offer

\* The answer to a received transition is its decision.
LEMMA DecideStep ==
  ASSUME ProtocolInvariant, NEW i \in Instance, NEW n \in 1 .. Len(log[i]),
         NEW outcome \in RuleOutcome, ReceivedTransitionVerdict(i, n, outcome)
  PROVE  Agreement!Next
<1>1. PICK y \in Exchange :
        y = log[i][n].origin /\ request[y] = "appended" /\ response[y] = "none"
  BY UnjudgedIsUnanswered DEF ReceivedTransitionVerdict
<1>2. request' = request
  BY DEF ReceivedTransitionVerdict
<1>3. /\ response'[y] \in {"acceptReady", "rejectReady", "rejectLost"}
      /\ \A x \in Exchange \ {y} : response'[x] = response[x]
  <2>1. outcome \in {"accepted", "rejected", "unreachable"}
    BY ProtocolAssumption DEF ProtocolAssumption, Outcome
  <2>2. \E r \in {"acceptReady", "rejectReady", "rejectLost"} : response' = [response EXCEPT ![y] = r]
    BY <1>1, <2>1 DEF ReceivedTransitionVerdict
  <2> QED
    BY <1>1, <2>2 DEF ProtocolInvariant, TypeInv, TypeOK
<1>4. \A x \in Exchange \ {y} : PhaseOf(x)' = PhaseOf(x)
  BY <1>2, <1>3, PhaseKept
<1>5. PhaseOf(y) = "offered"
  BY <1>1 DEF PhaseOf
<1>6. CASE response'[y] = "acceptReady"
  <2>1. PhaseOf(y)' = "approved"
    BY <1>6 DEF PhaseOf
  <2> QED
    BY <1>1, <1>4, <1>5, <2>1, MoveOf DEF Agreement!Next
<1>7. CASE response'[y] \in {"rejectReady", "rejectLost"}
  <2>1. PhaseOf(y)' = "denied"
    BY <1>7 DEF PhaseOf
  <2> QED
    BY <1>1, <1>4, <1>5, <2>1, MoveOf DEF Agreement!Next
<1> QED
  BY <1>3, <1>6, <1>7

\* A response that is told on, lost or recorded: the exchange moves on, or stays.
LEMMA ResponseStep ==
  ASSUME ProtocolInvariant, NEW y \in Exchange, NEW r, request' = request,
         response' = [response EXCEPT ![y] = r],
         \/ response[y] \in {"acceptReady", "acceptSent"} /\ r \in {"acceptSent", "acceptLost", "acking"}
         \/ response[y] = "rejectReady" /\ r \in {"rejectSent", "rejectLost"}
         \/ response[y] = "acking" /\ r = "acked"
         \/ response[y] = "acked" /\ r = "recorded"
         \/ response[y] = "recorded" /\ r = "accepted"
         \/ response[y] = "rejectSent" /\ r = "rejectRecorded"
         \/ response[y] = "rejectRecorded" /\ r = "rejected"
  PROVE  [Agreement!Next]_Phases
<1>1. response'[y] = r /\ \A x \in Exchange \ {y} : response'[x] = response[x]
  BY DEF ProtocolInvariant, TypeInv, TypeOK
<1>2. \A x \in Exchange \ {y} : PhaseOf(x)' = PhaseOf(x)
  BY <1>1, PhaseKept
<1>3. CASE response[y] = "acking" /\ r = "acked"
  <2>1. PhaseOf(y) = "approved" /\ PhaseOf(y)' = "approvalKnown"
    BY <1>1, <1>3 DEF PhaseOf
  <2> QED
    BY <1>2, <2>1, MoveOf DEF Agreement!Next
<1>4. CASE response[y] = "rejectSent" /\ r = "rejectRecorded"
  <2>1. PhaseOf(y) = "denied" /\ PhaseOf(y)' = "denialKnown"
    BY <1>1, <1>4 DEF PhaseOf
  <2> QED
    BY <1>2, <2>1, MoveOf DEF Agreement!Next
<1>5. CASE /\ response[y] \notin {"acking", "rejectSent"}
           /\ response[y] # "none"
  <2>1. PhaseOf(y)' = PhaseOf(y)
    BY <1>1, <1>5 DEF PhaseOf
  <2> QED
    BY <1>2, <2>1, Stutter
<1> QED
  BY <1>3, <1>4, <1>5

\* The handler refuses a message: the exchange is denied.
LEMMA RefuseStep ==
  ASSUME ProtocolInvariant, NEW y \in Exchange, RefuseRequest(y)
  PROVE  Agreement!Next
<1>1. request[y] = "handling" /\ response[y] = "none"
  BY DEF RefuseRequest, ProtocolInvariant, TypeInv, HandlersHoldStates
<1>2. /\ response'[y] = "rejectReady"
      /\ \A x \in Exchange \ {y} : response'[x] = response[x] /\ request'[x] = request[x]
  BY DEF RefuseRequest, ProtocolInvariant, TypeInv, TypeOK
<1>3. \A x \in Exchange \ {y} : PhaseOf(x)' = PhaseOf(x)
  BY <1>2, PhaseKept
<1>4. PhaseOf(y) = "offered" /\ PhaseOf(y)' = "denied"
  BY <1>1, <1>2 DEF PhaseOf
<1> QED
  BY <1>3, <1>4, MoveOf DEF Agreement!Next

\* A crash loses messages and handlers, not what was decided or came to be known.
LEMMA CrashStep ==
  ASSUME ProtocolInvariant, NEW o, NEW missed, Crash(o, missed)
  PROVE  Phases' = Phases
<1>1. ASSUME NEW x \in Exchange PROVE PhaseOf(x)' = PhaseOf(x)
  <2>1. request'[x] = RequestAfterCrash(o, x, missed) /\ response'[x] = ResponseAfterCrash(o, x, missed)
    BY DEF Crash
  <2>2. request'[x] = "none" <=> request[x] = "none"
    BY <2>1 DEF RequestAfterCrash
  <2>3. CASE response'[x] = response[x]
    BY <2>2, <2>3, PhaseKept
  <2>4. CASE response'[x] # response[x]
    <3>1. \/ response[x] \in {"acceptReady", "acceptSent", "acking"} /\ response'[x] = "acceptLost"
          \/ response[x] \in {"acked", "recorded"} /\ response'[x] = "acceptCut"
          \/ response[x] \in {"rejectReady", "rejectSent"} /\ response'[x] = "rejectLost"
          \/ response[x] = "rejectRecorded" /\ response'[x] = "rejectCut"
      BY <2>1, <2>4 DEF ResponseAfterCrash
    <3> QED
      BY <3>1 DEF PhaseOf
  <2> QED
    BY <2>3, <2>4
<1> QED
  BY <1>1, Stutter

\* Every step of the protocol is a step of the agreement, or a stutter.
LEMMA AgreementStep == ProtocolInvariant /\ [Next]_vars => [Agreement!Next]_Phases
<1> SUFFICES ASSUME ProtocolInvariant, [Next]_vars PROVE [Agreement!Next]_Phases
  OBVIOUS
<1> TypeOK
  BY DEF ProtocolInvariant, TypeInv
<1>1. CASE \E i \in Instance : \E n \in 1 .. Len(log[i]), outcome \in RuleOutcome :
             LocalTransitionVerdict(i, n, outcome) \/ ReceivedTransitionVerdict(i, n, outcome)
  BY <1>1, OfferStep, DecideStep DEF Agreement!Next
<1>2. CASE \/ \E i \in Instance : \/ OpenExternalEvents(i) \/ ClientLaunch(i)
                                  \/ \E outcome \in RuleOutcome : LaunchVerdict(i, outcome)
           \/ \E c \in Client : ClientAppend(c)
           \/ \E c \in Client, i \in Instance, e \in Event : ClientRead(c, i, e)
           \/ UNCHANGED vars
  <2>1. UNCHANGED <<request, response>>
    BY <1>2 DEF OpenExternalEvents, ClientLaunch, LaunchVerdict, ClientAppend, ClientRead, vars
  <2> QED
    BY <2>1, PhaseKept, Stutter
<1>3. CASE \E x \in Exchange : \/ SendRequest(x) \/ SendRequestFails(x)
                               \/ \E i \in Instance : DeliverToInstance(x, i) \/ DeliverToWorkflow(x, i)
                               \/ IgnoreRequest(x) \/ AppendReceived(x)
  <2>1. PICK y \in Exchange, r \in RequestStatus \ {"none"} :
          response' = response /\ request[y] # "none" /\ request' = [request EXCEPT ![y] = r]
    BY <1>3 DEF SendRequest, SendRequestFails, DeliverToInstance, DeliverToWorkflow, IgnoreRequest,
                AppendReceived, RequestStatus
  <2>2. \A x \in Exchange : request'[x] = "none" <=> request[x] = "none"
    BY <2>1 DEF TypeOK
  <2> QED
    BY <2>1, <2>2, PhaseKept, Stutter
<1>4. CASE \E x \in Exchange : \/ SendResponse(x) \/ SendResponseFails(x)
                               \/ ReadAcknowledged(x) \/ AppendAcknowledged(x)
                               \/ RecordAccepted(x) \/ CompleteAccepted(x)
                               \/ RecordRejected(x) \/ CompleteRejected(x)
  <2> PICK y \in Exchange : \/ SendResponse(y) \/ SendResponseFails(y)
                            \/ ReadAcknowledged(y) \/ AppendAcknowledged(y)
                            \/ RecordAccepted(y) \/ CompleteAccepted(y)
                            \/ RecordRejected(y) \/ CompleteRejected(y)
    BY <1>4
  <2>1. CASE SendResponse(y) \/ SendResponseFails(y)
    BY <2>1, ResponseStep DEF SendResponse, SendResponseFails
  <2>2. CASE ReadAcknowledged(y) \/ AppendAcknowledged(y)
    BY <2>2, ResponseStep DEF ReadAcknowledged, AppendAcknowledged
  <2>3. CASE RecordAccepted(y) \/ CompleteAccepted(y) \/ RecordRejected(y) \/ CompleteRejected(y)
    BY <2>3, ResponseStep DEF RecordAccepted, CompleteAccepted, RecordRejected, CompleteRejected
  <2> QED
    BY <2>1, <2>2, <2>3
<1>5. CASE \E x \in Exchange : RefuseRequest(x)
  BY <1>5, RefuseStep
<1>6. CASE \E o \in Organization : \E missed \in SUBSET InTransit(o) : Crash(o, missed)
  BY <1>6, CrashStep
<1> QED
  BY <1>1, <1>2, <1>3, <1>4, <1>5, <1>6 DEF Next, Handler, Environment

\* Whatever is lost and whoever crashes, each exchange is offered, decided at most once,
\* and known to the originator, if at all, as it was decided
\* (sendWorkflowToExternalParticipants to onParticipantAcceptedTransition).
THEOREM AgreementImplemented == Spec => ImplementsAgreement
<1>1. Init => Agreement!Init
  BY DEF Init, Agreement!Init, PhaseOf
<1>2. ProtocolInvariant /\ [Next]_vars => [Agreement!Next]_Phases
  BY AgreementStep
<1> QED
  BY <1>1, <1>2, ProtocolCorrect, PTL DEF Spec, ImplementsAgreement, Agreement!Spec, Phases

===============================================================================
