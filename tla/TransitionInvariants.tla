------------------------- MODULE TransitionInvariants -------------------------
(***************************************************************************)
(* The inductive invariant behind the safety properties of the transition  *)
(* protocol: what ties handlers, messages, logs and recorded decisions     *)
(* together, and that everything a handler, a client or a log holds is as  *)
(* well earned as the current state.                                       *)
(***************************************************************************)
EXTENDS TransitionProperties

\* A handler at work holds the state it has read, and the two handlers of an
\* exchange, the receiver's and the originator's, are never at work together.
HandlersHoldStates ==
  \A x \in Exchange :
    /\ request[x] = "handling" =>
         receiver[x] \in Instance /\ seen[x] \in State /\ response[x] = "none"
    /\ response[x] = "acking" => seen[x] \in State

\* Only a message whose handler has come to its end has a received transition.
OriginsAppended ==
  \A j \in Instance : \A m \in 1 .. Len(log[j]) :
    log[j][m].origin # NoExchange => request[log[j][m].origin] = "appended"

\* ... or a response.
ResponsesFollowRequests ==
  \A x \in Exchange : response[x] # "none" => request[x] \in {"appended", "refused"}

\* A message is sent for a transition that the rule services accepted.
RequestsFollowVerdicts ==
  \A x \in Exchange :
    request[x] # "none" => x[2] \in 1 .. Len(log[x[1]]) /\ rule[x[1]][x[2]] = "accepted"

TypeInv ==
  /\ TypeOK
  /\ HandlersHoldStates
  /\ OriginsAppended
  /\ ResponsesFollowRequests
  /\ RequestsFollowVerdicts

-----------------------------------------------------------------------------
\* The exchanges that the receiver's rule services approved.
Approvals == {x \in Exchange : Approved(x)}

\* The exchanges that they, or the receiver's handler, rejected: nothing can approve
\* one of these any more.
Denials ==
  {x \in Exchange :
     /\ request[x] \in {"appended", "refused"}
     /\ \A j \in Instance : \A m \in 1 .. Len(log[j]) :
          log[j][m].origin = x => rule[j][m] = "rejected"}

\* The participants that instance i may count as acknowledged: they approved a
\* transition that i's own rule services had accepted.
Backed ==
  [i \in Instance |->
     {p \in Participant :
        \E n \in 1 .. Len(log[i]) : rule[i][n] = "accepted" /\ <<i, n, p>> \in Approvals}]

\* A response carries what the receiver decided.
ResponsesMatchDecisions ==
  \A x \in Exchange :
    /\ response[x] \in AcceptStatus => x \in Approvals
    /\ response[x] \in RejectStatus => x \in Denials

\* A decision is recorded by the instance it was sent to.
RecordsMatchResponses ==
  \A i \in Instance :
    /\ \A x \in participantsAccepted[i] : x[1] = i /\ x \in Approvals
    /\ \A x \in participantsRejected[i] : x[1] = i /\ x \in Denials

\* The current state counts only participants as acknowledged that may be, and so
\* does what clients and handlers are about to replace it with.
CurrentStatesEarned ==
  \A i \in Instance : currentState[i].acked \subseteq Backed[i]

ClientStatesEarned ==
  \A c \in Client : client[c] # NoRequest => client[c].to.acked \subseteq Backed[client[c].instance]

HandlerStatesEarned ==
  \A x \in Exchange :
    /\ request[x] = "handling" => seen[x].acked \subseteq Backed[receiver[x]]
    /\ response[x] = "acking" => seen[x].acked \subseteq Backed[x[1]]

\* A step from one state to another leaves an external activity only if enough of the
\* participants in `backed` acknowledged.
MayLeave(w, from, to, backed) ==
  IsExternal(w, from) /\ to.activity # from.activity =>
    \E A \in SUBSET backed : ExternalTransitionCondition(w, from.activity, A)

\* ... in the logs and in what clients are about to append.
LoggedStepsMayLeave ==
  \A i \in Instance : \A n \in 1 .. Len(log[i]) :
    MayLeave(WorkflowOf[i], log[i][n].from, log[i][n].to, Backed[i])

ClientStepsMayLeave ==
  \A c \in Client : client[c] # NoRequest =>
    MayLeave(WorkflowOf[client[c].instance], client[c].from, client[c].to,
      Backed[client[c].instance])

SafetyInv ==
  /\ AppliedAtMostOnce
  /\ ResponsesMatchDecisions
  /\ RecordsMatchResponses
  /\ CurrentStatesEarned
  /\ ClientStatesEarned
  /\ HandlerStatesEarned
  /\ LoggedStepsMayLeave
  /\ ClientStepsMayLeave

ProtocolInvariant == TypeInv /\ SafetyInv
===============================================================================
