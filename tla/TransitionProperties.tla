------------------------- MODULE TransitionProperties -------------------------
(***************************************************************************)
(* What the transition protocol promises.  The reference for every         *)
(* property is the comment or the code named in front of it.               *)
(***************************************************************************)
EXTENDS TransitionProtocol

\* The receiver's log holds a received transition for x that its rule services
\* accepted.
Approved(x) ==
  \E j \in Instance : \E m \in 1 .. Len(log[j]) :
    log[j][m].origin = x /\ rule[j][m] = "accepted"

\* The participants of instance i that approved one of its transitions.
ApprovedBy(i) == {p \in Participant : \E n \in 1 .. Len(log[i]) : Approved(<<i, n, p>>)}

\* A participant counts as acknowledged in the current state of an instance only if
\* a transition of that instance was accepted by the instance's own rule services,
\* sent to the participant, and accepted by the participant's rule services.
EveryAckIsEarned ==
  \A i \in Instance : \A p \in currentState[i].acked :
    \E n \in 1 .. Len(log[i]) : rule[i][n] = "accepted" /\ Approved(<<i, n, p>>)

\* "all participants must have accepted": an external activity is left only if
\* participants that approved satisfy its externalCondition, in every entry of every
\* log, however stale the state was that the entry was computed from.
LeftOnlyWhenApproved ==
  \A i \in Instance : \A n \in 1 .. Len(log[i]) :
    LET e == log[i][n]
        w == WorkflowOf[i]
    IN  IsExternal(w, e.from) /\ e.to.activity # e.from.activity =>
          \E A \in SUBSET ApprovedBy(i) :
            ExternalTransitionCondition(w, e.from.activity, A)

\* What an instance records about its participants is what they decided: an
\* exchange is recorded with the instance that started it, as accepted only if
\* approved and as rejected only if not.
RecordsMatchDecisions ==
  \A i \in Instance :
    /\ \A x \in participantsAccepted[i] : x[1] = i /\ Approved(x)
    /\ \A x \in participantsRejected[i] : x[1] = i /\ ~Approved(x)

\* One message advances at most one instance, once: no two received transitions,
\* in whichever logs, stem from the same exchange.
AppliedAtMostOnce ==
  \A i, j \in Instance : \A n \in 1 .. Len(log[i]), m \in 1 .. Len(log[j]) :
    log[i][n].origin = log[j][m].origin /\ log[i][n].origin # NoExchange => i = j /\ n = m

\* Each entry of a log starts where the previous one ended: nothing that was
\* appended is overwritten by a handler that had read an older state.
LinearHistory ==
  \A i \in Instance : \A n \in 1 .. Len(log[i]) :
    log[i][n].from = IF n = 1 THEN InitialState(WorkflowOf[i]) ELSE log[i][n - 1].to

\* Between two transitions a rejection by a rule service or by a participant is
\* never turned into an acceptance by a verdict or a response that comes later.
RejectionStands ==
  [][\A i \in Instance : log'[i] = log[i] =>
       /\ acceptedByRuleServices[i] = "false" => acceptedByRuleServices'[i] = "false"
       /\ acceptedByParticipants[i] = "false" => acceptedByParticipants'[i] = "false"]_vars

\* A crash, a lost message or a stale handler never makes an instance forget that it
\* has been advanced: its log only grows, and what a participant decided stays decided.
DecisionsStand ==
  [][\A x \in Exchange : Approved(x) => Approved(x)']_vars

-----------------------------------------------------------------------------
(* Every exchange is an instance of the abstract agreement. *)

PhaseOf(x) ==
  CASE response[x] \in {"acked", "recorded", "accepted", "acceptCut"}     -> "approvalKnown"
    [] response[x] \in {"rejectRecorded", "rejected", "rejectCut"}        -> "denialKnown"
    [] response[x] \in {"acceptReady", "acceptSent", "acking", "acceptLost"} -> "approved"
    [] response[x] \in {"rejectReady", "rejectSent", "rejectLost"}        -> "denied"
    [] response[x] = "none" /\ request[x] # "none"                        -> "offered"
    [] OTHER                                                              -> "idle"

Agreement == INSTANCE ExchangeAgreement WITH phase <- [x \in Exchange |-> PhaseOf(x)]

\* The protocol implements ExchangeAgreement, through losses and crashes.
ImplementsAgreement == Agreement!Spec

-----------------------------------------------------------------------------
(* Progress *)

\* Without faults every message sent by an instance whose launch was accepted ends
\* with the participant's decision recorded by that instance, or with an acceptance that
\* came after the instance had left the activity that waited for it.
EveryExchangeSettles ==
  \A x \in Exchange :
    request[x] # "none" /\ launchRule[x[1]] = "accepted" ~>
      \/ response[x] \in {"accepted", "rejected"}
      \/ response[x] = "acceptLost"
           /\ currentState[x[1]].activity # log[x[1]][x[2]].to.activity
      \/ crashes > 0

\* "sending an ack/nack response" (onAdvanceExternalWorkflowInstance): a message
\* that was delivered is answered.
EveryRequestAnswered ==
  \A x \in Exchange : request[x] = "handling" ~>
    response[x] \in {"acceptSent", "acking", "acked", "recorded", "accepted",
                     "rejectSent", "rejectRecorded", "rejected"}

\* "executes the locally needed acknowledgement state transition" (the comment on
\* onExternalTransitionAcknowledge): while the activity that waits for participant p
\* is active, an acceptance of p that was recorded is part of its state.
AckIsNotLost ==
  \A x \in Exchange :
    LET i == x[1]
        n == x[2]
    IN  /\ response[x] \in {"recorded", "accepted"}
        /\ currentState[i].activity = log[i][n].to.activity
        => x[3] \in currentState[i].acked
=============================================================================
