------------------------ MODULE NegotiationProperties ------------------------
(***************************************************************************)
(* What nodes that negotiate a proposal promise each other and clients.    *)
(***************************************************************************)
EXTENDS Negotiation

Known(n, s) == record[n][s] \notin {NoRecord, Thrown}
Rejected(n, s) == Known(n, s) /\ record[n][s].acceptedByParticipants = "false"

\* A node whose log of s tells of an answer of p tells what p's own rule services said.
AnswersAreTrue ==
  \A n, p \in Node, s \in Proposal :
    Known(n, s) =>
      /\ p \in record[n][s].participantsAccepted =>
           record[p][s] # NoRecord /\ (record[p][s] # Thrown =>
             record[p][s].acceptedByRuleServices = "true")
      /\ p \in record[n][s].participantsRejected =>
           record[p][s] # NoRecord /\ (record[p][s] # Thrown =>
             record[p][s].acceptedByRuleServices = "false")

\* "Dispatch the follow up event if ANY of the parties rejected"
\* (consistency.service.ts:316, 365): once a node has handled a rejection, the proposal
\* counts as rejected there, whatever it handles later.  (The OrbitDB persistence replaces
\* the record, and with it the rejection, by a proposal that is received later.)
RejectionPrevails ==
  \A x \in handled :
    LET m == x[1]
        n == x[2]
    IN  m.type = "reject" /\ x \notin followUps /\ restarts = 0 /\ persistence = "EventStore"
          => Rejected(n, m.proposal) \/ record[n][m.proposal] = Thrown

\* The proposer's node never holds what makes an aggregation throw, and another node only if
\* an answer of a third one reached it before the proposal, as long as no post fails and no
\* node restarts (aggregateAllWorkflowEvents throws on the first event of a proposal that it
\* does not know; point-2-point-strategy.ts:36 lets the sender answer last).
FailsOnlyWhenOvertaken ==
  failed = {} /\ restarts = 0 =>
    \A n \in Node, s \in Proposal : record[n][s] = Thrown =>
      \E x \in handled : /\ x[1].type # "propose" /\ x[1].proposal = s /\ x[2] = n
                         /\ n # Proposer[s] /\ x[1].sender \notin {n, Proposer[s]}

\* Nothing is under way and nothing went wrong, under the persistence that loses no event
\* of a peer.
Settled ==
  /\ checks = {} /\ outbox = {} /\ dispatching = {} /\ followUps = {}
  /\ failed = {} /\ restarts = 0 /\ persistence = "EventStore"

\* "The sender also has to receive the message" (point-2-point-strategy.ts:35): when
\* everything settled, a proposal that was sent is at every node, and a node whose
\* aggregation was not overtaken knows every answer.  Only a node whose rule services could
\* not be asked says nothing; it holds the proposal for rejected.
EveryNodeAnswers ==
  Settled =>
    \A x \in handled, n, p \in Node :
      LET s == x[1].proposal
      IN  /\ record[n][s] # NoRecord
          /\ Known(n, s) /\ Known(p, s) =>
               \/ p \in record[n][s].participantsAccepted \union record[n][s].participantsRejected
               \/ record[p][s].acceptedByRuleServices = "false"

\* ... and all such nodes agree whether it was rejected.
ViewsConverge ==
  Settled => \A s \in Proposal, n, p \in Node :
    Known(n, s) /\ record[p][s] # Thrown => (Rejected(n, s) <=> Rejected(p, s))
=============================================================================
