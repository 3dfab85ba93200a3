----------------------------- MODULE Negotiation -----------------------------
(***************************************************************************)
(* How nodes agree on workflows and on the launch of their instances under *)
(* the point-to-point strategy; the noop strategy is its instance with one *)
(* node.  A client's proposal is judged by the rule services of its node,  *)
(* posted to all peers and then received by the proposer itself; every     *)
(* node judges what it received and posts its answer to all; every node    *)
(* appends every answer, and a follow-up event for each.                   *)
(*                                                                         *)
(* record[n][s] is what the events of proposal s that node n appended      *)
(* aggregate to: by the fold under OrbitDB, by the projection under        *)
(* EventStore.  Messages carry no sender; the model keeps it to tell       *)
(* answers apart.                                                          *)
(***************************************************************************)
EXTENDS EventFolds

CONSTANTS
  Node,
  Proposal,      \* workflows and instances
  Proposer,      \* Proposer[s]: the node at which a client proposes or launches s
  Parent,        \* Parent[s]: the workflow of an instance, NoParent for a workflow
  NoParent,
  NoState,       \* stands for the initial state, which no step here changes
  Strategy,      \* the persistence strategies that environment.ts may select
  RuleOutcome,   \* what the rule services may answer
  PostMayFail,   \* BOOLEAN: a peer may be unreachable
  MaxRestart     \* bound: restarts

Answer == {"accepted", "rejected", "unreachable"}
Message == [type: {"propose", "accept", "reject"}, proposal: Proposal, sender: Node]
Check == {"local", "received"}

ASSUME NegotiationAssumption ==
  /\ Participant = Node
  /\ State = {NoState}
  /\ Proposer \in [Proposal -> Node]
  /\ Parent \in [Proposal -> Proposal \union {NoParent}]
  /\ NoParent \notin Proposal
  /\ Strategy \subseteq {"OrbitDB", "EventStore"}
  /\ RuleOutcome \subseteq Answer
  /\ NoRecord \notin Aggregate /\ Thrown \notin Aggregate /\ NoRecord # Thrown
  /\ MaxRestart \in Nat

VARIABLES
  persistence, \* the strategy all nodes run with
  record,      \* record[n][s]
  checks,      \* <<n, s, c>>: node n waits for its rule services' answer on s
  outbox,      \* <<m, p>>: m is being posted to peer p
  dispatching, \* messages whose sender still has to receive them itself
  failed,      \* messages with a failed post
  handled,     \* <<m, n>>: node n appended what m says
  followUps,   \* <<m, n>>: and has still to append the follow-up event
  open,        \* <<n, w>>: under OrbitDB, n has opened the instances log of w
  restarts

vars ==
  <<persistence, record, checks, outbox, dispatching, failed, handled, followUps, open, restarts>>

\* Types of all variables.
TypeOK ==
  /\ persistence \in Strategy
  /\ record \in [Node -> [Proposal -> Aggregate \union {NoRecord, Thrown}]]
  /\ checks \subseteq Node \X Proposal \X Check
  /\ outbox \subseteq Message \X Node
  /\ dispatching \subseteq Message
  /\ failed \subseteq Message
  /\ handled \subseteq Message \X Node
  /\ followUps \subseteq Message \X Node
  /\ open \subseteq Node \X Proposal
  /\ restarts \in 0 .. MaxRestart

Init ==
  /\ persistence \in Strategy
  /\ record = [n \in Node |-> [s \in Proposal |-> NoRecord]]
  /\ checks = {} /\ outbox = {} /\ dispatching = {} /\ failed = {}
  /\ handled = {} /\ followUps = {} /\ open = {}
  /\ restarts = 0

-----------------------------------------------------------------------------
(* Appending *)

Event(type, by) ==
  [type |-> type, about |-> "proposal", to |-> NoState, by |-> by]

\* Mutated: the queries fold, which replaces the record by a received proposal.
FoldAlways(r, e) == FoldEvent(r, e)

\* Which of the two aggregations the node's queries use.
Step(r, e) == IF persistence = "OrbitDB" THEN FoldEvent(r, e) ELSE ProjectEvent(r, e)

\* dispatchWorkflowEvent, dispatchInstanceEvent: nothing is read.
Append1(n, s, e) == record' = [record EXCEPT ![n][s] = Step(@, e)]

\* dispatchInstanceEvent of OrbitDB writes to the instances log of the workflow, and
\* throws at a node that has not opened it.
CanAppend(n, s) == persistence = "OrbitDB" /\ Parent[s] # NoParent => <<n, Parent[s]>> \in open

\* An aggregation folds the events of all workflows, or of all instances.
AggregateFails(n, s) ==
  \E t \in Proposal : /\ Parent[t] = NoParent <=> Parent[s] = NoParent
                      /\ record[n][t] = Thrown

-----------------------------------------------------------------------------
(* Clients *)

Propose(s) ==
  LET n == Proposer[s]
  IN  /\ record[n][s] = NoRecord
      /\ Append1(n, s, Event("proposed", n))
      /\ checks' = checks \union {<<n, s, "local">>}
      /\ UNCHANGED <<outbox, dispatching, failed, handled, followUps, restarts>>

\* POST /workflows; OrbitDB opens the log of its instances.
ProposeWorkflow(s) ==
  /\ Parent[s] = NoParent
  /\ Propose(s)
  /\ open' = open \union {<<Proposer[s], s>>}

\* POST /workflows/:id/launch: the workflow must be found.
LaunchWorkflowInstance(s) ==
  LET n == Proposer[s]
      w == Parent[s]
  IN  /\ w # NoParent
      /\ record[n][w] # NoRecord /\ ~AggregateFails(n, w)
      /\ CanAppend(n, s)
      /\ Propose(s)
      /\ UNCHANGED open

-----------------------------------------------------------------------------
(* RulesService and the dispatch of its verdict by ConsistencyService *)

\* Point2PointStrategy.dispatch: post to all peers, then receive the message oneself.
Dispatch(messages) ==
  /\ outbox' = outbox \union {x \in messages \X Node : x[2] # x[1].sender}
  /\ dispatching' = dispatching \union messages

\* onLocalWorkflowProposal, onLocalWorkflowInstance; an accepted proposal is dispatched.
JudgeLocal(n, s, outcome) ==
  /\ <<n, s, "local">> \in checks
  /\ checks' = checks \ {<<n, s, "local">>}
  /\ Append1(n, s, Event(IF outcome = "accepted" THEN "localAccepted" ELSE "localRejected", n))
  /\ Dispatch({m \in Message : /\ outcome = "accepted"
                               /\ m = [type |-> "propose", proposal |-> s, sender |-> n]})
  /\ UNCHANGED <<failed, handled, followUps, open, restarts>>

\* Mutated: whatever the rule services say.
AcceptAlways(outcome) == {"accept"}

\* The answer that follows from a verdict on a received proposal.  The denial of a
\* service that did not answer is null: reading its reason throws, nothing is sent.
AnswerTo(outcome) ==
  CASE outcome = "accepted"    -> {"accept"}
    [] outcome = "rejected"    -> {"reject"}
    [] outcome = "unreachable" -> {}

\* onExternalWorkflowProposal, onExternalWorkflowInstance
JudgeReceived(n, s, outcome) ==
  /\ <<n, s, "received">> \in checks
  /\ checks' = checks \ {<<n, s, "received">>}
  /\ Append1(n, s, Event(IF outcome = "accepted" THEN "receivedAccepted" ELSE "receivedRejected", n))
  /\ Dispatch({m \in Message : m.type \in AnswerTo(outcome) /\ m.proposal = s /\ m.sender = n})
  /\ UNCHANGED <<failed, handled, followUps, open, restarts>>

-----------------------------------------------------------------------------
(* Messages *)

\* onReceivedWorkflow, onReceivedWorkflowInstance
OnReceived(m, n) ==
  /\ Append1(n, m.proposal, Event("received", n))
  /\ checks' = checks \union {<<n, m.proposal, "received">>}
  /\ UNCHANGED followUps

\* onParticipantAcceptedWorkflow, onParticipantRejectedWorkflow and those of instances:
\* the first of their two appends.
OnAnswer(m, n) ==
  /\ Append1(n, m.proposal,
       Event(IF m.type = "accept" THEN "acceptedByParticipant" ELSE "rejectedByParticipant",
             m.sender))
  /\ followUps' = followUps \union {<<m, n>>}
  /\ UNCHANGED checks

\* The message reaches the handlers of node n.
Handle(m, n) ==
  /\ IF CanAppend(n, m.proposal)
     THEN /\ IF m.type = "propose" THEN OnReceived(m, n) ELSE OnAnswer(m, n)
          /\ handled' = handled \union {<<m, n>>}
     ELSE UNCHANGED <<record, checks, followUps, handled>>
  /\ UNCHANGED <<open, restarts>>

\* The peer's controller passes a posted message on.
Deliver(m, n) ==
  /\ <<m, n>> \in outbox
  /\ outbox' = outbox \ {<<m, n>>}
  /\ Handle(m, n)
  /\ UNCHANGED <<dispatching, failed>>

PostFails(m, n) ==
  /\ PostMayFail
  /\ <<m, n>> \in outbox
  /\ outbox' = outbox \ {<<m, n>>}
  /\ failed' = failed \union {m}
  /\ UNCHANGED <<record, checks, dispatching, handled, followUps, open, restarts>>

\* Mutated: it does not wait for the posts.
ReceiveOwnAtOnce(m) ==
  /\ m \in dispatching
  /\ dispatching' = dispatching \ {m}
  /\ Handle(m, m.sender)
  /\ UNCHANGED <<outbox, failed>>

\* Mutated: it does not receive it.
PostOnly(m) ==
  /\ m \in dispatching
  /\ dispatching' = dispatching \ {m}
  /\ UNCHANGED <<record, checks, outbox, failed, handled, followUps, open, restarts>>

\* The sender receives its own message once all posts returned or the first one failed.
ReceiveOwn(m) ==
  /\ m \in dispatching
  /\ m \in failed \/ \A p \in Node : <<m, p>> \notin outbox
  /\ dispatching' = dispatching \ {m}
  /\ Handle(m, m.sender)
  /\ UNCHANGED <<outbox, failed>>

\* workflowAccepted, workflowRejected: one after each single answer.
FollowUp(m, n) ==
  /\ <<m, n>> \in followUps
  /\ followUps' = followUps \ {<<m, n>>}
  /\ Append1(n, m.proposal, Event(IF m.type = "accept" THEN "accepted" ELSE "rejected", m.sender))
  /\ UNCHANGED <<checks, outbox, dispatching, failed, handled, open, restarts>>

\* A node stops and comes back: its handlers and dispatches are gone, and OrbitDB opens
\* the instances logs of all workflows it knows; if their aggregation throws, the node
\* does not start.
Restart(n) ==
  /\ restarts < MaxRestart
  /\ persistence = "OrbitDB" => \A w \in Proposal : Parent[w] = NoParent => record[n][w] # Thrown
  /\ restarts' = restarts + 1
  /\ checks' = {c \in checks : c[1] # n}
  /\ outbox' = {x \in outbox : x[1].sender # n}
  /\ dispatching' = {m \in dispatching : m.sender # n}
  /\ followUps' = {x \in followUps : x[2] # n}
  /\ open' = {x \in open : x[1] # n} \union
       {x \in {n} \X {w \in Proposal : Parent[w] = NoParent} : record[n][x[2]] # NoRecord}
  /\ UNCHANGED <<record, failed, handled>>

-----------------------------------------------------------------------------
Handler ==
  \/ \E n \in Node, s \in Proposal, outcome \in RuleOutcome :
       JudgeLocal(n, s, outcome) \/ JudgeReceived(n, s, outcome)
  \/ \E x \in outbox : Deliver(x[1], x[2])
  \/ \E m \in dispatching : ReceiveOwn(m)
  \/ \E x \in followUps : FollowUp(x[1], x[2])

Environment ==
  \/ \E s \in Proposal : ProposeWorkflow(s) \/ LaunchWorkflowInstance(s)
  \/ \E x \in outbox : PostFails(x[1], x[2])
  \/ \E n \in Node : Restart(n)

Next == (Handler \/ Environment) /\ UNCHANGED persistence

Spec == Init /\ [][Next]_vars
=============================================================================
