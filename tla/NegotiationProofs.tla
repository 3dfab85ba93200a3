--------------------------- MODULE NegotiationProofs ---------------------------
(***************************************************************************)
(* What negotiating nodes promise, for any number of nodes and proposals   *)
(* and under both persistence strategies: answers are true, a rejection    *)
(* prevails, an aggregation fails only when an answer overtook the         *)
(* proposal, and in the end all nodes know every answer.                   *)
(*                                                                         *)
(* The invariant follows a proposal: its announcement is sent once, after  *)
(* the local check; a node that got it judges it once, before it answers;  *)
(* and what a log tells of an answer stems from the answer itself.         *)
(***************************************************************************)
EXTENDS NegotiationProperties, TLAPS

Sent(m) ==
  m \in dispatching \/ \E p \in Node : <<m, p>> \in outbox \/ <<m, p>> \in handled

\* The message that posts proposal s, and whether node n has appended it.
Announcement(s) == [type |-> "propose", proposal |-> s, sender |-> Proposer[s]]
Got(n, s) == <<Announcement(s), n>> \in handled

\* m is an answer of node n about proposal s.
AnswerOf(m, n, s) == m.type # "propose" /\ m.proposal = s /\ m.sender = n

\* No message is handled twice by a node; follow-ups are those of handled answers.
DeliveredOnce ==
  /\ \A x \in outbox : x \notin handled /\ x[2] # x[1].sender
  /\ \A m \in dispatching : <<m, m.sender>> \notin handled
  /\ \A x \in followUps : x \in handled /\ x[1].type # "propose"

\* A message is an announcement, or an answer of a node that got one.
MessagesHaveCause ==
  \A m \in Message : Sent(m) =>
    IF m.type = "propose" THEN m = Announcement(m.proposal) ELSE Got(m.sender, m.proposal)

\* While the proposer's own check is under way nothing is sent, while a received proposal is
\* being judged it is not answered.
ChecksComeFirst ==
  \A n \in Node, s \in Proposal :
    /\ <<n, s, "local">> \in checks =>
         n = Proposer[s] /\ record[n][s] # NoRecord /\ \A m \in Message : m.proposal = s => ~Sent(m)
    /\ <<n, s, "received">> \in checks =>
         Got(n, s) /\ \A m \in Message : AnswerOf(m, n, s) => ~Sent(m)

\* What a node holds of a proposal begins with its proposer, and with the workflow of an
\* instance.
RecordsHaveCause ==
  /\ \A n \in Node, s \in Proposal : record[n][s] # NoRecord =>
       /\ record[Proposer[s]][s] # NoRecord
       /\ Parent[s] # NoParent => record[Proposer[Parent[s]]][Parent[s]] # NoRecord
  /\ \A m \in Message : Sent(m) => record[Proposer[m.proposal]][m.proposal] # NoRecord
  /\ \A x \in handled : record[x[2]][x[1].proposal] # NoRecord

\* The verdict that a node's log holds is the one that its answer tells.
VerdictsMatchAnswers ==
  \A n \in Node, s \in Proposal : Known(n, s) =>
    LET flag == record[n][s].acceptedByRuleServices
    IN  /\ Got(n, s) \/ n = Proposer[s]
        /\ ~Got(n, s) /\ (<<n, s, "local">> \in checks \/ Sent(Announcement(s))) => flag # "false"
        /\ <<n, s, "received">> \in checks => flag # "false"
        /\ \A m \in Message : AnswerOf(m, n, s) /\ Sent(m) =>
             flag = IF m.type = "accept" THEN "true" ELSE "false"

\* What a log tells of participants stems from their answers.
DecisionsHaveCause ==
  \A n \in Node, s \in Proposal : Known(n, s) =>
    /\ \A p \in record[n][s].participantsAccepted :
         <<[type |-> "accept", proposal |-> s, sender |-> p], n>> \in handled
    /\ \A p \in record[n][s].participantsRejected :
         <<[type |-> "reject", proposal |-> s, sender |-> p], n>> \in handled
    /\ record[n][s].acceptedByParticipants = "false" =>
         \E x \in handled : x[1].type = "reject" /\ x[1].proposal = s /\ x[2] = n

\* Under EventStore a log forgets no answer, nor a rejection whose follow-up a node did not lose.
AnswersKept ==
  persistence = "EventStore" =>
    \A x \in handled :
      LET r == record[x[2]][x[1].proposal]
      IN  x[1].type # "propose" /\ Known(x[2], x[1].proposal) =>
            /\ x[1].sender \in r.participantsAccepted \union r.participantsRejected
            /\ x[1].type = "reject" /\ x \notin followUps /\ restarts = 0 =>
                 r.acceptedByParticipants = "false"

\* As long as nothing fails a message gets everywhere where it can be stored, to its sender
\* last.
NothingLost ==
  failed = {} /\ restarts = 0 =>
    /\ \A x \in outbox : x[1] \in dispatching
    /\ \A m \in Message, p \in Node : Sent(m) =>
         \/ <<m, p>> \in outbox \/ <<m, p>> \in handled \/ (p = m.sender /\ m \in dispatching)
         \/ ~CanAppend(p, m.proposal)

\* ... and a node that got a proposal answers it, or holds it for rejected.
NothingUnanswered ==
  failed = {} /\ restarts = 0 /\ persistence = "EventStore" =>
    \A n \in Node, s \in Proposal : Got(n, s) =>
      \/ <<n, s, "received">> \in checks
      \/ \E m \in Message : AnswerOf(m, n, s) /\ Sent(m)
      \/ Known(n, s) => record[n][s].acceptedByRuleServices = "false"

NegotiationInv ==
  /\ TypeOK
  /\ DeliveredOnce
  /\ MessagesHaveCause
  /\ ChecksComeFirst
  /\ RecordsHaveCause
  /\ VerdictsMatchAnswers
  /\ DecisionsHaveCause
  /\ AnswersKept
  /\ NothingLost
  /\ NothingUnanswered
  /\ FailsOnlyWhenOvertaken

-----------------------------------------------------------------------------
(* Appending *)

\* The types of the events that negotiating nodes append.
Appended == Proposals \union RuleVerdicts \union ParticipantVerdicts

\* A log that a proposal begins never throws; any other event makes an unknown proposal
\* throw, for good.
LEMMA StepThrows ==
  ASSUME NEW r \in Aggregate \union {NoRecord, Thrown}, NEW type \in Appended, NEW by \in Node,
         TypeOK
  PROVE  LET q == Step(r, Event(type, by)) IN
         /\ q \in Aggregate \union {Thrown}
         /\ r = Thrown => q = Thrown
         /\ r = NoRecord /\ type \notin Proposals => q = Thrown
         /\ r = NoRecord /\ type \in Proposals => q = Proposed(NoState) /\ q \in Aggregate
         /\ r \in Aggregate => q \in Aggregate
  <1> DEFINE e == Event(type, by)
  <1> USE NegotiationAssumption DEF Appended, Event, TypeOK
  <1>1. CASE r = Thrown
    BY <1>1 DEF Step, FoldEvent, ProjectEvent
  <1>2. CASE r = NoRecord
    BY <1>2 DEF Step, FoldEvent, ProjectEvent, Proposals, Transitions, RuleVerdicts,
      ParticipantVerdicts, Proposed, Aggregate, Flag
  <1>3. CASE r \in Aggregate /\ type \in Proposals
    BY <1>3 DEF Step, FoldEvent, ProjectEvent, Proposals, Transitions, Proposed, Aggregate, Flag
  <1>4. CASE r \in Aggregate /\ type \notin Proposals
    <2>1. Step(r, e) = Judge(r, e)
      BY <1>4 DEF Step, FoldEvent, ProjectEvent, Proposals, Transitions, RuleVerdicts, ParticipantVerdicts
    <2>2. Judge(r, e) \in Aggregate
      BY <1>4, ZenonT(60) DEF Judge, Accept, Aggregate, Flag, RuleVerdicts, ParticipantVerdicts
    <2> QED BY <1>4, <2>1, <2>2
  <1> QED BY <1>1, <1>2, <1>3, <1>4

\* What a received proposal changes in a log: under OrbitDB everything, else nothing.
LEMMA StepReceived ==
  ASSUME NEW r \in Aggregate, NEW by \in Node, TypeOK
  PROVE  LET q == Step(r, Event("received", by)) IN
         /\ persistence = "OrbitDB" => q = Proposed(NoState)
         /\ persistence = "EventStore" => q = [r EXCEPT !.currentState = NoState]
  BY NegotiationAssumption DEF TypeOK, Step, FoldEvent, ProjectEvent, Event, Proposals, Transitions

\* What a verdict changes in a log.
LEMMA StepJudges ==
  ASSUME NEW r \in Aggregate, NEW type \in RuleVerdicts \union ParticipantVerdicts,
         NEW by \in Node, TypeOK
  PROVE  LET q == Step(r, Event(type, by)) IN
         /\ q.acceptedByRuleServices =
              IF type \in {"localAccepted", "receivedAccepted"} THEN Accept(r.acceptedByRuleServices)
              ELSE IF type \in {"localRejected", "receivedRejected"} THEN "false"
              ELSE r.acceptedByRuleServices
         /\ q.participantsAccepted =
              IF type = "acceptedByParticipant"
                       THEN r.participantsAccepted \union {by} ELSE r.participantsAccepted
         /\ q.participantsRejected =
              IF type = "rejectedByParticipant"
                       THEN r.participantsRejected \union {by} ELSE r.participantsRejected
         /\ q.acceptedByParticipants =
              IF type = "accepted" THEN Accept(r.acceptedByParticipants)
              ELSE IF type = "rejected" THEN "false" ELSE r.acceptedByParticipants
  <1>1. Step(r, Event(type, by)) = Judge(r, Event(type, by))
    BY NegotiationAssumption
    DEF TypeOK, Step, FoldEvent, ProjectEvent, Event, Proposals, Transitions, RuleVerdicts, ParticipantVerdicts
  <1> QED BY <1>1 DEF Judge, Event, Aggregate, RuleVerdicts, ParticipantVerdicts

\* Appending to one log leaves all others alone, and no log ever forgets that it began.
LEMMA Appends ==
  ASSUME NEW n \in Node, NEW s \in Proposal, NEW type \in Appended, NEW by \in Node,
         TypeOK, Append1(n, s, Event(type, by))
  PROVE  /\ record' \in [Node -> [Proposal -> Aggregate \union {NoRecord, Thrown}]]
         /\ record'[n][s] = Step(record[n][s], Event(type, by))
         /\ record'[n][s] # NoRecord
         /\ \A k \in Node, t \in Proposal :
              /\ k # n \/ t # s => record'[k][t] = record[k][t]
              /\ record[k][t] # NoRecord => record'[k][t] # NoRecord
              /\ record[k][t] = Thrown => record'[k][t] = Thrown
              /\ record[k][t] \in Aggregate => record'[k][t] \in Aggregate
  <1> DEFINE q == Step(record[n][s], Event(type, by))
  <1>1. record[n][s] \in Aggregate \union {NoRecord, Thrown}
    BY DEF TypeOK
  <1>2. /\ q \in Aggregate \union {Thrown}
        /\ record[n][s] = Thrown => q = Thrown
        /\ record[n][s] \in Aggregate => q \in Aggregate
    BY <1>1, StepThrows
  <1>3. record' = [record EXCEPT ![n][s] = q]
    BY DEF Append1
  <1> HIDE DEF q
  <1>4. record' \in [Node -> [Proposal -> Aggregate \union {NoRecord, Thrown}]]
    BY <1>2, <1>3 DEF TypeOK
  <1>5. /\ record'[n][s] = q
        /\ \A k \in Node, t \in Proposal : k # n \/ t # s => record'[k][t] = record[k][t]
    BY <1>3 DEF TypeOK
  <1>6. q # NoRecord
    BY <1>2, NegotiationAssumption
  <1> QED BY <1>2, <1>4, <1>5, <1>6 DEF q

\* A verdict leaves every known log known.
LEMMA AppendsVerdict ==
  ASSUME NEW n \in Node, NEW s \in Proposal, NEW by \in Node,
         NEW type \in RuleVerdicts \union ParticipantVerdicts,
         TypeOK, Append1(n, s, Event(type, by)), persistence' = persistence
  PROVE  /\ record' \in [Node -> [Proposal -> Aggregate \union {NoRecord, Thrown}]]
         /\ \A k \in Node, t \in Proposal :
              /\ k # n \/ t # s => record'[k][t] = record[k][t]
              /\ record[k][t] # NoRecord => record'[k][t] # NoRecord
              /\ record'[k][t] = Thrown =>
                   record[k][t] = Thrown \/ (k = n /\ t = s /\ record[k][t] = NoRecord)
              /\ Known(k, t) <=> record[k][t] \in Aggregate
              /\ Known(k, t)' <=> record'[k][t] \in Aggregate
              /\ Known(k, t)' <=> Known(k, t)
  <1>1. type \in Appended /\ type \notin Proposals
    BY DEF Appended, RuleVerdicts, ParticipantVerdicts, Proposals
  <1>2. /\ record' \in [Node -> [Proposal -> Aggregate \union {NoRecord, Thrown}]]
        /\ record'[n][s] = Step(record[n][s], Event(type, by))
        /\ \A k \in Node, t \in Proposal :
             /\ k # n \/ t # s => record'[k][t] = record[k][t]
             /\ record[k][t] # NoRecord => record'[k][t] # NoRecord
    BY <1>1, Appends
  <1>3. record[n][s] \in Aggregate \union {NoRecord, Thrown}
    BY DEF TypeOK
  <1>4. /\ record[n][s] \in Aggregate => record'[n][s] \in Aggregate
        /\ record[n][s] \notin Aggregate => record'[n][s] = Thrown
    BY <1>1, <1>2, <1>3, StepThrows
  <1>5. \A k \in Node, t \in Proposal :
          /\ Known(k, t) <=> record[k][t] \in Aggregate
          /\ Known(k, t)' <=> record'[k][t] \in Aggregate
    BY <1>2, NegotiationAssumption DEF TypeOK, Known
  <1>6. \A k \in Node, t \in Proposal : Known(k, t)' <=> Known(k, t)
    BY <1>2, <1>4, <1>5, NegotiationAssumption
  <1>7. \A k \in Node, t \in Proposal : record'[k][t] = Thrown =>
          record[k][t] = Thrown \/ (k = n /\ t = s /\ record[k][t] = NoRecord)
    BY <1>2, <1>3, <1>4, NegotiationAssumption
  <1> QED BY <1>2, <1>5, <1>6, <1>7

\* ... and changes there what it is about.
LEMMA AppendedVerdict ==
  ASSUME NEW n \in Node, NEW s \in Proposal, NEW by \in Node,
         NEW type \in RuleVerdicts \union ParticipantVerdicts,
         TypeOK, Append1(n, s, Event(type, by)), Known(n, s)
  PROVE  LET r == record[n][s]
             q == record'[n][s]
         IN  /\ type \in {"localAccepted", "receivedAccepted"} =>
                  q.acceptedByRuleServices = Accept(r.acceptedByRuleServices)
             /\ type \in {"localRejected", "receivedRejected"} => q.acceptedByRuleServices = "false"
             /\ type \notin RuleVerdicts => q.acceptedByRuleServices = r.acceptedByRuleServices
             /\ q.participantsAccepted = IF type = "acceptedByParticipant"
                  THEN r.participantsAccepted \union {by} ELSE r.participantsAccepted
             /\ q.participantsRejected = IF type = "rejectedByParticipant"
                  THEN r.participantsRejected \union {by} ELSE r.participantsRejected
             /\ type = "accepted" => q.acceptedByParticipants = Accept(r.acceptedByParticipants)
             /\ type = "rejected" => q.acceptedByParticipants = "false"
             /\ type \notin {"accepted", "rejected"} =>
                  q.acceptedByParticipants = r.acceptedByParticipants
  <1>1. record[n][s] \in Aggregate
    BY NegotiationAssumption DEF TypeOK, Known
  <1>2. record'[n][s] = Step(record[n][s], Event(type, by))
    BY Appends DEF Appended
  <1> PICK r : r = record[n][s]
    OBVIOUS
  <1> PICK q : q = record'[n][s]
    OBVIOUS
  <1>3. /\ q.acceptedByRuleServices =
             IF type \in {"localAccepted", "receivedAccepted"} THEN Accept(r.acceptedByRuleServices)
             ELSE IF type \in {"localRejected", "receivedRejected"} THEN "false"
             ELSE r.acceptedByRuleServices
        /\ q.participantsAccepted = IF type = "acceptedByParticipant"
             THEN r.participantsAccepted \union {by} ELSE r.participantsAccepted
        /\ q.participantsRejected = IF type = "rejectedByParticipant"
             THEN r.participantsRejected \union {by} ELSE r.participantsRejected
        /\ q.acceptedByParticipants =
             IF type = "accepted" THEN Accept(r.acceptedByParticipants)
             ELSE IF type = "rejected" THEN "false" ELSE r.acceptedByParticipants
    <2>1. r \in Aggregate /\ q = Step(r, Event(type, by))
      BY <1>1, <1>2
    <2> QED BY <2>1, StepJudges
  <1>4. type \notin RuleVerdicts =>
          type \notin {"localAccepted", "receivedAccepted"} /\ type \notin {"localRejected", "receivedRejected"}
    BY DEF RuleVerdicts
  <1> QED BY <1>3, <1>4

\* Logs keep their cause as long as none but those of announced proposals begin.
LEMMA CausesKept ==
  ASSUME TypeOK, RecordsHaveCause, handled' \subseteq Message \X Node,
         \A k \in Node, t \in Proposal :
           /\ record[k][t] # NoRecord => record'[k][t] # NoRecord
           /\ record'[k][t] # NoRecord => record[Proposer[t]][t] # NoRecord,
         \A m \in Message : Sent(m)' => record[Proposer[m.proposal]][m.proposal] # NoRecord,
         \A x \in handled' : record'[x[2]][x[1].proposal] # NoRecord
  PROVE  RecordsHaveCause'
  <1>1. \A t \in Proposal : Proposer[t] \in Node /\ (Parent[t] # NoParent => Parent[t] \in Proposal)
    BY NegotiationAssumption
  <1>2. \A t \in Proposal : record[Proposer[t]][t] # NoRecord =>
          /\ record'[Proposer[t]][t] # NoRecord
          /\ Parent[t] # NoParent => record'[Proposer[Parent[t]]][Parent[t]] # NoRecord
    BY <1>1 DEF RecordsHaveCause
  <1>3. \A m \in Message : m.proposal \in Proposal
    BY DEF Message
  <1> QED BY <1>2, <1>3 DEF RecordsHaveCause

-----------------------------------------------------------------------------
(* A message arrives *)

LogInv ==
  /\ ChecksComeFirst
  /\ RecordsHaveCause
  /\ VerdictsMatchAnswers
  /\ DecisionsHaveCause
  /\ AnswersKept
  /\ NothingUnanswered
  /\ FailsOnlyWhenOvertaken

\* Node n handles message m, which may be gone afterwards.
Arrives(m, n) ==
  /\ Sent(m) /\ <<m, n>> \notin handled
  /\ Handle(m, n)
  /\ outbox' \subseteq outbox /\ dispatching' \subseteq dispatching
  /\ persistence = "EventStore" => \A k \in Message : Sent(k) => Sent(k)'
  /\ UNCHANGED <<persistence, failed>>

\* A message that arrives sends none.
LEMMA ArrivalSendsNothing ==
  ASSUME NEW m \in Message, NEW n \in Node, Arrives(m, n)
  PROVE  \A k \in Message : Sent(k)' => Sent(k)
  BY DEF Arrives, Handle, Sent

\* The first arrival of a proposal: the node has not answered it yet.
LEMMA ProposalArrives ==
  ASSUME NEW m \in Message, NEW n \in Node, NegotiationInv, Arrives(m, n),
         CanAppend(n, m.proposal), m.type = "propose"
  PROVE  TypeOK' /\ LogInv'
  <1> DEFINE s == m.proposal
  <1> USE DEF NegotiationInv
  <1>1. /\ s \in Proposal /\ m = Announcement(s) /\ ~Got(n, s) /\ Sent(Announcement(s))
        /\ \A t \in Proposal : m = Announcement(t) <=> t = s
    BY DEF Message, Arrives, MessagesHaveCause, Announcement, Got
  <1>2. /\ Append1(n, s, Event("received", n))
        /\ checks' = checks \union {<<n, s, "received">>}
        /\ handled' = handled \union {<<m, n>>}
        /\ UNCHANGED <<persistence, failed, followUps, open, restarts>>
        /\ outbox' \subseteq outbox /\ dispatching' \subseteq dispatching
    BY DEF Arrives, Handle, OnReceived
  <1>3. \A k \in Message : Sent(k)' => Sent(k)
    BY ArrivalSendsNothing
  <1>4. /\ record' \in [Node -> [Proposal -> Aggregate \union {NoRecord, Thrown}]]
        /\ record'[n][s] = Step(record[n][s], Event("received", n))
        /\ record'[n][s] # NoRecord
        /\ \A k \in Node, t \in Proposal :
             /\ k # n \/ t # s => record'[k][t] = record[k][t]
             /\ record[k][t] # NoRecord => record'[k][t] # NoRecord
             /\ record[k][t] = Thrown => record'[k][t] = Thrown
    BY <1>1, <1>2, Appends DEF Appended, Proposals
  <1>5. TypeOK'
    BY <1>1, <1>2, <1>4 DEF TypeOK, Check
  <1>6. \A k \in Node, t \in Proposal :
          /\ Known(k, t) <=> record[k][t] \in Aggregate
          /\ Known(k, t)' <=> record'[k][t] \in Aggregate
          /\ record[k][t] \in Aggregate \union {NoRecord, Thrown}
    BY <1>5, NegotiationAssumption DEF TypeOK, Known
  <1>7. \A k \in Node, t \in Proposal : Got(k, t)' <=> Got(k, t) \/ (k = n /\ t = s)
    BY <1>1, <1>2 DEF Got
  <1>8. \A k \in Message : AnswerOf(k, n, s) => ~Sent(k)'
    BY <1>1, <1>3 DEF MessagesHaveCause, AnswerOf
  <1>9. ChecksComeFirst'
    <2> SUFFICES ASSUME NEW k \in Node, NEW t \in Proposal
                 PROVE  /\ <<k, t, "local">> \in checks' =>
                             k = Proposer[t] /\ record'[k][t] # NoRecord
                               /\ \A a \in Message : a.proposal = t => ~Sent(a)'
                        /\ <<k, t, "received">> \in checks' =>
                             Got(k, t)' /\ \A a \in Message : AnswerOf(a, k, t) => ~Sent(a)'
      BY DEF ChecksComeFirst, AnswerOf
    <2> QED BY <1>1, <1>2, <1>3, <1>4, <1>7, <1>8 DEF ChecksComeFirst
  <1>10. RecordsHaveCause'
    <2>1. \A k \in Node, t \in Proposal : record'[k][t] # NoRecord => record[Proposer[t]][t] # NoRecord
      BY <1>1, <1>4 DEF RecordsHaveCause, Arrives
    <2>2. \A x \in handled' : record'[x[2]][x[1].proposal] # NoRecord
      BY <1>1, <1>2, <1>4 DEF RecordsHaveCause, TypeOK, Message
    <2> QED BY <1>3, <1>4, <1>5, <2>1, <2>2, CausesKept DEF TypeOK, RecordsHaveCause
  <1>11. record'[n][s] \in Aggregate =>
           /\ \/ record'[n][s] = Proposed(NoState)
              \/ /\ record[n][s] \in Aggregate
                 /\ record'[n][s] = [record[n][s] EXCEPT !.currentState = NoState]
           /\ persistence = "EventStore" /\ record[n][s] # NoRecord =>
                /\ record[n][s] \in Aggregate
                /\ record'[n][s] = [record[n][s] EXCEPT !.currentState = NoState]
    <2>1. record[n][s] = NoRecord => record'[n][s] = Proposed(NoState)
      BY <1>1, <1>4, <1>6, StepThrows DEF Appended, Proposals
    <2>2. record[n][s] = Thrown => record'[n][s] = Thrown
      BY <1>1, <1>4
    <2>3. record[n][s] \in Aggregate =>
            IF persistence = "OrbitDB" THEN record'[n][s] = Proposed(NoState)
            ELSE record'[n][s] = [record[n][s] EXCEPT !.currentState = NoState]
      <3> PICK r : r = record[n][s]
        OBVIOUS
      <3> PICK q : q = Step(r, Event("received", n))
        OBVIOUS
      <3>1. record'[n][s] = q
        BY <1>4
      <3>2. r \in Aggregate => /\ persistence = "OrbitDB" => q = Proposed(NoState)
                               /\ persistence = "EventStore" => q = [r EXCEPT !.currentState = NoState]
        BY <1>1, StepReceived
      <3>3. persistence \in {"OrbitDB", "EventStore"}
        BY <1>1, NegotiationAssumption DEF TypeOK
      <3> QED BY <3>1, <3>2, <3>3
    <2>4. /\ record[n][s] \in Aggregate \union {NoRecord, Thrown}
          /\ NoRecord \notin Aggregate /\ Thrown \notin Aggregate
          /\ persistence \in {"OrbitDB", "EventStore"}
      BY <1>1, <1>6, NegotiationAssumption DEF TypeOK
    <2>5. CASE record[n][s] \in Aggregate
      BY <2>3, <2>4, <2>5
    <2>6. CASE record[n][s] = NoRecord
      BY <2>1, <2>6
    <2>7. CASE record[n][s] = Thrown
      BY <2>2, <2>4, <2>7
    <2> QED BY <2>4, <2>5, <2>6, <2>7
  <1>12. record'[n][s] \in Aggregate =>
           LET r == record[n][s]
               q == record'[n][s]
           IN  /\ q.acceptedByRuleServices = "undefined" \/
                     (r \in Aggregate /\ q.acceptedByRuleServices = r.acceptedByRuleServices)
               /\ q.acceptedByParticipants = "undefined" \/
                     (r \in Aggregate /\ q.acceptedByParticipants = r.acceptedByParticipants)
               /\ q.participantsAccepted = {} \/
                     (r \in Aggregate /\ q.participantsAccepted = r.participantsAccepted)
               /\ q.participantsRejected = {} \/
                     (r \in Aggregate /\ q.participantsRejected = r.participantsRejected)
    BY <1>11 DEF Aggregate, Proposed
  <1>13. VerdictsMatchAnswers'
    <2> SUFFICES ASSUME NEW k \in Node, NEW t \in Proposal, record'[k][t] \in Aggregate
                 PROVE  LET flag == record'[k][t].acceptedByRuleServices IN
                        /\ Got(k, t)' \/ k = Proposer[t]
                        /\ ~Got(k, t)' /\ (<<k, t, "local">> \in checks' \/ Sent(Announcement(t))')
                             => flag # "false"
                        /\ <<k, t, "received">> \in checks' => flag # "false"
                        /\ \A a \in Message : AnswerOf(a, k, t) /\ Sent(a)' =>
                             flag = IF a.type = "accept" THEN "true" ELSE "false"
      BY <1>6 DEF VerdictsMatchAnswers, AnswerOf, Announcement
    <2>1. CASE k = n /\ t = s
      <3>1. Got(k, t)'
        BY <2>1, <1>7
      <3>2. Known(n, s) => record[n][s].acceptedByRuleServices # "false"
        BY <1>1 DEF VerdictsMatchAnswers
      <3> QED BY <2>1, <3>1, <3>2, <1>1, <1>6, <1>8, <1>12
    <2>2. CASE k # n \/ t # s
      <3>1. record'[k][t] = record[k][t] /\ Known(k, t) /\ (Got(k, t)' <=> Got(k, t))
        BY <2>2, <1>4, <1>6, <1>7
      <3>2. Announcement(t) \in Message
        BY NegotiationAssumption DEF Announcement, Message
      <3> QED BY <2>2, <3>1, <3>2, <1>2, <1>3 DEF VerdictsMatchAnswers
    <2> QED BY <2>1, <2>2
  <1>14. DecisionsHaveCause'
    BY <1>2, <1>4, <1>6, <1>12 DEF DecisionsHaveCause
  <1>15. AnswersKept'
    <2> SUFFICES ASSUME persistence = "EventStore", NEW x \in handled, x[1].type # "propose",
                        record'[x[2]][x[1].proposal] \in Aggregate
                 PROVE  LET r == record'[x[2]][x[1].proposal] IN
                        /\ x[1].sender \in r.participantsAccepted \union r.participantsRejected
                        /\ x[1].type = "reject" /\ x \notin followUps /\ restarts = 0 =>
                             r.acceptedByParticipants = "false"
      BY <1>2, <1>5, <1>6 DEF AnswersKept, TypeOK, Message
    <2>1. x[2] \in Node /\ x[1].proposal \in Proposal /\ record[x[2]][x[1].proposal] # NoRecord
      BY DEF TypeOK, Message, RecordsHaveCause
    <2>2. /\ record[x[2]][x[1].proposal] \in Aggregate
          /\ record'[x[2]][x[1].proposal] = record[x[2]][x[1].proposal] \/
               record'[x[2]][x[1].proposal] = [record[x[2]][x[1].proposal] EXCEPT !.currentState = NoState]
      BY <2>1, <1>4, <1>11
    <2>3. LET r == record[x[2]][x[1].proposal]
              q == record'[x[2]][x[1].proposal]
          IN  /\ q.participantsAccepted = r.participantsAccepted
              /\ q.participantsRejected = r.participantsRejected
              /\ q.acceptedByParticipants = r.acceptedByParticipants
      BY <2>2 DEF Aggregate
    <2>4. Known(x[2], x[1].proposal)
      BY <1>6, <2>1, <2>2
    <2>5. LET r == record[x[2]][x[1].proposal] IN
          /\ x[1].sender \in r.participantsAccepted \union r.participantsRejected
          /\ x[1].type = "reject" /\ x \notin followUps /\ restarts = 0 =>
               r.acceptedByParticipants = "false"
      BY <2>4 DEF AnswersKept
    <2> QED BY <2>3, <2>5
  <1>16. NothingUnanswered'
    BY <1>1, <1>2, <1>3, <1>4, <1>6, <1>7 DEF NothingUnanswered, AnswerOf, Arrives
  <1>17. FailsOnlyWhenOvertaken'
    <2>1. record'[n][s] = Thrown => record[n][s] = Thrown
      <3>1. "received" \in Appended /\ "received" \in Proposals
        BY DEF Appended, Proposals
      <3>2. \A r \in Aggregate \union {NoRecord} : Step(r, Event("received", n)) \in Aggregate
        <4> TAKE r \in Aggregate \union {NoRecord}
        <4> PICK q : q = Step(r, Event("received", n))
          OBVIOUS
        <4>1. /\ r = NoRecord => q \in Aggregate
              /\ r \in Aggregate => q \in Aggregate
          BY <3>1, StepThrows
        <4> QED BY <4>1
      <3>3. record[n][s] \in Aggregate \union {NoRecord} => record'[n][s] \in Aggregate
        BY <1>4, <3>2
      <3> QED BY <1>1, <1>6, <3>3, NegotiationAssumption
    <2> QED BY <1>2, <1>4, <2>1 DEF FailsOnlyWhenOvertaken
  <1> QED BY <1>5, <1>9, <1>10, <1>13, <1>14, <1>15, <1>16, <1>17 DEF LogInv

\* The arrival of an answer.  It makes an aggregation throw only where it overtakes the
\* proposal, which the proposer's answer cannot do as long as nothing is lost.
LEMMA AnswerArrives ==
  ASSUME NEW m \in Message, NEW n \in Node, NegotiationInv, Arrives(m, n),
         CanAppend(n, m.proposal), m.type # "propose"
  PROVE  TypeOK' /\ LogInv'
  <1> DEFINE s == m.proposal
             type == IF m.type = "accept" THEN "acceptedByParticipant" ELSE "rejectedByParticipant"
  <1> USE DEF NegotiationInv
  <1>1. /\ s \in Proposal /\ m.sender \in Node /\ Got(m.sender, s)
        /\ type \in RuleVerdicts \union ParticipantVerdicts
        /\ m.type \in {"accept", "reject"}
        /\ m = [type |-> m.type, proposal |-> s, sender |-> m.sender]
    BY DEF Message, Arrives, MessagesHaveCause, ParticipantVerdicts
  <1>2. /\ Append1(n, s, Event(type, m.sender))
        /\ handled' = handled \union {<<m, n>>}
        /\ followUps' = followUps \union {<<m, n>>}
        /\ UNCHANGED <<persistence, failed, checks, open, restarts>>
        /\ outbox' \subseteq outbox /\ dispatching' \subseteq dispatching
    BY DEF Arrives, Handle, OnAnswer
  <1>3. \A k \in Message : Sent(k)' => Sent(k)
    BY ArrivalSendsNothing
  <1>4. /\ record' \in [Node -> [Proposal -> Aggregate \union {NoRecord, Thrown}]]
        /\ \A k \in Node, t \in Proposal :
             /\ k # n \/ t # s => record'[k][t] = record[k][t]
             /\ record[k][t] # NoRecord => record'[k][t] # NoRecord
             /\ record'[k][t] = Thrown =>
                  record[k][t] = Thrown \/ (k = n /\ t = s /\ record[k][t] = NoRecord)
             /\ Known(k, t) <=> record[k][t] \in Aggregate
             /\ Known(k, t)' <=> record'[k][t] \in Aggregate
             /\ Known(k, t)' <=> Known(k, t)
    BY <1>1, <1>2, AppendsVerdict
  <1>5. Known(n, s) =>
          LET r == record[n][s]
              q == record'[n][s]
          IN  /\ q.acceptedByRuleServices = r.acceptedByRuleServices
              /\ q.participantsAccepted = IF m.type = "accept"
                   THEN r.participantsAccepted \union {m.sender} ELSE r.participantsAccepted
              /\ q.participantsRejected = IF m.type = "reject"
                   THEN r.participantsRejected \union {m.sender} ELSE r.participantsRejected
              /\ q.acceptedByParticipants = r.acceptedByParticipants
    <2>1. type \notin RuleVerdicts /\ type \notin {"accepted", "rejected"}
      BY DEF RuleVerdicts
    <2>2. /\ type = "acceptedByParticipant" <=> m.type = "accept"
          /\ type = "rejectedByParticipant" <=> m.type = "reject"
      BY <1>1
    <2>3. TypeOK
      OBVIOUS
    <2> HIDE DEF type, s, NegotiationInv
    <2>4. Known(n, s) =>
            LET r == record[n][s]
                q == record'[n][s]
            IN  /\ type \notin RuleVerdicts => q.acceptedByRuleServices = r.acceptedByRuleServices
                /\ q.participantsAccepted = IF type = "acceptedByParticipant"
                     THEN r.participantsAccepted \union {m.sender} ELSE r.participantsAccepted
                /\ q.participantsRejected = IF type = "rejectedByParticipant"
                     THEN r.participantsRejected \union {m.sender} ELSE r.participantsRejected
                /\ type \notin {"accepted", "rejected"} =>
                     q.acceptedByParticipants = r.acceptedByParticipants
      BY <1>1, <1>2, <2>3, AppendedVerdict, ZenonT(60)
    <2> QED BY <2>1, <2>2, <2>4
  <1> HIDE DEF type
  <1>6. record'[n][s] # NoRecord
    BY <1>1, <1>2, Appends DEF Appended
  <1>7. TypeOK'
    BY <1>2, <1>4 DEF TypeOK
  <1>8. \A k \in Node, t \in Proposal : Got(k, t)' <=> Got(k, t)
    <2>1. \A t \in Proposal : Announcement(t) # m
      BY DEF Announcement
    <2> QED BY <1>2, <2>1 DEF Got
  <1>9. ChecksComeFirst'
    <2> SUFFICES ASSUME NEW k \in Node, NEW t \in Proposal
                 PROVE  /\ <<k, t, "local">> \in checks =>
                             k = Proposer[t] /\ record'[k][t] # NoRecord
                               /\ \A a \in Message : a.proposal = t => ~Sent(a)'
                        /\ <<k, t, "received">> \in checks =>
                             Got(k, t)' /\ \A a \in Message : AnswerOf(a, k, t) => ~Sent(a)'
      BY <1>2 DEF ChecksComeFirst, AnswerOf
    <2>1. /\ <<k, t, "local">> \in checks =>
               k = Proposer[t] /\ record[k][t] # NoRecord
                 /\ \A a \in Message : a.proposal = t => ~Sent(a)
          /\ <<k, t, "received">> \in checks =>
               Got(k, t) /\ \A a \in Message : AnswerOf(a, k, t) => ~Sent(a)
      BY DEF ChecksComeFirst
    <2> QED BY <1>3, <1>4, <1>8, <2>1
  <1>10. RecordsHaveCause'
    <2>1. \A k \in Node, t \in Proposal : record'[k][t] # NoRecord => record[Proposer[t]][t] # NoRecord
      BY <1>1, <1>4 DEF RecordsHaveCause, Arrives
    <2>2. \A x \in handled' : record'[x[2]][x[1].proposal] # NoRecord
      BY <1>1, <1>2, <1>4, <1>6 DEF RecordsHaveCause, TypeOK, Message
    <2> QED BY <1>3, <1>4, <1>7, <2>1, <2>2, CausesKept DEF TypeOK, RecordsHaveCause
  <1>11. VerdictsMatchAnswers'
    <2>1. \A k \in Node, t \in Proposal : Known(k, t)' =>
            record'[k][t].acceptedByRuleServices = record[k][t].acceptedByRuleServices
      BY <1>1, <1>4, <1>5
    <2>2. \A t \in Proposal : Announcement(t) \in Message
      BY NegotiationAssumption DEF Announcement, Message
    <2> QED BY <2>1, <2>2, <1>2, <1>3, <1>4, <1>8 DEF VerdictsMatchAnswers, AnswerOf, Announcement
  <1>12. DecisionsHaveCause'
    BY <1>1, <1>2, <1>4, <1>5 DEF DecisionsHaveCause
  <1>13. AnswersKept'
    BY <1>1, <1>2, <1>4, <1>5 DEF AnswersKept, TypeOK, Message
  <1>14. NothingUnanswered'
    BY <1>2, <1>4, <1>5, <1>8 DEF NothingUnanswered, AnswerOf, Arrives
  <1>15. FailsOnlyWhenOvertaken'
    <2>1. ASSUME failed = {}, restarts = 0, record[n][s] = NoRecord
          PROVE  n # Proposer[s] /\ m.sender \notin {n, Proposer[s]}
      <3>1. n # Proposer[s]
        BY <1>1, <2>1 DEF RecordsHaveCause, Arrives
      <3>2. m.sender # n
        BY <1>1, <2>1 DEF RecordsHaveCause, Got, Announcement
      <3>3. ASSUME m.sender = Proposer[s] PROVE FALSE
        <4> DEFINE a == Announcement(s)
        <4>1. a \in Message /\ a.sender = Proposer[s] /\ a.proposal = s
          BY <1>1, NegotiationAssumption DEF Announcement, Message
        <4>2. <<a, a.sender>> \in handled /\ Sent(a)
          BY <1>1, <3>3, <4>1 DEF Got, Sent
        <4>3. a \notin dispatching /\ <<a, n>> \notin outbox
          BY <2>1, <4>2 DEF DeliveredOnce, NothingLost
        <4>4. <<a, n>> \in handled
          BY <2>1, <4>1, <4>2, <4>3 DEF NothingLost
        <4> QED BY <2>1, <4>1, <4>4 DEF RecordsHaveCause
      <3> QED BY <3>1, <3>2, <3>3
    <2>2. <<m, n>> \in handled' /\ handled \subseteq handled'
      BY <1>2
    <2> SUFFICES ASSUME failed = {}, restarts = 0, NEW k \in Node, NEW t \in Proposal,
                        record'[k][t] = Thrown
                 PROVE  \E x \in handled' :
                          /\ x[1].type # "propose" /\ x[1].proposal = t /\ x[2] = k
                          /\ k # Proposer[t] /\ x[1].sender \notin {k, Proposer[t]}
      BY <1>2 DEF FailsOnlyWhenOvertaken
    <2>3. CASE record[k][t] = Thrown
      BY <2>2, <2>3 DEF FailsOnlyWhenOvertaken
    <2>4. CASE k = n /\ t = s /\ record[n][s] = NoRecord
      <3>1. /\ m.type # "propose" /\ m.proposal = t /\ <<m, n>>[2] = k
            /\ k # Proposer[t] /\ m.sender \notin {k, Proposer[t]}
        BY <2>1, <2>4
      <3> QED BY <2>2, <3>1
    <2> QED BY <1>4, <2>3, <2>4
  <1> QED BY <1>7, <1>9, <1>10, <1>11, <1>12, <1>13, <1>14, <1>15 DEF LogInv

\* A message arrives, or is lost where it cannot be stored.
LEMMA MessageArrives ==
  ASSUME NEW m \in Message, NEW n \in Node, NegotiationInv, Arrives(m, n)
  PROVE  TypeOK' /\ LogInv'
  <1>1. CASE CanAppend(n, m.proposal)
    BY <1>1, ProposalArrives, AnswerArrives
  <1>2. CASE ~CanAppend(n, m.proposal)
    <2> USE DEF NegotiationInv
    <2>1. /\ UNCHANGED <<record, checks, followUps, handled, open, restarts, persistence, failed>>
          /\ outbox' \subseteq outbox /\ dispatching' \subseteq dispatching
          /\ persistence = "EventStore" => \A k \in Message : Sent(k) => Sent(k)'
      BY <1>2 DEF Arrives, Handle
    <2>2. \A k \in Message : Sent(k)' => Sent(k)
      BY ArrivalSendsNothing
    <2>3. TypeOK'
      BY <2>1 DEF TypeOK
    <2>4. \A k \in Node, t \in Proposal : (Known(k, t)' <=> Known(k, t)) /\ (Got(k, t)' <=> Got(k, t))
      BY <2>1 DEF Known, Got
    <2>5. \A t \in Proposal : Announcement(t) \in Message
      BY NegotiationAssumption DEF Announcement, Message
    <2>6. ChecksComeFirst' /\ RecordsHaveCause'
      BY <2>1, <2>2, <2>4 DEF ChecksComeFirst, RecordsHaveCause, AnswerOf
    <2>7. VerdictsMatchAnswers'
      BY <2>1, <2>2, <2>4, <2>5 DEF VerdictsMatchAnswers, AnswerOf, Announcement
    <2>8. DecisionsHaveCause' /\ AnswersKept' /\ FailsOnlyWhenOvertaken'
      BY <2>1, <2>4 DEF DecisionsHaveCause, AnswersKept, FailsOnlyWhenOvertaken, TypeOK, Message
    <2>9. NothingUnanswered'
      BY <2>1, <2>4 DEF NothingUnanswered, AnswerOf
    <2> QED BY <2>3, <2>6, <2>7, <2>8, <2>9 DEF LogInv
  <1> QED BY <1>1, <1>2

-----------------------------------------------------------------------------
(* The steps *)

\* A posted message arrives at a peer.
LEMMA DeliverKeeps ==
  ASSUME NegotiationInv, NEW x \in outbox, Deliver(x[1], x[2]), persistence' = persistence
  PROVE  NegotiationInv'
  <1> DEFINE m == x[1]
             n == x[2]
  <1> USE DEF NegotiationInv
  <1>1. /\ x = <<m, n>> /\ m \in Message /\ n \in Node /\ Sent(m)
        /\ <<m, n>> \notin handled /\ n # m.sender
    <2>1. x = <<m, n>> /\ m \in Message /\ n \in Node
      BY DEF TypeOK
    <2>2. <<m, n>> \in outbox
      BY <2>1
    <2> QED BY <2>1, <2>2 DEF DeliveredOnce, Sent
  <1>2. /\ outbox' = outbox \ {<<m, n>>}
        /\ Handle(m, n)
        /\ UNCHANGED <<persistence, dispatching, failed, open, restarts>>
    BY DEF Deliver, Handle
  <1> HIDE DEF m, n
  <1>3. \/ handled' = handled \union {<<m, n>>} /\ CanAppend(n, m.proposal)
        \/ handled' = handled /\ ~CanAppend(n, m.proposal)
    BY <1>2 DEF Handle
  <1>4. CanAppend(n, m.proposal) => \A k \in Message : Sent(k) => Sent(k)'
    BY <1>1, <1>2, <1>3 DEF Sent
  <1>5. Arrives(m, n)
    BY <1>1, <1>2, <1>4 DEF Arrives, CanAppend
  <1>6. \A k \in Message : Sent(k)' => Sent(k)
    BY <1>1, <1>5, ArrivalSendsNothing
  <1>7. \A k \in Node, s \in Proposal : CanAppend(k, s)' <=> CanAppend(k, s)
    BY <1>2 DEF CanAppend
  <1>8. DeliveredOnce'
    <2>1. followUps' = followUps \/ (followUps' = followUps \union {<<m, n>>} /\ m.type # "propose"
                                     /\ <<m, n>> \in handled')
      BY <1>2 DEF Handle, OnReceived, OnAnswer
    <2> QED BY <2>1, <1>1, <1>2, <1>3 DEF DeliveredOnce
  <1>9. MessagesHaveCause'
    BY <1>3, <1>6 DEF MessagesHaveCause, Got, Announcement
  <1>10. NothingLost'
    <2>1. failed = {} /\ restarts = 0 => \A y \in outbox' : y[1] \in dispatching'
      BY <1>1, <1>2 DEF NothingLost
    <2> SUFFICES ASSUME failed = {}, restarts = 0, NEW k \in Message, NEW p \in Node, Sent(k)
                 PROVE  \/ <<k, p>> \in outbox' \/ <<k, p>> \in handled'
                        \/ p = k.sender /\ k \in dispatching'
                        \/ ~CanAppend(p, k.proposal)
      BY <2>1, <1>2, <1>6, <1>7 DEF NothingLost, Message
    <2>2. \/ <<k, p>> \in outbox \/ <<k, p>> \in handled
          \/ p = k.sender /\ k \in dispatching
          \/ ~CanAppend(p, k.proposal)
      BY DEF NothingLost
    <2> QED BY <2>2, <1>2, <1>3
  <1> QED BY <1>1, <1>5, <1>8, <1>9, <1>10, MessageArrives DEF LogInv

\* The sender itself receives a message.
LEMMA ReceiveOwnKeeps ==
  ASSUME NegotiationInv, NEW m \in dispatching, ReceiveOwn(m), persistence' = persistence
  PROVE  NegotiationInv'
  <1> DEFINE n == m.sender
  <1> USE DEF NegotiationInv
  <1>1. /\ m \in Message /\ n \in Node /\ Sent(m) /\ <<m, n>> \notin handled
    BY DEF TypeOK, DeliveredOnce, Sent, Message
  <1>2. /\ dispatching' = dispatching \ {m}
        /\ m \in failed \/ \A p \in Node : <<m, p>> \notin outbox
        /\ Handle(m, n)
        /\ UNCHANGED <<persistence, outbox, failed, open, restarts>>
    BY DEF ReceiveOwn, Handle
  <1> HIDE DEF n
  <1>3. \/ handled' = handled \union {<<m, n>>} /\ CanAppend(n, m.proposal)
        \/ handled' = handled /\ ~CanAppend(n, m.proposal)
    BY <1>2 DEF Handle
  <1>4. CanAppend(n, m.proposal) => \A k \in Message : Sent(k) => Sent(k)'
    BY <1>1, <1>2, <1>3 DEF Sent
  <1>5. Arrives(m, n)
    BY <1>1, <1>2, <1>4 DEF Arrives, CanAppend
  <1>6. \A k \in Message : Sent(k)' => Sent(k)
    BY <1>1, <1>5, ArrivalSendsNothing
  <1>7. \A k \in Node, s \in Proposal : CanAppend(k, s)' <=> CanAppend(k, s)
    BY <1>2 DEF CanAppend
  <1>8. DeliveredOnce'
    <2>1. followUps' = followUps \/ (followUps' = followUps \union {<<m, n>>} /\ m.type # "propose"
                                     /\ <<m, n>> \in handled')
      BY <1>2 DEF Handle, OnReceived, OnAnswer
    <2> QED BY <2>1, <1>1, <1>2, <1>3 DEF DeliveredOnce, n
  <1>9. MessagesHaveCause'
    BY <1>3, <1>6 DEF MessagesHaveCause, Got, Announcement
  <1>10. NothingLost'
    <2>1. failed = {} /\ restarts = 0 => \A y \in outbox' : y[1] \in dispatching'
      BY <1>1, <1>2 DEF NothingLost, TypeOK
    <2> SUFFICES ASSUME failed = {}, restarts = 0, NEW k \in Message, NEW p \in Node, Sent(k)
                 PROVE  \/ <<k, p>> \in outbox' \/ <<k, p>> \in handled'
                        \/ p = k.sender /\ k \in dispatching'
                        \/ ~CanAppend(p, k.proposal)
      BY <2>1, <1>2, <1>6, <1>7 DEF NothingLost, Message
    <2>2. \/ <<k, p>> \in outbox \/ <<k, p>> \in handled
          \/ p = k.sender /\ k \in dispatching
          \/ ~CanAppend(p, k.proposal)
      BY DEF NothingLost
    <2> QED BY <2>2, <1>2, <1>3 DEF n
  <1> QED BY <1>1, <1>5, <1>8, <1>9, <1>10, MessageArrives DEF LogInv

\* A message that cannot be posted is on record as failed.
LEMMA PostFailsKeeps ==
  ASSUME NegotiationInv, NEW x \in outbox, PostFails(x[1], x[2]), persistence' = persistence
  PROVE  NegotiationInv'
  <1> USE DEF NegotiationInv
  <1>1. /\ outbox' \subseteq outbox /\ failed' = failed \union {x[1]}
        /\ UNCHANGED <<record, checks, dispatching, handled, followUps, open, restarts, persistence>>
    BY DEF PostFails
  <1>2. \A k \in Message : Sent(k)' => Sent(k)
    BY <1>1 DEF Sent
  <1>3. \A k \in Node, t \in Proposal : (Known(k, t)' <=> Known(k, t)) /\ (Got(k, t)' <=> Got(k, t))
    BY <1>1 DEF Known, Got
  <1>4. \A t \in Proposal : Announcement(t) \in Message
    BY NegotiationAssumption DEF Announcement, Message
  <1>5. failed' # {}
    BY <1>1
  <1>6. TypeOK' /\ DeliveredOnce'
    BY <1>1 DEF TypeOK, DeliveredOnce
  <1>7. MessagesHaveCause' /\ ChecksComeFirst' /\ RecordsHaveCause'
    <2>1. MessagesHaveCause'
      BY <1>1, <1>2, <1>3 DEF MessagesHaveCause, Announcement, Message
    <2>2. ChecksComeFirst'
      BY <1>1, <1>2, <1>3 DEF ChecksComeFirst, AnswerOf
    <2>3. RecordsHaveCause'
      BY <1>1, <1>2 DEF RecordsHaveCause
    <2> QED BY <2>1, <2>2, <2>3
  <1>8. VerdictsMatchAnswers'
    BY <1>1, <1>2, <1>3, <1>4 DEF VerdictsMatchAnswers, AnswerOf, Announcement
  <1>9. DecisionsHaveCause' /\ AnswersKept'
    BY <1>1, <1>3 DEF DecisionsHaveCause, AnswersKept, TypeOK, Message
  <1>10. NothingLost' /\ NothingUnanswered' /\ FailsOnlyWhenOvertaken'
    BY <1>5 DEF NothingLost, NothingUnanswered, FailsOnlyWhenOvertaken
  <1> QED BY <1>6, <1>7, <1>8, <1>9, <1>10

\* The proposer's own verdict: nothing of the proposal was sent before, and what is sent now
\* is the announcement of an accepted one.
LEMMA JudgeLocalKeeps ==
  ASSUME NegotiationInv, NEW n \in Node, NEW s \in Proposal, NEW outcome \in RuleOutcome,
         JudgeLocal(n, s, outcome), persistence' = persistence
  PROVE  NegotiationInv'
  <1> DEFINE type == IF outcome = "accepted" THEN "localAccepted" ELSE "localRejected"
             a == Announcement(s)
  <1> USE DEF NegotiationInv
  <1>1. /\ n = Proposer[s] /\ record[n][s] # NoRecord
        /\ \A m \in Message : m.proposal = s => ~Sent(m)
    BY DEF JudgeLocal, ChecksComeFirst
  <1>2. /\ a \in Message /\ a.proposal = s /\ a.sender = n /\ a.type = "propose" /\ ~Sent(a)
        /\ \A t \in Proposal : Announcement(t) \in Message /\ (Announcement(t) = a <=> t = s)
    BY <1>1, NegotiationAssumption DEF Announcement, Message
  <1>3. /\ checks' = checks \ {<<n, s, "local">>}
        /\ Append1(n, s, Event(type, n))
        /\ UNCHANGED <<failed, handled, followUps, open, restarts, persistence>>
        /\ \/ /\ outcome = "accepted"
              /\ outbox' = outbox \union {x \in {a} \X Node : x[2] # x[1].sender}
              /\ dispatching' = dispatching \union {a}
           \/ outcome # "accepted" /\ outbox' = outbox /\ dispatching' = dispatching
    <2>1. {m \in Message : outcome = "accepted" /\ m = [type |-> "propose", proposal |-> s, sender |-> n]}
            = IF outcome = "accepted" THEN {a} ELSE {}
      BY <1>1, <1>2 DEF Announcement
    <2> QED BY <2>1 DEF JudgeLocal, Dispatch
  <1> HIDE DEF a
  <1>4. /\ record' \in [Node -> [Proposal -> Aggregate \union {NoRecord, Thrown}]]
        /\ \A k \in Node, t \in Proposal :
             /\ k # n \/ t # s => record'[k][t] = record[k][t]
             /\ record[k][t] # NoRecord => record'[k][t] # NoRecord
             /\ record'[k][t] = Thrown =>
                  record[k][t] = Thrown \/ (k = n /\ t = s /\ record[k][t] = NoRecord)
             /\ Known(k, t)' <=> Known(k, t)
        /\ Known(n, s) =>
             LET r == record[n][s]
                 q == record'[n][s]
             IN  /\ q.acceptedByRuleServices =
                      IF outcome = "accepted" THEN Accept(r.acceptedByRuleServices) ELSE "false"
                 /\ q.participantsAccepted = r.participantsAccepted
                 /\ q.participantsRejected = r.participantsRejected
                 /\ q.acceptedByParticipants = r.acceptedByParticipants
    <2>1. /\ type \in RuleVerdicts \union ParticipantVerdicts
          /\ type \in {"localAccepted", "localRejected"} /\ (type = "localAccepted" <=> outcome = "accepted")
      BY DEF RuleVerdicts
    <2>2. Append1(n, s, Event(type, n))
      BY <1>3
    <2> HIDE DEF type
    <2>3. /\ record' \in [Node -> [Proposal -> Aggregate \union {NoRecord, Thrown}]]
          /\ \A k \in Node, t \in Proposal :
               /\ k # n \/ t # s => record'[k][t] = record[k][t]
               /\ record[k][t] # NoRecord => record'[k][t] # NoRecord
               /\ record'[k][t] = Thrown =>
                    record[k][t] = Thrown \/ (k = n /\ t = s /\ record[k][t] = NoRecord)
               /\ Known(k, t) <=> record[k][t] \in Aggregate
               /\ Known(k, t)' <=> Known(k, t)
      BY <2>1, <2>2, AppendsVerdict
    <2>4. Known(n, s) =>
            LET r == record[n][s]
                q == record'[n][s]
            IN  /\ q.acceptedByRuleServices =
                     IF outcome = "accepted" THEN Accept(r.acceptedByRuleServices) ELSE "false"
                /\ q.participantsAccepted = r.participantsAccepted
                /\ q.participantsRejected = r.participantsRejected
                /\ q.acceptedByParticipants = r.acceptedByParticipants
      BY <2>1, <2>2, AppendedVerdict DEF RuleVerdicts
    <2> QED BY <2>3, <2>4
  <1> HIDE DEF type
  <1>5. \A m \in Message : Sent(m)' <=> Sent(m) \/ (m = a /\ outcome = "accepted")
    <2>1. CASE outcome = "accepted"
      BY <1>2, <1>3, <2>1 DEF Sent
    <2>2. CASE outcome # "accepted"
      BY <1>3, <2>2 DEF Sent
    <2> QED BY <2>1, <2>2
  <1>6. \A k \in Node, t \in Proposal : (Got(k, t)' <=> Got(k, t)) /\ ~Got(k, s)
    BY <1>2, <1>3 DEF Got, Sent, a
  <1>7. TypeOK'
    <2>1. outbox' \subseteq Message \X Node /\ dispatching' \subseteq Message
      BY <1>2, <1>3 DEF TypeOK
    <2> QED BY <2>1, <1>3, <1>4 DEF TypeOK
  <1>8. DeliveredOnce'
    BY <1>2, <1>3 DEF DeliveredOnce, Sent
  <1>9. MessagesHaveCause'
    BY <1>2, <1>5, <1>6 DEF MessagesHaveCause, Announcement, Message, a
  <1>10. ChecksComeFirst'
    <2> SUFFICES ASSUME NEW k \in Node, NEW t \in Proposal
                 PROVE  /\ <<k, t, "local">> \in checks' =>
                             k = Proposer[t] /\ record'[k][t] # NoRecord
                               /\ \A m \in Message : m.proposal = t => ~Sent(m)'
                        /\ <<k, t, "received">> \in checks' =>
                             Got(k, t)' /\ \A m \in Message : AnswerOf(m, k, t) => ~Sent(m)'
      BY DEF ChecksComeFirst, AnswerOf
    <2>1. ASSUME <<k, t, "local">> \in checks'
          PROVE  t # s /\ <<k, t, "local">> \in checks
      BY <2>1, <1>1, <1>3 DEF ChecksComeFirst
    <2> QED BY <2>1, <1>2, <1>3, <1>4, <1>5, <1>6 DEF ChecksComeFirst, AnswerOf
  <1>11. RecordsHaveCause'
    <2>1. \A k \in Node, t \in Proposal : record'[k][t] # NoRecord => record[Proposer[t]][t] # NoRecord
      BY <1>1, <1>4 DEF RecordsHaveCause
    <2>2. \A x \in handled' : record'[x[2]][x[1].proposal] # NoRecord
      BY <1>3, <1>4 DEF RecordsHaveCause, TypeOK, Message
    <2>3. \A m \in Message : Sent(m)' => record[Proposer[m.proposal]][m.proposal] # NoRecord
      BY <1>1, <1>2, <1>5 DEF RecordsHaveCause
    <2> QED BY <1>4, <1>7, <2>1, <2>2, <2>3, CausesKept DEF TypeOK, RecordsHaveCause
  <1>12. VerdictsMatchAnswers'
    <2> SUFFICES ASSUME NEW k \in Node, NEW t \in Proposal, Known(k, t)
                 PROVE  LET flag == record'[k][t].acceptedByRuleServices IN
                        /\ Got(k, t) \/ k = Proposer[t]
                        /\ ~Got(k, t) /\ (<<k, t, "local">> \in checks' \/ Sent(Announcement(t))')
                             => flag # "false"
                        /\ <<k, t, "received">> \in checks' => flag # "false"
                        /\ \A m \in Message : AnswerOf(m, k, t) /\ Sent(m)' =>
                             flag = IF m.type = "accept" THEN "true" ELSE "false"
      BY <1>4, <1>6 DEF VerdictsMatchAnswers, AnswerOf, Announcement
    <2>1. CASE t # s
      BY <2>1, <1>2, <1>3, <1>4, <1>5, <1>6 DEF VerdictsMatchAnswers, AnswerOf
    <2>2. CASE t = s
      <3>1. k = n /\ <<k, t, "local">> \notin checks' /\ <<k, t, "received">> \notin checks
        BY <2>2, <1>1, <1>3, <1>6 DEF VerdictsMatchAnswers, ChecksComeFirst
      <3>2. \A m \in Message : AnswerOf(m, k, t) => ~Sent(m)'
        BY <2>2, <1>1, <1>2, <1>5 DEF AnswerOf
      <3>3. record[n][s].acceptedByRuleServices # "false"
        BY <2>2, <3>1, <1>3, <1>6 DEF VerdictsMatchAnswers, JudgeLocal
      <3>4. Sent(a)' => record'[k][t].acceptedByRuleServices = "true"
        BY <2>2, <3>1, <3>3, <1>2, <1>4, <1>5 DEF Accept
      <3> QED BY <2>2, <3>1, <3>2, <3>4, <1>1, <1>3 DEF a
    <2> QED BY <2>1, <2>2
  <1>13. DecisionsHaveCause' /\ AnswersKept'
    <2>1. \A k \in Node, t \in Proposal : Known(k, t) =>
            /\ record'[k][t].participantsAccepted = record[k][t].participantsAccepted
            /\ record'[k][t].participantsRejected = record[k][t].participantsRejected
            /\ record'[k][t].acceptedByParticipants = record[k][t].acceptedByParticipants
      BY <1>4
    <2>2. DecisionsHaveCause'
      BY <2>1, <1>3, <1>4 DEF DecisionsHaveCause
    <2>3. AnswersKept'
      BY <2>1, <1>3, <1>4 DEF AnswersKept, TypeOK, Message
    <2> QED BY <2>2, <2>3
  <1>14. NothingLost'
    BY <1>2, <1>3, <1>5 DEF NothingLost, CanAppend
  <1>15. NothingUnanswered'
    BY <1>3, <1>4, <1>5, <1>6 DEF NothingUnanswered, AnswerOf
  <1>16. FailsOnlyWhenOvertaken'
    BY <1>1, <1>3, <1>4 DEF FailsOnlyWhenOvertaken
  <1> QED BY <1>7, <1>8, <1>9, <1>10, <1>11, <1>12, <1>13, <1>14, <1>15, <1>16

\* The verdict on a received proposal: the node has not answered it before, and answers now
\* what its log says.
LEMMA JudgeReceivedKeeps ==
  ASSUME NegotiationInv, NEW n \in Node, NEW s \in Proposal, NEW outcome \in RuleOutcome,
         JudgeReceived(n, s, outcome), persistence' = persistence
  PROVE  NegotiationInv'
  <1> DEFINE type == IF outcome = "accepted" THEN "receivedAccepted" ELSE "receivedRejected"
             sent == {m \in Message : m.type \in AnswerTo(outcome) /\ m.proposal = s /\ m.sender = n}
  <1> USE DEF NegotiationInv
  <1>1. Got(n, s) /\ \A m \in Message : AnswerOf(m, n, s) => ~Sent(m)
    BY DEF JudgeReceived, ChecksComeFirst
  <1>2. outcome \in Answer
    BY NegotiationAssumption
  <1>3. \A m \in sent : m \in Message /\ AnswerOf(m, n, s) /\ m.proposal = s /\ m.sender = n
                        /\ m.type = IF outcome = "accepted" THEN "accept" ELSE "reject"
    BY <1>2 DEF AnswerTo, AnswerOf, Answer
  <1>4. outcome # "unreachable" => \E m \in sent : TRUE
    <2> DEFINE a == [type |-> IF outcome = "accepted" THEN "accept" ELSE "reject",
                     proposal |-> s, sender |-> n]
    <2>1. outcome # "unreachable" => a \in sent
      BY <1>2 DEF AnswerTo, Answer, Message
    <2> QED BY <2>1
  <1>5. /\ checks' = checks \ {<<n, s, "received">>}
        /\ Append1(n, s, Event(type, n))
        /\ outbox' = outbox \union {x \in sent \X Node : x[2] # x[1].sender}
        /\ dispatching' = dispatching \union sent
        /\ UNCHANGED <<failed, handled, followUps, open, restarts, persistence>>
    BY DEF JudgeReceived, Dispatch
  <1> HIDE DEF sent
  <1>6. /\ record' \in [Node -> [Proposal -> Aggregate \union {NoRecord, Thrown}]]
        /\ \A k \in Node, t \in Proposal :
             /\ k # n \/ t # s => record'[k][t] = record[k][t]
             /\ record[k][t] # NoRecord => record'[k][t] # NoRecord
             /\ record'[k][t] = Thrown =>
                  record[k][t] = Thrown \/ (k = n /\ t = s /\ record[k][t] = NoRecord)
             /\ Known(k, t)' <=> Known(k, t)
    <2>1. type \in RuleVerdicts \union ParticipantVerdicts
      BY DEF RuleVerdicts
    <2> QED BY <2>1, <1>5, AppendsVerdict
  <1>7. Known(n, s) =>
          LET r == record[n][s]
              q == record'[n][s]
          IN  /\ q.acceptedByRuleServices =
                   IF outcome = "accepted" THEN Accept(r.acceptedByRuleServices) ELSE "false"
              /\ q.participantsAccepted = r.participantsAccepted
              /\ q.participantsRejected = r.participantsRejected
              /\ q.acceptedByParticipants = r.acceptedByParticipants
    <2>1. /\ type \in RuleVerdicts \union ParticipantVerdicts
          /\ type \in {"receivedAccepted", "receivedRejected"} /\ (type = "receivedAccepted" <=> outcome = "accepted")
      BY DEF RuleVerdicts
    <2>2. Append1(n, s, Event(type, n))
      BY <1>5
    <2> HIDE DEF type
    <2> QED BY <2>1, <2>2, AppendedVerdict DEF RuleVerdicts
  <1> HIDE DEF type
  <1>8. \A m \in Message : Sent(m)' <=> Sent(m) \/ m \in sent
    BY <1>3, <1>5 DEF Sent
  <1>9. \A k \in Node, t \in Proposal : Got(k, t)' <=> Got(k, t)
    BY <1>5 DEF Got
  <1>10. TypeOK'
    <2>1. outbox' \subseteq Message \X Node /\ dispatching' \subseteq Message
      BY <1>3, <1>5 DEF TypeOK
    <2> QED BY <2>1, <1>5, <1>6 DEF TypeOK
  <1>11. DeliveredOnce'
    BY <1>1, <1>3, <1>5 DEF DeliveredOnce, Sent
  <1>12. MessagesHaveCause'
    BY <1>1, <1>3, <1>8, <1>9 DEF MessagesHaveCause, Announcement, AnswerOf, Message
  <1>13. ChecksComeFirst'
    <2> SUFFICES ASSUME NEW k \in Node, NEW t \in Proposal
                 PROVE  /\ <<k, t, "local">> \in checks' =>
                             k = Proposer[t] /\ record'[k][t] # NoRecord
                               /\ \A m \in Message : m.proposal = t => ~Sent(m)'
                        /\ <<k, t, "received">> \in checks' =>
                             Got(k, t)' /\ \A m \in Message : AnswerOf(m, k, t) => ~Sent(m)'
      BY DEF ChecksComeFirst, AnswerOf
    <2>1. \A j \in Node : <<j, s, "local">> \notin checks
      <3>1. Sent(Announcement(s)) /\ Announcement(s) \in Message
        BY <1>1, NegotiationAssumption DEF Got, Sent, Announcement, Message
      <3> QED BY <3>1 DEF ChecksComeFirst, Announcement
    <2> QED BY <2>1, <1>3, <1>5, <1>6, <1>8, <1>9 DEF ChecksComeFirst, AnswerOf
  <1>14. RecordsHaveCause'
    <2>1. record[n][s] # NoRecord
      BY <1>1 DEF RecordsHaveCause, Got, Announcement
    <2>2. \A k \in Node, t \in Proposal : record'[k][t] # NoRecord => record[Proposer[t]][t] # NoRecord
      BY <2>1, <1>6 DEF RecordsHaveCause
    <2>3. \A x \in handled' : record'[x[2]][x[1].proposal] # NoRecord
      BY <1>5, <1>6 DEF RecordsHaveCause, TypeOK, Message
    <2>4. \A m \in Message : Sent(m)' => record[Proposer[m.proposal]][m.proposal] # NoRecord
      BY <2>1, <1>3, <1>8 DEF RecordsHaveCause
    <2> QED BY <1>6, <1>10, <2>2, <2>3, <2>4, CausesKept DEF TypeOK, RecordsHaveCause
  <1>15. VerdictsMatchAnswers'
    <2> SUFFICES ASSUME NEW k \in Node, NEW t \in Proposal, Known(k, t)
                 PROVE  LET flag == record'[k][t].acceptedByRuleServices IN
                        /\ Got(k, t) \/ k = Proposer[t]
                        /\ ~Got(k, t) /\ (<<k, t, "local">> \in checks' \/ Sent(Announcement(t))')
                             => flag # "false"
                        /\ <<k, t, "received">> \in checks' => flag # "false"
                        /\ \A m \in Message : AnswerOf(m, k, t) /\ Sent(m)' =>
                             flag = IF m.type = "accept" THEN "true" ELSE "false"
      BY <1>6, <1>9 DEF VerdictsMatchAnswers, AnswerOf, Announcement
    <2>1. CASE k # n \/ t # s
      <3>1. Announcement(t) \in Message /\ Announcement(t) \notin sent
        BY <1>3, NegotiationAssumption DEF Announcement, Message, AnswerOf
      <3> QED BY <2>1, <3>1, <1>3, <1>5, <1>6, <1>8 DEF VerdictsMatchAnswers, AnswerOf
    <2>2. CASE k = n /\ t = s
      <3>1. record[n][s].acceptedByRuleServices # "false"
        BY <2>2 DEF VerdictsMatchAnswers, JudgeReceived
      <3>2. \A m \in Message : AnswerOf(m, n, s) /\ Sent(m)' =>
              record'[n][s].acceptedByRuleServices = IF m.type = "accept" THEN "true" ELSE "false"
        BY <2>2, <3>1, <1>1, <1>3, <1>7, <1>8 DEF Accept
      <3> QED BY <2>2, <3>2, <1>1, <1>5
    <2> QED BY <2>1, <2>2
  <1>16. DecisionsHaveCause' /\ AnswersKept'
    <2>1. \A k \in Node, t \in Proposal : Known(k, t) =>
            /\ record'[k][t].participantsAccepted = record[k][t].participantsAccepted
            /\ record'[k][t].participantsRejected = record[k][t].participantsRejected
            /\ record'[k][t].acceptedByParticipants = record[k][t].acceptedByParticipants
      BY <1>6, <1>7
    <2>2. DecisionsHaveCause'
      BY <2>1, <1>5, <1>6 DEF DecisionsHaveCause
    <2>3. AnswersKept'
      BY <2>1, <1>5, <1>6 DEF AnswersKept, TypeOK, Message
    <2> QED BY <2>2, <2>3
  <1>17. NothingLost'
    BY <1>3, <1>5, <1>8 DEF NothingLost, CanAppend
  <1>18. NothingUnanswered'
    <2> SUFFICES ASSUME failed = {}, restarts = 0, persistence = "EventStore",
                        NEW k \in Node, NEW t \in Proposal, Got(k, t)
                 PROVE  \/ <<k, t, "received">> \in checks'
                        \/ \E m \in Message : AnswerOf(m, k, t) /\ Sent(m)'
                        \/ Known(k, t) => record'[k][t].acceptedByRuleServices = "false"
      BY <1>5, <1>6, <1>9 DEF NothingUnanswered, AnswerOf
    <2>1. CASE k # n \/ t # s
      BY <2>1, <1>5, <1>6, <1>8 DEF NothingUnanswered
    <2>2. CASE k = n /\ t = s /\ outcome = "unreachable"
      BY <2>2, <1>7
    <2>3. CASE k = n /\ t = s /\ outcome # "unreachable"
      BY <2>3, <1>3, <1>4, <1>8
    <2> QED BY <2>1, <2>2, <2>3
  <1>19. FailsOnlyWhenOvertaken'
    <2>1. record[n][s] # NoRecord
      BY <1>1 DEF RecordsHaveCause, Got, Announcement
    <2> QED BY <2>1, <1>5, <1>6 DEF FailsOnlyWhenOvertaken
  <1> QED BY <1>10, <1>11, <1>12, <1>13, <1>14, <1>15, <1>16, <1>17, <1>18, <1>19

\* The follow-up of an answer: a log that holds the rejection keeps it.
LEMMA FollowUpKeeps ==
  ASSUME NegotiationInv, NEW x \in followUps, FollowUp(x[1], x[2]), persistence' = persistence
  PROVE  NegotiationInv'
  <1> DEFINE m == x[1]
             n == x[2]
             s == m.proposal
             type == IF m.type = "accept" THEN "accepted" ELSE "rejected"
  <1> USE DEF NegotiationInv
  <1>1. /\ x = <<m, n>> /\ m \in Message /\ n \in Node /\ s \in Proposal /\ m.sender \in Node
        /\ x \in handled /\ m.type \in {"accept", "reject"} /\ record[n][s] # NoRecord
    <2>1. x = <<m, n>> /\ m \in Message /\ n \in Node
      BY DEF TypeOK
    <2> QED BY <2>1 DEF Message, DeliveredOnce, RecordsHaveCause
  <1>2. /\ Append1(n, s, Event(type, m.sender))
        /\ followUps' = followUps \ {x}
        /\ UNCHANGED <<checks, outbox, dispatching, failed, handled, open, restarts, persistence>>
    BY <1>1 DEF FollowUp
  <1>3. type \in ParticipantVerdicts /\ (type = "accepted" <=> m.type = "accept") /\ type \in {"accepted", "rejected"}
    BY DEF ParticipantVerdicts
  <1> HIDE DEF m, n, s, type
  <1>4. /\ record' \in [Node -> [Proposal -> Aggregate \union {NoRecord, Thrown}]]
        /\ \A k \in Node, t \in Proposal :
             /\ k # n \/ t # s => record'[k][t] = record[k][t]
             /\ record[k][t] # NoRecord => record'[k][t] # NoRecord
             /\ record'[k][t] = Thrown =>
                  record[k][t] = Thrown \/ (k = n /\ t = s /\ record[k][t] = NoRecord)
             /\ Known(k, t)' <=> Known(k, t)
    BY <1>1, <1>2, <1>3, AppendsVerdict
  <1>5. Known(n, s) =>
          LET r == record[n][s]
              q == record'[n][s]
          IN  /\ q.acceptedByRuleServices = r.acceptedByRuleServices
              /\ q.participantsAccepted = r.participantsAccepted
              /\ q.participantsRejected = r.participantsRejected
              /\ m.type = "accept" => q.acceptedByParticipants = Accept(r.acceptedByParticipants)
              /\ m.type = "reject" => q.acceptedByParticipants = "false"
    <2>1. Known(n, s) =>
            LET r == record[n][s]
                q == record'[n][s]
            IN  /\ type \notin RuleVerdicts => q.acceptedByRuleServices = r.acceptedByRuleServices
                /\ q.participantsAccepted = IF type = "acceptedByParticipant"
                     THEN r.participantsAccepted \union {m.sender} ELSE r.participantsAccepted
                /\ q.participantsRejected = IF type = "rejectedByParticipant"
                     THEN r.participantsRejected \union {m.sender} ELSE r.participantsRejected
                /\ type = "accepted" => q.acceptedByParticipants = Accept(r.acceptedByParticipants)
                /\ type = "rejected" => q.acceptedByParticipants = "false"
      BY <1>1, <1>2, <1>3, AppendedVerdict
    <2>2. /\ type \notin RuleVerdicts /\ type # "acceptedByParticipant" /\ type # "rejectedByParticipant"
          /\ m.type = "accept" => type = "accepted"
          /\ m.type = "reject" => type = "rejected"
      BY <1>1, <1>3 DEF RuleVerdicts
    <2> QED BY <2>1, <2>2
  <1>6. \A k \in Node, t \in Proposal :
          /\ Got(k, t)' <=> Got(k, t)
          /\ Known(k, t) =>
               /\ record'[k][t].acceptedByRuleServices = record[k][t].acceptedByRuleServices
               /\ record'[k][t].participantsAccepted = record[k][t].participantsAccepted
               /\ record'[k][t].participantsRejected = record[k][t].participantsRejected
               /\ record[k][t].acceptedByParticipants = "false" =>
                    record'[k][t].acceptedByParticipants = "false"
               /\ record'[k][t].acceptedByParticipants = "false" =>
                    \/ record[k][t].acceptedByParticipants = "false"
                    \/ k = n /\ t = s /\ m.type = "reject"
    BY <1>1, <1>2, <1>4, <1>5 DEF Got, Accept
  <1>7. \A k \in Message : Sent(k)' <=> Sent(k)
    BY <1>2 DEF Sent
  <1>8. \A t \in Proposal : Announcement(t) \in Message
    BY NegotiationAssumption DEF Announcement, Message
  <1>9. TypeOK' /\ DeliveredOnce'
    BY <1>2, <1>4 DEF TypeOK, DeliveredOnce
  <1>10. MessagesHaveCause'
    BY <1>6, <1>7 DEF MessagesHaveCause, Announcement, Message
  <1>11. ChecksComeFirst'
    <2> SUFFICES ASSUME NEW k \in Node, NEW t \in Proposal
                 PROVE  /\ <<k, t, "local">> \in checks =>
                             k = Proposer[t] /\ record'[k][t] # NoRecord
                               /\ \A a \in Message : a.proposal = t => ~Sent(a)'
                        /\ <<k, t, "received">> \in checks =>
                             Got(k, t)' /\ \A a \in Message : AnswerOf(a, k, t) => ~Sent(a)'
      BY <1>2 DEF ChecksComeFirst, AnswerOf
    <2>1. /\ <<k, t, "local">> \in checks =>
               k = Proposer[t] /\ record[k][t] # NoRecord
                 /\ \A a \in Message : a.proposal = t => ~Sent(a)
          /\ <<k, t, "received">> \in checks =>
               Got(k, t) /\ \A a \in Message : AnswerOf(a, k, t) => ~Sent(a)
      BY DEF ChecksComeFirst
    <2> QED BY <1>4, <1>6, <1>7, <2>1
  <1>12. RecordsHaveCause'
    <2>1. \A k \in Node, t \in Proposal : record'[k][t] # NoRecord => record[Proposer[t]][t] # NoRecord
      BY <1>1, <1>4 DEF RecordsHaveCause
    <2>2. \A y \in handled' : record'[y[2]][y[1].proposal] # NoRecord
      BY <1>2, <1>4 DEF RecordsHaveCause, TypeOK, Message
    <2> QED BY <1>4, <1>7, <1>9, <2>1, <2>2, CausesKept DEF TypeOK, RecordsHaveCause
  <1>13. VerdictsMatchAnswers'
    BY <1>2, <1>4, <1>6, <1>7, <1>8 DEF VerdictsMatchAnswers, AnswerOf, Announcement
  <1>14. DecisionsHaveCause'
    <2>1. m.type = "reject" => \E y \in handled' : y[1].type = "reject" /\ y[1].proposal = s /\ y[2] = n
      BY <1>1, <1>2 DEF m, n, s
    <2>2. \A k \in Node, t \in Proposal : record'[k][t].acceptedByParticipants = "false" /\ Known(k, t) =>
            \E y \in handled' : y[1].type = "reject" /\ y[1].proposal = t /\ y[2] = k
      BY <2>1, <1>2, <1>6 DEF DecisionsHaveCause
    <2> QED BY <2>2, <1>2, <1>4, <1>6 DEF DecisionsHaveCause
  <1>15. AnswersKept'
    <2> SUFFICES ASSUME persistence = "EventStore", NEW y \in handled, y[1].type # "propose",
                        Known(y[2], y[1].proposal)
                 PROVE  LET r == record'[y[2]][y[1].proposal] IN
                        /\ y[1].sender \in r.participantsAccepted \union r.participantsRejected
                        /\ y[1].type = "reject" /\ y \notin followUps' /\ restarts = 0 =>
                             r.acceptedByParticipants = "false"
      BY <1>2, <1>4 DEF AnswersKept, TypeOK, Message
    <2>1. y[2] \in Node /\ y[1].proposal \in Proposal
      BY DEF TypeOK, Message
    <2>2. CASE y \notin followUps
      BY <2>1, <2>2, <1>6 DEF AnswersKept
    <2>3. CASE y \in followUps /\ y # x
      BY <2>1, <2>3, <1>2, <1>6 DEF AnswersKept
    <2>4. CASE y = x
      <3>1. y[2] = n /\ y[1].proposal = s /\ y[1].type = m.type /\ Known(n, s)
        BY <2>4 DEF m, n, s
      <3>2. y[1].sender \in record[n][s].participantsAccepted \union record[n][s].participantsRejected
        BY <3>1 DEF AnswersKept
      <3> QED BY <1>5, <3>1, <3>2
    <2> QED BY <2>2, <2>3, <2>4
  <1>16. NothingLost'
    BY <1>2, <1>7 DEF NothingLost, CanAppend
  <1>17. NothingUnanswered'
    BY <1>2, <1>4, <1>6, <1>7 DEF NothingUnanswered, AnswerOf
  <1>18. FailsOnlyWhenOvertaken'
    BY <1>1, <1>2, <1>4 DEF FailsOnlyWhenOvertaken
  <1> QED BY <1>9, <1>10, <1>11, <1>12, <1>13, <1>14, <1>15, <1>16, <1>17, <1>18

\* A restart loses messages, checks and follow-ups, and is on record.
LEMMA RestartKeeps ==
  ASSUME NegotiationInv, NEW n \in Node, Restart(n), persistence' = persistence
  PROVE  NegotiationInv'
  <1> USE DEF NegotiationInv
  <1>1. /\ checks' \subseteq checks /\ outbox' \subseteq outbox /\ dispatching' \subseteq dispatching
        /\ followUps' \subseteq followUps
        /\ UNCHANGED <<record, failed, handled, persistence>>
        /\ restarts' \in 0 .. MaxRestart /\ restarts' # 0
    BY NegotiationAssumption DEF Restart, TypeOK
  <1>2. \A k \in Message : Sent(k)' => Sent(k)
    BY <1>1 DEF Sent
  <1>3. \A k \in Node, t \in Proposal : (Known(k, t)' <=> Known(k, t)) /\ (Got(k, t)' <=> Got(k, t))
    BY <1>1 DEF Known, Got
  <1>4. \A t \in Proposal : Announcement(t) \in Message
    BY NegotiationAssumption DEF Announcement, Message
  <1>5. TypeOK'
    <2>1. open' \subseteq Node \X Proposal
      BY DEF Restart, TypeOK
    <2> QED BY <1>1, <2>1 DEF TypeOK
  <1>6. DeliveredOnce'
    BY <1>1 DEF DeliveredOnce
  <1>7. MessagesHaveCause'
    BY <1>1, <1>2, <1>3 DEF MessagesHaveCause, Announcement, Message
  <1>8. ChecksComeFirst'
    BY <1>1, <1>2, <1>3 DEF ChecksComeFirst, AnswerOf
  <1>9. RecordsHaveCause'
    BY <1>1, <1>2 DEF RecordsHaveCause
  <1>10. VerdictsMatchAnswers'
    BY <1>1, <1>2, <1>3, <1>4 DEF VerdictsMatchAnswers, AnswerOf, Announcement
  <1>11. DecisionsHaveCause' /\ AnswersKept'
    <2>1. DecisionsHaveCause'
      BY <1>1, <1>3 DEF DecisionsHaveCause
    <2>2. AnswersKept'
      BY <1>1, <1>3 DEF AnswersKept, TypeOK, Message
    <2> QED BY <2>1, <2>2
  <1>12. NothingLost' /\ NothingUnanswered' /\ FailsOnlyWhenOvertaken'
    BY <1>1 DEF NothingLost, NothingUnanswered, FailsOnlyWhenOvertaken
  <1> QED BY <1>5, <1>6, <1>7, <1>8, <1>9, <1>10, <1>11, <1>12

\* A client's proposal: nothing of it was sent before, and no log held it.
LEMMA ProposeKeeps ==
  ASSUME NegotiationInv, NEW s \in Proposal, ProposeWorkflow(s) \/ LaunchWorkflowInstance(s),
         persistence' = persistence
  PROVE  NegotiationInv'
  <1> DEFINE n == Proposer[s]
  <1> USE DEF NegotiationInv
  <1>1. n \in Node /\ (Parent[s] # NoParent => Parent[s] \in Proposal)
    BY NegotiationAssumption
  <1>2. /\ record[n][s] = NoRecord
        /\ Append1(n, s, Event("proposed", n))
        /\ checks' = checks \union {<<n, s, "local">>}
        /\ UNCHANGED <<outbox, dispatching, failed, handled, followUps, restarts, persistence>>
    BY DEF ProposeWorkflow, LaunchWorkflowInstance, Propose
  <1>3. /\ \A k \in Node : record[k][s] = NoRecord
        /\ \A m \in Message : m.proposal = s => ~Sent(m)
        /\ \A k \in Node : ~Got(k, s)
    BY <1>2, NegotiationAssumption DEF RecordsHaveCause, Got, Sent, Announcement, Message
  <1>4. /\ record' \in [Node -> [Proposal -> Aggregate \union {NoRecord, Thrown}]]
        /\ record'[n][s] = Proposed(NoState) /\ record'[n][s] \in Aggregate
        /\ \A k \in Node, t \in Proposal :
             /\ k # n \/ t # s => record'[k][t] = record[k][t]
             /\ record[k][t] # NoRecord => record'[k][t] # NoRecord
    <2>1. "proposed" \in Proposals /\ "proposed" \in Appended
      BY DEF Proposals, Appended
    <2>2. record'[n][s] = Step(NoRecord, Event("proposed", n))
      BY <1>1, <1>2, <2>1, Appends
    <2> QED BY <1>1, <1>2, <2>1, <2>2, Appends, StepThrows
  <1>5. open' \in SUBSET (Node \X Proposal) /\ (open' = open \/ (Parent[s] = NoParent /\ open' = open \union {<<n, s>>}))
    BY <1>1 DEF ProposeWorkflow, LaunchWorkflowInstance, TypeOK
  <1>6. Parent[s] # NoParent => record[Proposer[Parent[s]]][Parent[s]] # NoRecord
    BY <1>1 DEF ProposeWorkflow, LaunchWorkflowInstance, RecordsHaveCause
  <1> HIDE DEF n
  <1>7. \A k \in Message : Sent(k)' <=> Sent(k)
    BY <1>2 DEF Sent
  <1>8. \A k \in Node, t \in Proposal :
          /\ Got(k, t)' <=> Got(k, t)
          /\ Known(k, t)' <=> Known(k, t) \/ (k = n /\ t = s)
    <2>1. Known(n, s)'
      BY <1>4, NegotiationAssumption DEF Known
    <2>2. \A k \in Node, t \in Proposal : k # n \/ t # s => (Known(k, t)' <=> Known(k, t))
      BY <1>4 DEF Known
    <2> QED BY <2>1, <2>2, <1>2 DEF Got
  <1>9. \A t \in Proposal : Announcement(t) \in Message
    BY NegotiationAssumption DEF Announcement, Message
  <1>10. TypeOK' /\ DeliveredOnce'
    BY <1>1, <1>2, <1>4, <1>5 DEF TypeOK, DeliveredOnce, Check
  <1>11. MessagesHaveCause'
    BY <1>7, <1>8 DEF MessagesHaveCause, Announcement, Message
  <1>12. ChecksComeFirst'
    <2> SUFFICES ASSUME NEW k \in Node, NEW t \in Proposal
                 PROVE  /\ <<k, t, "local">> \in checks' =>
                             k = Proposer[t] /\ record'[k][t] # NoRecord
                               /\ \A m \in Message : m.proposal = t => ~Sent(m)'
                        /\ <<k, t, "received">> \in checks' =>
                             Got(k, t)' /\ \A m \in Message : AnswerOf(m, k, t) => ~Sent(m)'
      BY DEF ChecksComeFirst, AnswerOf
    <2>1. record'[n][s] # NoRecord
      BY <1>4, NegotiationAssumption
    <2> QED BY <2>1, <1>2, <1>3, <1>4, <1>7, <1>8 DEF ChecksComeFirst, n
  <1>13. RecordsHaveCause'
    <2>1. record'[Proposer[s]][s] # NoRecord
      BY <1>4, NegotiationAssumption DEF n
    <2>2. \A t \in Proposal : record[Proposer[t]][t] # NoRecord => record'[Proposer[t]][t] # NoRecord
      BY <1>4, NegotiationAssumption
    <2>3. ASSUME NEW k \in Node, NEW t \in Proposal, record'[k][t] # NoRecord
          PROVE  /\ record'[Proposer[t]][t] # NoRecord
                 /\ Parent[t] # NoParent => record'[Proposer[Parent[t]]][Parent[t]] # NoRecord
      <3>1. CASE t = s
        BY <3>1, <2>1, <2>2, <1>1, <1>6
      <3>2. CASE t # s
        <4>1. record[k][t] # NoRecord
          BY <2>3, <3>2, <1>4
        <4>2. Parent[t] # NoParent => Parent[t] \in Proposal
          BY NegotiationAssumption
        <4> QED BY <4>1, <4>2, <2>2 DEF RecordsHaveCause
      <3> QED BY <3>1, <3>2
    <2>4. \A m \in Message : Sent(m)' => record'[Proposer[m.proposal]][m.proposal] # NoRecord
      BY <1>7, <2>2 DEF RecordsHaveCause, Message
    <2>5. \A y \in handled' : record'[y[2]][y[1].proposal] # NoRecord
      BY <1>2, <1>4 DEF RecordsHaveCause, TypeOK, Message
    <2> QED BY <2>3, <2>4, <2>5 DEF RecordsHaveCause
  <1>14. /\ record'[n][s].acceptedByRuleServices = "undefined"
         /\ record'[n][s].acceptedByParticipants = "undefined"
         /\ record'[n][s].participantsAccepted = {} /\ record'[n][s].participantsRejected = {}
    BY <1>4 DEF Proposed
  <1>15. VerdictsMatchAnswers'
    <2> SUFFICES ASSUME NEW k \in Node, NEW t \in Proposal, Known(k, t)'
                 PROVE  LET flag == record'[k][t].acceptedByRuleServices IN
                        /\ Got(k, t) \/ k = Proposer[t]
                        /\ ~Got(k, t) /\ (<<k, t, "local">> \in checks' \/ Sent(Announcement(t))')
                             => flag # "false"
                        /\ <<k, t, "received">> \in checks' => flag # "false"
                        /\ \A m \in Message : AnswerOf(m, k, t) /\ Sent(m)' =>
                             flag = IF m.type = "accept" THEN "true" ELSE "false"
      BY <1>8 DEF VerdictsMatchAnswers, AnswerOf, Announcement
    <2>1. CASE k # n \/ t # s
      BY <2>1, <1>2, <1>4, <1>7, <1>8, <1>9 DEF VerdictsMatchAnswers, AnswerOf
    <2>2. CASE k = n /\ t = s
      BY <2>2, <1>3, <1>7, <1>14 DEF AnswerOf, n
    <2> QED BY <2>1, <2>2
  <1>16. DecisionsHaveCause'
    BY <1>2, <1>4, <1>8, <1>14 DEF DecisionsHaveCause
  <1>17. AnswersKept'
    <2>1. \A y \in handled : y[1].proposal # s /\ y[2] \in Node /\ y[1].proposal \in Proposal
      BY <1>3 DEF RecordsHaveCause, TypeOK, Message
    <2> QED BY <2>1, <1>2, <1>4, <1>8 DEF AnswersKept
  <1>18. NothingLost'
    <2>1. ASSUME NEW m \in Message, NEW p \in Node, Sent(m), CanAppend(p, m.proposal)'
          PROVE  CanAppend(p, m.proposal)
      <3>1. /\ m.proposal \in Proposal /\ record[Proposer[m.proposal]][m.proposal] # NoRecord
            /\ Proposer[m.proposal] \in Node
        BY <2>1, NegotiationAssumption DEF RecordsHaveCause, Message
      <3>2. Parent[m.proposal] # NoParent =>
              Parent[m.proposal] \in Proposal /\ record[Proposer[Parent[m.proposal]]][Parent[m.proposal]] # NoRecord
        BY <3>1, NegotiationAssumption DEF RecordsHaveCause
      <3>3. Parent[m.proposal] # NoParent => Parent[m.proposal] # s
        BY <3>2, <1>2 DEF n
      <3> QED BY <2>1, <3>3, <1>2, <1>5 DEF CanAppend
    <2> QED BY <2>1, <1>2, <1>7 DEF NothingLost
  <1>19. NothingUnanswered'
    BY <1>2, <1>3, <1>4, <1>7, <1>8 DEF NothingUnanswered, AnswerOf
  <1>20. FailsOnlyWhenOvertaken'
    <2>1. record'[n][s] # Thrown
      BY <1>4, NegotiationAssumption
    <2> QED BY <2>1, <1>2, <1>4 DEF FailsOnlyWhenOvertaken
  <1> QED BY <1>10, <1>11, <1>12, <1>13, <1>15, <1>16, <1>17, <1>18, <1>19, <1>20

-----------------------------------------------------------------------------
(* The theorems *)

\* The inductive invariant of the negotiation holds at the start.
LEMMA NegotiationInitially == Init => NegotiationInv
  <1> SUFFICES ASSUME Init PROVE NegotiationInv
    OBVIOUS
  <1>1. \A n \in Node, s \in Proposal : record[n][s] = NoRecord
    BY DEF Init
  <1>2. \A m \in Message : ~Sent(m)
    BY DEF Init, Sent
  <1>3. \A n \in Node, s \in Proposal : ~Known(n, s) /\ ~Got(n, s)
    BY <1>1 DEF Known, Init, Got
  <1>4. TypeOK /\ DeliveredOnce
    BY NegotiationAssumption DEF Init, TypeOK, DeliveredOnce
  <1>5. MessagesHaveCause /\ ChecksComeFirst /\ RecordsHaveCause
    BY <1>1, <1>2 DEF Init, MessagesHaveCause, ChecksComeFirst, RecordsHaveCause
  <1>6. VerdictsMatchAnswers /\ DecisionsHaveCause /\ AnswersKept
    BY <1>3 DEF Init, VerdictsMatchAnswers, DecisionsHaveCause, AnswersKept
  <1>7. NothingLost /\ NothingUnanswered /\ FailsOnlyWhenOvertaken
    BY <1>1, <1>2, <1>3, NegotiationAssumption DEF Init, NothingLost, NothingUnanswered, FailsOnlyWhenOvertaken
  <1> QED BY <1>4, <1>5, <1>6, <1>7 DEF NegotiationInv

\* Every step keeps the invariant.
LEMMA NegotiationStep == NegotiationInv /\ [Next]_vars => NegotiationInv'
  <1> SUFFICES ASSUME NegotiationInv, [Next]_vars PROVE NegotiationInv'
    OBVIOUS
  <1>1. CASE Handler /\ persistence' = persistence
    <2>1. ASSUME NEW n \in Node, NEW s \in Proposal, NEW outcome \in RuleOutcome,
                 JudgeLocal(n, s, outcome)
          PROVE  NegotiationInv'
      BY <1>1, <2>1, JudgeLocalKeeps
    <2>2. ASSUME NEW n \in Node, NEW s \in Proposal, NEW outcome \in RuleOutcome,
                 JudgeReceived(n, s, outcome)
          PROVE  NegotiationInv'
      BY <1>1, <2>2, JudgeReceivedKeeps
    <2>3. ASSUME NEW x \in outbox, Deliver(x[1], x[2]) PROVE NegotiationInv'
      BY <1>1, <2>3, DeliverKeeps
    <2>4. ASSUME NEW m \in dispatching, ReceiveOwn(m) PROVE NegotiationInv'
      BY <1>1, <2>4, ReceiveOwnKeeps
    <2>5. ASSUME NEW x \in followUps, FollowUp(x[1], x[2]) PROVE NegotiationInv'
      BY <1>1, <2>5, FollowUpKeeps
    <2> QED BY <1>1, <2>1, <2>2, <2>3, <2>4, <2>5 DEF Handler
  <1>2. CASE Environment /\ persistence' = persistence
    <2>1. ASSUME NEW s \in Proposal, ProposeWorkflow(s) \/ LaunchWorkflowInstance(s)
          PROVE  NegotiationInv'
      BY <1>2, <2>1, ProposeKeeps
    <2>2. ASSUME NEW x \in outbox, PostFails(x[1], x[2]) PROVE NegotiationInv'
      BY <1>2, <2>2, PostFailsKeeps
    <2>3. ASSUME NEW n \in Node, Restart(n) PROVE NegotiationInv'
      BY <1>2, <2>3, RestartKeeps
    <2> QED BY <1>2, <2>1, <2>2, <2>3 DEF Environment
  <1>3. CASE UNCHANGED vars
    <2> USE <1>3 DEF vars
    <2>1. /\ \A m \in Message : Sent(m)' <=> Sent(m)
          /\ \A n \in Node, s \in Proposal :
               /\ Known(n, s)' <=> Known(n, s)
               /\ Got(n, s)' <=> Got(n, s)
               /\ CanAppend(n, s)' <=> CanAppend(n, s)
      BY DEF Sent, Known, Got, CanAppend
    <2>2. \A t \in Proposal : Announcement(t) \in Message
      BY NegotiationAssumption DEF Announcement, Message
    <2>3. TypeOK' /\ DeliveredOnce' /\ FailsOnlyWhenOvertaken'
      BY DEF NegotiationInv, TypeOK, DeliveredOnce, FailsOnlyWhenOvertaken
    <2>4. MessagesHaveCause'
      BY <2>1 DEF NegotiationInv, MessagesHaveCause, Announcement, Message
    <2>5. ChecksComeFirst' /\ RecordsHaveCause'
      BY <2>1 DEF NegotiationInv, ChecksComeFirst, RecordsHaveCause, AnswerOf
    <2>6. VerdictsMatchAnswers'
      BY <2>1, <2>2 DEF NegotiationInv, VerdictsMatchAnswers, AnswerOf, Announcement
    <2>7. DecisionsHaveCause' /\ AnswersKept'
      BY <2>1 DEF NegotiationInv, DecisionsHaveCause, AnswersKept, TypeOK, Message
    <2>8. NothingLost' /\ NothingUnanswered'
      BY <2>1 DEF NegotiationInv, NothingLost, NothingUnanswered, AnswerOf, Message
    <2> QED BY <2>3, <2>4, <2>5, <2>6, <2>7, <2>8 DEF NegotiationInv
  <1> QED BY <1>1, <1>2, <1>3 DEF Next

\* The inductive invariant of the negotiation holds always.
LEMMA NegotiationAlways == Spec => []NegotiationInv
  BY NegotiationInitially, NegotiationStep, PTL DEF Spec

\* The variables of the negotiation always have their types.
THEOREM NegotiationTypes == Spec => []TypeOK
  <1>1. NegotiationInv => TypeOK
    BY DEF NegotiationInv
  <1> QED BY <1>1, NegotiationAlways, PTL

\* What a log tells of a participant's answer is what the rule services of that participant
\* said: the answer is posted after the node's one verdict on the proposal, and no later event
\* changes that verdict.
THEOREM AnswersTrue == Spec => []AnswersAreTrue
  <1>1. NegotiationInv => AnswersAreTrue
    <2> SUFFICES ASSUME NegotiationInv, NEW n \in Node, NEW p \in Node, NEW s \in Proposal,
                        Known(n, s), NEW type \in {"accept", "reject"},
                        p \in IF type = "accept" THEN record[n][s].participantsAccepted
                              ELSE record[n][s].participantsRejected
                 PROVE  record[p][s] # NoRecord /\ (record[p][s] # Thrown =>
                          record[p][s].acceptedByRuleServices = IF type = "accept" THEN "true" ELSE "false")
      BY DEF AnswersAreTrue
    <2> USE DEF NegotiationInv
    <2> DEFINE m == [type |-> type, proposal |-> s, sender |-> p]
    <2>1. <<m, n>> \in handled
      BY DEF DecisionsHaveCause
    <2>2. m \in Message /\ AnswerOf(m, p, s) /\ Sent(m) /\ m.type = type
      BY <2>1 DEF Message, AnswerOf, Sent
    <2>3. Got(p, s)
      BY <2>2 DEF MessagesHaveCause, AnswerOf
    <2>4. record[p][s] # NoRecord
      BY <2>3 DEF RecordsHaveCause, Got, Announcement
    <2>5. record[p][s] # Thrown => Known(p, s)
      BY <2>4 DEF Known
    <2> HIDE DEF m
    <2> QED BY <2>2, <2>4, <2>5 DEF VerdictsMatchAnswers
  <1> QED BY <1>1, NegotiationAlways, PTL

\* Under EventStore a rejection that a node has handled prevails there.
THEOREM RejectionStays == Spec => []RejectionPrevails
  <1>1. NegotiationInv => RejectionPrevails
    <2> SUFFICES ASSUME NegotiationInv, NEW x \in handled, x[1].type = "reject",
                        x \notin followUps, restarts = 0, persistence = "EventStore",
                        record[x[2]][x[1].proposal] # Thrown
                 PROVE  Rejected(x[2], x[1].proposal)
      BY DEF RejectionPrevails
    <2>1. Known(x[2], x[1].proposal)
      BY DEF NegotiationInv, RecordsHaveCause, Known
    <2> QED BY <2>1 DEF NegotiationInv, AnswersKept, Rejected
  <1> QED BY <1>1, NegotiationAlways, PTL

\* An aggregation throws only at a node that an answer of a third one reached before the
\* proposal: at the proposer, and between two nodes, it never does.
THEOREM OnlyOvertakenFail == Spec => []FailsOnlyWhenOvertaken
  <1>1. NegotiationInv => FailsOnlyWhenOvertaken
    BY DEF NegotiationInv
  <1> QED BY <1>1, NegotiationAlways, PTL

\* When everything settled, a message that was sent is everywhere.
LEMMA SettledIsEverywhere ==
  ASSUME NegotiationInv, Settled, NEW m \in Message, Sent(m), NEW p \in Node
  PROVE  <<m, p>> \in handled /\ record[p][m.proposal] # NoRecord
  <1>1. <<m, p>> \in handled
    BY DEF NegotiationInv, NothingLost, Settled, CanAppend
  <1> QED BY <1>1 DEF NegotiationInv, RecordsHaveCause

\* When everything settled, a proposal that was sent is at every node, and every node that
\* knows it knows every answer.
THEOREM AllAnswered == Spec => []EveryNodeAnswers
  <1>1. NegotiationInv => EveryNodeAnswers
    <2> SUFFICES ASSUME NegotiationInv, Settled, NEW x \in handled, NEW n \in Node, NEW p \in Node
                 PROVE  LET s == x[1].proposal
                        IN  /\ record[n][s] # NoRecord
                            /\ Known(n, s) /\ Known(p, s) =>
                                 \/ p \in record[n][s].participantsAccepted
                                          \union record[n][s].participantsRejected
                                 \/ record[p][s].acceptedByRuleServices = "false"
      BY DEF EveryNodeAnswers
    <2> USE DEF NegotiationInv
    <2> DEFINE s == x[1].proposal
               a == Announcement(s)
    <2>1. x[1] \in Message /\ s \in Proposal /\ Sent(x[1])
      <3>1. x = <<x[1], x[2]>> /\ x[1] \in Message /\ x[2] \in Node
        BY DEF TypeOK
      <3> QED BY <3>1 DEF Message, Sent
    <2>2. a \in Message /\ a.proposal = s /\ Sent(a)
      <3>1. a \in Message /\ a.proposal = s
        BY <2>1, NegotiationAssumption DEF Announcement, Message
      <3>2. x[1].type = "propose" => x[1] = a
        BY <2>1 DEF MessagesHaveCause
      <3>3. x[1].type # "propose" => <<a, x[1].sender>> \in handled /\ x[1].sender \in Node
        BY <2>1 DEF MessagesHaveCause, Got, Message
      <3> QED BY <2>1, <3>1, <3>2, <3>3 DEF Sent
    <2> HIDE DEF s, a
    <2>3. record[n][s] # NoRecord /\ <<a, p>> \in handled
      BY <2>2, SettledIsEverywhere
    <2>4. \/ \E m \in Message : AnswerOf(m, p, s) /\ Sent(m)
          \/ Known(p, s) => record[p][s].acceptedByRuleServices = "false"
      BY <2>1, <2>3 DEF NothingUnanswered, Settled, Got, a
    <2>5. ASSUME NEW m \in Message, AnswerOf(m, p, s), Sent(m), Known(n, s)
          PROVE  p \in record[n][s].participantsAccepted \union record[n][s].participantsRejected
      <3>1. <<m, n>> \in handled
        BY <2>5, SettledIsEverywhere
      <3> QED BY <2>5, <3>1 DEF AnswersKept, Settled, AnswerOf
    <2> QED BY <2>3, <2>4, <2>5 DEF s
  <1> QED BY <1>1, NegotiationAlways, PTL

\* ... and all such nodes agree whether it was rejected.
THEOREM SettledViewsConverge == Spec => []ViewsConverge
  <1>1. ASSUME NegotiationInv, Settled, NEW s \in Proposal, NEW n \in Node, NEW p \in Node,
               Rejected(n, s), record[p][s] # Thrown
        PROVE  Rejected(p, s)
    <2> USE DEF NegotiationInv
    <2>1. PICK x \in handled : x[1].type = "reject" /\ x[1].proposal = s /\ x[2] = n
      BY <1>1 DEF DecisionsHaveCause, Rejected
    <2>2. x[1] \in Message /\ Sent(x[1])
      <3>1. x = <<x[1], x[2]>> /\ x[1] \in Message /\ x[2] \in Node
        BY <1>1 DEF TypeOK
      <3> QED BY <3>1 DEF Sent
    <2>3. <<x[1], p>> \in handled /\ record[p][s] # NoRecord
      BY <1>1, <2>1, <2>2, SettledIsEverywhere
    <2>4. Known(p, s)
      BY <1>1, <2>3 DEF Known
    <2> QED BY <1>1, <2>1, <2>3, <2>4 DEF AnswersKept, Settled, Rejected
  <1>2. NegotiationInv => ViewsConverge
    BY <1>1 DEF ViewsConverge, Known, Rejected
  <1> QED BY <1>2, NegotiationAlways, PTL
=============================================================================
