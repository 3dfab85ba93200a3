-------------------------- MODULE HistoryProperties --------------------------
(***************************************************************************)
(* What the answers to questions about the present and the past promise.   *)
(***************************************************************************)
EXTENDS EventSourcing

Verdicts(s, n) ==
  {stream[m].type : m \in {k \in n + 1 .. Len(stream) :
                             stream[k].subject = s /\ stream[k].about = "transition"}}

\* Under the OrbitDB strategy, whatever else lands in an instance's logs later (its own launch received again, a
\* verdict on the launch), once it made a transition its state is the one that the last
\* appended transition led to, and its flags come from verdicts on transitions appended
\* after that.  The fold is told the proposals first to achieve this (orbitdb-strategy.ts:254).
LastTransitionDecides ==
  Persistence = "OrbitDB" =>
  \A i \in Instance :
    \A n \in {n \in DOMAIN stream : /\ stream[n].subject = i /\ stream[n].type \in Transitions
                                    /\ Verdicts(i, n) \cap Transitions = {}} :
      LET r == Current(i)
          after == Verdicts(i, n)
      IN  /\ r \notin {NoRecord, Thrown}
          /\ r.currentState = stream[n].to
          /\ r.acceptedByRuleServices =
               CASE after \cap {"localRejected", "receivedRejected"} # {} -> "false"
                 [] after \cap {"localRejected", "receivedRejected"} = {}
                    /\ after \cap {"localAccepted", "receivedAccepted"} # {} -> "true"
                 [] OTHER -> "undefined"
          /\ r.acceptedByParticipants =
               CASE "rejected" \in after -> "false"
                 [] "rejected" \notin after /\ "accepted" \in after -> "true"
                 [] OTHER -> "undefined"

\* The events of one log are in the order of their times, and so are those still to be
\* appended to it, which OrbitDB keeps the time of their creation for: stopping at the first later event (orbitdb-strategy.ts:124,
\* event-store-strategy.ts:103) loses none of the earlier ones.
LogsAreChronological ==
  /\ \A m, n \in DOMAIN stream :
       m < n /\ LogOf(stream[m]) = LogOf(stream[n]) => stream[m].created <= stream[n].created
  /\ Persistence = "OrbitDB" =>
       /\ \A m \in DOMAIN stream, n \in DOMAIN inFlight :
            LogOf(stream[m]) = LogOf(inFlight[n]) => stream[m].created <= inFlight[n].created
       /\ \A m, n \in DOMAIN inFlight : m < n => inFlight[m].created <= inFlight[n].created
  /\ \A e \in ToSet(stream) \union ToSet(inFlight) : e.created <= clock

\* An answer about the past is final: once everything created up to time t has been
\* appended, no event that is appended later changes what the system says about t (all that
\* the answers depend on is the logs, orbitdb-strategy.ts:105 and event-store-strategy.ts:98).
PastIsFinal ==
  [][\A t \in 0 .. MaxClock :
       /\ t < clock
       /\ \A n \in DOMAIN inFlight : inFlight[n].created > t
       /\ stream' # stream
       =>
         /\ \A s \in Subject : StateAt(s, t)' = StateAt(s, t)
         /\ \A i \in Instance : PayloadsUntil(i, t)' = PayloadsUntil(i, t)]_vars

\* The types of the events at these places.
TypesAt(places) == {stream[n].type : n \in places}

\* A proposal came back from another organization (or from the node itself, under noop)
\* and the rule services have not judged it yet.
Unjudged(types) ==
  "received" \in types /\ types \intersect {"receivedAccepted", "receivedRejected"} = {}

\* Travelling to the present shows the present: the aggregation that can stop at a point
\* in time answers like the one that cannot.  Under the OrbitDB strategy always.  Under the
\* EventStore strategy what is shown as the present may lie behind, by events not projected
\* yet or, after a restart, by all of them (event-store-strategy.ts:39, 191); but it is what
\* the client's fold says of the moment whose events the projection has come to, however
\* far that is.  The exception is a moment at which a received proposal waits for its
\* verdict: the projection still shows the one on the local proposal (projections.ts:10),
\* the fold has begun anew.
NowIsNow ==
  \A s \in Subject :
    /\ Persistence = "OrbitDB" => StateAt(s, clock) = Current(s)
    /\ Persistence = "EventStore" =>
         \A t \in 0 .. clock :
           Until(ReadStream(s), t) = Seen(s) /\ ~Unjudged(TypesAt(Seen(s)))
           => StateAt(s, t) = Current(s)
=============================================================================
