---------------------------- MODULE HistoryProofs ----------------------------
(***************************************************************************)
(* What the logs of a node say, for any workflows, instances and bounds:   *)
(* that every log is in the order of the creation of its events (what      *)
(* stopping at the first later event relies on), that answers about the    *)
(* past are final and those about the present current, and that the last   *)
(* transition decides, whatever order two logs were written in.            *)
(*                                                                         *)
(* Folds are recursive functions over places in a log.  What is needed of  *)
(* them is proved by an induction over sets of places (Induction), which   *)
(* rests on the well-foundedness of < and takes no operator as parameter.  *)
(***************************************************************************)
EXTENDS HistoryProperties, FiniteSetTheorems, SequenceTheorems, WellFoundedInduction, TLAPS

IsSequence(s) == \E S : s \in Seq(S)

\* Sequences, and a clock that counts.
Shape == environment \in Environment /\ clock \in Nat /\ IsSequence(inFlight) /\ IsSequence(stream)

ChronologicalInv ==
  /\ Shape
  /\ \A n \in DOMAIN stream : stream[n].created \in Nat
  /\ \A n \in DOMAIN inFlight : inFlight[n].created \in Nat
  /\ LogsAreChronological

\* LogsAreChronological by indices.
InOrder ==
  /\ \A m, n \in DOMAIN stream :
       m < n /\ LogOf(stream[m]) = LogOf(stream[n]) => stream[m].created <= stream[n].created
  /\ Persistence = "OrbitDB" =>
       /\ \A m \in DOMAIN stream, n \in DOMAIN inFlight :
            LogOf(stream[m]) = LogOf(inFlight[n]) => stream[m].created <= inFlight[n].created
       /\ \A m, n \in DOMAIN inFlight : m < n => inFlight[m].created <= inFlight[n].created
  /\ \A n \in DOMAIN stream : stream[n].created <= clock
  /\ \A n \in DOMAIN inFlight : inFlight[n].created <= clock

\* Proposals and transitions are of the kind that their type says, decisions are a participant's.
Fits(e) ==
  /\ e.type \in Proposals => e.about = "proposal"
  /\ e.type \in Transitions => e.about = "transition"
  /\ e.type \in {"acceptedByParticipant", "rejectedByParticipant"} => e.by \in Participant

\* The log of proposals begins with one, and only what was proposed makes transitions.
FollowsProposal(e, upTo) ==
  e.type \in Transitions \/ (e.about = "proposal" /\ e.type \notin Proposals) =>
    \E m \in 1 .. upTo : stream[m].subject = e.subject /\ stream[m].type \in Proposals

CausesInv ==
  /\ TypeOK
  /\ \A n \in DOMAIN stream : Fits(stream[n])
  /\ \A n \in DOMAIN inFlight : Fits(inFlight[n])
  /\ \A x \in todo : x[2] \in TasksOf(stream[x[1]])
  /\ Persistence = "OrbitDB" =>
       /\ \A n \in DOMAIN stream : FollowsProposal(stream[n], n - 1)
       /\ \A n \in DOMAIN inFlight : FollowsProposal(inFlight[n], Len(stream))

\* The elements of a sequence are what its indices lead to.
LEMMA ByIndex == LogsAreChronological <=> InOrder
  BY DEF LogsAreChronological, InOrder, ToSet

\* environment.ts names two persistence strategies.
LEMMA TwoStrategies == environment \in Environment => Persistence \in {"OrbitDB", "EventStore"}
  BY SourcingAssumption DEF Persistence

\* A sequence over some set.
LEMMA HasSet == \A s, S : s \in Seq(S) => IsSequence(s)
  BY Zenon DEF IsSequence

\* What appending to a sequence leaves and adds.
LEMMA Appended ==
  ASSUME NEW s, NEW e, IsSequence(s)
  PROVE  /\ IsSequence(Append(s, e))
         /\ Len(s) \in Nat
         /\ DOMAIN s = 1 .. Len(s)
         /\ DOMAIN Append(s, e) = 1 .. Len(s) + 1
         /\ \A n \in 1 .. Len(s) : Append(s, e)[n] = s[n]
         /\ Append(s, e)[Len(s) + 1] = e
<1>1. PICK S : s \in Seq(S)
  BY DEF IsSequence
<1>2. s \in Seq(S \union {e}) /\ e \in S \union {e}
  BY <1>1
<1> DEFINE T == S \union {e}
<1> HIDE DEF T
<1>3. s \in Seq(T) /\ e \in T
  BY <1>2 DEF T
<1>4. Append(s, e) \in Seq(T)
  BY <1>3
<1>5. IsSequence(Append(s, e))
  BY <1>4, HasSet
<1> QED
  BY <1>3, <1>5

\* What removing from a sequence leaves: an element and its place, or the one after it.
LEMMA Removed ==
  ASSUME NEW s, IsSequence(s), NEW k \in DOMAIN s
  PROVE  /\ IsSequence(RemoveAt(s, k))
         /\ Len(s) \in Nat
         /\ DOMAIN s = 1 .. Len(s)
         /\ DOMAIN RemoveAt(s, k) = 1 .. Len(s) - 1
         /\ \A n \in 1 .. Len(s) - 1 :
              RemoveAt(s, k)[n] = IF n < k THEN s[n] ELSE s[n + 1]
<1>1. PICK S : s \in Seq(S)
  BY DEF IsSequence
<1> DEFINE A == SubSeq(s, 1, k - 1)
           B == SubSeq(s, k + 1, Len(s))
<1>2. Len(s) \in Nat /\ DOMAIN s = 1 .. Len(s) /\ k \in 1 .. Len(s)
  BY <1>1
<1>3. A \in Seq(S) /\ Len(A) = k - 1 /\ \A n \in 1 .. k - 1 : A[n] = s[n]
  BY <1>1, <1>2
<1>4. B \in Seq(S) /\ Len(B) = Len(s) - k /\ \A n \in 1 .. Len(s) - k : B[n] = s[n + k]
  BY <1>1, <1>2
<1>5. RemoveAt(s, k) = A \o B
  BY DEF RemoveAt
<1> HIDE DEF A, B
<1>6. /\ A \o B \in Seq(S) /\ Len(A \o B) = Len(s) - 1 /\ DOMAIN (A \o B) = 1 .. Len(s) - 1
      /\ \A n \in 1 .. Len(s) - 1 : (A \o B)[n] = IF n <= k - 1 THEN A[n] ELSE B[n - (k - 1)]
  <2>1. /\ A \o B \in Seq(S) /\ Len(A \o B) = Len(A) + Len(B)
        /\ \A n \in 1 .. Len(A) + Len(B) :
             (A \o B)[n] = IF n <= Len(A) THEN A[n] ELSE B[n - Len(A)]
    BY <1>3, <1>4, ConcatProperties
  <2>2. Len(A) + Len(B) = Len(s) - 1
    BY <1>2, <1>3, <1>4
  <2>3. DOMAIN (A \o B) = 1 .. Len(A \o B)
    BY <2>1
  <2> QED
    BY <1>3, <2>1, <2>2, <2>3
<1>7. ASSUME NEW n \in 1 .. Len(s) - 1
      PROVE  RemoveAt(s, k)[n] = IF n < k THEN s[n] ELSE s[n + 1]
  <2>1. RemoveAt(s, k)[n] = IF n <= k - 1 THEN A[n] ELSE B[n - (k - 1)]
    BY <1>5, <1>6
  <2>2. CASE n < k
    <3>1. n <= k - 1 /\ n \in 1 .. k - 1
      BY <1>2, <2>2
    <3> QED
      BY <1>3, <2>1, <2>2, <3>1
  <2>3. CASE ~(n < k)
    <3>1. ~(n <= k - 1) /\ n - (k - 1) \in 1 .. Len(s) - k /\ (n - (k - 1)) + k = n + 1
      BY <1>2, <2>3
    <3>2. B[n - (k - 1)] = s[(n - (k - 1)) + k]
      <4>1. PICK m : m = n - (k - 1)
        OBVIOUS
      <4>2. B[m] = s[m + k]
        BY <1>4, <3>1, <4>1
      <4> QED
        BY <4>1, <4>2
    <3> QED
      BY <2>1, <2>3, <3>1, <3>2
  <2> QED
    BY <2>2, <2>3
<1> PICK r : r = A \o B
  OBVIOUS
<1>8. RemoveAt(s, k) = r /\ r \in Seq(S) /\ DOMAIN r = 1 .. Len(s) - 1
  BY <1>5, <1>6
<1>9. IsSequence(r)
  BY <1>8, HasSet
<1> QED
  BY <1>2, <1>7, <1>8, <1>9

\* Handing an event of now to the database (createPersistenceEvent, appendToStream).
LEMMA WriteStep ==
  ASSUME ChronologicalInv, NEW e, e.created = clock, Write(e),
         UNCHANGED <<environment, clock, stream>>
  PROVE  ChronologicalInv'
<1>1. inFlight' = Append(inFlight, e)
  BY DEF Write
<1>2. /\ Shape /\ InOrder
      /\ \A n \in DOMAIN stream : stream[n].created \in Nat
      /\ \A n \in DOMAIN inFlight : inFlight[n].created \in Nat
  BY ByIndex DEF ChronologicalInv
<1> DEFINE L == Len(inFlight)
<1>3. /\ IsSequence(inFlight') /\ L \in Nat /\ DOMAIN inFlight = 1 .. L
      /\ DOMAIN inFlight' = 1 .. L + 1
      /\ \A n \in 1 .. L : inFlight'[n] = inFlight[n]
      /\ inFlight'[L + 1] = e
  BY <1>1, <1>2, Appended DEF Shape
<1> HIDE DEF L
<1>4. Shape'
  BY <1>2, <1>3 DEF Shape, IsSequence
<1>5. /\ (\A n \in DOMAIN stream : stream[n].created \in Nat)'
      /\ (\A n \in DOMAIN inFlight : inFlight[n].created \in Nat)'
  BY <1>2, <1>3 DEF Shape
<1>6. InOrder'
  <2>1. ASSUME NEW n \in DOMAIN inFlight' PROVE inFlight'[n].created <= clock
    BY <1>2, <1>3 DEF InOrder, Shape
  <2>2. ASSUME Persistence = "OrbitDB",
               NEW m \in DOMAIN inFlight', NEW n \in DOMAIN inFlight', m < n
        PROVE  inFlight'[m].created <= inFlight'[n].created
    <3>1. m \in 1 .. L
      BY <1>3, <2>2
    <3>2. CASE n \in 1 .. L
      BY <1>2, <1>3, <2>2, <3>1, <3>2 DEF InOrder
    <3>3. CASE n = L + 1
      BY <1>2, <1>3, <3>1, <3>3 DEF InOrder
    <3> QED
      BY <1>3, <3>2, <3>3
  <2>3. ASSUME Persistence = "OrbitDB", NEW m \in DOMAIN stream, NEW n \in DOMAIN inFlight',
               LogOf(stream[m]) = LogOf(inFlight'[n])
        PROVE  stream[m].created <= inFlight'[n].created
    <3>1. CASE n \in 1 .. L
      BY <1>2, <1>3, <2>3, <3>1 DEF InOrder
    <3>2. CASE n = L + 1
      BY <1>2, <1>3, <3>2 DEF InOrder
    <3> QED
      BY <1>3, <3>1, <3>2
  <2>4. (\A m, n \in DOMAIN stream :
           m < n /\ LogOf(stream[m]) = LogOf(stream[n]) => stream[m].created <= stream[n].created)'
    BY <1>2 DEF InOrder, LogOf, Persistence
  <2>5. (Persistence = "OrbitDB" =>
           \A m \in DOMAIN stream, n \in DOMAIN inFlight :
             LogOf(stream[m]) = LogOf(inFlight[n]) => stream[m].created <= inFlight[n].created)'
    BY <2>3 DEF LogOf, Persistence
  <2>6. (Persistence = "OrbitDB" =>
           \A m, n \in DOMAIN inFlight : m < n => inFlight[m].created <= inFlight[n].created)'
    BY <2>2 DEF Persistence
  <2>7. (/\ \A n \in DOMAIN stream : stream[n].created <= clock
         /\ \A n \in DOMAIN inFlight : inFlight[n].created <= clock)'
    BY <1>2, <2>1 DEF InOrder
  <2> QED
    BY <2>4, <2>5, <2>6, <2>7 DEF InOrder
<1> QED
  BY <1>4, <1>5, <1>6, ByIndex, PTL DEF ChronologicalInv

\* The database appends the oldest event it was handed for one of its logs.
LEMMA LandStep ==
  ASSUME ChronologicalInv, NEW k \in DOMAIN inFlight, Land(k),
         UNCHANGED environment
  PROVE  ChronologicalInv'
<1>1. /\ stream' = Append(stream, Stamped(inFlight[k]))
      /\ inFlight' = RemoveAt(inFlight, k)
      /\ clock' = clock
      /\ \A m \in 1 .. k - 1 : LogOf(inFlight[m]) # LogOf(inFlight[k])
  BY DEF Land
<1>2. /\ Shape /\ InOrder
      /\ \A n \in DOMAIN stream : stream[n].created \in Nat
      /\ \A n \in DOMAIN inFlight : inFlight[n].created \in Nat
  BY ByIndex DEF ChronologicalInv
<1> DEFINE L == Len(stream)
           M == Len(inFlight)
           Old(n) == IF n < k THEN n ELSE n + 1
<1>3. /\ IsSequence(stream') /\ L \in Nat /\ DOMAIN stream = 1 .. L
      /\ DOMAIN stream' = 1 .. L + 1
      /\ \A n \in 1 .. L : stream'[n] = stream[n]
      /\ stream'[L + 1] = Stamped(inFlight[k])
  BY <1>1, <1>2, Appended DEF Shape
<1>stamp.
      /\ LogOf(Stamped(inFlight[k])) = LogOf(inFlight[k])
      /\ Persistence = "EventStore" => Stamped(inFlight[k]).created = clock
      /\ Persistence = "OrbitDB" => Stamped(inFlight[k]).created = inFlight[k].created
  BY DEF LogOf, Stamped
<1>now. Stamped(inFlight[k]).created \in Nat /\ Stamped(inFlight[k]).created <= clock
  BY <1>2, <1>stamp, TwoStrategies DEF InOrder, Shape
<1>4. /\ IsSequence(inFlight') /\ M \in Nat /\ DOMAIN inFlight = 1 .. M
      /\ DOMAIN inFlight' = 1 .. M - 1
      /\ \A n \in 1 .. M - 1 :
           inFlight'[n] = IF n < k THEN inFlight[n] ELSE inFlight[n + 1]
  BY <1>1, <1>2, Removed DEF Shape
<1> HIDE DEF L, M
<1>5. k \in 1 .. M
  BY <1>4
<1>6. \A n \in DOMAIN inFlight' :
        Old(n) \in 1 .. M /\ Old(n) # k /\ inFlight'[n] = inFlight[Old(n)]
  BY <1>4, <1>5
<1>7. \A m, n \in DOMAIN inFlight' : m < n => Old(m) < Old(n)
  BY <1>4, <1>5
<1> HIDE DEF Old
<1>8. Shape'
  BY <1>1, <1>2, <1>3, <1>4 DEF Shape, IsSequence
<1>9. (\A n \in DOMAIN stream : stream[n].created \in Nat)'
  BY <1>2, <1>3, <1>now
<1>10. (\A n \in DOMAIN inFlight : inFlight[n].created \in Nat)'
  BY <1>2, <1>4, <1>6
<1>11. InOrder'
  <2>1. ASSUME NEW m \in DOMAIN stream', NEW n \in DOMAIN stream', m < n,
               LogOf(stream'[m]) = LogOf(stream'[n])
        PROVE  stream'[m].created <= stream'[n].created
    <3>1. m \in 1 .. L /\ stream'[m] = stream[m]
      BY <1>3, <2>1
    <3>2. CASE n \in 1 .. L
      BY <1>2, <1>3, <2>1, <3>1, <3>2 DEF InOrder
    <3>3. CASE n = L + 1
      <4>1. LogOf(stream[m]) = LogOf(inFlight[k])
        BY <1>3, <1>stamp, <2>1, <3>1, <3>3
      <4>2. CASE Persistence = "OrbitDB"
        BY <1>2, <1>3, <1>stamp, <3>1, <3>3, <4>1, <4>2 DEF InOrder
      <4>3. CASE Persistence = "EventStore"
        BY <1>2, <1>3, <1>stamp, <3>1, <3>3, <4>3 DEF InOrder
      <4> QED
        BY <1>2, <4>2, <4>3, TwoStrategies DEF Shape
    <3> QED
      BY <1>3, <3>2, <3>3
  <2>2. ASSUME Persistence = "OrbitDB", NEW m \in DOMAIN stream', NEW n \in DOMAIN inFlight',
               LogOf(stream'[m]) = LogOf(inFlight'[n])
        PROVE  stream'[m].created <= inFlight'[n].created
    <3>1. Old(n) \in DOMAIN inFlight /\ Old(n) # k /\ inFlight'[n] = inFlight[Old(n)]
      BY <1>4, <1>6
    <3>2. CASE m \in 1 .. L
      BY <1>2, <1>3, <2>2, <3>1, <3>2 DEF InOrder
    <3>3. CASE m = L + 1
      <4>1. LogOf(inFlight[Old(n)]) = LogOf(inFlight[k])
        BY <1>3, <1>stamp, <2>2, <3>1, <3>3
      <4>2. k < Old(n)
        BY <1>1, <1>4, <1>5, <3>1, <4>1
      <4> QED
        BY <1>2, <1>3, <1>stamp, <2>2, <3>1, <3>3, <4>2 DEF InOrder
    <3> QED
      BY <1>3, <3>2, <3>3
  <2>3. ASSUME Persistence = "OrbitDB",
               NEW m \in DOMAIN inFlight', NEW n \in DOMAIN inFlight', m < n
        PROVE  inFlight'[m].created <= inFlight'[n].created
    BY <1>2, <1>4, <1>6, <1>7, <2>3 DEF InOrder
  <2>4. ASSUME NEW n \in DOMAIN stream' PROVE stream'[n].created <= clock
    BY <1>2, <1>3, <1>now DEF InOrder
  <2>5. ASSUME NEW n \in DOMAIN inFlight' PROVE inFlight'[n].created <= clock
    BY <1>2, <1>4, <1>6 DEF InOrder
  <2>6. (\A m, n \in DOMAIN stream :
           m < n /\ LogOf(stream[m]) = LogOf(stream[n]) => stream[m].created <= stream[n].created)'
    BY <2>1 DEF LogOf, Persistence
  <2>7. (Persistence = "OrbitDB" =>
           \A m \in DOMAIN stream, n \in DOMAIN inFlight :
             LogOf(stream[m]) = LogOf(inFlight[n]) => stream[m].created <= inFlight[n].created)'
    BY <2>2 DEF LogOf, Persistence
  <2>8. (Persistence = "OrbitDB" =>
           \A m, n \in DOMAIN inFlight : m < n => inFlight[m].created <= inFlight[n].created)'
    BY <2>3 DEF Persistence
  <2>9. (/\ \A n \in DOMAIN stream : stream[n].created <= clock
         /\ \A n \in DOMAIN inFlight : inFlight[n].created <= clock)'
    BY <1>1, <2>4, <2>5
  <2> QED
    BY <2>6, <2>7, <2>8, <2>9 DEF InOrder
<1> QED
  BY <1>8, <1>9, <1>10, <1>11, ByIndex, PTL DEF ChronologicalInv

\* What a subscriber or a handler appends is created now, too.
LEMMA AnswerStep ==
  ASSUME ChronologicalInv, NEW n, NEW task, NEW type, NEW by, Answer(n, task, type, by),
         UNCHANGED environment
  PROVE  ChronologicalInv'
<1> DEFINE e == New(type, stream[n].about, stream[n].subject, stream[n].to, by)
<1>1. e.created = clock
  BY DEF New
<1>2. Write(e) /\ UNCHANGED <<environment, clock, stream>>
  BY DEF Answer
<1> HIDE DEF e
<1> QED
  BY <1>1, <1>2, WriteStep

\* Every step keeps the order (all of EventSourcing).
LEMMA ChronologicalStep == ChronologicalInv /\ [Next]_vars => ChronologicalInv'
<1> SUFFICES ASSUME ChronologicalInv, [Next]_vars PROVE ChronologicalInv'
  OBVIOUS
<1>env. UNCHANGED environment
  BY DEF Next, vars
<1>1. CASE UNCHANGED <<environment, clock, inFlight, stream>>
  <2>1. UNCHANGED <<environment, clock, inFlight, stream>>
    BY <1>1
  <2>2. InOrder'
    BY <2>1, ByIndex DEF ChronologicalInv, InOrder, LogOf, Persistence
  <2>3. Shape'
    BY <2>1 DEF ChronologicalInv, Shape, IsSequence
  <2>4. /\ (\A n \in DOMAIN stream : stream[n].created \in Nat)'
        /\ (\A n \in DOMAIN inFlight : inFlight[n].created \in Nat)'
    BY <2>1 DEF ChronologicalInv
  <2> QED
    BY <2>2, <2>3, <2>4, ByIndex, PTL DEF ChronologicalInv
<1>2. CASE Tick
  <2>1. InOrder'
    BY <1>env, <1>2, ByIndex, SMTT(30) DEF Tick, ChronologicalInv, Shape, InOrder, LogOf, Persistence
  <2>2. clock' = clock + 1 /\ UNCHANGED <<environment, inFlight, stream>>
    BY <1>env, <1>2 DEF Tick
  <2>3. Shape'
    BY <2>2 DEF ChronologicalInv, Shape, IsSequence
  <2>4. /\ (\A n \in DOMAIN stream : stream[n].created \in Nat)'
        /\ (\A n \in DOMAIN inFlight : inFlight[n].created \in Nat)'
    BY <2>2 DEF ChronologicalInv
  <2> QED
    BY <2>1, <2>3, <2>4, ByIndex, PTL DEF ChronologicalInv
<1>3. ASSUME NEW w \in Workflow, Propose(w) PROVE ChronologicalInv'
  <2> DEFINE e == New("proposed", "proposal", w, Initial, NoParticipant)
  <2>1. e.created = clock
    BY DEF New
  <2>2. Write(e) /\ UNCHANGED <<environment, clock, stream>>
    BY <1>env, <1>3 DEF Propose
  <2> HIDE DEF e
  <2> QED
    BY <2>1, <2>2, WriteStep
<1>4. ASSUME NEW i \in Instance, Launch(i) PROVE ChronologicalInv'
  <2> DEFINE e == New("proposed", "proposal", i, Initial, NoParticipant)
  <2>1. e.created = clock
    BY DEF New
  <2>2. Write(e) /\ UNCHANGED <<environment, clock, stream>>
    BY <1>env, <1>4 DEF Launch
  <2> HIDE DEF e
  <2> QED
    BY <2>1, <2>2, WriteStep
<1>5. ASSUME NEW i \in Instance, NEW type \in Transitions, NEW to \in State,
             NEW p \in Participant \union {NoParticipant}, Advance(i, type, to, p)
      PROVE  ChronologicalInv'
  <2> DEFINE e == New(type, "transition", i, to, p)
  <2>1. e.created = clock
    BY DEF New
  <2>2. Write(e) /\ UNCHANGED <<environment, clock, stream>>
    BY <1>env, <1>5 DEF Advance
  <2> HIDE DEF e
  <2> QED
    BY <2>1, <2>2, WriteStep
<1>6. ASSUME NEW i \in Instance, NEW p \in Participant, RejectedBy(i, p) PROVE ChronologicalInv'
  <2> DEFINE e == New("rejectedByParticipant", "transition", i, Initial, p)
  <2>1. e.created = clock
    BY DEF New
  <2>2. Write(e) /\ UNCHANGED <<environment, clock, stream>>
    BY <1>env, <1>6 DEF RejectedBy
  <2> HIDE DEF e
  <2> QED
    BY <2>1, <2>2, WriteStep
<1>7. ASSUME NEW n \in DOMAIN inFlight, Land(n) PROVE ChronologicalInv'
  BY <1>env, <1>7, LandStep
<1>8. ASSUME NEW n \in DOMAIN stream, NEW accepted \in BOOLEAN, Validate(n, accepted)
      PROVE  ChronologicalInv'
  BY <1>env, <1>8, AnswerStep DEF Validate
<1>9. ASSUME NEW n \in DOMAIN stream, NEW self \in Participant, Dispatch(n, self)
      PROVE  ChronologicalInv'
  BY <1>env, <1>9, AnswerStep DEF Dispatch
<1>10. ASSUME NEW n \in DOMAIN stream, FollowUp(n) PROVE ChronologicalInv'
  BY <1>env, <1>10, AnswerStep DEF FollowUp
<1>11. CASE Crash
  <2>1. inFlight' = << >> /\ UNCHANGED <<environment, clock, stream>>
    BY <1>env, <1>11 DEF Crash
  <2>2. IsSequence(inFlight') /\ DOMAIN inFlight' = {}
    BY <2>1 DEF IsSequence
  <2>3. Shape'
    BY <2>1, <2>2 DEF ChronologicalInv, Shape, IsSequence
  <2>4. InOrder'
    BY <2>1, <2>2, ByIndex DEF ChronologicalInv, InOrder, LogOf, Persistence
  <2>5. /\ (\A n \in DOMAIN stream : stream[n].created \in Nat)'
        /\ (\A n \in DOMAIN inFlight : inFlight[n].created \in Nat)'
    BY <2>1, <2>2 DEF ChronologicalInv
  <2> QED
    BY <2>3, <2>4, <2>5, ByIndex, PTL DEF ChronologicalInv
<1> QED
  BY <1>1, <1>2, <1>3, <1>4, <1>5, <1>6, <1>7, <1>8, <1>9, <1>10, <1>11 DEF Next, Step, Project, vars

\* The order holds in every state.
LEMMA ChronologicalAlways == Spec => []ChronologicalInv
<1>1. Init => ChronologicalInv
  <2> SUFFICES ASSUME Init PROVE ChronologicalInv
    OBVIOUS
  <2>1. Shape /\ DOMAIN stream = {} /\ DOMAIN inFlight = {}
    BY DEF Init, Shape, IsSequence
  <2>2. InOrder
    BY <2>1 DEF InOrder
  <2> QED
    BY <2>1, <2>2, ByIndex DEF ChronologicalInv
<1> QED
  BY <1>1, ChronologicalStep, PTL DEF Spec

\* The events of one log carry the times of their creation in order, so that an answer
\* about the past loses none (orbitdb-strategy.ts:124, event-store-strategy.ts:103).
THEOREM LogsChronological == Spec => []LogsAreChronological
<1>1. ChronologicalInv => LogsAreChronological
  BY DEF ChronologicalInv
<1> QED
  BY <1>1, ChronologicalAlways, PTL

-----------------------------------------------------------------------------
(* Types *)

\* An event of now has its type (createPersistenceEvent).
LEMMA NewType ==
  ASSUME TypeOK, NEW type \in EventType, NEW about \in {"proposal", "transition"},
         NEW s \in Subject, NEW to \in State, NEW by \in Participant \union {NoParticipant}
  PROVE  New(type, about, s, to, by) \in Event
  BY DEF TypeOK, New, Event

\* Handing an event to the database keeps the types.
LEMMA WriteTypes ==
  ASSUME TypeOK, NEW e \in Event, Write(e), UNCHANGED <<environment, clock, stream, projected>>,
         todo' \subseteq todo
  PROVE  TypeOK'
<1>1. inFlight' \in Seq(Event)
  BY DEF TypeOK, Write
<1> QED
  BY <1>1 DEF TypeOK

\* So does what a subscriber or a handler appends because of an appended event.
LEMMA AnswerTypes ==
  ASSUME TypeOK, NEW n \in DOMAIN stream, NEW task, NEW type \in EventType,
         NEW by \in Participant \union {NoParticipant}, Answer(n, task, type, by),
         UNCHANGED <<environment, projected>>
  PROVE  TypeOK'
<1> DEFINE e == New(type, stream[n].about, stream[n].subject, stream[n].to, by)
<1>1. stream[n] \in Event
  BY DEF TypeOK
<1>2. e \in Event
  BY <1>1, NewType DEF Event
<1>3. Write(e) /\ UNCHANGED <<environment, clock, stream, projected>> /\ todo' \subseteq todo
  BY DEF Answer
<1> HIDE DEF e
<1> QED
  BY <1>2, <1>3, WriteTypes

\* The database appends an event that it was handed.
LEMMA LandTypes ==
  ASSUME TypeOK, NEW k \in DOMAIN inFlight, Land(k), UNCHANGED <<environment, projected>>
  PROVE  TypeOK'
<1>1. inFlight[k] \in Event /\ Len(inFlight) \in Nat /\ k \in 1 .. Len(inFlight)
  BY DEF TypeOK
<1>2. Stamped(inFlight[k]) \in Event
  BY <1>1 DEF TypeOK, Stamped, Event
<1>3. stream' \in Seq(Event) /\ Len(stream') = Len(stream) + 1 /\ Len(stream) \in Nat
  BY <1>2 DEF TypeOK, Land
<1>4. inFlight' \in Seq(Event)
  <2>1. SubSeq(inFlight, 1, k - 1) \in Seq(Event) /\ SubSeq(inFlight, k + 1, Len(inFlight)) \in Seq(Event)
    BY <1>1 DEF TypeOK
  <2> QED
    BY <2>1 DEF Land, RemoveAt
<1>5. todo' \subseteq (1 .. Len(stream')) \X Task
  <2>1. todo' = todo \union {<<Len(stream) + 1, t>> : t \in TasksOf(inFlight[k])}
    BY DEF Land
  <2>2. TasksOf(inFlight[k]) \subseteq Task
    BY DEF TasksOf
  <2>3. todo \subseteq (1 .. Len(stream)) \X Task
    BY DEF TypeOK
  <2>4. 1 .. Len(stream) \subseteq 1 .. Len(stream') /\ Len(stream) + 1 \in 1 .. Len(stream')
    BY <1>3
  <2> QED
    BY <2>1, <2>2, <2>3, <2>4
<1>6. projected' \in [Kind -> 0 .. Len(stream')]
  BY <1>3 DEF TypeOK
<1> QED
  BY <1>3, <1>4, <1>5, <1>6 DEF TypeOK, Land

\* Every step keeps the types.
LEMMA TypesStep == TypeOK /\ [Next]_vars => TypeOK'
<1> SUFFICES ASSUME TypeOK, [Next]_vars PROVE TypeOK'
  OBVIOUS
<1> USE SourcingAssumption
<1>types. EventType = {"proposed", "received", "advanced", "transitionReceived", "localAccepted",
                       "localRejected", "receivedAccepted", "receivedRejected",
                       "acceptedByParticipant", "accepted", "rejectedByParticipant", "rejected"}
  BY DEF EventType, Proposals, Transitions, RuleVerdicts, ParticipantVerdicts
<1>1. CASE UNCHANGED vars
  BY <1>1 DEF vars, TypeOK
<1>2. CASE Tick /\ UNCHANGED <<environment, projected>>
  BY <1>2 DEF Tick, TypeOK
<1>3. ASSUME NEW w \in Workflow, Propose(w), UNCHANGED <<environment, projected>> PROVE TypeOK'
  BY <1>3, <1>types, NewType, WriteTypes DEF Propose, Subject
<1>4. ASSUME NEW i \in Instance, Launch(i), UNCHANGED <<environment, projected>> PROVE TypeOK'
  BY <1>4, <1>types, NewType, WriteTypes DEF Launch, Subject
<1>5. ASSUME NEW i \in Instance, NEW type \in Transitions, NEW to \in State,
             NEW p \in Participant \union {NoParticipant}, Advance(i, type, to, p),
             UNCHANGED <<environment, projected>>
      PROVE  TypeOK'
  <2>1. New(type, "transition", i, to, p) \in Event
    BY NewType DEF EventType, Subject
  <2>2. Write(New(type, "transition", i, to, p)) /\ UNCHANGED <<environment, clock, stream, projected, todo>>
    BY <1>5 DEF Advance
  <2> QED
    BY <2>1, <2>2, WriteTypes
<1>6. ASSUME NEW i \in Instance, NEW p \in Participant, RejectedBy(i, p), UNCHANGED <<environment, projected>>
      PROVE  TypeOK'
  BY <1>6, <1>types, NewType, WriteTypes DEF RejectedBy, Subject
<1>7. ASSUME NEW n \in DOMAIN inFlight, Land(n), UNCHANGED <<environment, projected>> PROVE TypeOK'
  BY <1>7, LandTypes
<1>8. ASSUME NEW n \in DOMAIN stream, NEW accepted \in BOOLEAN, Validate(n, accepted),
             UNCHANGED <<environment, projected>>
      PROVE  TypeOK'
  BY <1>8, <1>types, AnswerTypes DEF Validate
<1>9. ASSUME NEW n \in DOMAIN stream, NEW self \in Participant, Dispatch(n, self),
             UNCHANGED <<environment, projected>>
      PROVE  TypeOK'
  BY <1>9, <1>types, AnswerTypes DEF Dispatch
<1>10. ASSUME NEW n \in DOMAIN stream, FollowUp(n), UNCHANGED <<environment, projected>> PROVE TypeOK'
  <2>1. stream[n] \in Event
    BY DEF TypeOK
  <2>2. stream[n].by \in Participant \union {NoParticipant}
    BY <2>1 DEF Event
  <2> QED
    BY <1>10, <1>types, <2>2, AnswerTypes DEF FollowUp
<1>11. CASE Crash /\ UNCHANGED environment
  BY <1>11 DEF Crash, TypeOK, NothingProjected
<1>12. ASSUME NEW k \in Kind, Project(k), UNCHANGED environment PROVE TypeOK'
  BY <1>12 DEF Project, TypeOK
<1> QED
  BY <1>1, <1>2, <1>3, <1>4, <1>5, <1>6, <1>7, <1>8, <1>9, <1>10, <1>11, <1>12 DEF Next, Step

\* The variables of the persistence always have their types.
THEOREM SourcingTypes == Spec => []TypeOK
<1>1. Init => TypeOK
  BY SourcingAssumption DEF Init, TypeOK, NothingProjected
<1> QED
  BY <1>1, TypesStep, PTL DEF Spec

-----------------------------------------------------------------------------
(* Folds *)

\* What holds of 0 and of the successor of whatever it holds of holds of every number.
LEMMA Induction ==
  ASSUME NEW A, 0 \in A, \A n \in Nat : n \in A => n + 1 \in A
  PROVE  Nat \subseteq A
<1> SUFFICES ASSUME Nat \ A # {} PROVE FALSE
  OBVIOUS
<1> DEFINE R == OpToRel(<, Nat)
<1>1. IsWellFoundedOn(R, Nat)
  BY NatLessThanWellFounded
<1>2. R = {ss \in Nat \X Nat : ss[1] < ss[2]}
  BY DEF OpToRel
<1>3. PICK x \in Nat \ A : \A y \in Nat \ A : ~(<<y, x>> \in R)
  <2> HIDE DEF R
  <2> QED
    BY <1>1, WFMin
<1> HIDE DEF R
<1>4. x - 1 \in Nat /\ x - 1 < x /\ (x - 1) + 1 = x
  <2>1. x \in Nat /\ x # 0
    BY <1>3
  <2> QED
    BY <2>1
<1>5. <<x - 1, x>> \in R
  BY <1>2, <1>4
<1>6. x - 1 \in A
  BY <1>3, <1>4, <1>5
<1> QED
  BY <1>3, <1>4, <1>6

\* What an event makes of a record: in the client's fold, or else in the database's projection.
StepOf(how, r, e) == IF how = "fold" THEN FoldEvent(r, e) ELSE ProjectEvent(r, e)

\* The records that an aggregation goes through, one for each event of the log.
IsRun(how, f, r, log, places) ==
  f = [n \in 0 .. Len(log) |->
         IF n = 0 THEN r
         ELSE IF n \in places THEN StepOf(how, f[n - 1], log[n]) ELSE f[n - 1]]

\* They exist.
LEMMA RunExists ==
  ASSUME NEW how, NEW r, NEW log, NEW places, Len(log) \in Nat
  PROVE  \E f : IsRun(how, f, r, log, places)
<1> DEFINE Steps(f, k) ==
             f = [n \in 0 .. k |->
                    IF n = 0 THEN r
                    ELSE IF n \in places THEN StepOf(how, f[n - 1], log[n]) ELSE f[n - 1]]
           A == {k \in Nat : \E f : Steps(f, k)}
<1>1. 0 \in A
  <2> DEFINE f == [n \in 0 .. 0 |-> r]
  <2>1. Steps(f, 0)
    OBVIOUS
  <2> QED
    BY <2>1
<1>2. ASSUME NEW k \in Nat, k \in A PROVE k + 1 \in A
  <2>1. PICK f : Steps(f, k)
    BY <1>2
  <2> DEFINE next == IF k + 1 \in places THEN StepOf(how, f[k], log[k + 1]) ELSE f[k]
             g == [n \in 0 .. k + 1 |-> IF n = k + 1 THEN next ELSE f[n]]
  <2>2. \A n \in 0 .. k :
          f[n] = IF n = 0 THEN r
                 ELSE IF n \in places THEN StepOf(how, f[n - 1], log[n]) ELSE f[n - 1]
    BY <2>1
  <2>3. ASSUME NEW n \in 0 .. k + 1
        PROVE  g[n] = IF n = 0 THEN r
                      ELSE IF n \in places THEN StepOf(how, g[n - 1], log[n]) ELSE g[n - 1]
    <3>1. CASE n = k + 1
      <4>1. n # 0 /\ n - 1 = k /\ n - 1 \in 0 .. k + 1 /\ n - 1 # k + 1
        BY <3>1
      <4>2. g[n - 1] = f[k] /\ g[n] = next
        BY <3>1, <4>1
      <4> HIDE DEF g
      <4> QED
        BY <3>1, <4>1, <4>2
    <3>2. CASE n \in 0 .. k
      <4>1. g[n] = f[n] /\ (n # 0 => g[n - 1] = f[n - 1])
        BY <3>2
      <4> HIDE DEF g
      <4> QED
        BY <2>2, <3>2, <4>1
    <3> HIDE DEF g
    <3> QED
      BY <3>1, <3>2
  <2>4. Steps(g, k + 1)
    <3>1. g = [n \in 0 .. k + 1 |-> g[n]]
      OBVIOUS
    <3> HIDE DEF g
    <3> QED
      BY <2>3, <3>1
  <2> HIDE DEF g
  <2>5. k + 1 \in Nat /\ \E h : Steps(h, k + 1)
    BY <2>4
  <2> QED
    BY <2>5
<1>3. Len(log) \in A
  <2> HIDE DEF A
  <2> QED
    BY <1>1, <1>2, Induction
<1>4. PICK f : Steps(f, Len(log))
  BY <1>3
<1> QED
  BY <1>4 DEF IsRun

\* The fold and the projection are the last of theirs.
LEMMA FoldIs ==
  ASSUME NEW r, NEW log, NEW places, Len(log) \in Nat
  PROVE  \E f : IsRun("fold", f, r, log, places) /\ Fold(r, log, places) = f[Len(log)]
<1> DEFINE IsFold(f) ==
             f = [n \in 0 .. Len(log) |->
                    IF n = 0 THEN r
                    ELSE IF n \in places THEN FoldEvent(f[n - 1], log[n]) ELSE f[n - 1]]
           c == CHOOSE f : IsFold(f)
<1>1. \A f : IsRun("fold", f, r, log, places) <=> IsFold(f)
  BY DEF IsRun, StepOf
<1>2. Fold(r, log, places) = c[Len(log)]
  BY DEF Fold
<1> HIDE DEF IsFold
<1>3. IsFold(c)
  BY <1>1, RunExists
<1> QED
  BY <1>1, <1>2, <1>3

LEMMA ProjectionIs ==
  ASSUME NEW log, NEW places, Len(log) \in Nat
  PROVE  \E f : /\ IsRun("projection", f, NoRecord, log, places)
                /\ Projection(log, places) = f[Len(log)]
<1> DEFINE IsProjection(f) ==
             f = [n \in 0 .. Len(log) |->
                    IF n = 0 THEN NoRecord
                    ELSE IF n \in places THEN ProjectEvent(f[n - 1], log[n]) ELSE f[n - 1]]
           c == CHOOSE f : IsProjection(f)
<1>1. \A f : IsRun("projection", f, NoRecord, log, places) <=> IsProjection(f)
  BY DEF IsRun, StepOf
<1>2. Projection(log, places) = c[Len(log)]
  BY DEF Projection
<1> HIDE DEF IsProjection
<1>3. IsProjection(c)
  BY <1>1, RunExists
<1> QED
  BY <1>1, <1>2, <1>3

\* What one step of an aggregation does.
LEMMA RunSteps ==
  ASSUME NEW how, NEW f, NEW r, NEW log, NEW places, Len(log) \in Nat,
         IsRun(how, f, r, log, places)
  PROVE  /\ f[0] = r
         /\ \A n \in Nat : n + 1 <= Len(log) =>
              f[n + 1] = IF n + 1 \in places THEN StepOf(how, f[n], log[n + 1]) ELSE f[n]
<1>1. \A n \in 0 .. Len(log) :
        f[n] = IF n = 0 THEN r
               ELSE IF n \in places THEN StepOf(how, f[n - 1], log[n]) ELSE f[n - 1]
  BY DEF IsRun
<1>2. f[0] = r
  BY <1>1
<1>3. ASSUME NEW n \in Nat, n + 1 <= Len(log)
      PROVE  f[n + 1] = IF n + 1 \in places THEN StepOf(how, f[n], log[n + 1]) ELSE f[n]
  <2>1. n + 1 \in 0 .. Len(log) /\ n + 1 # 0 /\ (n + 1) - 1 = n
    BY <1>3
  <2> QED
    BY <1>1, <2>1
<1> QED
  BY <1>2, <1>3

LEMMA FoldSteps ==
  ASSUME NEW f, NEW r, NEW log, NEW places, Len(log) \in Nat, IsRun("fold", f, r, log, places)
  PROVE  /\ f[0] = r
         /\ \A n \in Nat : n + 1 <= Len(log) =>
              f[n + 1] = IF n + 1 \in places THEN FoldEvent(f[n], log[n + 1]) ELSE f[n]
<1> DEFINE how == "fold"
<1>1. IsRun(how, f, r, log, places)
  OBVIOUS
<1>2. \A x, e : StepOf(how, x, e) = FoldEvent(x, e)
  BY DEF StepOf
<1> HIDE DEF how
<1> QED
  BY <1>1, <1>2, RunSteps

\* Up to place k two logs have the same events, and the same of them are aggregated.
Alike(k, log, places, longer, others) ==
  \A n \in 1 .. k : log[n] = longer[n] /\ (n \in places <=> n \in others)

\* Aggregations of logs that begin alike go through the same records.
LEMMA RunsAgree ==
  ASSUME NEW how, NEW r, NEW f, NEW log, NEW places, NEW g, NEW longer, NEW others, NEW k \in Nat,
         Len(log) \in Nat, Len(longer) \in Nat, k <= Len(log), k <= Len(longer),
         IsRun(how, f, r, log, places), IsRun(how, g, r, longer, others),
         Alike(k, log, places, longer, others)
  PROVE  f[k] = g[k]
<1> DEFINE A == {n \in Nat : n <= k => f[n] = g[n]}
<1>1. 0 \in A
  BY RunSteps
<1>2. ASSUME NEW n \in Nat, n \in A PROVE n + 1 \in A
  <2>1. SUFFICES ASSUME n + 1 <= k PROVE f[n + 1] = g[n + 1]
    BY <1>2
  <2>2. n + 1 \in 1 .. k /\ n + 1 <= Len(log) /\ n + 1 <= Len(longer) /\ n <= k
    BY <2>1
  <2>3. f[n] = g[n]
    BY <1>2, <2>2
  <2>4. f[n + 1] = IF n + 1 \in places THEN StepOf(how, f[n], log[n + 1]) ELSE f[n]
    BY <2>2, RunSteps
  <2>5. g[n + 1] = IF n + 1 \in others THEN StepOf(how, g[n], longer[n + 1]) ELSE g[n]
    BY <2>2, RunSteps
  <2> QED
    BY <2>2, <2>3, <2>4, <2>5 DEF Alike
<1>3. k \in A
  <2> HIDE DEF A
  <2> QED
    BY <1>1, <1>2, Induction
<1> QED
  BY <1>3

\* An appended event is aggregated last, if it is among those that are aggregated at all.
LEMMA RunLanded ==
  ASSUME NEW how, NEW r, NEW f, NEW log, NEW places, NEW g, NEW longer, NEW more,
         Len(log) \in Nat, Len(longer) = Len(log) + 1,
         IsRun(how, f, r, log, places), IsRun(how, g, r, longer, more),
         \A n \in 1 .. Len(log) : longer[n] = log[n],
         more \intersect (1 .. Len(log)) = places \intersect (1 .. Len(log))
  PROVE  g[Len(longer)] = IF Len(longer) \in more THEN StepOf(how, f[Len(log)], longer[Len(longer)])
                                                  ELSE f[Len(log)]
<1> DEFINE k == Len(log)
<1>1. f[k] = g[k]
  <2>1. k \in Nat /\ k <= Len(log) /\ k <= Len(longer) /\ Len(longer) \in Nat
        /\ Alike(k, log, places, longer, more)
    BY DEF Alike
  <2> HIDE DEF k
  <2> QED
    BY <2>1, RunsAgree
<1>2. Len(longer) \in Nat
  OBVIOUS
<1>3. g[k + 1] = IF k + 1 \in more THEN StepOf(how, g[k], longer[k + 1]) ELSE g[k]
  BY <1>2, RunSteps
<1> QED
  BY <1>1, <1>3

\* Only the places that the log has count.
LEMMA FoldSame ==
  ASSUME NEW r, NEW log, NEW places, NEW others, Len(log) \in Nat,
         places \intersect (1 .. Len(log)) = others \intersect (1 .. Len(log))
  PROVE  Fold(r, log, places) = Fold(r, log, others)
<1>1. PICK f : IsRun("fold", f, r, log, places) /\ Fold(r, log, places) = f[Len(log)]
  BY FoldIs
<1>2. PICK g : IsRun("fold", g, r, log, others) /\ Fold(r, log, others) = g[Len(log)]
  BY FoldIs
<1>3. \A n \in 1 .. Len(log) : log[n] = log[n] /\ (n \in places <=> n \in others)
  OBVIOUS
<1> DEFINE k == Len(log)
<1>4. k \in Nat /\ k <= Len(log) /\ Alike(k, log, places, log, others)
  BY <1>3 DEF Alike
<1>5. f[k] = g[k]
  <2> HIDE DEF k
  <2> QED
    BY <1>1, <1>2, <1>4, RunsAgree
<1> QED
  BY <1>1, <1>2, <1>5

\* The fold of a log that an event was appended to.
LEMMA FoldLanded ==
  ASSUME NEW r, NEW log, NEW longer, NEW places, NEW more,
         Len(log) \in Nat, Len(longer) = Len(log) + 1,
         \A n \in 1 .. Len(log) : longer[n] = log[n],
         more \intersect (1 .. Len(log)) = places \intersect (1 .. Len(log))
  PROVE  Fold(r, longer, more) =
           IF Len(longer) \in more THEN FoldEvent(Fold(r, log, places), longer[Len(longer)])
                                   ELSE Fold(r, log, places)
<1> DEFINE how == "fold"
<1>1. PICK f : IsRun(how, f, r, log, places) /\ Fold(r, log, places) = f[Len(log)]
  BY FoldIs
<1>2. Len(longer) \in Nat
  OBVIOUS
<1>3. PICK g : IsRun(how, g, r, longer, more) /\ Fold(r, longer, more) = g[Len(longer)]
  BY <1>2, FoldIs
<1>4. \A x, e : StepOf(how, x, e) = FoldEvent(x, e)
  BY DEF StepOf
<1> HIDE DEF how
<1>5. g[Len(longer)] = IF Len(longer) \in more THEN StepOf(how, f[Len(log)], longer[Len(longer)])
                                               ELSE f[Len(log)]
  BY <1>1, <1>3, RunLanded
<1> QED
  BY <1>1, <1>3, <1>4, <1>5

\* ... and its projection.
LEMMA ProjectionLanded ==
  ASSUME NEW log, NEW longer, NEW places, NEW more,
         Len(log) \in Nat, Len(longer) = Len(log) + 1,
         \A n \in 1 .. Len(log) : longer[n] = log[n],
         more \intersect (1 .. Len(log)) = places \intersect (1 .. Len(log))
  PROVE  Projection(longer, more) =
           IF Len(longer) \in more THEN ProjectEvent(Projection(log, places), longer[Len(longer)])
                                   ELSE Projection(log, places)
<1> DEFINE how == "projection"
<1>1. PICK f : IsRun(how, f, NoRecord, log, places) /\ Projection(log, places) = f[Len(log)]
  BY ProjectionIs
<1>2. Len(longer) \in Nat
  OBVIOUS
<1>3. PICK g : IsRun(how, g, NoRecord, longer, more) /\ Projection(longer, more) = g[Len(longer)]
  BY <1>2, ProjectionIs
<1>4. \A x, e : StepOf(how, x, e) = ProjectEvent(x, e)
  BY DEF StepOf
<1> HIDE DEF how
<1>5. g[Len(longer)] = IF Len(longer) \in more THEN StepOf(how, f[Len(log)], longer[Len(longer)])
                                               ELSE f[Len(log)]
  BY <1>1, <1>3, RunLanded
<1> QED
  BY <1>1, <1>3, <1>4, <1>5

-----------------------------------------------------------------------------
(* Answers about the present and the past *)

\* What lands after everything up to t has landed is later than t.
LEMMA LandedLater ==
  ASSUME ChronologicalInv, NEW k \in DOMAIN inFlight, Land(k), UNCHANGED environment,
         NEW t \in Nat, t < clock, \A n \in DOMAIN inFlight : inFlight[n].created > t
  PROVE  /\ Len(stream) \in Nat /\ DOMAIN stream = 1 .. Len(stream)
         /\ Len(stream') = Len(stream) + 1 /\ DOMAIN stream' = 1 .. Len(stream')
         /\ \A n \in 1 .. Len(stream) : stream'[n] = stream[n]
         /\ stream'[Len(stream')].created > t /\ stream'[Len(stream')].created \in Nat
<1> DEFINE L == Len(stream)
           e == Stamped(inFlight[k])
<1>1. stream' = Append(stream, e) /\ IsSequence(stream)
  BY DEF Land, ChronologicalInv, Shape
<1>2. /\ IsSequence(stream') /\ L \in Nat /\ DOMAIN stream = 1 .. L /\ DOMAIN stream' = 1 .. L + 1
      /\ \A n \in 1 .. L : stream'[n] = stream[n]
      /\ stream'[L + 1] = e
  <2> HIDE DEF e
  <2> QED
    BY <1>1, Appended
<1>3. Len(stream') = L + 1
  <2>1. PICK S : stream' \in Seq(S)
    BY <1>2 DEF IsSequence
  <2>2. Len(stream') \in Nat /\ DOMAIN stream' = 1 .. Len(stream')
    BY <2>1
  <2> QED
    BY <1>2, <2>2
<1>4. e.created > t /\ e.created \in Nat
  <2>1. inFlight[k].created \in Nat /\ inFlight[k].created > t
    BY DEF ChronologicalInv
  <2>2. clock \in Nat
    BY DEF ChronologicalInv, Shape
  <2> QED
    BY <2>1, <2>2 DEF Stamped
<1> QED
  BY <1>2, <1>3, <1>4

\* A loop that stops at the first event later than t does not see it.
LEMMA StopsBefore ==
  ASSUME NEW L \in Nat, NEW log, NEW longer, NEW places, NEW more, NEW t \in Nat,
         places \subseteq 1 .. L, more \subseteq 1 .. L + 1, more \intersect (1 .. L) = places,
         \A n \in 1 .. L : longer[n] = log[n],
         longer[L + 1].created > t, longer[L + 1].created \in Nat
  PROVE  {n \in more : \A m \in more : m <= n => longer[m].created <= t}
           = {n \in places : \A m \in places : m <= n => log[m].created <= t}
<1> DEFINE after == {n \in more : \A m \in more : m <= n => longer[m].created <= t}
           before == {n \in places : \A m \in places : m <= n => log[m].created <= t}
<1>1. ASSUME NEW n \in after PROVE n \in before
  <2>1. n # L + 1
    BY <1>1
  <2>2. n \in 1 .. L /\ n \in places
    BY <1>1, <2>1
  <2>3. ASSUME NEW m \in places, m <= n PROVE log[m].created <= t
    BY <1>1, <2>3
  <2> QED
    BY <2>2, <2>3
<1>2. ASSUME NEW n \in before PROVE n \in after
  <2>1. n \in places /\ n \in 1 .. L /\ n \in more
    BY <1>2
  <2>2. ASSUME NEW m \in more, m <= n PROVE longer[m].created <= t
    <3>1. m \in 1 .. L /\ m \in places
      BY <2>1, <2>2
    <3> QED
      BY <1>2, <2>2, <3>1
  <2> QED
    BY <2>1, <2>2
<1> QED
  BY <1>1, <1>2

\* Every answer about t survives a landing.
LEMMA LandKeepsPast ==
  ASSUME ChronologicalInv, NEW k \in DOMAIN inFlight, Land(k), UNCHANGED environment,
         NEW t \in Nat, t < clock, \A n \in DOMAIN inFlight : inFlight[n].created > t
  PROVE  /\ \A s \in Subject : StateAt(s, t)' = StateAt(s, t)
         /\ \A i \in Instance : PayloadsUntil(i, t)' = PayloadsUntil(i, t)
<1> DEFINE L == Len(stream)
<1>1. /\ L \in Nat /\ DOMAIN stream = 1 .. L /\ Len(stream') = L + 1 /\ DOMAIN stream' = 1 .. L + 1
      /\ \A n \in 1 .. L : stream'[n] = stream[n]
      /\ stream'[L + 1].created > t /\ stream'[L + 1].created \in Nat
  BY LandedLater
<1>2. Persistence' = Persistence
  BY DEF Persistence
<1>3. ASSUME NEW r, NEW places, places \subseteq 1 .. L
      PROVE  Fold(r, stream', places) = Fold(r, stream, places)
  <2>1. L + 1 \notin places
    BY <1>1, <1>3
  <2> QED
    BY <1>1, <2>1, FoldLanded
<1> HIDE DEF L
<1>4. CreatedUntil(t)' = CreatedUntil(t) /\ CreatedUntil(t) \subseteq 1 .. L
  BY <1>1 DEF CreatedUntil
<1>5. ASSUME NEW s
      PROVE  /\ PlacesOf(s) \subseteq 1 .. L /\ PlacesOf(s)' \subseteq 1 .. L + 1
             /\ PlacesOf(s)' \intersect (1 .. L) = PlacesOf(s)
  BY <1>1 DEF PlacesOf
<1>6. ASSUME NEW s, NEW about
      PROVE  /\ PlacesAbout(s, about) \subseteq 1 .. L /\ PlacesAbout(s, about)' \subseteq 1 .. L + 1
             /\ PlacesAbout(s, about)' \intersect (1 .. L) = PlacesAbout(s, about)
  BY <1>1 DEF PlacesAbout
<1>7. ASSUME NEW s
      PROVE  /\ ReadStream(s) \subseteq 1 .. L /\ ReadStream(s)' \subseteq 1 .. L + 1
             /\ ReadStream(s)' \intersect (1 .. L) = ReadStream(s)
  <2>1. ASSUME NEW n \in 1 .. L
        PROVE  {m \in PlacesOf(s)' : m <= n} = {m \in PlacesOf(s) : m <= n}
    <3>1. ASSUME NEW m \in PlacesOf(s)', m <= n PROVE m \in 1 .. L
      BY <1>1, <1>5, <3>1
    <3> QED
      BY <1>5, <3>1
  <2>2. ReadStream(s) = {n \in PlacesOf(s) : Cardinality({m \in PlacesOf(s) : m <= n}) <= ReadLimit}
    BY DEF ReadStream
  <2>3. ReadStream(s)' =
          {n \in PlacesOf(s)' : Cardinality({m \in PlacesOf(s)' : m <= n}) <= ReadLimit}
    BY DEF ReadStream
  <2>4. ASSUME NEW n \in 1 .. L PROVE n \in ReadStream(s)' <=> n \in ReadStream(s)
    <3>1. Cardinality({m \in PlacesOf(s)' : m <= n}) = Cardinality({m \in PlacesOf(s) : m <= n})
      BY <2>1
    <3>2. n \in PlacesOf(s)' <=> n \in PlacesOf(s)
      BY <1>5
    <3> QED
      BY <2>2, <2>3, <3>1, <3>2
  <2>5. ReadStream(s) \subseteq PlacesOf(s) /\ ReadStream(s)' \subseteq PlacesOf(s)'
    BY <2>2, <2>3
  <2> QED
    BY <1>5, <2>4, <2>5
<1>8. ASSUME NEW s PROVE Until(ReadStream(s), t)' = Until(ReadStream(s), t)
  BY <1>1, <1>7, StopsBefore DEF Until
<1>9. ASSUME NEW s, NEW about
      PROVE  Until(PlacesAbout(s, about), t)' = Until(PlacesAbout(s, about), t)
  BY <1>1, <1>6, StopsBefore DEF Until
<1>10. ASSUME NEW s \in Subject PROVE StateAt(s, t)' = StateAt(s, t)
  <2>1. OrbitStateAt(s, t)' = OrbitStateAt(s, t)
    <3> DEFINE kept == CreatedUntil(t)
    <3>1. ASSUME NEW about
          PROVE  /\ kept \intersect PlacesAbout(s, about)' = kept \intersect PlacesAbout(s, about)
                 /\ kept \intersect PlacesAbout(s, about) \subseteq 1 .. L
      BY <1>4, <1>6
    <3>2. FoldInTurn(s, kept)' = FoldInTurn(s, kept)
      <4> DEFINE first == kept \intersect PlacesAbout(s, "proposal")
                 second == kept \intersect PlacesAbout(s, "transition")
      <4>1. first' = first /\ second' = second /\ first \subseteq 1 .. L /\ second \subseteq 1 .. L
        BY <1>4, <3>1
      <4>2. /\ FoldInTurn(s, kept) = Fold(Fold(NoRecord, stream, first), stream, second)
            /\ FoldInTurn(s, kept)' = Fold(Fold(NoRecord, stream', first'), stream', second')
        BY DEF FoldInTurn
      <4> HIDE DEF first, second
      <4> QED
        BY <1>3, <4>1, <4>2
    <3>3. (\E n \in kept \intersect PlacesOf(s) : stream[n].type \in Proposals)'
            <=> \E n \in kept \intersect PlacesOf(s) : stream[n].type \in Proposals
      BY <1>1, <1>4, <1>5
    <3> QED
      BY <3>2, <3>3 DEF OrbitStateAt, OrbitFold
  <2>2. ServerStateAt(s, t)' = ServerStateAt(s, t)
    <3>1. Until(ReadStream(s), t) \subseteq 1 .. L
      BY <1>7 DEF Until
    <3>2. Fold(NoRecord, stream', Until(ReadStream(s), t)') = Fold(NoRecord, stream, Until(ReadStream(s), t))
      BY <1>3, <1>8, <3>1
    <3> QED
      BY <3>2 DEF ServerStateAt
  <2> QED
    BY <1>2, <2>1, <2>2 DEF StateAt
<1>11. ASSUME NEW i \in Instance PROVE PayloadsUntil(i, t)' = PayloadsUntil(i, t)
  <2>1. OrbitPayloads(i, t)' = OrbitPayloads(i, t)
    <3>1. Until(PlacesAbout(i, "transition"), t) \subseteq 1 .. L
      BY <1>6 DEF Until
    <3> QED
      BY <1>1, <1>9, <3>1 DEF OrbitPayloads
  <2>2. ServerPayloads(i, t)' = ServerPayloads(i, t)
    <3>1. Until(ReadStream(i), t) \subseteq 1 .. L
      BY <1>7 DEF Until
    <3> QED
      BY <1>1, <1>8, <3>1 DEF ServerPayloads
  <2> QED
    BY <1>2, <2>1, <2>2 DEF PayloadsUntil
<1> QED
  BY <1>10, <1>11

\* Answers about the past are final (getWorkflowStateAt and its siblings of both strategies).
THEOREM AnswersAreFinal == Spec => PastIsFinal
<1>1. ASSUME ChronologicalInv, [Next]_vars, NEW t \in 0 .. MaxClock, t < clock,
             \A n \in DOMAIN inFlight : inFlight[n].created > t
      PROVE  /\ \A s \in Subject : StateAt(s, t)' = StateAt(s, t)
             /\ \A i \in Instance : PayloadsUntil(i, t)' = PayloadsUntil(i, t)
  <2>1. t \in Nat
    BY SourcingAssumption
  <2>2. CASE UNCHANGED <<environment, stream>>
    BY <2>2 DEF StateAt, OrbitStateAt, ServerStateAt, PayloadsUntil, OrbitPayloads, ServerPayloads,
                OrbitFold, FoldInTurn, Until, ReadStream, PlacesOf, PlacesAbout, CreatedUntil, Persistence
  <2>3. ASSUME NEW k \in DOMAIN inFlight, Land(k), UNCHANGED environment
        PROVE  /\ \A s \in Subject : StateAt(s, t)' = StateAt(s, t)
               /\ \A i \in Instance : PayloadsUntil(i, t)' = PayloadsUntil(i, t)
    BY <1>1, <2>1, <2>3, LandKeepsPast
  <2>4. \/ UNCHANGED <<environment, stream>>
        \/ UNCHANGED environment /\ \E k \in DOMAIN inFlight : Land(k)
    BY <1>1 DEF Next, Step, vars, Tick, Propose, Launch, Advance, RejectedBy, Answer, Validate,
                Dispatch, FollowUp, Project, Crash
  <2> QED
    BY <2>2, <2>3, <2>4
<1>2. ChronologicalInv /\ [Next]_vars =>
        [\A t \in 0 .. MaxClock :
           /\ t < clock
           /\ \A n \in DOMAIN inFlight : inFlight[n].created > t
           /\ stream' # stream
           =>
             /\ \A s \in Subject : StateAt(s, t)' = StateAt(s, t)
             /\ \A i \in Instance : PayloadsUntil(i, t)' = PayloadsUntil(i, t)]_vars
  BY <1>1
<1> QED
  BY <1>2, ChronologicalAlways, PTL DEF Spec, PastIsFinal

-----------------------------------------------------------------------------
(* What an event owes to earlier ones *)

\* An event that fits and follows a proposal may be handed to the database.
LEMMA WriteCauses ==
  ASSUME CausesInv, TypeOK', NEW e \in Event, Fits(e),
         Persistence = "OrbitDB" => FollowsProposal(e, Len(stream)),
         Write(e), UNCHANGED <<environment, stream>>, todo' \subseteq todo
  PROVE  CausesInv'
<1>1. /\ inFlight \in Seq(Event) /\ inFlight' = Append(inFlight, e)
      /\ DOMAIN inFlight' = 1 .. Len(inFlight) + 1 /\ DOMAIN inFlight = 1 .. Len(inFlight)
      /\ Len(inFlight) \in Nat
  BY DEF CausesInv, TypeOK, Write
<1>2. \A n \in DOMAIN inFlight' : (n \in DOMAIN inFlight /\ inFlight'[n] = inFlight[n]) \/ inFlight'[n] = e
  BY <1>1
<1>3. \A n \in DOMAIN inFlight' : Fits(inFlight'[n])
  BY <1>2 DEF CausesInv
<1>4. Persistence = "OrbitDB" => \A n \in DOMAIN inFlight' : FollowsProposal(inFlight'[n], Len(stream))
  BY <1>2 DEF CausesInv
<1>5. \A x \in todo' : x[2] \in TasksOf(stream[x[1]])'
  BY DEF CausesInv, TasksOf, Consistency
<1>6. \A n \in DOMAIN stream' : Fits(stream'[n])
  BY DEF CausesInv
<1>7. Persistence' = Persistence
  BY DEF Persistence
<1>8. (Persistence = "OrbitDB" =>
         /\ \A n \in DOMAIN stream : FollowsProposal(stream[n], n - 1)
         /\ \A n \in DOMAIN inFlight : FollowsProposal(inFlight[n], Len(stream)))'
  BY <1>4, <1>7 DEF CausesInv, FollowsProposal
<1> QED
  BY <1>3, <1>5, <1>6, <1>8 DEF CausesInv

\* So may what is written because of an appended event, of its kind.
LEMMA AnswerCauses ==
  ASSUME CausesInv, TypeOK', NEW n \in DOMAIN stream, NEW task,
         NEW type \in EventType, NEW by \in Participant \union {NoParticipant},
         Answer(n, task, type, by), UNCHANGED environment, type \notin Transitions,
         type \in Proposals => stream[n].about = "proposal",
         type \in {"acceptedByParticipant", "rejectedByParticipant"} => by \in Participant
  PROVE  CausesInv'
<1> DEFINE e == New(type, stream[n].about, stream[n].subject, stream[n].to, by)
<1>1. stream[n] \in Event /\ n \in 1 .. Len(stream) /\ Len(stream) \in Nat
  BY DEF CausesInv, TypeOK
<1>2. e \in Event
  BY <1>1, NewType DEF Event, CausesInv
<1>3. e.type = type /\ e.about = stream[n].about /\ e.subject = stream[n].subject /\ e.by = by
  BY DEF New
<1>4. Fits(e)
  BY <1>3 DEF Fits
<1>5. ASSUME Persistence = "OrbitDB", e.about = "proposal"
      PROVE  \E m \in 1 .. Len(stream) : stream[m].subject = e.subject /\ stream[m].type \in Proposals
  <2>1. CASE stream[n].type \in Proposals
    BY <1>1, <1>3, <2>1
  <2>2. CASE stream[n].type \notin Proposals
    <3>1. FollowsProposal(stream[n], n - 1)
      BY <1>5 DEF CausesInv
    <3>2. PICK m \in 1 .. n - 1 : stream[m].subject = stream[n].subject /\ stream[m].type \in Proposals
      BY <1>3, <1>5, <2>2, <3>1 DEF FollowsProposal
    <3>3. m \in 1 .. Len(stream)
      BY <1>1
    <3> QED
      BY <1>3, <3>2, <3>3
  <2> QED
    BY <2>1, <2>2
<1>6. Persistence = "OrbitDB" => FollowsProposal(e, Len(stream))
  BY <1>3, <1>5 DEF FollowsProposal
<1>7. Write(e) /\ UNCHANGED <<environment, stream>> /\ todo' \subseteq todo
  BY DEF Answer
<1> HIDE DEF e
<1> QED
  BY <1>2, <1>4, <1>6, <1>7, WriteCauses

\* Landing moves an event to where later ones can follow it.
LEMMA LandCauses ==
  ASSUME CausesInv, TypeOK', NEW k \in DOMAIN inFlight, Land(k), UNCHANGED environment
  PROVE  CausesInv'
<1>len. PICK L \in Nat : L = Len(stream)
  BY DEF CausesInv, TypeOK
<1>ev. PICK e : e = inFlight[k]
  OBVIOUS
<1>1. /\ L \in Nat /\ DOMAIN stream = 1 .. L /\ DOMAIN stream' = 1 .. L + 1 /\ Len(stream') = L + 1
      /\ \A n \in 1 .. L : stream'[n] = stream[n]
      /\ stream'[L + 1] = Stamped(e)
  <2>1. stream \in Seq(Event) /\ stream' = Append(stream, Stamped(e))
    BY <1>ev DEF CausesInv, TypeOK, Land
  <2> QED
    BY <1>len, <2>1
<1>2. /\ Stamped(e).type = e.type /\ Stamped(e).about = e.about
      /\ Stamped(e).subject = e.subject /\ Stamped(e).by = e.by
  BY DEF Stamped
<1>3. \A n \in DOMAIN inFlight' : \E m \in DOMAIN inFlight : inFlight'[n] = inFlight[m]
  <2>1. inFlight \in Seq(Event) /\ inFlight' = RemoveAt(inFlight, k)
    BY DEF CausesInv, TypeOK, Land
  <2>2. IsSequence(inFlight)
    BY <2>1 DEF IsSequence
  <2>3. /\ Len(inFlight) \in Nat /\ DOMAIN inFlight = 1 .. Len(inFlight)
        /\ DOMAIN RemoveAt(inFlight, k) = 1 .. Len(inFlight) - 1
        /\ \A n \in 1 .. Len(inFlight) - 1 :
             RemoveAt(inFlight, k)[n] = IF n < k THEN inFlight[n] ELSE inFlight[n + 1]
    BY <2>2, Removed
  <2>4. ASSUME NEW n \in 1 .. Len(inFlight) - 1
        PROVE  n \in DOMAIN inFlight /\ n + 1 \in DOMAIN inFlight
    BY <2>3
  <2> QED
    BY <2>1, <2>3, <2>4
<1>4. Fits(e) /\ Fits(Stamped(e))
  BY <1>2, <1>ev DEF CausesInv, Fits
<1>5. (\A n \in DOMAIN stream : Fits(stream[n]))'
  BY <1>1, <1>4 DEF CausesInv
<1>6. (\A n \in DOMAIN inFlight : Fits(inFlight[n]))'
  BY <1>3 DEF CausesInv
<1>7. (\A x \in todo : x[2] \in TasksOf(stream[x[1]]))'
  <2>1. todo' = todo \union {<<L + 1, t>> : t \in TasksOf(e)}
    BY <1>len, <1>ev DEF Land
  <2>2. TasksOf(stream[L + 1])' = TasksOf(e)
    BY <1>1, <1>2 DEF TasksOf, Consistency
  <2>3. ASSUME NEW x \in todo PROVE x[2] \in TasksOf(stream[x[1]])'
    <3>1. x[1] \in 1 .. L
      BY <1>len DEF CausesInv, TypeOK
    <3>2. stream'[x[1]] = stream[x[1]]
      BY <1>1, <3>1
    <3> QED
      BY <3>2 DEF CausesInv, TasksOf, Consistency
  <2> QED
    BY <2>1, <2>2, <2>3
<1>8. ASSUME NEW d, NEW n \in 0 .. L, FollowsProposal(d, n) PROVE FollowsProposal(d, n)'
  BY <1>1, <1>8 DEF FollowsProposal
<1>9. (Persistence = "OrbitDB" =>
         /\ \A n \in DOMAIN stream : FollowsProposal(stream[n], n - 1)
         /\ \A n \in DOMAIN inFlight : FollowsProposal(inFlight[n], Len(stream)))'
  <2>1. SUFFICES ASSUME Persistence = "OrbitDB"
                 PROVE  /\ \A n \in DOMAIN stream' : FollowsProposal(stream[n], n - 1)'
                        /\ \A n \in DOMAIN inFlight' : FollowsProposal(inFlight[n], Len(stream))'
    BY DEF Persistence
  <2>2. ASSUME NEW n \in DOMAIN stream' PROVE FollowsProposal(stream[n], n - 1)'
    <3>1. CASE n \in 1 .. L
      <4>1. n - 1 \in 0 .. L /\ FollowsProposal(stream[n], n - 1)
        BY <1>1, <2>1, <3>1 DEF CausesInv
      <4> QED
        BY <1>1, <1>8, <3>1, <4>1 DEF FollowsProposal
    <3>2. CASE n = L + 1
      <4>1. FollowsProposal(e, L) /\ n - 1 = L /\ L \in 0 .. L
        BY <1>1, <1>len, <1>ev, <2>1, <3>2 DEF CausesInv
      <4> QED
        BY <1>1, <1>2, <3>2, <4>1 DEF FollowsProposal
    <3> QED
      BY <1>1, <3>1, <3>2
  <2>3. ASSUME NEW n \in DOMAIN inFlight' PROVE FollowsProposal(inFlight[n], Len(stream))'
    <3>1. PICK m \in DOMAIN inFlight : inFlight'[n] = inFlight[m]
      BY <1>3
    <3>2. FollowsProposal(inFlight[m], L)
      BY <1>len, <2>1 DEF CausesInv
    <3> QED
      BY <1>1, <3>1, <3>2 DEF FollowsProposal
  <2> QED
    BY <2>2, <2>3
<1> QED
  BY <1>5, <1>6, <1>7, <1>9 DEF CausesInv

\* Every step keeps what events owe to earlier ones.
LEMMA CausesStep == CausesInv /\ [Next]_vars => CausesInv'
<1> SUFFICES ASSUME CausesInv, [Next]_vars PROVE CausesInv'
  OBVIOUS
<1> USE SourcingAssumption
<1>types. /\ TypeOK /\ TypeOK'
          /\ EventType = {"proposed", "received", "advanced", "transitionReceived", "localAccepted",
                          "localRejected", "receivedAccepted", "receivedRejected",
                          "acceptedByParticipant", "accepted", "rejectedByParticipant", "rejected"}
          /\ Proposals = {"proposed", "received"} /\ Transitions = {"advanced", "transitionReceived"}
  BY TypesStep DEF CausesInv, EventType, Proposals, Transitions, RuleVerdicts, ParticipantVerdicts
<1>1. ASSUME UNCHANGED <<environment, inFlight, stream, todo>> PROVE CausesInv'
  BY <1>1, <1>types DEF CausesInv, TasksOf, Consistency, Persistence, FollowsProposal
<1>2. CASE UNCHANGED <<environment, clock, inFlight, stream, todo>>
  BY <1>1, <1>2
<1>3. CASE Tick /\ UNCHANGED environment
  BY <1>1, <1>3 DEF Tick
<1>4. ASSUME NEW s \in Subject, Write(New("proposed", "proposal", s, Initial, NoParticipant)),
             UNCHANGED <<environment, stream, todo>>
      PROVE  CausesInv'
  <2> DEFINE e == New("proposed", "proposal", s, Initial, NoParticipant)
  <2>1. e \in Event
    BY <1>types, NewType
  <2>2. Fits(e) /\ FollowsProposal(e, Len(stream))
    BY <1>types DEF New, Fits, FollowsProposal
  <2> HIDE DEF e
  <2> QED
    BY <1>4, <1>types, <2>1, <2>2, WriteCauses DEF e
<1>5. ASSUME NEW w \in Workflow, Propose(w), UNCHANGED environment PROVE CausesInv'
  BY <1>4, <1>5 DEF Propose, Subject
<1>6. ASSUME NEW i \in Instance, Launch(i), UNCHANGED environment PROVE CausesInv'
  BY <1>4, <1>6 DEF Launch, Subject
<1>7. ASSUME NEW i \in Instance, NEW type \in Transitions, NEW to \in State,
             NEW p \in Participant \union {NoParticipant}, Advance(i, type, to, p),
             UNCHANGED environment
      PROVE  CausesInv'
  <2> DEFINE e == New(type, "transition", i, to, p)
  <2>1. e \in Event
    BY <1>types, NewType DEF Subject
  <2>2. Fits(e) /\ e.subject = i
    BY <1>types DEF New, Fits
  <2>3. ASSUME Persistence = "OrbitDB" PROVE FollowsProposal(e, Len(stream))
    <3>1. Current(i) # NoRecord
      BY <1>7, <2>3 DEF Advance, WorkflowInstanceById
    <3>2. \E n \in DOMAIN stream : stream[n].subject = i /\ stream[n].type \in Proposals
      BY <2>3, <3>1 DEF Current, OrbitFold, PlacesOf
    <3>3. DOMAIN stream = 1 .. Len(stream)
      BY <1>types DEF TypeOK
    <3> QED
      BY <2>2, <3>2, <3>3 DEF FollowsProposal
  <2>4. Write(e) /\ UNCHANGED <<environment, stream, todo>>
    BY <1>7 DEF Advance
  <2> HIDE DEF e
  <2> QED
    BY <1>types, <2>1, <2>2, <2>3, <2>4, WriteCauses
<1>8. ASSUME NEW i \in Instance, NEW p \in Participant, RejectedBy(i, p), UNCHANGED environment
      PROVE  CausesInv'
  <2> DEFINE e == New("rejectedByParticipant", "transition", i, Initial, p)
  <2>1. e \in Event
    BY <1>types, NewType DEF Subject
  <2>2. Fits(e) /\ FollowsProposal(e, Len(stream))
    BY <1>types DEF New, Fits, FollowsProposal
  <2>3. Write(e) /\ UNCHANGED <<environment, stream, todo>>
    BY <1>8 DEF RejectedBy
  <2> HIDE DEF e
  <2> QED
    BY <1>types, <2>1, <2>2, <2>3, WriteCauses
<1>9. ASSUME NEW k \in DOMAIN inFlight, Land(k), UNCHANGED environment PROVE CausesInv'
  BY <1>9, <1>types, LandCauses
<1>10. ASSUME NEW n \in DOMAIN stream, NEW accepted \in BOOLEAN, Validate(n, accepted),
              UNCHANGED environment
       PROVE  CausesInv'
  BY <1>10, <1>types, AnswerCauses DEF Validate
<1>11. ASSUME NEW n \in DOMAIN stream, NEW task, NEW type, NEW by, Answer(n, task, type, by)
       PROVE  task \in TasksOf(stream[n])
  BY <1>11 DEF Answer, CausesInv
<1>12. ASSUME NEW n \in DOMAIN stream, NEW self \in Participant, Dispatch(n, self),
              UNCHANGED environment
       PROVE  CausesInv'
  <2>1. CASE stream[n].type = "localAccepted"
    <3>1. Answer(n, "consistency", "received", NoParticipant)
      BY <1>12, <2>1 DEF Dispatch
    <3>2. stream[n].about = "proposal"
      BY <1>11, <3>1 DEF TasksOf
    <3> QED
      BY <1>12, <1>types, <3>1, <3>2, AnswerCauses
  <2>2. CASE stream[n].type # "localAccepted"
    <3>1. \/ Answer(n, "consistency", "acceptedByParticipant", self)
          \/ Answer(n, "consistency", "rejectedByParticipant", self)
      BY <1>12, <2>2 DEF Dispatch
    <3> QED
      BY <1>12, <1>types, <3>1, AnswerCauses
  <2> QED
    BY <2>1, <2>2
<1>13. ASSUME NEW n \in DOMAIN stream, FollowUp(n), UNCHANGED environment PROVE CausesInv'
  <2>1. stream[n] \in Event /\ stream[n].by \in Participant \union {NoParticipant}
    <3>1. stream[n] \in Event
      BY <1>types DEF TypeOK
    <3> QED
      BY <3>1 DEF Event
  <2>2. CASE stream[n].type = "advanced"
    <3>1. Answer(n, "continue", "acceptedByParticipant", stream[n].by)
      BY <1>13, <2>2 DEF FollowUp
    <3>2. stream[n].by \in Participant
      BY <1>11, <2>1, <2>2, <3>1 DEF TasksOf
    <3> QED
      BY <1>13, <1>types, <3>1, <3>2, AnswerCauses
  <2>3. CASE stream[n].type # "advanced"
    <3>1. \/ Answer(n, "continue", "accepted", stream[n].by)
          \/ Answer(n, "continue", "rejected", stream[n].by)
      BY <1>13, <2>3 DEF FollowUp
    <3> QED
      BY <1>13, <1>types, <2>1, <3>1, AnswerCauses
  <2> QED
    BY <2>2, <2>3
<1>14. CASE Crash /\ UNCHANGED environment
  BY <1>14, <1>types DEF Crash, CausesInv, TasksOf, Consistency, Persistence, FollowsProposal
<1> QED
  BY <1>2, <1>3, <1>5, <1>6, <1>7, <1>8, <1>9, <1>10, <1>12, <1>13, <1>14 DEF Next, Step, Project, vars

-----------------------------------------------------------------------------
(* The last transition decides *)

\* The aggregate of the proposals of i, and that of its local events on top of it.
ProposalFold(i) == Fold(NoRecord, stream, PlacesAbout(i, "proposal"))
LocalFold(i) == Fold(ProposalFold(i), stream, PlacesAbout(i, "transition"))
HasProposal(i) == \E n \in DOMAIN stream : stream[n].subject = i /\ stream[n].type \in Proposals

\* What is proposed has a record.
RecordsInv ==
  Persistence = "OrbitDB" =>
    \A i \in Instance :
      /\ HasProposal(i) => ProposalFold(i) \in Aggregate
      /\ ~HasProposal(i) => ProposalFold(i) = NoRecord

\* The record that a transition to this state and these later verdicts lead to.
Decided(r, to, after) ==
  /\ r \notin {NoRecord, Thrown}
  /\ r.currentState = to
  /\ r.acceptedByRuleServices =
       CASE after \cap {"localRejected", "receivedRejected"} # {} -> "false"
         [] after \cap {"localRejected", "receivedRejected"} = {}
            /\ after \cap {"localAccepted", "receivedAccepted"} # {} -> "true"
         [] OTHER -> "undefined"
  /\ r.acceptedByParticipants =
       CASE "rejected" \in after -> "false"
         [] "rejected" \notin after /\ "accepted" \in after -> "true"
         [] OTHER -> "undefined"

\* LastTransitionDecides by places.
DecidesByPlace ==
  Persistence = "OrbitDB" =>
    \A i \in Instance, n \in DOMAIN stream :
      /\ stream[n].subject = i /\ stream[n].type \in Transitions
      /\ Verdicts(i, n) \cap Transitions = {}
      => Decided(Current(i), stream[n].to, Verdicts(i, n))

DecidesInv ==
  /\ CausesInv
  /\ RecordsInv
  /\ LastTransitionDecides

\* What the two folds are of: every event of a record (aggregateAllWorkflowInstanceEvents).
LEMMA EventTypes ==
  /\ Proposals = {"proposed", "received"} /\ Transitions = {"advanced", "transitionReceived"}
  /\ EventType = {"proposed", "received", "advanced", "transitionReceived", "localAccepted",
                  "localRejected", "receivedAccepted", "receivedRejected",
                  "acceptedByParticipant", "accepted", "rejectedByParticipant", "rejected"}
  BY DEF EventType, Proposals, Transitions, RuleVerdicts, ParticipantVerdicts

\* An event makes a record of a record, a proposal makes one of nothing, and a transition
\* leaves nothing of the record it finds.
LEMMA RecordOfRecord ==
  ASSUME NEW r \in Aggregate, NEW e \in Event, Fits(e)
  PROVE  FoldEvent(r, e) \in Aggregate
<1> USE SourcingAssumption, EventTypes
<1>1. r # NoRecord /\ r # Thrown
  OBVIOUS
<1>2. e.type \in EventType /\ e.to \in State /\ e.by \in Participant \union {NoParticipant}
  BY DEF Event
<1>3. CASE e.type \in Proposals
  BY <1>1, <1>2, <1>3 DEF FoldEvent, Proposed, Aggregate, Flag
<1>4. CASE e.type \in Transitions
  BY <1>1, <1>2, <1>4 DEF FoldEvent, Moved, Aggregate, Flag
<1>5. CASE e.type \notin Proposals \union Transitions
  <2>1. FoldEvent(r, e) = Judge(r, e)
    BY <1>1, <1>5 DEF FoldEvent
  <2>2. CASE e.type \in {"localAccepted", "receivedAccepted"}
    BY <2>1, <2>2 DEF Judge, Accept, Aggregate, Flag
  <2>3. CASE e.type \in {"localRejected", "receivedRejected"}
    BY <2>1, <2>3 DEF Judge, Aggregate, Flag
  <2>4. CASE e.type = "acceptedByParticipant"
    BY <2>1, <2>4 DEF Judge, Aggregate, Fits
  <2>5. CASE e.type = "rejectedByParticipant"
    BY <2>1, <2>5 DEF Judge, Aggregate, Fits
  <2>6. CASE e.type = "accepted"
    BY <2>1, <2>6 DEF Judge, Accept, Aggregate, Flag
  <2>7. CASE e.type = "rejected"
    BY <2>1, <2>7 DEF Judge, Aggregate, Flag
  <2> QED
    BY <1>2, <1>5, <2>2, <2>3, <2>4, <2>5, <2>6, <2>7
<1> QED
  BY <1>3, <1>4, <1>5

\* Where there is no record yet, a proposal makes one.
LEMMA RecordOfNothing ==
  ASSUME NEW e \in Event, e.type \in Proposals
  PROVE  FoldEvent(NoRecord, e) \in Aggregate
<1>1. e.to \in State
  BY DEF Event
<1>2. NoRecord # Thrown
  BY SourcingAssumption
<1>3. FoldEvent(NoRecord, e) = Proposed(e.to)
  BY <1>2, EventTypes DEF FoldEvent
<1> QED
  BY <1>1, <1>3 DEF Proposed, Aggregate, Flag

\* A transition gives the same record whatever record it meets: that of its own target, undecided.
LEMMA TransitionForgets ==
  ASSUME NEW r \in Aggregate, NEW q \in Aggregate, NEW e \in Event, e.type \in Transitions
  PROVE  /\ FoldEvent(r, e) = FoldEvent(q, e)
         /\ Decided(FoldEvent(r, e), e.to, {})
<1> USE SourcingAssumption, EventTypes
<1> DEFINE moved == [currentState |-> e.to, acceptedByRuleServices |-> "undefined",
                     acceptedByParticipants |-> "undefined",
                     participantsAccepted |-> {}, participantsRejected |-> {}]
<1>1. ASSUME NEW a \in Aggregate PROVE FoldEvent(a, e) = moved
  <2>1. a # NoRecord /\ a # Thrown /\ e.type \notin Proposals
    OBVIOUS
  <2>2. FoldEvent(a, e) = [Moved(a, e.to) EXCEPT !.acceptedByRuleServices = "undefined"]
    BY <2>1 DEF FoldEvent
  <2> QED
    BY <2>2 DEF Moved, Aggregate
<1>2. moved \in Aggregate
  BY DEF Event, Aggregate, Flag
<1>3. Decided(moved, e.to, {})
  BY <1>2 DEF Decided
<1> HIDE DEF moved
<1> QED
  BY <1>1, <1>3

\* A verdict adds to what was decided.
LEMMA VerdictAdds ==
  ASSUME NEW r \in Aggregate, NEW e \in Event, Fits(e), e.type \notin Proposals \union Transitions,
         NEW to, NEW after, Decided(r, to, after)
  PROVE  Decided(FoldEvent(r, e), to, after \union {e.type})
<1> USE SourcingAssumption, EventTypes
<1>1. FoldEvent(r, e) = Judge(r, e)
  BY DEF FoldEvent
<1>2. FoldEvent(r, e) \notin {NoRecord, Thrown}
  BY RecordOfRecord
<1>3. e.type \in EventType
  BY DEF Event
<1>4. CASE e.type \in {"localAccepted", "receivedAccepted"}
  <2>1. FoldEvent(r, e) = [r EXCEPT !.acceptedByRuleServices = Accept(@)]
    BY <1>1, <1>4 DEF Judge
  <2> QED
    BY <1>2, <1>4, <2>1 DEF Decided, Accept, Aggregate
<1>5. CASE e.type \in {"localRejected", "receivedRejected"}
  <2>1. FoldEvent(r, e) = [r EXCEPT !.acceptedByRuleServices = "false"]
    BY <1>1, <1>5 DEF Judge
  <2> QED
    BY <1>2, <1>5, <2>1 DEF Decided, Aggregate
<1>6. CASE e.type \in {"acceptedByParticipant", "rejectedByParticipant"}
  <2>1. \/ FoldEvent(r, e) = [r EXCEPT !.participantsAccepted = @ \union {e.by}]
        \/ FoldEvent(r, e) = [r EXCEPT !.participantsRejected = @ \union {e.by}]
    BY <1>1, <1>6 DEF Judge
  <2>2. /\ FoldEvent(r, e).currentState = r.currentState
        /\ FoldEvent(r, e).acceptedByRuleServices = r.acceptedByRuleServices
        /\ FoldEvent(r, e).acceptedByParticipants = r.acceptedByParticipants
    BY <2>1 DEF Aggregate
  <2> QED
    BY <1>2, <1>6, <2>2 DEF Decided
<1>7. CASE e.type = "accepted"
  <2>1. FoldEvent(r, e) = [r EXCEPT !.acceptedByParticipants = Accept(@)]
    BY <1>1, <1>7 DEF Judge
  <2> QED
    BY <1>2, <1>7, <2>1 DEF Decided, Accept, Aggregate
<1>8. CASE e.type = "rejected"
  <2>1. FoldEvent(r, e) = [r EXCEPT !.acceptedByParticipants = "false"]
    BY <1>1, <1>8 DEF Judge
  <2> QED
    BY <1>2, <1>8, <2>1 DEF Decided, Aggregate
<1> QED
  BY <1>3, <1>4, <1>5, <1>6, <1>7, <1>8

\* Folds of two records over the same events: both are records, and the same one if there
\* is a transition among the events.
LEMMA FoldsForget ==
  ASSUME NEW log, NEW places, Len(log) \in Nat, NEW r \in Aggregate, NEW q \in Aggregate,
         \A n \in 1 .. Len(log) : log[n] \in Event /\ Fits(log[n])
  PROVE  /\ Fold(r, log, places) \in Aggregate
         /\ (\E n \in places \intersect (1 .. Len(log)) : log[n].type \in Transitions) =>
              Fold(r, log, places) = Fold(q, log, places)
<1>1. PICK f : IsRun("fold", f, r, log, places) /\ Fold(r, log, places) = f[Len(log)]
  BY FoldIs
<1>2. PICK g : IsRun("fold", g, q, log, places) /\ Fold(q, log, places) = g[Len(log)]
  BY FoldIs
<1> DEFINE Holds(k) ==
             /\ f[k] \in Aggregate /\ g[k] \in Aggregate
             /\ (\E n \in places \intersect (1 .. k) : log[n].type \in Transitions) => f[k] = g[k]
           A == {k \in Nat : k <= Len(log) => Holds(k)}
<1>3. 0 \in A
  <2>1. f[0] = r /\ g[0] = q
    BY <1>1, <1>2, FoldSteps
  <2> QED
    BY <2>1
<1>4. ASSUME NEW k \in Nat, k \in A PROVE k + 1 \in A
  <2>1. SUFFICES ASSUME k + 1 <= Len(log) PROVE Holds(k + 1)
    OBVIOUS
  <2>2. Holds(k)
    BY <1>4, <2>1
  <2>3. /\ f[k + 1] = IF k + 1 \in places THEN FoldEvent(f[k], log[k + 1]) ELSE f[k]
        /\ g[k + 1] = IF k + 1 \in places THEN FoldEvent(g[k], log[k + 1]) ELSE g[k]
    BY <1>1, <1>2, <2>1, FoldSteps
  <2>4. log[k + 1] \in Event /\ Fits(log[k + 1])
    BY <2>1
  <2>5. f[k + 1] \in Aggregate /\ g[k + 1] \in Aggregate
    BY <2>2, <2>3, <2>4, RecordOfRecord
  <2>6. ASSUME NEW n \in places \intersect (1 .. k + 1), log[n].type \in Transitions
        PROVE  f[k + 1] = g[k + 1]
    <3>1. CASE n = k + 1
      BY <2>2, <2>3, <2>4, <2>6, <3>1, TransitionForgets
    <3>2. CASE n \in 1 .. k
      BY <2>2, <2>3, <2>6, <3>2
    <3> QED
      BY <2>6, <3>1, <3>2
  <2> QED
    BY <2>5, <2>6
<1>5. Len(log) \in A
  <2> HIDE DEF A
  <2> QED
    BY <1>3, <1>4, Induction
<1> QED
  BY <1>1, <1>2, <1>5

\* The aggregation in terms of the two folds.
CurrentByFolds ==
  \A i : Persistence = "OrbitDB" =>
           Current(i) = IF HasProposal(i) THEN LocalFold(i) ELSE NoRecord

\* OrbitDB's record of an instance folds its proposals first and its transitions after them.
LEMMA CurrentIs == CurrentByFolds
<1> SUFFICES ASSUME NEW i, Persistence = "OrbitDB"
             PROVE  Current(i) = IF HasProposal(i) THEN LocalFold(i) ELSE NoRecord
  BY DEF CurrentByFolds
<1>1. \A about : DOMAIN stream \intersect PlacesAbout(i, about) = PlacesAbout(i, about)
  BY DEF PlacesAbout
<1>2. FoldInTurn(i, DOMAIN stream) = LocalFold(i)
  BY <1>1 DEF FoldInTurn, LocalFold, ProposalFold
<1>3. (\E n \in DOMAIN stream \intersect PlacesOf(i) : stream[n].type \in Proposals) <=> HasProposal(i)
  BY DEF PlacesOf, HasProposal
<1> QED
  BY <1>2, <1>3 DEF Current, OrbitFold

\* What the last transition has to decide, by places.
LEMMA DecidesIs == LastTransitionDecides <=> DecidesByPlace
  BY DEF LastTransitionDecides, DecidesByPlace, Decided

\* A landing under the OrbitDB strategy, seen by one instance.
LEMMA LandDecides ==
  ASSUME DecidesInv, CausesInv', NEW k \in DOMAIN inFlight, Land(k), UNCHANGED environment,
         Persistence = "OrbitDB", NEW i \in Instance
  PROVE  /\ (HasProposal(i) => ProposalFold(i) \in Aggregate)'
         /\ (~HasProposal(i) => ProposalFold(i) = NoRecord)'
         /\ \A n \in DOMAIN stream' :
              /\ stream'[n].subject = i /\ stream'[n].type \in Transitions
              /\ Verdicts(i, n)' \cap Transitions = {}
              => Decided(Current(i)', stream'[n].to, Verdicts(i, n)')
<1> USE SourcingAssumption
<1>1. PICK L \in Nat : L = Len(stream)
  BY DEF DecidesInv, CausesInv, TypeOK
<1>2. PICK e : e = Stamped(inFlight[k])
  OBVIOUS
<1>3. /\ DOMAIN stream = 1 .. L /\ DOMAIN stream' = 1 .. L + 1 /\ Len(stream') = L + 1
      /\ \A n \in 1 .. L : stream'[n] = stream[n]
      /\ stream'[L + 1] = e
  <2>1. stream \in Seq(Event) /\ stream' = Append(stream, e)
    BY <1>2 DEF DecidesInv, CausesInv, TypeOK, Land
  <2> QED
    BY <1>1, <2>1
<1>4. /\ e \in Event /\ Fits(e)
      /\ \A n \in 1 .. L : stream[n] \in Event /\ Fits(stream[n])
  <2>1. stream' \in Seq(Event) /\ stream \in Seq(Event)
    BY DEF DecidesInv, CausesInv, TypeOK
  <2>2. \A n \in 1 .. L + 1 : stream'[n] \in Event /\ Fits(stream'[n])
    BY <1>3, <2>1 DEF CausesInv
  <2>3. L + 1 \in 1 .. L + 1
    OBVIOUS
  <2>4. \A n \in 1 .. L : stream[n] \in Event
    BY <1>3, <2>1
  <2>5. \A n \in 1 .. L : Fits(stream[n])
    BY <1>3 DEF DecidesInv, CausesInv
  <2> QED
    BY <1>3, <2>2, <2>3, <2>4, <2>5
<1>5. ASSUME e.subject = i, e.type \in Transitions \/ (e.about = "proposal" /\ e.type \notin Proposals)
      PROVE  HasProposal(i)
  <2>1. FollowsProposal(inFlight[k], L)
    BY <1>1 DEF DecidesInv, CausesInv
  <2>2. e.type = inFlight[k].type /\ e.about = inFlight[k].about /\ e.subject = inFlight[k].subject
    BY <1>2 DEF Stamped
  <2> QED
    BY <1>3, <1>5, <2>1, <2>2 DEF FollowsProposal, HasProposal
<1>6. HasProposal(i)' <=> HasProposal(i) \/ (e.subject = i /\ e.type \in Proposals)
  <2>1. ASSUME NEW n \in 1 .. L + 1, n \notin 1 .. L PROVE n = L + 1
    BY <2>1
  <2>2. 1 .. L \subseteq 1 .. L + 1 /\ L + 1 \in 1 .. L + 1
    OBVIOUS
  <2> QED
    BY <1>3, <2>1, <2>2 DEF HasProposal
<1>7. ASSUME NEW about
      PROVE  /\ PlacesAbout(i, about) \subseteq 1 .. L
             /\ PlacesAbout(i, about)' \intersect (1 .. L) = PlacesAbout(i, about)
             /\ L + 1 \in PlacesAbout(i, about)' <=> e.subject = i /\ e.about = about
  BY <1>3 DEF PlacesAbout
<1>8. ASSUME NEW r, NEW about
      PROVE  Fold(r, stream', PlacesAbout(i, about)') =
               IF e.subject = i /\ e.about = about THEN FoldEvent(Fold(r, stream, PlacesAbout(i, about)), e)
                                                   ELSE Fold(r, stream, PlacesAbout(i, about))
  <2> DEFINE places == PlacesAbout(i, about)
             more == PlacesAbout(i, about)'
  <2>1. places \subseteq 1 .. L /\ more \intersect (1 .. L) = places
        /\ (L + 1 \in more <=> e.subject = i /\ e.about = about)
    BY <1>7
  <2> HIDE DEF places, more
  <2>2. Fold(r, stream', more) =
          IF Len(stream') \in more THEN FoldEvent(Fold(r, stream, places), stream'[Len(stream')])
                                   ELSE Fold(r, stream, places)
    BY <1>1, <1>3, <2>1, FoldLanded
  <2>3. Fold(r, stream', more) =
          IF e.subject = i /\ e.about = about THEN FoldEvent(Fold(r, stream, places), e)
                                              ELSE Fold(r, stream, places)
    BY <1>3, <2>1, <2>2
  <2> QED
    BY <2>3 DEF places, more
<1>9. /\ ProposalFold(i)' = IF e.subject = i /\ e.about = "proposal"
                            THEN FoldEvent(ProposalFold(i), e) ELSE ProposalFold(i)
      /\ LocalFold(i)' = IF e.subject = i /\ e.about = "transition"
                         THEN FoldEvent(Fold(ProposalFold(i)', stream, PlacesAbout(i, "transition")), e)
                         ELSE Fold(ProposalFold(i)', stream, PlacesAbout(i, "transition"))
  BY <1>8 DEF ProposalFold, LocalFold
<1>10. /\ HasProposal(i) => ProposalFold(i) \in Aggregate
       /\ ~HasProposal(i) => ProposalFold(i) = NoRecord
  BY DEF DecidesInv, RecordsInv
<1>11. /\ HasProposal(i)' => ProposalFold(i)' \in Aggregate
       /\ ~HasProposal(i)' => ProposalFold(i)' = NoRecord
  <2>1. CASE e.subject = i /\ e.about = "proposal"
    <3>1. HasProposal(i) => ProposalFold(i)' \in Aggregate
      BY <1>4, <1>9, <1>10, <2>1, RecordOfRecord
    <3>2. ~HasProposal(i) => e.type \in Proposals /\ ProposalFold(i)' \in Aggregate
      BY <1>4, <1>5, <1>9, <1>10, <2>1, RecordOfNothing
    <3> QED
      BY <1>6, <2>1, <3>1, <3>2
  <2>2. CASE ~(e.subject = i /\ e.about = "proposal")
    <3>1. ~(e.subject = i /\ e.type \in Proposals)
      BY <1>4, <2>2 DEF Fits
    <3> QED
      BY <1>6, <1>9, <1>10, <2>2, <3>1
  <2> QED
    BY <2>1, <2>2
<1>12. ASSUME NEW n \in DOMAIN stream', stream'[n].subject = i, stream'[n].type \in Transitions,
              Verdicts(i, n)' \cap Transitions = {}
       PROVE  Decided(Current(i)', stream'[n].to, Verdicts(i, n)')
  <2>1. HasProposal(i) /\ HasProposal(i)'
    <3>1. CASE n = L + 1
      BY <1>3, <1>5, <1>6, <1>12, <3>1
    <3>2. CASE n \in 1 .. L
      <4>1. FollowsProposal(stream[n], n - 1) /\ n - 1 \in Nat /\ n - 1 < L
        BY <1>3, <3>2 DEF DecidesInv, CausesInv
      <4>2. \E m \in 1 .. n - 1 : stream[m].subject = i /\ stream[m].type \in Proposals
        BY <1>3, <1>12, <3>2, <4>1 DEF FollowsProposal
      <4>3. HasProposal(i)
        BY <1>3, <4>1, <4>2 DEF HasProposal
      <4> QED
        BY <1>6, <4>3
    <3> QED
      BY <1>3, <3>1, <3>2
  <2>2. Current(i) = LocalFold(i) /\ Current(i)' = LocalFold(i)'
    <3>1. Current(i) = LocalFold(i)
      BY <2>1, CurrentIs DEF CurrentByFolds
    <3>2. Persistence' = "OrbitDB"
      BY DEF Persistence
    <3>3. Current(i)' = LocalFold(i)'
      <4>1. CurrentByFolds'
        BY CurrentIs, PTL
      <4> QED
        BY <2>1, <3>2, <4>1 DEF CurrentByFolds
    <3> QED
      BY <3>1, <3>3
  <2>3. ProposalFold(i) \in Aggregate /\ ProposalFold(i)' \in Aggregate
    BY <1>10, <1>11, <2>1
  <2> DEFINE local == PlacesAbout(i, "transition")
  <2>4. /\ LocalFold(i) \in Aggregate
        /\ (\E m \in local : stream[m].type \in Transitions) =>
             Fold(ProposalFold(i)', stream, local) = LocalFold(i)
    <3>1. local \intersect (1 .. Len(stream)) = local
      BY <1>1, <1>7
    <3>2. Len(stream) \in Nat /\ \A m \in 1 .. Len(stream) : stream[m] \in Event /\ Fits(stream[m])
      BY <1>1, <1>4
    <3> HIDE DEF local
    <3>3. /\ Fold(ProposalFold(i), stream, local) \in Aggregate
          /\ (\E m \in local : stream[m].type \in Transitions) =>
               Fold(ProposalFold(i), stream, local) = Fold(ProposalFold(i)', stream, local)
      BY <2>3, <3>1, <3>2, FoldsForget
    <3> QED
      BY <3>3 DEF LocalFold, local
  <2>5. CASE n = L + 1
    <3>1. e.subject = i /\ e.type \in Transitions /\ e.about = "transition"
      BY <1>3, <1>4, <1>12, <2>5 DEF Fits
    <3>2. LocalFold(i)' = FoldEvent(LocalFold(i), e)
      <4>1. ProposalFold(i)' = ProposalFold(i)
        BY <1>9, <3>1
      <4> QED
        BY <1>9, <3>1, <4>1 DEF LocalFold
    <3>3. Verdicts(i, n)' = {}
      BY <1>3, <2>5 DEF Verdicts
    <3>4. Decided(FoldEvent(LocalFold(i), e), e.to, {})
      BY <1>4, <2>4, <3>1, TransitionForgets
    <3> QED
      BY <1>3, <2>2, <2>5, <3>2, <3>3, <3>4
  <2>6. CASE n \in 1 .. L
    <3>1. stream[n].subject = i /\ stream[n].type \in Transitions /\ stream'[n] = stream[n]
      BY <1>3, <1>12, <2>6
    <3>2. n \in local
      BY <1>3, <1>4, <2>6, <3>1 DEF PlacesAbout, Fits
    <3>3. Verdicts(i, n)' = IF e.subject = i /\ e.about = "transition" THEN Verdicts(i, n) \union {e.type}
                                                                       ELSE Verdicts(i, n)
      <4> DEFINE old == {m \in n + 1 .. L : stream[m].subject = i /\ stream[m].about = "transition"}
                 new == {m \in n + 1 .. L + 1 : stream'[m].subject = i /\ stream'[m].about = "transition"}
      <4>1. Verdicts(i, n) = {stream[m].type : m \in old}
        BY <1>1 DEF Verdicts
      <4>2. Verdicts(i, n)' = {stream'[m].type : m \in new}
        BY <1>3 DEF Verdicts
      <4>3. \A m \in old : m \in new /\ stream'[m] = stream[m]
        BY <1>3, <2>6
      <4>4. \A m \in new : m \in old \/ m = L + 1
        BY <1>3, <2>6
      <4>5. L + 1 \in new <=> e.subject = i /\ e.about = "transition"
        BY <1>3, <2>6
      <4> HIDE DEF old, new
      <4> QED
        BY <1>3, <4>1, <4>2, <4>3, <4>4, <4>5
    <3>4. Verdicts(i, n) \cap Transitions = {}
      BY <1>12, <3>3
    <3>5. Decided(LocalFold(i), stream[n].to, Verdicts(i, n))
      BY <1>3, <2>2, <2>6, <3>1, <3>4, DecidesIs DEF DecidesInv, DecidesByPlace
    <3>6. Fold(ProposalFold(i)', stream, local) = LocalFold(i)
      BY <2>4, <3>1, <3>2
    <3>7. CASE e.subject = i /\ e.about = "transition"
      <4>1. e.type \notin Proposals \union Transitions
        BY <1>4, <1>12, <3>3, <3>7 DEF Fits
      <4>2. Decided(FoldEvent(LocalFold(i), e), stream[n].to, Verdicts(i, n) \union {e.type})
        BY <1>4, <2>4, <3>5, <4>1, VerdictAdds
      <4> QED
        BY <1>9, <2>2, <3>1, <3>3, <3>6, <3>7, <4>2
    <3>8. CASE ~(e.subject = i /\ e.about = "transition")
      BY <1>9, <2>2, <3>1, <3>3, <3>5, <3>6, <3>8
    <3> QED
      BY <3>7, <3>8
  <2> QED
    BY <1>3, <2>5, <2>6
<1> QED
  BY <1>11, <1>12

\* Every step keeps what the last transition decides.
LEMMA DecidesStep == DecidesInv /\ [Next]_vars => DecidesInv'
<1> SUFFICES ASSUME DecidesInv, [Next]_vars PROVE DecidesInv'
  OBVIOUS
<1>1. CausesInv'
  BY CausesStep DEF DecidesInv
<1>2. ASSUME UNCHANGED <<environment, stream>> PROVE RecordsInv' /\ LastTransitionDecides'
  <2>1. RecordsInv'
    BY <1>2 DEF DecidesInv, RecordsInv, HasProposal, ProposalFold, PlacesAbout, Persistence
  <2>2. (Persistence = "OrbitDB" => \A i : Current(i)' = Current(i)) /\ (\A i, n : Verdicts(i, n)' = Verdicts(i, n))
    BY <1>2 DEF Current, OrbitFold, FoldInTurn, PlacesAbout, PlacesOf, Persistence, Verdicts
  <2>3. LastTransitionDecides'
    BY <1>2, <2>2 DEF DecidesInv, LastTransitionDecides, Persistence
  <2> QED
    BY <2>1, <2>3
<1>3. ASSUME NEW k \in DOMAIN inFlight, Land(k), UNCHANGED environment
      PROVE  RecordsInv' /\ LastTransitionDecides'
  <2>1. RecordsInv'
    BY <1>1, <1>3, LandDecides DEF RecordsInv, Persistence
  <2>2. DecidesByPlace'
    BY <1>1, <1>3, LandDecides DEF DecidesByPlace, Persistence
  <2>3. LastTransitionDecides'
    BY <2>2, DecidesIs, PTL
  <2> QED
    BY <2>1, <2>3
<1>4. \/ UNCHANGED <<environment, stream>>
      \/ UNCHANGED environment /\ \E k \in DOMAIN inFlight : Land(k)
  BY DEF Next, Step, vars, Tick, Propose, Launch, Advance, RejectedBy, Answer, Validate,
         Dispatch, FollowUp, Project, Crash
<1> QED
  BY <1>1, <1>2, <1>3, <1>4 DEF DecidesInv

\* Under the OrbitDB strategy an instance's state is the one that its last appended transition
\* led to, and its flags come from what was appended to its local log after that, whatever
\* lands in the log of proposals (the order of the two lists in getWorkflowInstancesAggregate).
THEOREM LastTransitionCounts == Spec => []LastTransitionDecides
<1>1. Init => DecidesInv
  <2> SUFFICES ASSUME Init PROVE DecidesInv
    OBVIOUS
  <2>1. TypeOK /\ stream = <<>> /\ inFlight = <<>> /\ todo = {} /\ DOMAIN stream = {}
        /\ DOMAIN inFlight = {} /\ Len(stream) = 0
    BY SourcingAssumption DEF Init, TypeOK, NothingProjected
  <2>2. CausesInv
    BY <2>1 DEF CausesInv
  <2>3. ASSUME NEW i PROVE ProposalFold(i) = NoRecord /\ ~HasProposal(i)
    <3>1. PICK f : IsRun("fold", f, NoRecord, stream, PlacesAbout(i, "proposal"))
                   /\ ProposalFold(i) = f[Len(stream)]
      BY <2>1, FoldIs DEF ProposalFold
    <3>2. f[0] = NoRecord
      BY <2>1, <3>1, FoldSteps
    <3> QED
      BY <2>1, <3>1, <3>2 DEF HasProposal
  <2>4. RecordsInv
    BY <2>3 DEF RecordsInv
  <2>5. LastTransitionDecides
    BY <2>1 DEF LastTransitionDecides
  <2> QED
    BY <2>2, <2>4, <2>5 DEF DecidesInv
<1>2. DecidesInv => LastTransitionDecides
  BY DEF DecidesInv
<1> QED
  BY <1>1, <1>2, DecidesStep, PTL DEF Spec
-----------------------------------------------------------------------------
(* The present *)

\* How far an event takes what is said about its subject under the EventStore strategy:
\* a proposal, the verdict on it, the proposal come back, the verdict on that, the answer to
\* it and the answer's follow-up event.
Stage(type) ==
  CASE type = "proposed" -> 1
    [] type \in {"localAccepted", "localRejected"} -> 2
    [] type = "received" -> 3
    [] type \in {"receivedAccepted", "receivedRejected"} -> 4
    [] type \in {"acceptedByParticipant", "rejectedByParticipant"} -> 5
    [] OTHER -> 6

\* An event of the subject s and the type goes further than all that was appended, and only
\* what was accepted locally comes back.
GoesOn(s, type) ==
  /\ \A m \in DOMAIN stream : stream[m].subject = s => Stage(stream[m].type) < Stage(type)
  /\ type # "proposed" => \E m \in DOMAIN stream : stream[m].subject = s
  /\ type = "received" =>
       \E m \in DOMAIN stream : stream[m].subject = s /\ stream[m].type = "localAccepted"

\* One event of a subject leads to the next, each when the one before has landed.
OneByOne ==
  /\ \A n \in DOMAIN stream : stream[n].about = "proposal"
  /\ \A n \in DOMAIN inFlight : inFlight[n].about = "proposal"
  /\ \A m, n \in DOMAIN stream :
       m < n /\ stream[m].subject = stream[n].subject => Stage(stream[m].type) < Stage(stream[n].type)
  /\ \A n \in DOMAIN stream : stream[n].type = "received" =>
       \E m \in DOMAIN stream : stream[m].subject = stream[n].subject /\ stream[m].type = "localAccepted"
  /\ \A n \in DOMAIN inFlight : GoesOn(inFlight[n].subject, inFlight[n].type)
  /\ \A m, n \in DOMAIN inFlight : inFlight[m].subject = inFlight[n].subject => m = n
  /\ \A x \in todo :
       /\ \A m \in DOMAIN stream : stream[m].subject = stream[x[1]].subject => m <= x[1]
       /\ \A m \in DOMAIN inFlight : inFlight[m].subject # stream[x[1]].subject

\* The record of the fold and that of the projection after events of these types: they
\* differ in nothing but the verdict that the fold forgot when the proposal came back.
Together(f, g, types) ==
  /\ types = {} => f = NoRecord /\ g = NoRecord
  /\ types # {} =>
       /\ f \in Aggregate /\ g \in Aggregate
       /\ f.currentState = g.currentState
       /\ f.acceptedByParticipants = g.acceptedByParticipants
       /\ f.participantsAccepted = g.participantsAccepted
       /\ f.participantsRejected = g.participantsRejected
       /\ f.acceptedByRuleServices # g.acceptedByRuleServices => Unjudged(types)
       /\ f.acceptedByRuleServices = "false" \/ g.acceptedByRuleServices = "false" =>
            types \intersect {"localRejected", "receivedRejected"} # {}
       /\ types \subseteq {"proposed", "localAccepted", "localRejected"} =>
            /\ f.acceptedByParticipants = "undefined"
            /\ f.participantsAccepted = {} /\ f.participantsRejected = {}

\* ... and so they are after every number of appended events.
TogetherAt(places) == Together(Fold(NoRecord, stream, places), Projection(stream, places), TypesAt(places))
SameFold(s) == \A k \in 0 .. Len(stream) : TogetherAt(FirstOf(s, k))

ServerInv ==
  Persistence = "EventStore" => OneByOne /\ \A s \in Subject : SameFold(s)

\* The stages of the twelve types.
LEMMA Stages ==
  /\ Stage("proposed") = 1 /\ Stage("localAccepted") = 2 /\ Stage("localRejected") = 2
  /\ Stage("received") = 3 /\ Stage("receivedAccepted") = 4 /\ Stage("receivedRejected") = 4
  /\ Stage("acceptedByParticipant") = 5 /\ Stage("rejectedByParticipant") = 5
  /\ Stage("accepted") = 6 /\ Stage("rejected") = 6
  /\ \A type : Stage(type) \in 1 .. 6
  BY DEF Stage

\* What the client's fold and the projection make of a judgement, an answer or its follow-up.
LEMMA BothJudge ==
  ASSUME NEW f \in Aggregate, NEW g \in Aggregate, NEW e \in Event, Fits(e), e.about = "proposal",
         e.type \notin Proposals
  PROVE  FoldEvent(f, e) = Judge(f, e) /\ ProjectEvent(g, e) = Judge(g, e)
<1> USE SourcingAssumption, EventTypes
<1>1. f # NoRecord /\ f # Thrown /\ g # NoRecord /\ g # Thrown
  OBVIOUS
<1>2. e.type \notin Transitions /\ e.type # "proposed" /\ e.type # "received"
  BY DEF Fits
<1> QED
  BY <1>1, <1>2 DEF FoldEvent, ProjectEvent

\* The next event keeps fold and projection together.
LEMMA TogetherStep ==
  ASSUME NEW f, NEW g, NEW types, Together(f, g, types),
         NEW e \in Event, Fits(e), e.about = "proposal",
         \A t \in types : Stage(t) < Stage(e.type),
         types = {} => e.type = "proposed",
         "received" \in types \union {e.type} => "localRejected" \notin types
  PROVE  Together(FoldEvent(f, e), ProjectEvent(g, e), types \union {e.type})
<1> USE SourcingAssumption, EventTypes
<1>e. /\ e.type \in EventType /\ e.to \in State /\ e.by \in Participant \union {NoParticipant}
      /\ e.type \notin Transitions
  BY DEF Event, Fits
<1> PICK F, G : F = FoldEvent(f, e) /\ G = ProjectEvent(g, e)
  OBVIOUS
<1> SUFFICES Together(F, G, types \union {e.type})
  OBVIOUS
<1>1. CASE e.type = "proposed"
  <2>1. types = {}
    BY <1>1, Stages
  <2>2. f = NoRecord /\ g = NoRecord /\ NoRecord # Thrown
    BY <2>1 DEF Together
  <2>3. F = Proposed(e.to) /\ G = Proposed(e.to)
    BY <1>1, <2>2 DEF FoldEvent, ProjectEvent
  <2>4. F \in Aggregate /\ F.acceptedByRuleServices = "undefined"
        /\ F.acceptedByParticipants = "undefined" /\ F.participantsAccepted = {}
        /\ F.participantsRejected = {}
    BY <1>e, <2>3 DEF Proposed, Aggregate, Flag
  <2> QED
    BY <2>1, <2>3, <2>4 DEF Together
<1> SUFFICES ASSUME e.type # "proposed" PROVE Together(F, G, types \union {e.type})
  BY <1>1
<1>2. /\ types # {} /\ f \in Aggregate /\ g \in Aggregate
      /\ f # NoRecord /\ f # Thrown /\ g # NoRecord /\ g # Thrown
  BY DEF Together
<1>3. /\ f.currentState = g.currentState
      /\ f.acceptedByParticipants = g.acceptedByParticipants
      /\ f.participantsAccepted = g.participantsAccepted
      /\ f.participantsRejected = g.participantsRejected
      /\ f.acceptedByRuleServices # g.acceptedByRuleServices => Unjudged(types)
      /\ f.acceptedByRuleServices = "false" \/ g.acceptedByRuleServices = "false" =>
           types \intersect {"localRejected", "receivedRejected"} # {}
      /\ types \subseteq {"proposed", "localAccepted", "localRejected"} =>
           /\ f.acceptedByParticipants = "undefined"
           /\ f.participantsAccepted = {} /\ f.participantsRejected = {}
  BY <1>2 DEF Together
<1>4. CASE e.type \in {"localAccepted", "localRejected"}
  <2>1. "received" \notin types
    BY <1>4, Stages
  <2>2. f.acceptedByRuleServices = g.acceptedByRuleServices /\ ~Unjudged(types)
    BY <1>3, <2>1 DEF Unjudged
  <2>3. F = Judge(f, e) /\ G = Judge(g, e)
    BY <1>2, <1>4, BothJudge
  <2>flag. f.acceptedByRuleServices \in Flag /\ g.acceptedByRuleServices \in Flag
    BY <1>2 DEF Aggregate
  <2>4. PICK flag \in Flag : /\ F = [f EXCEPT !.acceptedByRuleServices = flag]
                             /\ G = [g EXCEPT !.acceptedByRuleServices = flag]
                             /\ flag = "false" => e.type = "localRejected" \/ f.acceptedByRuleServices = "false"
    <3>1. CASE e.type = "localAccepted"
      BY <2>2, <2>3, <3>1, <2>flag DEF Judge, Accept, Flag
    <3>2. CASE e.type = "localRejected"
      BY <2>2, <2>3, <3>2 DEF Judge, Flag
    <3> QED
      BY <1>4, <3>1, <3>2
  <2>5. F \in Aggregate /\ G \in Aggregate /\ F.acceptedByRuleServices = flag /\ G.acceptedByRuleServices = flag
    BY <1>2, <2>4 DEF Aggregate
  <2>6. /\ F.currentState = G.currentState
        /\ F.acceptedByParticipants = f.acceptedByParticipants
        /\ F.acceptedByParticipants = G.acceptedByParticipants
        /\ F.participantsAccepted = f.participantsAccepted
        /\ F.participantsAccepted = G.participantsAccepted
        /\ F.participantsRejected = f.participantsRejected
        /\ F.participantsRejected = G.participantsRejected
    BY <1>2, <1>3, <2>4 DEF Aggregate
  <2>7. flag = "false" => (types \union {e.type}) \intersect {"localRejected", "receivedRejected"} # {}
    BY <1>3, <2>4
  <2> QED
    BY <1>3, <2>5, <2>6, <2>7 DEF Together
<1>5. CASE e.type = "received"
  <2>1. types \subseteq {"proposed", "localAccepted", "localRejected"} /\ types \subseteq {"proposed", "localAccepted"}
    BY <1>5, Stages DEF Stage
  <2>2. F = Proposed(e.to) /\ G = [g EXCEPT !.currentState = e.to]
    BY <1>2, <1>5 DEF FoldEvent, ProjectEvent
  <2>3. F \in Aggregate /\ F.currentState = e.to /\ F.acceptedByRuleServices = "undefined"
        /\ F.acceptedByParticipants = "undefined" /\ F.participantsAccepted = {}
        /\ F.participantsRejected = {}
    BY <1>e, <2>2 DEF Proposed, Aggregate, Flag
  <2>4. G \in Aggregate /\ G.currentState = e.to
        /\ G.acceptedByRuleServices = g.acceptedByRuleServices
        /\ G.acceptedByParticipants = "undefined" /\ G.participantsAccepted = {}
        /\ G.participantsRejected = {}
    BY <1>2, <1>3, <1>e, <2>1, <2>2 DEF Aggregate
  <2>5. g.acceptedByRuleServices # "false"
    BY <1>3, <2>1
  <2>6. Unjudged(types \union {e.type})
    BY <1>5, <2>1 DEF Unjudged
  <2> QED
    BY <2>3, <2>4, <2>5, <2>6 DEF Together
<1>6. CASE e.type \in {"receivedAccepted", "receivedRejected"}
  <2>1. "receivedAccepted" \notin types /\ "receivedRejected" \notin types
    BY <1>6, Stages
  <2>2. F = Judge(f, e) /\ G = Judge(g, e)
    BY <1>2, <1>6, BothJudge
  <2>flag. f.acceptedByRuleServices \in Flag /\ g.acceptedByRuleServices \in Flag
    BY <1>2 DEF Aggregate
  <2>3. f.acceptedByRuleServices # g.acceptedByRuleServices =>
          f.acceptedByRuleServices # "false" /\ g.acceptedByRuleServices # "false"
    BY <1>3, <2>1 DEF Unjudged
  <2>4. PICK flag \in Flag : /\ F = [f EXCEPT !.acceptedByRuleServices = flag]
                             /\ G = [g EXCEPT !.acceptedByRuleServices = flag]
                             /\ flag = "false" => e.type = "receivedRejected" \/ f.acceptedByRuleServices = "false"
    <3>1. CASE e.type = "receivedAccepted"
      BY <2>2, <2>3, <3>1, <2>flag DEF Judge, Accept, Flag
    <3>2. CASE e.type = "receivedRejected"
      BY <2>2, <3>2 DEF Judge, Flag
    <3> QED
      BY <1>6, <3>1, <3>2
  <2>5. F \in Aggregate /\ G \in Aggregate /\ F.acceptedByRuleServices = flag /\ G.acceptedByRuleServices = flag
    BY <1>2, <2>4 DEF Aggregate
  <2>6. /\ F.currentState = G.currentState
        /\ F.acceptedByParticipants = G.acceptedByParticipants
        /\ F.participantsAccepted = G.participantsAccepted
        /\ F.participantsRejected = G.participantsRejected
    BY <1>2, <1>3, <2>4 DEF Aggregate
  <2>7. flag = "false" => (types \union {e.type}) \intersect {"localRejected", "receivedRejected"} # {}
    BY <1>3, <2>4
  <2>8. ~(types \union {e.type} \subseteq {"proposed", "localAccepted", "localRejected"})
    BY <1>6
  <2> QED
    BY <2>5, <2>6, <2>7, <2>8 DEF Together
<1>7. CASE e.type \in {"acceptedByParticipant", "rejectedByParticipant", "accepted", "rejected"}
  <2>1. F = Judge(f, e) /\ G = Judge(g, e)
    BY <1>2, <1>7, BothJudge
  <2>2. /\ F \in Aggregate /\ G \in Aggregate
        /\ F.currentState = f.currentState /\ G.currentState = g.currentState
        /\ F.acceptedByRuleServices = f.acceptedByRuleServices
        /\ G.acceptedByRuleServices = g.acceptedByRuleServices
        /\ F.acceptedByParticipants = G.acceptedByParticipants
        /\ F.participantsAccepted = G.participantsAccepted
        /\ F.participantsRejected = G.participantsRejected
    <3>1. CASE e.type = "acceptedByParticipant"
      <4>1. /\ F = [f EXCEPT !.participantsAccepted = f.participantsAccepted \union {e.by}]
            /\ G = [g EXCEPT !.participantsAccepted = g.participantsAccepted \union {e.by}]
            /\ e.by \in Participant
        BY <1>2, <2>1, <3>1 DEF Judge, Fits
      <4> QED
        BY <1>2, <1>3, <4>1 DEF Aggregate
    <3>2. CASE e.type = "rejectedByParticipant"
      <4>1. /\ F = [f EXCEPT !.participantsRejected = f.participantsRejected \union {e.by}]
            /\ G = [g EXCEPT !.participantsRejected = g.participantsRejected \union {e.by}]
            /\ e.by \in Participant
        BY <1>2, <2>1, <3>2 DEF Judge, Fits
      <4> QED
        BY <1>2, <1>3, <4>1 DEF Aggregate
    <3>3. CASE e.type = "accepted"
      BY <1>2, <1>3, <2>1, <3>3 DEF Judge, Accept, Aggregate, Flag
    <3>4. CASE e.type = "rejected"
      BY <1>2, <1>3, <2>1, <3>4 DEF Judge, Aggregate, Flag
    <3> QED
      BY <1>7, <3>1, <3>2, <3>3, <3>4
  <2>3. Unjudged(types) => Unjudged(types \union {e.type})
    BY <1>7 DEF Unjudged
  <2>4. ~(types \union {e.type} \subseteq {"proposed", "localAccepted", "localRejected"})
    BY <1>7
  <2> QED
    BY <1>3, <2>2, <2>3, <2>4 DEF Together
<1> QED
  BY <1>e, <1>4, <1>5, <1>6, <1>7

\* An event that goes further than the others of its subject may be handed to the database.
LEMMA WriteGoesOn ==
  ASSUME CausesInv, OneByOne, NEW e, e.about = "proposal", GoesOn(e.subject, e.type),
         \A n \in DOMAIN inFlight : inFlight[n].subject # e.subject,
         \A x \in todo' : stream[x[1]].subject # e.subject,
         Write(e), UNCHANGED <<environment, stream>>, todo' \subseteq todo
  PROVE  OneByOne'
<1>1. IsSequence(inFlight) /\ inFlight' = Append(inFlight, e)
  BY DEF CausesInv, TypeOK, Write, IsSequence
<1>2. PICK K \in Nat :
        /\ DOMAIN inFlight = 1 .. K /\ DOMAIN inFlight' = 1 .. K + 1
        /\ \A n \in 1 .. K : inFlight'[n] = inFlight[n]
        /\ inFlight'[K + 1] = e
  BY <1>1, Appended
<1>3. \A s, type : GoesOn(s, type)' <=> GoesOn(s, type)
  BY DEF GoesOn
<1>4. ASSUME NEW n \in DOMAIN inFlight'
      PROVE  /\ inFlight'[n].about = "proposal"
             /\ GoesOn(inFlight'[n].subject, inFlight'[n].type)
  <2>1. CASE n \in 1 .. K
    BY <1>2, <2>1 DEF OneByOne
  <2>2. CASE n = K + 1
    BY <1>2, <2>2
  <2> QED
    BY <1>2, <2>1, <2>2
<1>5. ASSUME NEW m \in DOMAIN inFlight', NEW n \in DOMAIN inFlight',
             inFlight'[m].subject = inFlight'[n].subject
      PROVE  m = n
  <2>1. CASE m \in 1 .. K /\ n \in 1 .. K
    BY <1>2, <1>5, <2>1 DEF OneByOne
  <2>2. CASE m = K + 1 /\ n \in 1 .. K
    BY <1>2, <1>5, <2>2
  <2>3. CASE m \in 1 .. K /\ n = K + 1
    BY <1>2, <1>5, <2>3
  <2> QED
    BY <1>2, <2>1, <2>2, <2>3
<1>6. ASSUME NEW x \in todo'
      PROVE  /\ \A m \in DOMAIN stream' : stream'[m].subject = stream'[x[1]].subject => m <= x[1]
             /\ \A m \in DOMAIN inFlight' : inFlight'[m].subject # stream'[x[1]].subject
  <2>1. x \in todo /\ stream[x[1]].subject # e.subject
    BY <1>6
  <2>2. ASSUME NEW m \in DOMAIN inFlight' PROVE inFlight'[m].subject # stream[x[1]].subject
    <3>1. CASE m \in 1 .. K
      BY <1>2, <2>1, <3>1 DEF OneByOne
    <3>2. CASE m = K + 1
      BY <1>2, <2>1, <3>2
    <3> QED
      BY <1>2, <3>1, <3>2
  <2> QED
    BY <2>1, <2>2 DEF OneByOne
<1> QED
  BY <1>3, <1>4, <1>5, <1>6 DEF OneByOne

\* What is appended because of the last event of its subject goes further.
LEMMA AnswerGoesOn ==
  ASSUME CausesInv, OneByOne, NEW n \in DOMAIN stream, NEW task, NEW type, NEW by,
         Answer(n, task, type, by), UNCHANGED environment,
         Stage(stream[n].type) < Stage(type), type # "proposed",
         type = "received" => stream[n].type = "localAccepted"
  PROVE  OneByOne'
<1> USE EventTypes
<1>1. PICK e : e = New(type, stream[n].about, stream[n].subject, stream[n].to, by)
  OBVIOUS
<1>2. e.type = type /\ e.about = stream[n].about /\ e.subject = stream[n].subject
  BY <1>1 DEF New
<1>3. Write(e) /\ UNCHANGED <<environment, stream>> /\ todo' = todo \ {<<n, task>>} /\ <<n, task>> \in todo
  BY <1>1 DEF Answer
<1>4. /\ n \in 1 .. Len(stream) /\ Len(stream) \in Nat /\ DOMAIN stream = 1 .. Len(stream)
      /\ todo \subseteq (1 .. Len(stream)) \X Task
  BY DEF CausesInv, TypeOK
<1>5. /\ \A m \in DOMAIN stream : stream[m].subject = e.subject => m <= n
      /\ \A m \in DOMAIN inFlight : inFlight[m].subject # e.subject
  <2>1. PICK x \in todo : x = <<n, task>>
    BY <1>3
  <2>2. /\ \A m \in DOMAIN stream : stream[m].subject = stream[x[1]].subject => m <= x[1]
        /\ \A m \in DOMAIN inFlight : inFlight[m].subject # stream[x[1]].subject
    BY DEF OneByOne
  <2>3. x[1] = n
    BY <2>1
  <2> QED
    BY <1>2, <2>2, <2>3
<1>6. ASSUME NEW m \in DOMAIN stream, stream[m].subject = e.subject
      PROVE  Stage(stream[m].type) < Stage(type)
  <2>1. m <= n /\ m \in 1 .. Len(stream)
    BY <1>4, <1>5, <1>6
  <2>2. CASE m = n
    BY <2>2
  <2>3. CASE m < n
    <3>1. Stage(stream[m].type) < Stage(stream[n].type)
      BY <1>2, <1>6, <2>3 DEF OneByOne
    <3> QED
      BY <3>1, Stages
  <2> QED
    BY <1>4, <2>1, <2>2, <2>3
<1>7. GoesOn(e.subject, e.type)
  BY <1>2, <1>6 DEF GoesOn
<1>8. e.about = "proposal"
  BY <1>2 DEF OneByOne
<1>9. \A t \in TasksOf(stream[n]), u \in TasksOf(stream[n]) : t = u
  <2>1. stream[n].type \notin Transitions
    BY <1>2, <1>8 DEF CausesInv, Fits
  <2>2. stream[n].type # "advanced"
    BY <2>1
  <2>3. ASSUME NEW t \in TasksOf(stream[n])
        PROVE  \/ t = "rules" /\ stream[n].type \in {"proposed", "received"}
               \/ t = "consistency"
                  /\ stream[n].type \in {"localAccepted", "receivedAccepted", "receivedRejected"}
               \/ t = "continue" /\ stream[n].type \in {"acceptedByParticipant", "rejectedByParticipant"}
    BY <2>1, <2>2 DEF TasksOf, Task
  <2> QED
    BY <2>3
<1>10. ASSUME NEW x \in todo', stream[x[1]].subject = e.subject PROVE FALSE
  <2>1. x \in todo /\ x # <<n, task>> /\ x = <<x[1], x[2]>> /\ x[1] \in 1 .. Len(stream)
    BY <1>3, <1>4
  <2>2. n <= x[1] /\ x[1] <= n
    BY <1>2, <1>4, <1>5, <1>10, <2>1 DEF OneByOne
  <2>3. x[1] = n
    BY <1>4, <2>1, <2>2
  <2>4. x[2] \in TasksOf(stream[n])
    BY <2>1, <2>3 DEF CausesInv
  <2>5. task \in TasksOf(stream[n])
    <3>1. PICK y \in todo : y = <<n, task>>
      BY <1>3
    <3>2. y[2] \in TasksOf(stream[y[1]])
      BY DEF CausesInv
    <3> QED
      BY <3>1, <3>2
  <2>6. x[2] = task
    BY <1>9, <2>4, <2>5
  <2> QED
    BY <2>1, <2>3, <2>6
<1> QED
  BY <1>3, <1>5, <1>7, <1>8, <1>10, WriteGoesOn

\* Landing moves the newest event of its subject behind the others.
LEMMA LandGoesOn ==
  ASSUME CausesInv, OneByOne, NEW k \in DOMAIN inFlight, Land(k), UNCHANGED environment
  PROVE  OneByOne'
<1>1. PICK L \in Nat : L = Len(stream)
  BY DEF CausesInv, TypeOK
<1>2. PICK d : d = inFlight[k]
  OBVIOUS
<1>3. /\ DOMAIN stream = 1 .. L /\ DOMAIN stream' = 1 .. L + 1
      /\ \A n \in 1 .. L : stream'[n] = stream[n]
      /\ stream'[L + 1] = Stamped(d)
  <2>1. stream \in Seq(Event) /\ stream' = Append(stream, Stamped(d))
    BY <1>2 DEF CausesInv, TypeOK, Land
  <2> QED
    BY <1>1, <2>1
<1>4. Stamped(d).type = d.type /\ Stamped(d).about = d.about /\ Stamped(d).subject = d.subject
  BY DEF Stamped
<1>5. d.about = "proposal" /\ GoesOn(d.subject, d.type)
  BY <1>2 DEF OneByOne
<1>6. ASSUME NEW n \in DOMAIN inFlight'
      PROVE  \E m \in DOMAIN inFlight : m # k /\ inFlight'[n] = inFlight[m]
  <2>1. IsSequence(inFlight) /\ inFlight' = RemoveAt(inFlight, k)
    BY DEF CausesInv, TypeOK, Land, IsSequence
  <2>2. PICK K \in Nat : /\ K = Len(inFlight)
                         /\ DOMAIN inFlight = 1 .. K /\ DOMAIN inFlight' = 1 .. K - 1
                         /\ \A m \in 1 .. K - 1 :
                              inFlight'[m] = IF m < k THEN inFlight[m] ELSE inFlight[m + 1]
    BY <2>1, Removed
  <2>3. CASE n < k
    <3>1. n \in 1 .. K /\ n # k /\ inFlight'[n] = inFlight[n]
      BY <2>2, <2>3
    <3> QED
      BY <2>2, <3>1
  <2>4. CASE ~(n < k)
    <3>1. n + 1 \in 1 .. K /\ n + 1 # k /\ inFlight'[n] = inFlight[n + 1]
      BY <2>2, <2>4
    <3> QED
      BY <2>2, <3>1
  <2> QED
    BY <2>3, <2>4
<1>7. \A m \in DOMAIN inFlight : m # k => inFlight[m].subject # d.subject
  BY <1>2 DEF OneByOne
<1>8. \A n \in DOMAIN inFlight' : inFlight'[n].subject # d.subject
  BY <1>6, <1>7
<1>9. ASSUME NEW n \in DOMAIN stream' PROVE stream'[n].about = "proposal"
  <2>1. CASE n \in 1 .. L
    BY <1>3, <2>1 DEF OneByOne
  <2>2. CASE n = L + 1
    BY <1>3, <1>4, <1>5, <2>2
  <2> QED
    BY <1>3, <2>1, <2>2
<1>10. ASSUME NEW m \in DOMAIN stream', NEW n \in DOMAIN stream', m < n,
              stream'[m].subject = stream'[n].subject
       PROVE  Stage(stream'[m].type) < Stage(stream'[n].type)
  <2>1. m \in 1 .. L
    BY <1>3, <1>10
  <2>2. CASE n \in 1 .. L
    BY <1>3, <1>10, <2>1, <2>2 DEF OneByOne
  <2>3. CASE n = L + 1
    BY <1>3, <1>4, <1>5, <1>10, <2>1, <2>3 DEF GoesOn
  <2> QED
    BY <1>3, <2>2, <2>3
<1>11. ASSUME NEW n \in DOMAIN stream', stream'[n].type = "received"
       PROVE  \E m \in DOMAIN stream' :
                stream'[m].subject = stream'[n].subject /\ stream'[m].type = "localAccepted"
  <2>1. \E m \in DOMAIN stream : stream[m].subject = stream'[n].subject /\ stream[m].type = "localAccepted"
    <3>1. CASE n \in 1 .. L
      BY <1>3, <1>11, <3>1 DEF OneByOne
    <3>2. CASE n = L + 1
      BY <1>3, <1>4, <1>5, <1>11, <3>2 DEF GoesOn
    <3> QED
      BY <1>3, <3>1, <3>2
  <2> QED
    BY <1>3, <2>1
<1>12. ASSUME NEW n \in DOMAIN inFlight' PROVE GoesOn(inFlight[n].subject, inFlight[n].type)'
  <2>1. PICK m \in DOMAIN inFlight : m # k /\ inFlight'[n] = inFlight[m]
    BY <1>6
  <2>2. PICK s, type : s = inFlight[m].subject /\ type = inFlight[m].type
    OBVIOUS
  <2>3. GoesOn(s, type) /\ s # d.subject
    BY <1>7, <2>1, <2>2 DEF OneByOne
  <2>4. ASSUME NEW p \in DOMAIN stream', stream'[p].subject = s
        PROVE  Stage(stream'[p].type) < Stage(type)
    <3>1. p # L + 1
      BY <1>3, <1>4, <2>3, <2>4
    <3>2. p \in 1 .. L
      BY <1>3, <3>1
    <3> QED
      BY <1>3, <2>3, <2>4, <3>2 DEF GoesOn
  <2>5. DOMAIN stream \subseteq DOMAIN stream' /\ \A p \in DOMAIN stream : stream'[p] = stream[p]
    BY <1>3
  <2>6. /\ type # "proposed" => \E p \in DOMAIN stream' : stream'[p].subject = s
        /\ type = "received" =>
             \E p \in DOMAIN stream' : stream'[p].subject = s /\ stream'[p].type = "localAccepted"
    BY <2>3, <2>5 DEF GoesOn
  <2> QED
    BY <2>1, <2>2, <2>4, <2>6 DEF GoesOn
<1>13. ASSUME NEW m \in DOMAIN inFlight', NEW n \in DOMAIN inFlight',
              inFlight'[m].subject = inFlight'[n].subject
       PROVE  m = n
  <2>1. IsSequence(inFlight) /\ inFlight' = RemoveAt(inFlight, k)
    BY DEF CausesInv, TypeOK, Land, IsSequence
  <2>2. PICK K \in Nat : /\ K = Len(inFlight)
                         /\ DOMAIN inFlight = 1 .. K /\ DOMAIN inFlight' = 1 .. K - 1
                         /\ \A p \in 1 .. K - 1 :
                              inFlight'[p] = IF p < k THEN inFlight[p] ELSE inFlight[p + 1]
    BY <2>1, Removed
  <2>3. PICK p, q : /\ p = (IF m < k THEN m ELSE m + 1) /\ q = (IF n < k THEN n ELSE n + 1)
    OBVIOUS
  <2>4. p \in 1 .. K /\ inFlight'[m] = inFlight[p]
    BY <2>2, <2>3
  <2>5. q \in 1 .. K /\ inFlight'[n] = inFlight[q]
    BY <2>2, <2>3
  <2>6. \A a, b \in DOMAIN inFlight : inFlight[a].subject = inFlight[b].subject => a = b
    BY DEF OneByOne
  <2>7. p = q
    BY <1>13, <2>2, <2>4, <2>5, <2>6
  <2> QED
    BY <2>2, <2>3, <2>7
<1>14. ASSUME NEW x \in todo'
       PROVE  /\ \A m \in DOMAIN stream' : stream'[m].subject = stream'[x[1]].subject => m <= x[1]
              /\ \A m \in DOMAIN inFlight' : inFlight'[m].subject # stream'[x[1]].subject
  <2>1. todo' = todo \union {<<L + 1, t>> : t \in TasksOf(d)}
    BY <1>1, <1>2 DEF Land
  <2>2. CASE x \in todo
    <3>1. x[1] \in 1 .. L /\ stream'[x[1]] = stream[x[1]]
      BY <1>1, <1>3, <2>2 DEF CausesInv, TypeOK
    <3>2. /\ \A m \in DOMAIN stream : stream[m].subject = stream[x[1]].subject => m <= x[1]
          /\ \A m \in DOMAIN inFlight : inFlight[m].subject # stream[x[1]].subject
      BY <2>2 DEF OneByOne
    <3>3. d.subject # stream[x[1]].subject
      BY <1>2, <3>2
    <3>4. ASSUME NEW m \in DOMAIN stream', stream'[m].subject = stream[x[1]].subject PROVE m <= x[1]
      <4>1. m # L + 1
        BY <1>3, <1>4, <3>3, <3>4
      <4>2. m \in 1 .. L
        BY <1>3, <4>1
      <4> QED
        BY <1>3, <3>2, <3>4, <4>2
    <3>5. \A m \in DOMAIN inFlight' : inFlight'[m].subject # stream[x[1]].subject
      BY <1>6, <3>2
    <3> QED
      BY <3>1, <3>4, <3>5
  <2>3. CASE x \in {<<L + 1, t>> : t \in TasksOf(d)}
    <3>1. x[1] = L + 1
      BY <2>3
    <3>2. stream'[x[1]].subject = d.subject
      BY <1>3, <1>4, <3>1
    <3> QED
      BY <1>3, <1>8, <3>1, <3>2
  <2> QED
    BY <2>1, <2>2, <2>3
<1>15. ASSUME NEW n \in DOMAIN inFlight' PROVE inFlight'[n].about = "proposal"
  BY <1>6 DEF OneByOne
<1> QED
  BY <1>9, <1>10, <1>11, <1>12, <1>13, <1>14, <1>15 DEF OneByOne

\* Every step of a node under the EventStore strategy lets one event lead to the next.
LEMMA OneByOneStep ==
  ASSUME CausesInv, OneByOne, Persistence = "EventStore", [Next]_vars
  PROVE  OneByOne'
<1> USE EventTypes
<1>0. TypeOK /\ DOMAIN stream = 1 .. Len(stream) /\ todo \subseteq (1 .. Len(stream)) \X Task
  BY DEF CausesInv, TypeOK
<1>1. ASSUME UNCHANGED <<inFlight, stream, todo>> PROVE OneByOne'
  BY <1>1 DEF OneByOne, GoesOn
<1>2. CASE UNCHANGED <<environment, clock, inFlight, stream, todo>>
  BY <1>1, <1>2
<1>3. CASE Tick /\ UNCHANGED environment
  BY <1>1, <1>3 DEF Tick
<1>4. ASSUME NEW s, Write(New("proposed", "proposal", s, Initial, NoParticipant)),
             UNCHANGED <<environment, stream, todo>>,
             \A e \in ToSet(inFlight) \union ToSet(stream) : e.subject # s
      PROVE  OneByOne'
  <2>1. PICK e : e = New("proposed", "proposal", s, Initial, NoParticipant)
    OBVIOUS
  <2>2. e.type = "proposed" /\ e.about = "proposal" /\ e.subject = s /\ Write(e)
    BY <1>4, <2>1 DEF New
  <2>3. /\ \A n \in DOMAIN stream : stream[n].subject # s
        /\ \A n \in DOMAIN inFlight : inFlight[n].subject # s
    BY <1>4 DEF ToSet
  <2>4. GoesOn(s, "proposed")
    BY <2>3 DEF GoesOn
  <2>5. \A x \in todo' : stream[x[1]].subject # s
    BY <1>0, <1>4, <2>3
  <2> QED
    BY <1>4, <2>2, <2>3, <2>4, <2>5, WriteGoesOn
<1>5. ASSUME NEW w \in Workflow, Propose(w), UNCHANGED environment PROVE OneByOne'
  BY <1>4, <1>5 DEF Propose
<1>6. ASSUME NEW i \in Instance, Launch(i), UNCHANGED environment PROVE OneByOne'
  BY <1>4, <1>6 DEF Launch
<1>7. ASSUME NEW i \in Instance, NEW type, NEW to, NEW p, Advance(i, type, to, p) PROVE FALSE
  <2>1. WorkflowOf[i] \notin Instance
    BY SourcingAssumption
  <2> QED
    BY <1>7, <2>1 DEF Advance, WorkflowInstanceById
<1>8. ASSUME NEW i \in Instance, NEW p \in Participant, RejectedBy(i, p) PROVE FALSE
  <2>1. PICK n \in DOMAIN stream : stream[n].type \in Transitions
    BY <1>8 DEF RejectedBy
  <2>2. stream[n].about = "transition" /\ stream[n].about = "proposal"
    BY <2>1 DEF CausesInv, Fits, OneByOne
  <2> QED
    BY <2>2
<1>9. ASSUME NEW k \in DOMAIN inFlight, Land(k), UNCHANGED environment PROVE OneByOne'
  BY <1>9, LandGoesOn
<1>10. ASSUME NEW n \in DOMAIN stream, NEW task, NEW type, NEW by, Answer(n, task, type, by)
       PROVE  task \in TasksOf(stream[n]) /\ stream[n].type \notin Transitions
  <2>1. PICK x \in todo : x = <<n, task>>
    BY <1>10 DEF Answer
  <2>2. x[2] \in TasksOf(stream[x[1]])
    BY DEF CausesInv
  <2>3. stream[n].about = "proposal" /\ Fits(stream[n])
    BY DEF OneByOne, CausesInv
  <2> QED
    BY <2>1, <2>2, <2>3 DEF Fits
<1>11. ASSUME NEW n \in DOMAIN stream, NEW accepted \in BOOLEAN, Validate(n, accepted),
              UNCHANGED environment
       PROVE  OneByOne'
  <2>1. PICK type : /\ type = (IF stream[n].type \in {"proposed", "advanced"}
                               THEN IF accepted THEN "localAccepted" ELSE "localRejected"
                               ELSE IF accepted THEN "receivedAccepted" ELSE "receivedRejected")
                    /\ Answer(n, "rules", type, NoParticipant)
    BY <1>11 DEF Validate
  <2>2. stream[n].type \in {"proposed", "received"}
    BY <1>10, <2>1 DEF TasksOf
  <2>3. CASE stream[n].type = "proposed"
    <3>1. type \in {"localAccepted", "localRejected"}
      BY <2>1, <2>3
    <3>2. Stage(stream[n].type) < Stage(type) /\ type # "proposed" /\ type # "received"
      BY <2>3, <3>1, Stages
    <3> QED
      BY <1>11, <2>1, <3>2, AnswerGoesOn
  <2>4. CASE stream[n].type = "received"
    <3>1. type \in {"receivedAccepted", "receivedRejected"}
      BY <2>1, <2>4
    <3>2. Stage(stream[n].type) < Stage(type) /\ type # "proposed" /\ type # "received"
      BY <2>4, <3>1, Stages
    <3> QED
      BY <1>11, <2>1, <3>2, AnswerGoesOn
  <2> QED
    BY <2>2, <2>3, <2>4
<1>12. ASSUME NEW n \in DOMAIN stream, NEW self \in Participant, Dispatch(n, self),
              UNCHANGED environment
       PROVE  OneByOne'
  <2>1. CASE stream[n].type = "localAccepted"
    <3>1. Answer(n, "consistency", "received", NoParticipant)
      BY <1>12, <2>1 DEF Dispatch
    <3>2. Stage(stream[n].type) < Stage("received")
      BY <2>1, Stages
    <3> QED
      BY <1>12, <2>1, <3>1, <3>2, AnswerGoesOn
  <2>2. CASE stream[n].type \in {"receivedAccepted", "receivedRejected"}
    <3>1. PICK type \in {"acceptedByParticipant", "rejectedByParticipant"} :
            Answer(n, "consistency", type, self)
      BY <1>12, <2>2 DEF Dispatch
    <3>2. Stage(stream[n].type) < Stage(type) /\ type # "proposed" /\ type # "received"
      BY <2>2, Stages
    <3> QED
      BY <1>12, <3>1, <3>2, AnswerGoesOn
  <2> QED
    BY <1>12, <2>1, <2>2 DEF Dispatch
<1>13. ASSUME NEW n \in DOMAIN stream, FollowUp(n), UNCHANGED environment PROVE OneByOne'
  <2>1. PICK type : /\ type \in {"acceptedByParticipant", "accepted", "rejected"}
                    /\ type = "acceptedByParticipant" => stream[n].type = "advanced"
                    /\ Answer(n, "continue", type, stream[n].by)
    BY <1>13 DEF FollowUp
  <2>2. stream[n].type \in {"acceptedByParticipant", "rejectedByParticipant"}
    BY <1>10, <2>1 DEF TasksOf
  <2>3. Stage(stream[n].type) < Stage(type) /\ type # "proposed" /\ type # "received"
    BY <2>1, <2>2, Stages
  <2> QED
    BY <1>13, <2>1, <2>3, AnswerGoesOn
<1>14. CASE Crash /\ UNCHANGED environment
  BY <1>14 DEF Crash, OneByOne
<1> QED
  BY <1>2, <1>3, <1>5, <1>6, <1>7, <1>8, <1>9, <1>11, <1>12, <1>13, <1>14 DEF Next, Step, Project, vars

\* What TogetherAt says of the next state.
LEMMA TogetherNext ==
  ASSUME NEW s, NEW k, NEW places, places = FirstOf(s, k)', NEW F, NEW G, NEW types,
         Together(F, G, types),
         F = Fold(NoRecord, stream', places), G = Projection(stream', places),
         types = {stream'[n].type : n \in places}
  PROVE  TogetherAt(FirstOf(s, k))'
  BY DEF TogetherAt, TypesAt

\* A landing, seen by the fold and the projection of one subject.
LEMMA LandTogether ==
  ASSUME CausesInv, CausesInv', OneByOne, NEW s \in Subject, SameFold(s),
         NEW k \in DOMAIN inFlight, Land(k), UNCHANGED environment
  PROVE  SameFold(s)'
<1> USE EventTypes
<1>1. PICK L \in Nat : L = Len(stream)
  BY DEF CausesInv, TypeOK
<1>2. PICK e : e = Stamped(inFlight[k])
  OBVIOUS
<1>3. /\ DOMAIN stream = 1 .. L /\ DOMAIN stream' = 1 .. L + 1 /\ Len(stream') = L + 1
      /\ \A n \in 1 .. L : stream'[n] = stream[n]
      /\ stream'[L + 1] = e /\ L + 1 \in 1 .. L + 1
  <2>1. stream \in Seq(Event) /\ stream' = Append(stream, e)
    BY <1>2 DEF CausesInv, TypeOK, Land
  <2> QED
    BY <1>1, <2>1
<1>4. e \in Event /\ Fits(e)
  <2>1. stream' \in Seq(Event)
    BY DEF CausesInv, TypeOK
  <2> QED
    BY <1>3, <2>1 DEF CausesInv
<1>5. /\ e.type = inFlight[k].type /\ e.about = inFlight[k].about /\ e.subject = inFlight[k].subject
      /\ e.about = "proposal" /\ GoesOn(e.subject, e.type)
  BY <1>2 DEF Stamped, OneByOne
<1>6. ASSUME NEW j \in 0 .. L + 1 PROVE TogetherAt(FirstOf(s, j))'
  \* before: what the two had gone through; more: what they go through now.
  <2>1. PICK h \in 0 .. L : h = IF j <= L THEN j ELSE L
    BY <1>1
  <2>2. PICK before, more : before = FirstOf(s, h) /\ more = FirstOf(s, j)'
    OBVIOUS
  <2>3. before \subseteq 1 .. L /\ more = before \union (IF j = L + 1 /\ e.subject = s THEN {L + 1} ELSE {})
    <3>1. before = {n \in 1 .. L : stream[n].subject = s /\ n <= h}
      BY <1>3, <2>2 DEF FirstOf, PlacesOf
    <3>2. more = {n \in 1 .. L + 1 : stream'[n].subject = s /\ n <= j}
      BY <1>3, <2>2 DEF FirstOf, PlacesOf
    <3> QED
      BY <1>3, <2>1, <3>1, <3>2
  <2>4. more \intersect (1 .. L) = before \intersect (1 .. L) /\ (L + 1 \in more <=> j = L + 1 /\ e.subject = s)
    BY <1>1, <2>3
  <2>5. PICK f, g, types : /\ f = Fold(NoRecord, stream, before) /\ g = Projection(stream, before)
                           /\ types = {stream[n].type : n \in before}
    OBVIOUS
  <2>6. PICK F, G, T : /\ F = Fold(NoRecord, stream', more) /\ G = Projection(stream', more)
                       /\ T = {stream'[n].type : n \in more}
    OBVIOUS
  <2>7. Together(f, g, types)
    <3>1. TogetherAt(FirstOf(s, h))
      BY <1>1, <2>1 DEF SameFold
    <3> QED
      BY <2>2, <2>5, <3>1 DEF TogetherAt, TypesAt
  <2>8. F = IF L + 1 \in more THEN FoldEvent(f, e) ELSE f
    BY <1>1, <1>3, <2>4, <2>5, <2>6, FoldLanded
  <2>9. G = IF L + 1 \in more THEN ProjectEvent(g, e) ELSE g
    BY <1>1, <1>3, <2>4, <2>5, <2>6, ProjectionLanded
  <2>10. T = types \union (IF L + 1 \in more THEN {e.type} ELSE {})
    BY <1>3, <2>3, <2>4, <2>5, <2>6
  <2>11. Together(F, G, T)
    <3>1. CASE L + 1 \notin more
      BY <2>7, <2>8, <2>9, <2>10, <3>1
    <3>2. CASE L + 1 \in more
      <4>1. e.subject = s /\ before = {n \in 1 .. L : stream[n].subject = s}
        <5>1. h = L /\ e.subject = s
          BY <1>1, <2>1, <2>4, <3>2
        <5> QED
          BY <1>1, <1>3, <2>2, <5>1 DEF FirstOf, PlacesOf
      <4>2. \A t \in types : \E m \in DOMAIN stream : stream[m].subject = s /\ stream[m].type = t
        BY <1>3, <2>5, <4>1
      <4>3. \A t \in types : Stage(t) < Stage(e.type)
        BY <1>5, <4>1, <4>2 DEF GoesOn
      <4>4. types = {} => e.type = "proposed"
        BY <1>3, <1>5, <2>5, <4>1 DEF GoesOn
      <4>5. ASSUME "received" \in types \union {e.type}, "localRejected" \in types PROVE FALSE
        <5>1. PICK m \in DOMAIN stream : stream[m].subject = s /\ stream[m].type = "localAccepted"
          <6>1. CASE "received" \in types
            BY <4>2, <6>1 DEF OneByOne
          <6>2. CASE e.type = "received"
            BY <1>5, <4>1, <6>2 DEF GoesOn
          <6> QED
            BY <4>5, <6>1, <6>2
        <5>2. PICK p \in DOMAIN stream : stream[p].subject = s /\ stream[p].type = "localRejected"
          BY <4>2, <4>5
        <5>3. m < p \/ p < m
          BY <1>3, <5>1, <5>2
        <5>4. Stage("localAccepted") < Stage("localRejected") \/ Stage("localRejected") < Stage("localAccepted")
          BY <5>1, <5>2, <5>3 DEF OneByOne
        <5> QED
          BY <5>4, Stages
      <4>6. Together(FoldEvent(f, e), ProjectEvent(g, e), types \union {e.type})
        BY <1>4, <1>5, <2>7, <4>3, <4>4, <4>5, TogetherStep
      <4> QED
        BY <2>8, <2>9, <2>10, <3>2, <4>6
    <3> QED
      BY <3>1, <3>2
  <2> QED
    BY <2>2, <2>6, <2>11, TogetherNext
<1> QED
  BY <1>3, <1>6 DEF SameFold

\* Every step of a node keeps its two aggregations together.
LEMMA ServerStep == CausesInv /\ CausesInv' /\ ServerInv /\ [Next]_vars => ServerInv'
<1> SUFFICES ASSUME CausesInv, CausesInv', ServerInv, [Next]_vars, Persistence = "EventStore",
                    Persistence' = Persistence
             PROVE  OneByOne' /\ \A s \in Subject : SameFold(s)'
  BY DEF ServerInv, Next, vars, Persistence
<1>1. OneByOne /\ \A s \in Subject : SameFold(s)
  BY DEF ServerInv
<1>2. OneByOne'
  BY <1>1, OneByOneStep
<1>3. \/ UNCHANGED <<environment, stream>>
      \/ UNCHANGED environment /\ \E k \in DOMAIN inFlight : Land(k)
  BY DEF Next, Step, vars, Tick, Propose, Launch, Advance, RejectedBy, Answer, Validate,
         Dispatch, FollowUp, Project, Crash
<1>4. ASSUME NEW s \in Subject PROVE SameFold(s)'
  <2>1. CASE UNCHANGED <<environment, stream>>
    BY <1>1, <2>1 DEF SameFold, TogetherAt, TypesAt, FirstOf, PlacesOf
  <2>2. CASE UNCHANGED environment /\ \E k \in DOMAIN inFlight : Land(k)
    BY <1>1, <2>2, LandTogether
  <2> QED
    BY <1>3, <2>1, <2>2
<1> QED
  BY <1>2, <1>4

\* It holds from the beginning.
LEMMA ServerAlways == Spec => [](TypeOK /\ ServerInv)
<1>1. Init => CausesInv /\ ServerInv
  <2> SUFFICES ASSUME Init PROVE CausesInv /\ ServerInv
    OBVIOUS
  <2>1. TypeOK /\ stream = <<>> /\ inFlight = <<>> /\ todo = {} /\ DOMAIN stream = {}
        /\ DOMAIN inFlight = {} /\ Len(stream) = 0
    BY SourcingAssumption DEF Init, TypeOK, NothingProjected
  <2>2. CausesInv
    BY <2>1 DEF CausesInv
  <2>3. OneByOne
    BY <2>1 DEF OneByOne
  <2>4. ASSUME NEW s \in Subject, NEW k \in 0 .. Len(stream) PROVE TogetherAt(FirstOf(s, k))
    <3>0. PICK places : places = FirstOf(s, k)
      OBVIOUS
    <3>1. Fold(NoRecord, stream, places) = NoRecord
      <4>1. PICK f : IsRun("fold", f, NoRecord, stream, places)
                     /\ Fold(NoRecord, stream, places) = f[Len(stream)]
        BY <2>1, FoldIs
      <4> QED
        BY <2>1, <4>1, RunSteps
    <3>2. Projection(stream, places) = NoRecord
      <4>1. PICK f : IsRun("projection", f, NoRecord, stream, places)
                     /\ Projection(stream, places) = f[Len(stream)]
        BY <2>1, ProjectionIs
      <4> QED
        BY <2>1, <4>1, RunSteps
    <3>3. TypesAt(places) = {}
      BY <2>1, <3>0 DEF TypesAt, FirstOf, PlacesOf
    <3> QED
      BY <3>0, <3>1, <3>2, <3>3 DEF TogetherAt, Together
  <2> QED
    BY <2>2, <2>3, <2>4 DEF ServerInv, SameFold
<1>2. CausesInv => TypeOK
  BY DEF CausesInv
<1> QED
  BY <1>1, <1>2, CausesStep, ServerStep, PTL DEF Spec

\* Under the OrbitDB strategy the two aggregations are one, and nothing that was appended is
\* later than now (created of the events, orbitdb-strategy.ts:108).  Under the EventStore
\* strategy the projection, wherever it has come to, shows what the fold makes of the same
\* events; the two part when a proposal comes back and meet again at the verdict on it.
THEOREM PresentIsNow == Spec => []NowIsNow
<1>1. ChronologicalInv /\ TypeOK /\ ServerInv => NowIsNow
  <2> SUFFICES ASSUME ChronologicalInv, TypeOK, ServerInv, NEW s \in Subject
               PROVE  /\ Persistence = "OrbitDB" => StateAt(s, clock) = Current(s)
                      /\ Persistence = "EventStore" =>
                           \A t \in 0 .. clock :
                             Until(ReadStream(s), t) = Seen(s) /\ ~Unjudged(TypesAt(Seen(s)))
                             => StateAt(s, t) = Current(s)
    BY DEF NowIsNow
  <2>1. ASSUME Persistence = "OrbitDB" PROVE StateAt(s, clock) = Current(s)
    <3>1. CreatedUntil(clock) = DOMAIN stream
      BY ByIndex DEF ChronologicalInv, InOrder, CreatedUntil
    <3> QED
      BY <2>1, <3>1 DEF StateAt, OrbitStateAt, Current
  <2>2. ASSUME Persistence = "EventStore", NEW t, Until(ReadStream(s), t) = Seen(s),
               ~Unjudged(TypesAt(Seen(s)))
        PROVE  StateAt(s, t) = Current(s)
    <3>0. PICK places : places = Seen(s)
      OBVIOUS
    <3>1. PICK f, g, types : /\ f = Fold(NoRecord, stream, places) /\ g = Projection(stream, places)
                             /\ types = TypesAt(places)
      OBVIOUS
    <3>2. Together(f, g, types) /\ ~Unjudged(types)
      <4>1. projected[KindOf(s)] \in 0 .. Len(stream)
        BY DEF TypeOK, KindOf, Kind
      <4>2. TogetherAt(Seen(s))
        BY <2>2, <4>1 DEF ServerInv, SameFold, Seen
      <4> QED
        BY <2>2, <3>0, <3>1, <4>2 DEF TogetherAt
    <3>3. f = g /\ f # Thrown
      <4>1. CASE types = {}
        BY <3>2, <4>1, SourcingAssumption DEF Together
      <4>2. CASE types # {}
        <5>1. /\ f \in Aggregate /\ g \in Aggregate
              /\ f.currentState = g.currentState
              /\ f.acceptedByRuleServices = g.acceptedByRuleServices
              /\ f.acceptedByParticipants = g.acceptedByParticipants
              /\ f.participantsAccepted = g.participantsAccepted
              /\ f.participantsRejected = g.participantsRejected
          BY <3>2, <4>2 DEF Together
        <5>2. f = g
          BY <5>1 DEF Aggregate
        <5> QED
          BY <5>1, <5>2, SourcingAssumption
      <4> QED
        BY <4>1, <4>2
    <3>4. StateAt(s, t) = f
      BY <2>2, <3>0, <3>1, <3>3 DEF StateAt, ServerStateAt
    <3>5. Current(s) = g
      BY <2>2, <3>0, <3>1 DEF Current, ProjectionResult
    <3> QED
      BY <3>3, <3>4, <3>5
  <2> QED
    BY <2>1, <2>2
<1> QED
  BY <1>1, ChronologicalAlways, ServerAlways, PTL
=============================================================================
