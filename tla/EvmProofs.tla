------------------------------ MODULE EvmProofs ------------------------------
(***************************************************************************)
(* For any nodes and messages, with altered payloads, lagging clients and  *)
(* failures: what is handed on is what was committed to, and the sender    *)
(* comes last.  OK means that every peer has answered.                     *)
(***************************************************************************)
EXTENDS EvmProperties, TLAPS

\* A message is posted only after its own hash was stored, to all peers at once and never to
\* its sender; once stored, the hash stays.
PostedOnlyWhenStored ==
  \A m \in Message :
    /\ log[m] \subseteq {m}
    /\ phase[m] \in {"stored", "posting", "done"} => log[m] = {m}
    /\ phase[m] \in {"posting", "done"} => \A n \in Peers(m) : post[m][n] # "none"
    /\ phase[m] \in {"new", "storing"} => log[m] = {}
    /\ phase[m] \in {"new", "storing", "stored"} => \A n \in Node : post[m][n] = "none"
    /\ \A n \in Node : post[m][n] # "none" => log[m] = {m} /\ n \in Peers(m)

\* A peer that answered OK has handed the message on.
AnsweredIsEmitted ==
  \A m \in Message : \A n \in Peers(m) :
    post[m][n] = "OK" => [message |-> m, payload |-> m] \in emitted[n]

EvmInv ==
  /\ TypeOK /\ PostedOnlyWhenStored /\ AnsweredIsEmitted
  /\ EmittedAsCommitted /\ SenderComesLast
  /\ OkMeansEverywhere

\* Each action keeps the invariant.
LEMMA EvmStep == EvmInv /\ [Next]_vars => EvmInv'
<1> SUFFICES ASSUME EvmInv, [Next]_vars PROVE EvmInv'
  OBVIOUS
<1> USE EvmAssumption DEF EvmAssumption, EvmInv, Payload, Phase, Emission, Peers
<1>1. CASE UNCHANGED vars
  BY <1>1 DEF vars, TypeOK, PostedOnlyWhenStored, AnsweredIsEmitted, EmittedAsCommitted,
              SenderComesLast, OkMeansEverywhere
<1>2. ASSUME NEW m \in Message, Dispatch(m) \/ ClientFails(m) PROVE EvmInv'
  <2>1. TypeOK'
    BY <1>2 DEF Dispatch, ClientFails, TypeOK
  <2>2. PostedOnlyWhenStored'
    BY <1>2 DEF Dispatch, ClientFails, TypeOK, PostedOnlyWhenStored
  <2>3. AnsweredIsEmitted' /\ EmittedAsCommitted' /\ SenderComesLast' /\ OkMeansEverywhere'
    BY <1>2 DEF Dispatch, ClientFails, AnsweredIsEmitted, EmittedAsCommitted, SenderComesLast,
                OkMeansEverywhere
  <2> QED
    BY <2>1, <2>2, <2>3
<1>3. ASSUME NEW m \in Message, Stored(m) PROVE EvmInv'
  <2>1. TypeOK'
    BY <1>3 DEF Stored, TypeOK
  <2>2. PostedOnlyWhenStored'
    BY <1>3 DEF Stored, TypeOK, PostedOnlyWhenStored
  <2>3. /\ log[m] = {}
        /\ \A k \in Message : k # m => log'[k] = log[k]
        /\ UNCHANGED <<post, emitted, status>>
    BY <1>3 DEF Stored, TypeOK, PostedOnlyWhenStored
  <2>4. AnsweredIsEmitted' /\ SenderComesLast' /\ OkMeansEverywhere'
    BY <2>3 DEF AnsweredIsEmitted, SenderComesLast, OkMeansEverywhere
  <2>5. \A n \in Node : \A e \in emitted[n] : e.message \in Message /\ e.message # m
    <3> SUFFICES ASSUME NEW n \in Node, NEW e \in emitted[n]
                 PROVE  e.message \in Message /\ e.message # m
      OBVIOUS
    <3>1. e \in Emission
      BY DEF TypeOK
    <3>2. log[e.message] = {e.payload}
      BY DEF EmittedAsCommitted
    <3> QED
      BY <2>3, <3>1, <3>2
  <2>6. EmittedAsCommitted'
    BY <2>3, <2>5 DEF EmittedAsCommitted
  <2> QED
    BY <2>1, <2>2, <2>4, <2>6
<1>4. ASSUME NEW m \in Message, BlockRead(m) PROVE EvmInv'
  <2>1. TypeOK'
    BY <1>4 DEF BlockRead, TypeOK
  <2>2. PostedOnlyWhenStored'
    BY <1>4 DEF BlockRead, TypeOK, PostedOnlyWhenStored
  <2>3. /\ \A n \in Node : post[m][n] = "none"
        /\ \A k \in Message : k # m => post'[k] = post[k]
        /\ \A n \in Node : post'[m][n] \in {"waiting", "none"}
        /\ UNCHANGED <<log, emitted, status>>
    BY <1>4 DEF BlockRead, TypeOK, PostedOnlyWhenStored
  <2>4. AnsweredIsEmitted' /\ EmittedAsCommitted'
    BY <2>3 DEF AnsweredIsEmitted, EmittedAsCommitted
  <2>5. SenderComesLast' /\ OkMeansEverywhere'
    BY <2>3 DEF SenderComesLast, OkMeansEverywhere
  <2> QED
    BY <2>1, <2>2, <2>4, <2>5
<1>5. ASSUME NEW m \in Message, NEW n \in Node, Receive(m, n) PROVE EvmInv'
  <2>0. PICK p \in {m, Altered}, r \in Message :
          /\ \E reply \in {Reception(n, r, p), "failed"} : post' = [post EXCEPT ![m][n] = reply]
          /\ Hand(Reception(n, r, p), n, m, p)
    BY <1>5 DEF Receive
  <2>1. PICK reply \in {Reception(n, r, p), "failed"} : post' = [post EXCEPT ![m][n] = reply]
    BY <2>0
  <2> DEFINE result == Reception(n, r, p)
             own == [message |-> m, payload |-> m]
  <2>2. post[m][n] = "waiting" /\ UNCHANGED <<phase, log, knows, status>>
    BY <1>5 DEF Receive
  <2>3. log[m] = {m} /\ n \in Peers(m)
    BY <2>2 DEF PostedOnlyWhenStored
  <2>4. result \in {"failed", "OK", "INVALID_HASH"} /\ (result = "OK" => p = m)
    <3>1. log[r] \subseteq {r}
      BY DEF PostedOnlyWhenStored
    <3> QED
      BY <3>1 DEF Reception, HashMatches
  <2>5. /\ reply \in {"failed", "OK", "INVALID_HASH"} /\ (reply = "OK" => result = "OK")
        /\ emitted' = IF result = "OK" THEN [emitted EXCEPT ![n] = @ \union {own}] ELSE emitted
    BY <2>0, <2>1, <2>4 DEF Hand
  <2> HIDE DEF result, own
  <2>6. TypeOK'
    BY <2>1, <2>2, <2>5 DEF TypeOK, own
  <2>8. \A k \in Message, q \in Node : post'[k][q] = IF k = m /\ q = n THEN reply ELSE post[k][q]
    BY <2>1 DEF TypeOK
  <2>9. /\ \A q \in Node : emitted[q] \subseteq emitted'[q]
        /\ reply = "OK" => own \in emitted'[n]
        /\ \A q \in Node : \A e \in emitted'[q] : e \in emitted[q] \/ (q = n /\ e = own)
    BY <2>5 DEF TypeOK
  <2> USE DEF own
  <2>10. PostedOnlyWhenStored'
    BY <2>2, <2>3, <2>5, <2>8 DEF PostedOnlyWhenStored
  <2>11. AnsweredIsEmitted'
    BY <2>8, <2>9 DEF AnsweredIsEmitted
  <2>12. EmittedAsCommitted'
    BY <2>2, <2>3, <2>9 DEF EmittedAsCommitted
  <2>13. SenderComesLast'
    <3> SUFFICES ASSUME NEW k \in Message,
                        [message |-> k, payload |-> k] \in emitted'[SenderOf[k]],
                        NEW q \in Peers(k)
                 PROVE  \/ [message |-> k, payload |-> k] \in emitted'[q]
                        \/ \E s \in Peers(k) : post'[k][s] \in {"failed", "INVALID_HASH"}
      BY DEF SenderComesLast
    <3>1. [message |-> k, payload |-> k] \in emitted[SenderOf[k]]
      BY <2>3, <2>9
    <3>2. CASE [message |-> k, payload |-> k] \in emitted[q]
      BY <2>9, <3>2
    <3>3. CASE \E s \in Peers(k) : post[k][s] \in {"failed", "INVALID_HASH"}
      BY <2>2, <2>8, <3>3
    <3> QED
      BY <3>1, <3>2, <3>3 DEF SenderComesLast
  <2>14. OkMeansEverywhere'
    BY <2>2, <2>8, <2>9 DEF OkMeansEverywhere, Peers
  <2> QED
    BY <2>6, <2>10, <2>11, <2>12, <2>13, <2>14
<1>6. ASSUME NEW m \in Message, NEW n \in Node, PostFails(m, n) PROVE EvmInv'
  <2>1. /\ post[m][n] = "waiting" /\ UNCHANGED <<phase, log, knows, emitted, status>>
        /\ \A k \in Message, q \in Node : post'[k][q] = IF k = m /\ q = n THEN "failed" ELSE post[k][q]
    BY <1>6 DEF PostFails, TypeOK
  <2>2. TypeOK'
    BY <1>6 DEF PostFails, TypeOK
  <2>3. PostedOnlyWhenStored'
    BY <2>1 DEF PostedOnlyWhenStored
  <2>4. AnsweredIsEmitted' /\ EmittedAsCommitted' /\ SenderComesLast' /\ OkMeansEverywhere'
    BY <2>1 DEF AnsweredIsEmitted, EmittedAsCommitted, SenderComesLast, OkMeansEverywhere
  <2> QED
    BY <2>2, <2>3, <2>4
<1>7. ASSUME NEW m \in Message, Finish(m) PROVE EvmInv'
  <2> DEFINE own == [message |-> m, payload |-> m]
  <2>1. /\ phase[m] = "posting" /\ PostsSettled(m)
        /\ phase' = [phase EXCEPT ![m] = "done"]
        /\ emitted' = [emitted EXCEPT ![SenderOf[m]] = @ \union {own}]
        /\ status' = [status EXCEPT ![m] = Result(m)]
        /\ UNCHANGED <<log, knows, post>>
    <3>1. Reception(SenderOf[m], m, m) = "OK"
      BY <1>7 DEF Finish, Reception, HashMatches, PostedOnlyWhenStored
    <3> QED
      BY <1>7, <3>1 DEF Finish, Hand
  <2>2. TypeOK'
    BY <2>1 DEF TypeOK, Result
  <2>3. /\ \A q \in Node : emitted[q] \subseteq emitted'[q]
        /\ \A q \in Node : \A e \in emitted'[q] : e \in emitted[q] \/ e = own
    BY <2>1 DEF TypeOK
  <2>4. \A q \in Peers(m) : post[m][q] \in {"OK", "INVALID_HASH"} \/ \E s \in Peers(m) : post[m][s] = "failed"
    BY <2>1 DEF PostsSettled, PostedOnlyWhenStored, TypeOK
  <2>5. PostedOnlyWhenStored'
    BY <2>1 DEF PostedOnlyWhenStored, TypeOK
  <2>6. AnsweredIsEmitted'
    BY <2>1, <2>3 DEF AnsweredIsEmitted
  <2>7. EmittedAsCommitted'
    <3>1. log' = log /\ log[m] = {m} /\ own.message = m /\ own.payload = m
      BY <2>1 DEF PostedOnlyWhenStored
    <3> HIDE DEF own
    <3> QED
      BY <2>3, <3>1 DEF EmittedAsCommitted
  <2>8. SenderComesLast'
    <3> SUFFICES ASSUME NEW k \in Message,
                        [message |-> k, payload |-> k] \in emitted'[SenderOf[k]],
                        NEW q \in Peers(k)
                 PROVE  \/ [message |-> k, payload |-> k] \in emitted'[q]
                        \/ \E s \in Peers(k) : post'[k][s] \in {"failed", "INVALID_HASH"}
      BY DEF SenderComesLast
    <3>1. CASE k = m
      BY <2>1, <2>3, <2>4, <3>1 DEF AnsweredIsEmitted
    <3>2. CASE k # m
      BY <2>1, <2>3, <3>2 DEF SenderComesLast
    <3> QED
      BY <3>1, <3>2
  <2>9. OkMeansEverywhere'
    <3> SUFFICES ASSUME NEW k \in Message, status'[k] = "OK", NEW q \in Peers(k)
                 PROVE  [message |-> k, payload |-> k] \in emitted'[q] \/ post'[k][q] = "INVALID_HASH"
      BY DEF OkMeansEverywhere
    <3>1. CASE k = m
      BY <2>1, <2>3, <2>4, <3>1 DEF AnsweredIsEmitted, Result, TypeOK
    <3>2. CASE k # m
      BY <2>1, <2>3, <3>2 DEF OkMeansEverywhere, TypeOK
    <3> QED
      BY <3>1, <3>2
  <2> QED
    BY <2>2, <2>5, <2>6, <2>7, <2>8, <2>9
<1>8. ASSUME NEW n \in Node, NEW m \in Message, Import(n, m) PROVE EvmInv'
  BY <1>8 DEF Import, TypeOK, PostedOnlyWhenStored, AnsweredIsEmitted, EmittedAsCommitted,
              SenderComesLast, OkMeansEverywhere
<1> QED
  BY <1>1, <1>2, <1>3, <1>4, <1>5, <1>6, <1>7, <1>8 DEF Next, Progress

\* The invariant holds throughout.
LEMMA EvmCorrect == Spec => []EvmInv
<1>1. Init => EvmInv
  BY EvmAssumption DEF EvmAssumption, Init, EvmInv, TypeOK, Payload, Phase, Emission, PostedOnlyWhenStored,
     AnsweredIsEmitted, EmittedAsCommitted, SenderComesLast, OkMeansEverywhere, Peers
<1> QED
  BY <1>1, EvmStep, PTL DEF Spec

\* The variables of the strategy always have their types.
THEOREM EvmTypes == Spec => []TypeOK
<1>1. EvmInv => TypeOK
  BY DEF EvmInv
<1> QED
  BY <1>1, EvmCorrect, PTL

\* What any node hands on is what the sender stored the hash of
\* (EvmStrategy.receiveConsistencyMessage).
THEOREM CommitmentsKept == Spec => []EmittedAsCommitted
<1>1. EvmInv => EmittedAsCommitted
  BY DEF EvmInv
<1> QED
  BY <1>1, EvmCorrect, PTL

\* The sender hands its own message on after its peers, or after one of them failed
\* (EvmStrategy.dispatch).
THEOREM SenderLast == Spec => []SenderComesLast
<1>1. EvmInv => SenderComesLast
  BY DEF EvmInv
<1> QED
  BY <1>1, EvmCorrect, PTL

\* OK means that every peer has handed the message on, or answered that it is not what was
\* committed to (EvmStrategy.dispatch).
THEOREM OkIsTrue == Spec => []OkMeansEverywhere
<1>1. EvmInv => OkMeansEverywhere
  BY DEF EvmInv
<1> QED
  BY <1>1, EvmCorrect, PTL
=============================================================================
