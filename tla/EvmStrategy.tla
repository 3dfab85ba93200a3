----------------------------- MODULE EvmStrategy -----------------------------
(***************************************************************************)
(* The EVM consistency strategy: the hash of a message is stored by a      *)
(* transaction, the message is posted to every peer with the hash of that  *)
(* transaction as its commitment, and whoever receives it compares the     *)
(* hash in the transaction's log with the hash of what arrived.  The       *)
(* sender receives its own message last.                                   *)
(*                                                                         *)
(* Every node asks an Ethereum client of its own, which may not have the   *)
(* block yet: there is no receipt then, and reading its logs throws.  The  *)
(* requests to the sender's own client may fail as well, after the hash is *)
(* on the chain and after the message was posted: dispatch is rejected     *)
(* there, and what has happened stays.                                     *)
(*                                                                         *)
(* Hashes are abstracted to what is hashed; a transaction is named by the  *)
(* message it was sent for, and so is the reference to it.                 *)
(***************************************************************************)
EXTENDS Naturals, FiniteSets

CONSTANTS
  Node,
  Message,   \* messages, one call of dispatch each
  SenderOf,  \* SenderOf[m]: the node that dispatches m
  Altered,   \* another payload: what a message may arrive with
  MayAlter,  \* BOOLEAN: a payload or a reference may be altered on its way
  MayLag,    \* BOOLEAN: a node's Ethereum client may lag behind
  MayFail    \* BOOLEAN: transactions, posts, their replies, and requests to clients may fail

ASSUME EvmAssumption ==
  /\ SenderOf \in [Message -> Node]
  /\ Altered \notin Message
  /\ MayAlter \in BOOLEAN /\ MayLag \in BOOLEAN /\ MayFail \in BOOLEAN

\* The payload of m is m itself.
Payload == Message \union {Altered}

VARIABLES
  phase,    \* phase[m]: how far dispatch has come
  log,      \* log[m]: what the transaction of m has stored, if it was mined
  knows,    \* knows[n]: the transactions that n's client has receipts of
  post,     \* post[m][n]: the request that brings m to its peer n
  emitted,  \* emitted[n]: what n has handed to its handlers
  status    \* status[m]: what dispatch has returned

vars == <<phase, log, knows, post, emitted, status>>

Phase == {"new", "storing", "stored", "posting", "done", "rejected"}
Emission == [message: Message, payload: Payload]

TypeOK ==
  /\ phase \in [Message -> Phase]
  /\ log \in [Message -> SUBSET Payload]
  /\ knows \in [Node -> SUBSET Message]
  /\ post \in [Message -> [Node -> {"none", "waiting", "OK", "INVALID_HASH", "failed"}]]
  /\ emitted \in [Node -> SUBSET Emission]
  /\ status \in [Message -> {"none", "OK", "NOK"}]

Init ==
  /\ phase = [m \in Message |-> "new"]
  /\ log = [m \in Message |-> {}]
  /\ knows = [n \in Node |-> {}]
  /\ post = [m \in Message |-> [n \in Node |-> "none"]]
  /\ emitted = [n \in Node |-> {}]
  /\ status = [m \in Message |-> "none"]

-----------------------------------------------------------------------------
Peers(m) == Node \ {SenderOf[m]}

\* dispatch up to the await of the transaction.
Dispatch(m) ==
  /\ phase[m] = "new"
  /\ phase' = [phase EXCEPT ![m] = "storing"]
  /\ UNCHANGED <<log, knows, post, emitted, status>>

\* HashStorage.store is mined, and the sender's client knows.
Stored(m) ==
  /\ phase[m] = "storing"
  /\ phase' = [phase EXCEPT ![m] = "stored"]
  /\ log' = [log EXCEPT ![m] = {m}]
  /\ knows' = [n \in Node |->
       IF n = SenderOf[m] \/ ~MayLag THEN knows[n] \union {m} ELSE knows[n]]
  /\ UNCHANGED <<post, emitted, status>>

\* The block is there, with the time of the commitment: the posts start.
BlockRead(m) ==
  /\ phase[m] = "stored"
  /\ phase' = [phase EXCEPT ![m] = "posting"]
  /\ post' = [post EXCEPT ![m] = [n \in Node |-> IF n \in Peers(m) THEN "waiting" ELSE "none"]]
  /\ UNCHANGED <<log, knows, emitted, status>>

\* Another client imports the block.
Import(n, m) ==
  /\ log[m] # {}
  /\ m \notin knows[n]
  /\ knows' = [knows EXCEPT ![n] = @ \union {m}]
  /\ UNCHANGED <<phase, log, post, emitted, status>>

\* Mutated: any transaction will do.
HasAnyLog(r, p) == log[r] # {}

\* The hash in the log of the transaction that the message refers to is that of the payload.
HashMatches(r, p) == log[r] = {p}

\* What receiveConsistencyMessage makes of payload p with reference r at node n.
Reception(n, r, p) ==
  IF r \notin knows[n] THEN "failed"
  ELSE IF HashMatches(r, p) THEN "OK" ELSE "INVALID_HASH"

\* A message that was received well is handed to the handlers.
Hand(result, n, m, p) ==
  IF result = "OK" THEN emitted' = [emitted EXCEPT ![n] = @ \union {[message |-> m, payload |-> p]}]
                   ELSE UNCHANGED emitted

\* The peer's controller; its reply may get lost.
Receive(m, n) ==
  /\ post[m][n] = "waiting"
  /\ \E p \in IF MayAlter THEN {m, Altered} ELSE {m}, r \in IF MayAlter THEN Message ELSE {m} :
       /\ \E reply \in IF MayFail THEN {Reception(n, r, p), "failed"} ELSE {Reception(n, r, p)} :
            post' = [post EXCEPT ![m][n] = reply]
       /\ Hand(Reception(n, r, p), n, m, p)
  /\ UNCHANGED <<phase, log, knows, status>>

\* The request does not reach the peer.
PostFails(m, n) ==
  /\ MayFail
  /\ post[m][n] = "waiting"
  /\ post' = [post EXCEPT ![m][n] = "failed"]
  /\ UNCHANGED <<phase, log, knows, emitted, status>>

\* Mutated: the posts are not awaited.
NoWait(m) == TRUE

\* Promise.all: settled by the first failure, or by the last answer.
PostsSettled(m) ==
  \/ \E n \in Peers(m) : post[m][n] = "failed"
  \/ \A n \in Peers(m) : post[m][n] # "waiting"

\* Mutated: the reply of a peer is returned as it came.
ReplyOf(m) == IF Peers(m) = {} THEN "OK" ELSE post[m][CHOOSE n \in Peers(m) : TRUE]

\* What dispatch returns: the replies are not looked at.
Result(m) == IF \E n \in Peers(m) : post[m][n] = "failed" THEN "NOK" ELSE "OK"

\* Mutated: the sender leaves its own message to the peers.
FinishOnly(m) ==
  /\ phase[m] = "posting"
  /\ PostsSettled(m)
  /\ phase' = [phase EXCEPT ![m] = "done"]
  /\ status' = [status EXCEPT ![m] = Result(m)]
  /\ UNCHANGED <<log, knows, post, emitted>>

\* The posts are over, well or badly, and the sender receives its own message.  Dispatch is
\* fulfilled, whatever the sender makes of it.
Finish(m) ==
  LET own == Reception(SenderOf[m], m, m)
  IN  /\ phase[m] = "posting"
      /\ PostsSettled(m)
      /\ own # "failed"
      /\ phase' = [phase EXCEPT ![m] = "done"]
      /\ Hand(own, SenderOf[m], m, m)
      /\ status' = [status EXCEPT ![m] = Result(m)]
      /\ UNCHANGED <<log, knows, post>>

\* What dispatch awaits from the sender's client fails, and dispatch is rejected: the
\* transaction, the block (or there is none, and reading its timestamp throws) or, after the
\* posts, the receipt.  A hash that was stored and a message that was posted remain.
ClientFails(m) ==
  /\ MayFail
  /\ \/ phase[m] \in {"storing", "stored"}
     \/ phase[m] = "posting" /\ PostsSettled(m)
  /\ phase' = [phase EXCEPT ![m] = "rejected"]
  /\ UNCHANGED <<log, knows, post, emitted, status>>

-----------------------------------------------------------------------------
Progress(m) ==
  Stored(m) \/ BlockRead(m) \/ Finish(m) \/ \E n \in Node : Receive(m, n)

Next ==
  \E m \in Message :
    \/ Dispatch(m) \/ ClientFails(m) \/ Progress(m)
    \/ \E n \in Node : Import(n, m) \/ PostFails(m, n)

Spec == Init /\ [][Next]_vars

\* Transactions are mined or fail, and requests are answered or fail.
FairSpec == Spec /\ \A m \in Message : WF_vars(Progress(m))
=============================================================================
