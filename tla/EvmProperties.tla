---------------------------- MODULE EvmProperties ----------------------------
(* What the commitments on the chain are for. *)
EXTENDS EvmStrategy

\* Whatever is handed to the handlers is what its sender had committed to on the chain by the
\* transaction of this very message, whichever transaction the message refers to on arrival
\* ("Do the expected and the actual hash of the message payload differ?",
\* evm-strategy.ts:72).
EmittedAsCommitted ==
  \A n \in Node : \A e \in emitted[n] : log[e.message] = {e.payload}

\* The sender hands its own message on only after each peer has taken it, unless a post
\* failed or arrived altered (evm-strategy.ts:117).
SenderComesLast ==
  \A m \in Message :
    [message |-> m, payload |-> m] \in emitted[SenderOf[m]] =>
      \A n \in Peers(m) :
        \/ [message |-> m, payload |-> m] \in emitted[n]
        \/ \E p \in Peers(m) : post[m][p] \in {"failed", "INVALID_HASH"}

\* OK means that every peer has handed the message on ("Dispatches a given message and
\* ensures its consistency", consistency-strategy.ts:28) or found that it did not arrive as
\* it was committed to, which the sender does not look at (evm-strategy.ts:112-115).
OkMeansEverywhere ==
  \A m \in Message : status[m] = "OK" =>
    \A n \in Peers(m) :
      [message |-> m, payload |-> m] \in emitted[n] \/ post[m][n] = "INVALID_HASH"

\* A dispatch ends: fulfilled, with OK or NOK, after the sender's own handlers got the message
\* (evm-strategy.ts:117-118), or rejected, when the sender's own client failed (lines 98, 104,
\* 64), in which case they do not get it although its peers may have.
SenderHearsItself ==
  \A m \in Message :
    phase[m] = "storing" ~>
      \/ phase[m] = "done" /\ [message |-> m, payload |-> m] \in emitted[SenderOf[m]]
      \/ phase[m] = "rejected"
=============================================================================
