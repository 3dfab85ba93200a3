------------------------ MODULE ReplicationProperties ------------------------
(***************************************************************************)
(* What the handlers of a node may rely on about replicated messages.      *)
(***************************************************************************)
EXTENDS Replication

\* The owner handles no message twice (event-notifier.ts:34 forgets what was handed on).
HandledOnce == IsInjective(handled[Owner])

\* A message is handled after those that its writer had seen when it wrote it
\* (event-notifier.ts:31).
CausalOrder ==
  \A n \in Node : \A m, k \in DOMAIN handled[n] :
    handled[n][m] \in past[handled[n][k]] => m < k

\* A message is handled by the owner, as long as the nodes that have it in their copies
\* run and stay connected (all$, event-notifier.ts:29-35).
EveryMessageHandled ==
  \A e \in Entry :
    [](\A n \in Node : e \in oplog[n] => connection[n] # "closed" /\ ~Ended(n)) /\ <>(time[e] > 0)
      => <>(e \in ToSet(handled[Owner]))
=============================================================================
