----------------------------- MODULE Replication -----------------------------
(***************************************************************************)
(* One externalEvents database and the nodes that open it: its owner, for  *)
(* as long as it runs, and every node that has a message for it, from      *)
(* before it writes until the grace period is over.  OrbitDB replicates a  *)
(* database to every node that has it open.  It fetches missing entries in *)
(* batches, in any order within a batch, and reports each ("replicate",    *)
(* "replicate.progress", "replicated").  EventNotifier collects what was   *)
(* reported and hands it on, sorted by Lamport clock, whenever a batch is  *)
(* complete; who subscribes to all$ gets it from every open database.      *)
(*                                                                         *)
(* A node that is not the owner has neither the workflow nor the instance  *)
(* that a message is addressed to: it refuses a request, and an answer     *)
(* makes its handler throw, which ends the process.                        *)
(***************************************************************************)
EXTENDS Integers, SequencesExt

CONSTANTS
  Node,
  Owner,     \* whose database it is
  Entry,     \* messages for it
  Sender,    \* Sender[e]: the node that writes e
  Answers,   \* the entries that are acceptances or rejections, not requests
  Overlap    \* BOOLEAN: a batch may start before the one before is complete

ASSUME ReplicationAssumption ==
  /\ Owner \in Node
  /\ Sender \in [Entry -> Node \ {Owner}]
  /\ Answers \subseteq Entry
  /\ Overlap \in BOOLEAN

VARIABLES
  connection,     \* connection[n]: closed, loading (not in the map yet) or open
  oplog,          \* oplog[n]: the entries in n's copy of the database
  time,           \* time[e]: the Lamport clock of e, 0 before it is written
  past,           \* past[e]: what its writer's copy held then
  batches,        \* batches[n]: the sets of entries being fetched
  reported,       \* reported[n]: those of them that were reported
  cachedEntries,  \* cachedEntries[n]
  handled         \* handled[n]: what the subscribers of n were given, in order

vars == <<connection, oplog, time, past, batches, reported, cachedEntries, handled>>

TypeOK ==
  /\ connection \in [Node -> {"closed", "loading", "open"}]
  /\ oplog \in [Node -> SUBSET Entry]
  /\ time \in [Entry -> Nat]
  /\ past \in [Entry -> SUBSET Entry]
  /\ batches \in [Node -> SUBSET SUBSET Entry]
  /\ reported \in [Node -> SUBSET Entry]
  /\ cachedEntries \in [Node -> SUBSET Entry]
  /\ handled \in [Node -> Seq(Entry)]

Init ==
  /\ connection = [n \in Node |-> IF n = Owner THEN "open" ELSE "closed"]
  /\ oplog = [n \in Node |-> {}]
  /\ time = [e \in Entry |-> 0]
  /\ past = [e \in Entry |-> {}]
  /\ batches = [n \in Node |-> {}]
  /\ reported = [n \in Node |-> {}]
  /\ cachedEntries = [n \in Node |-> {}]
  /\ handled = [n \in Node |-> <<>>]

-----------------------------------------------------------------------------
\* onExternalTransitionAcknowledge throws for an unknown workflow, addEvent for a
\* database that is not open; nobody catches it.
Ended(n) == n # Owner /\ \E e \in Answers : e \in ToSet(handled[n])

\* addConnection up to its last await.  Only a node with a message opens the database.
Connect(n) ==
  /\ ~Ended(n)
  /\ connection[n] = "closed"
  /\ \E e \in Entry : Sender[e] = n /\ time[e] = 0
  /\ connection' = [connection EXCEPT ![n] = "loading"]
  /\ UNCHANGED <<oplog, time, past, batches, reported, cachedEntries, handled>>

\* The connection is in the map; connectionSubject makes all$ subscribe to it.
Opened(n) ==
  /\ ~Ended(n)
  /\ connection[n] = "loading"
  /\ connection' = [connection EXCEPT ![n] = "open"]
  /\ UNCHANGED <<oplog, time, past, batches, reported, cachedEntries, handled>>

\* removeConnection: what was being fetched is dropped.
Closed(n) ==
  /\ n # Owner
  /\ connection[n] = "open"
  /\ connection' = [connection EXCEPT ![n] = "closed"]
  /\ batches' = [batches EXCEPT ![n] = {}]
  /\ reported' = [reported EXCEPT ![n] = {}]
  /\ cachedEntries' = [cachedEntries EXCEPT ![n] = {}]
  /\ UNCHANGED <<oplog, time, past, handled>>

\* addEvent with propagateLocally = false.
AddEvent(n, e) ==
  /\ ~Ended(n)
  /\ connection[n] = "open"
  /\ Sender[e] = n /\ time[e] = 0
  /\ time' = [time EXCEPT ![e] = 1 + Max({0} \union {time[f] : f \in oplog[n]})]
  /\ past' = [past EXCEPT ![e] = oplog[n]]
  /\ oplog' = [oplog EXCEPT ![n] = @ \union {e}]
  /\ UNCHANGED <<connection, batches, reported, cachedEntries, handled>>

-----------------------------------------------------------------------------
(* Replication to node n *)

\* A batch holds what n lacks of another node's copy.
Replicate(n, from) ==
  LET missing == oplog[from] \ (oplog[n] \union UNION batches[n])
  IN  /\ ~Ended(n) /\ ~Ended(from)
      /\ connection[n] # "closed" /\ connection[from] # "closed"
      /\ missing # {}
      /\ Overlap \/ batches[n] = {}
      /\ batches' = [batches EXCEPT ![n] = @ \union {missing}]
      /\ UNCHANGED <<connection, oplog, time, past, reported, cachedEntries, handled>>

\* "replicate.progress"
Progress(n, e) ==
  /\ ~Ended(n)
  /\ e \in (UNION batches[n]) \ reported[n]
  /\ reported' = [reported EXCEPT ![n] = @ \union {e}]
  /\ cachedEntries' = [cachedEntries EXCEPT ![n] = @ \union {e}]
  /\ UNCHANGED <<connection, oplog, time, past, batches, handled>>

\* Mutated: handed on as they came.
AsTheyCame(entries) == SetToSeqs(entries)

\* Mutated: a batch is handed on as a whole.
AsBatch(entries) == {<<entries>>}

\* The orders in which sort by clock may leave the entries.
SortedByClock(entries) ==
  {s \in SetToSeqs(entries) :
     \A m, k \in DOMAIN s : m < k => time[s[m]] <= time[s[k]]}

\* Mutated: the cache is not emptied.
KeepCache(n) == cachedEntries

\* The cache after it was handed on.
Emptied(n) == [cachedEntries EXCEPT ![n] = {}]

\* Mutated: the cache is emptied, but not handed on.
DropCache(n, b) ==
  /\ ~Ended(n)
  /\ b \in batches[n] /\ b \subseteq reported[n]
  /\ batches' = [batches EXCEPT ![n] = @ \ {b}]
  /\ oplog' = [oplog EXCEPT ![n] = @ \union b]
  /\ cachedEntries' = Emptied(n)
  /\ UNCHANGED <<connection, time, past, reported, handled>>

\* "replicated": the batch is joined; the cache is handed on, to nobody if the
\* connection is not in the map yet.
Replicated(n, b) ==
  /\ ~Ended(n)
  /\ b \in batches[n] /\ b \subseteq reported[n]
  /\ batches' = [batches EXCEPT ![n] = @ \ {b}]
  /\ oplog' = [oplog EXCEPT ![n] = @ \union b]
  /\ \E s \in SortedByClock(cachedEntries[n]) :
       handled' = [handled EXCEPT ![n] = IF connection[n] = "open" THEN @ \o s ELSE @]
  /\ cachedEntries' = Emptied(n)
  /\ UNCHANGED <<connection, time, past, reported>>

-----------------------------------------------------------------------------
OrbitDB(n) ==
  \/ \E from \in Node : Replicate(n, from)
  \/ \E e \in Entry : Progress(n, e)
  \/ \E b \in batches[n] : Replicated(n, b)

Next ==
  \E n \in Node :
    \/ Connect(n) \/ Opened(n) \/ Closed(n)
    \/ \E e \in Entry : AddEvent(n, e)
    \/ OrbitDB(n)

Spec == Init /\ [][Next]_vars

\* The owner's OrbitDB fetches what it can get; messages are sent at any time, and the
\* sender's connection stays open until they are fetched.
FairSpec == Spec /\ WF_vars(OrbitDB(Owner))
=============================================================================
