-------------------------- MODULE ConnectionManager --------------------------
(***************************************************************************)
(* One node's connection to one database of another organization: it is    *)
(* opened by the first message, kept for a grace period after each, and    *)
(* closed by a timer.  OrbitDBEventLogManager keeps one connection per     *)
(* name; the sends of OrbitDBStrategy share it without a lock, and nothing *)
(* keeps one from starting while others are under way, or while the        *)
(* database is being closed.                                               *)
(*                                                                         *)
(* A store is named by the message it was opened for, a timer by the       *)
(* message that set it.  Timers belong to the name of the database, not to *)
(* the connection they were set on.  Between two timers Node.js runs every *)
(* continuation that is ready, so no timer fires between connecting and    *)
(* the call of store.add.                                                  *)
(***************************************************************************)
EXTENDS Naturals

CONSTANTS
  Message,  \* messages for the database
  Nothing,  \* no store, no timer
  MayFail   \* BOOLEAN: opening and writing may throw

ASSUME ConnectionAssumption ==
  /\ Nothing \notin Message
  /\ MayFail \in BOOLEAN

VARIABLES
  phase,          \* phase[m]: how far the send of m is
  store,          \* store[m]: the OrbitDB store opened for m
  connection,     \* the store in the map `connections`
  uses,           \* uses[m]: the store that m is added to
  closeTimerRef,  \* closeTimerRef[c]: the timer that connection c remembers
  timers,         \* timers that have not fired
  closing,        \* closing[t]: the store that the callback of timer t is closing
  crashed         \* a rejected promise that nobody handles has ended the process

vars == <<phase, store, connection, uses, closeTimerRef, timers, closing, crashed>>

Phase == {"waiting", "opening", "connected", "adding", "sent", "failed"}
Maybe == Message \union {Nothing}

TypeOK ==
  /\ phase \in [Message -> Phase]
  /\ store \in [Message -> {"none", "open", "closing", "closed"}]
  /\ connection \in Maybe
  /\ uses \in [Message -> Maybe]
  /\ closeTimerRef \in [Message -> Maybe]
  /\ timers \subseteq Message
  /\ closing \in [Message -> Maybe]
  /\ crashed \in BOOLEAN

Init ==
  /\ phase = [m \in Message |-> "waiting"]
  /\ store = [m \in Message |-> "none"]
  /\ connection = Nothing
  /\ uses = [m \in Message |-> Nothing]
  /\ closeTimerRef = [m \in Message |-> Nothing]
  /\ timers = {}
  /\ closing = [m \in Message |-> Nothing]
  /\ crashed = FALSE

-----------------------------------------------------------------------------
UnderWay(m) == phase[m] \in {"opening", "connected", "adding"}

\* A send of m may start, whatever else is under way.
Ready(m) == ~crashed /\ phase[m] = "waiting"

\* Mutated: the pending timer is forgotten, not cleared.
ForgetTimer(c) ==
  /\ closeTimerRef' = [closeTimerRef EXCEPT ![c] = Nothing]
  /\ UNCHANGED timers

\* Mutated: the timer is marked as cleared.
MarkTimer(c) ==
  /\ timers' = timers \ {closeTimerRef[c]}
  /\ closeTimerRef' = [closeTimerRef EXCEPT ![c] = "cleared"]

\* stopCloseTimeout
StopCloseTimeout(c) ==
  /\ timers' = timers \ {closeTimerRef[c]}
  /\ closeTimerRef' = [closeTimerRef EXCEPT ![c] = Nothing]

\* connectTo...ExternalEventsDatabase finds a connection ...
Reuse(m) ==
  /\ Ready(m)
  /\ connection # Nothing
  /\ StopCloseTimeout(connection)
  /\ phase' = [phase EXCEPT ![m] = "connected"]
  /\ UNCHANGED <<store, connection, uses, closing, crashed>>

\* Mutated: nobody looks whether there is a connection.
OpenAnyway(m) ==
  /\ Ready(m)
  /\ phase' = [phase EXCEPT ![m] = "opening"]
  /\ UNCHANGED <<store, connection, uses, closeTimerRef, timers, closing, crashed>>

\* ... or starts opening one.
Open(m) ==
  /\ Ready(m)
  /\ connection = Nothing
  /\ phase' = [phase EXCEPT ![m] = "opening"]
  /\ UNCHANGED <<store, connection, uses, closeTimerRef, timers, closing, crashed>>

\* addConnection after its awaits: the new connection replaces one that was opened in
\* the meantime.
Opened(m) ==
  /\ ~crashed
  /\ phase[m] = "opening"
  /\ phase' = [phase EXCEPT ![m] = "connected"]
  /\ store' = [store EXCEPT ![m] = "open"]
  /\ connection' = m
  /\ UNCHANGED <<uses, closeTimerRef, timers, closing, crashed>>

OpenFails(m) ==
  /\ MayFail
  /\ ~crashed
  /\ phase[m] = "opening"
  /\ phase' = [phase EXCEPT ![m] = "failed"]
  /\ UNCHANGED <<store, connection, uses, closeTimerRef, timers, closing, crashed>>

\* addEvent up to the await of store.add.
BeginAdd(m) ==
  /\ ~crashed
  /\ phase[m] = "connected"
  /\ IF connection = Nothing
     THEN /\ phase' = [phase EXCEPT ![m] = "failed"]
          /\ UNCHANGED uses
     ELSE /\ phase' = [phase EXCEPT ![m] = "adding"]
          /\ uses' = [uses EXCEPT ![m] = connection]
  /\ UNCHANGED <<store, connection, closeTimerRef, timers, closing, crashed>>

\* Mutated: no timer is set.
KeepOpen(m) == UNCHANGED <<closeTimerRef, timers, crashed>>

\* removeConnectionAfterTimeout: not awaited, so that its exception is not handled.
CloseAfterTimeout(m) ==
  IF connection = Nothing
  THEN /\ crashed' = TRUE
       /\ UNCHANGED <<closeTimerRef, timers>>
  ELSE /\ timers' = timers \union {m}
       /\ closeTimerRef' = [closeTimerRef EXCEPT ![connection] = m]
       /\ UNCHANGED crashed

\* The rest of sendWorkflowToExternalParticipants, sendMessageToExternalWorkflowInstance.
Added(m) ==
  /\ ~crashed
  /\ phase[m] = "adding"
  /\ phase' = [phase EXCEPT ![m] = "sent"]
  /\ CloseAfterTimeout(m)
  /\ UNCHANGED <<store, connection, uses, closing>>

\* store.add throws, for one because the store is being closed: no timer is set.
AddFails(m) ==
  /\ ~crashed
  /\ phase[m] = "adding"
  /\ MayFail \/ store[uses[m]] # "open"
  /\ phase' = [phase EXCEPT ![m] = "failed"]
  /\ UNCHANGED <<store, connection, uses, closeTimerRef, timers, closing, crashed>>

\* The timer set by m fires: removeConnection, up to the await of store.close.
TimerFires(m) ==
  /\ ~crashed
  /\ m \in timers
  /\ \A n \in Message : phase[n] # "connected"
  /\ timers' = timers \ {m}
  /\ IF connection = Nothing
     THEN /\ crashed' = TRUE
          /\ UNCHANGED <<store, closing>>
     ELSE /\ store' = [store EXCEPT ![connection] = IF @ = "open" THEN "closing" ELSE @]
          /\ closing' = [closing EXCEPT ![m] = connection]
          /\ UNCHANGED crashed
  /\ UNCHANGED <<phase, connection, uses, closeTimerRef>>

\* ... and after it: whatever the map holds under the name by now is deleted.
Closed(m) ==
  /\ ~crashed
  /\ closing[m] # Nothing
  /\ store' = [store EXCEPT ![closing[m]] = "closed"]
  /\ closing' = [closing EXCEPT ![m] = Nothing]
  /\ connection' = Nothing
  /\ UNCHANGED <<phase, uses, closeTimerRef, timers, crashed>>

-----------------------------------------------------------------------------
\* What the node does by itself once a send has started.
Progress(m) == Opened(m) \/ BeginAdd(m) \/ Added(m) \/ TimerFires(m) \/ Closed(m)

Next ==
  \E m \in Message :
    Reuse(m) \/ Open(m) \/ Progress(m) \/ OpenFails(m) \/ AddFails(m)

Spec == Init /\ [][Next]_vars

\* Timers fire, and what was awaited arrives; nobody promises that messages are sent.
FairSpec == Spec /\ WF_vars(\E m \in Message : Progress(m))
=============================================================================
