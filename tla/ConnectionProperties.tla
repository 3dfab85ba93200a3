------------------------- MODULE ConnectionProperties -------------------------
(***************************************************************************)
(* What the connection to a remote database is worth to its users, and     *)
(* which overlaps take it away.  History variables, which only the         *)
(* properties read, remember whether there have been any, and how the last *)
(* send ended.                                                             *)
(***************************************************************************)
EXTENDS ConnectionManager

VARIABLES
  overlapped,  \* history: a send has started amid another one or amid a close
  raced,       \* history: two sends were opening at once, or two timers closing at once
  lastFailed   \* history: the last send that ended failed

history == <<overlapped, raced, lastFailed>>

BeginsAmid ==
  \E m \in Message :
    /\ phase[m] = "waiting" /\ phase'[m] # "waiting"
    /\ \E n \in Message : UnderWay(n) \/ closing[n] # Nothing

Races ==
  \E m, n \in Message :
    /\ m # n
    /\ \/ phase[m] = "opening" /\ phase[n] = "opening"
       \/ closing[m] # Nothing /\ closing[n] # Nothing

\* Some send ends in this way in this step.
Ends(how) == \E m \in Message : phase[m] # how /\ phase'[m] = how

InitH == Init /\ overlapped = FALSE /\ raced = FALSE /\ lastFailed = FALSE

NextH ==
  /\ Next
  /\ overlapped' = (overlapped \/ BeginsAmid)
  /\ raced' = (raced \/ Races')
  /\ lastFailed' = (Ends("failed") \/ (lastFailed /\ ~Ends("sent")))

SpecH == InitH /\ [][NextH]_<<vars, history>>

FairSpecH == SpecH /\ WF_<<vars, history>>(NextH /\ \E m \in Message : Progress(m))

-----------------------------------------------------------------------------
\* The map holds every open store; no timer would ever close one outside of it.
OneStore == \A c \in Message : store[c] = "open" => connection = c

\* Sends may share a connection, lose it to a timer, or begin while it is being closed: a
\* store is lost only if two of them opened the database at once (addConnection's check,
\* orbitdb-eventlog-manager.ts:68) or two timers closed it at once (line 98).
OnlyRacesLeak == ~raced => OneStore

\* A timer that is still to fire can be cleared by the next send: the connection in
\* the map remembers it (orbitdb-eventlog-manager.ts:113-123).
TimersCanBeStopped ==
  \A t \in timers : connection # Nothing /\ closeTimerRef[connection] = t

\* The store that a message is being added to is not closed.
AddsToOpenStore == \A m \in Message : phase[m] = "adding" => store[uses[m]] = "open"

\* No send and no timer finds its connection gone: both call the manager without
\* handling the exception it throws then (orbitdb-eventlog-manager.ts:93, 103).
NothingThrows == ~crashed

\* Whatever goes wrong in sending goes back to an overlap: before the first one, failed
\* messages or not, the grace period restarts with every send (removeConnectionAfterTimeout,
\* stopCloseTimeout), so that no store is closed under a message and nothing throws.
OnlyOverlapsHurt == ~overlapped => TimersCanBeStopped /\ AddsToOpenStore /\ NothingThrows

\* The grace period as it is meant: a store is not closed under a message that is being
\* added to it ("CONNECTION_KEEPALIVE_GRACE_PERIOD", environment.ts:18).
ClosedOnlyWhenIdle ==
  [][\A c, m \in Message :
       store[c] = "open" /\ store'[c] = "closing" => ~(phase[m] = "adding" /\ uses[m] = c)]_vars

\* Once no further message is sent, no store stays open (removeConnectionAfterTimeout),
\* unless the last send failed, after which the code sets no timer, or sends overlapped: what
\* a failed send left open is closed after the next one that succeeds.
ConnectionsAreReclaimed ==
  <>[](\/ overlapped
       \/ lastFailed
       \/ \A m \in Message : ~UnderWay(m) /\ store[m] \in {"none", "closed"})
=============================================================================
