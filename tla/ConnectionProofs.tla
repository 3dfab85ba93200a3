--------------------------- MODULE ConnectionProofs ---------------------------
(***************************************************************************)
(* What holds of the connection to a remote database for any number of     *)
(* messages, however their sends overlap: its types; that a store is lost  *)
(* only if two opens or two closes of it race; and that nothing else goes  *)
(* wrong before a send overlaps with another one or with a close.          *)
(***************************************************************************)
EXTENDS ConnectionProperties, TLAPS

\* Every step keeps the types, whatever runs concurrently (all of the manager).
LEMMA TypeStep == TypeOK /\ [Next]_vars => TypeOK'
<1> SUFFICES ASSUME TypeOK, [Next]_vars PROVE TypeOK'
  OBVIOUS
<1> USE DEF TypeOK, Phase, Maybe
<1>1. CASE UNCHANGED vars
  BY <1>1 DEF vars
<1>2. ASSUME NEW m \in Message, Reuse(m) PROVE TypeOK'
  BY <1>2 DEF Reuse, StopCloseTimeout
<1>3. ASSUME NEW m \in Message, Open(m) \/ OpenFails(m) PROVE TypeOK'
  BY <1>3 DEF Open, OpenFails
<1>4. ASSUME NEW m \in Message, Opened(m) PROVE TypeOK'
  BY <1>4 DEF Opened
<1>5. ASSUME NEW m \in Message, BeginAdd(m) PROVE TypeOK'
  BY <1>5 DEF BeginAdd
<1>6. ASSUME NEW m \in Message, Added(m) PROVE TypeOK'
  BY <1>6 DEF Added, CloseAfterTimeout
<1>7. ASSUME NEW m \in Message, AddFails(m) PROVE TypeOK'
  BY <1>7 DEF AddFails
<1>8. ASSUME NEW m \in Message, TimerFires(m) PROVE TypeOK'
  BY <1>8 DEF TimerFires
<1>9. ASSUME NEW m \in Message, Closed(m) PROVE TypeOK'
  BY <1>9 DEF Closed
<1> QED
  BY <1>1, <1>2, <1>3, <1>4, <1>5, <1>6, <1>7, <1>8, <1>9 DEF Next, Progress

\* The connection's variables keep their types (OrbitDBEventLogManager, all of it).
THEOREM TypesKept == SpecH => []TypeOK
<1>1. InitH => TypeOK
  BY DEF InitH, Init, TypeOK, Phase, Maybe
<1>2. TypeOK /\ [NextH]_<<vars, history>> => TypeOK'
  BY TypeStep DEF NextH, vars, history
<1> QED
  BY <1>1, <1>2, PTL DEF SpecH

-----------------------------------------------------------------------------
(* Stores are lost in races only. *)

\* What a race would break: who opens finds no connection until it has its own, and who
\* closes closes the connection in the map.
MapIsCurrent ==
  /\ \A m \in Message : phase[m] = "opening" => connection = Nothing
  /\ \A t \in Message : closing[t] # Nothing => closing[t] = connection
  /\ OneStore

RaceInv == TypeOK /\ (Races => raced) /\ (~raced => MapIsCurrent)

\* Without a race before the step and after it, the map stays current, whatever else
\* overlaps (all of the manager).
LEMMA MapStaysCurrent ==
  ASSUME TypeOK, MapIsCurrent, ~Races, Next
  PROVE  MapIsCurrent'
<1> USE ConnectionAssumption DEF ConnectionAssumption, TypeOK, Phase, Maybe, MapIsCurrent, OneStore
<1>1. ASSUME NEW m \in Message, Reuse(m) PROVE MapIsCurrent'
  BY <1>1 DEF Reuse, Ready, StopCloseTimeout
<1>2. ASSUME NEW m \in Message, Open(m) PROVE MapIsCurrent'
  BY <1>2 DEF Open, Ready
<1>3. ASSUME NEW m \in Message, Opened(m) PROVE MapIsCurrent'
  <2>1. \A n \in Message : n # m => phase[n] # "opening"
    BY <1>3 DEF Opened, Races
  <2>2. connection = Nothing /\ \A c \in Message : store[c] # "open" /\ closing[c] = Nothing
    BY <1>3 DEF Opened
  <2> QED
    BY <1>3, <2>1, <2>2 DEF Opened
<1>4. ASSUME NEW m \in Message, OpenFails(m) \/ AddFails(m) PROVE MapIsCurrent'
  BY <1>4 DEF OpenFails, AddFails
<1>5. ASSUME NEW m \in Message, BeginAdd(m) PROVE MapIsCurrent'
  BY <1>5 DEF BeginAdd
<1>6. ASSUME NEW m \in Message, Added(m) PROVE MapIsCurrent'
  BY <1>6 DEF Added, CloseAfterTimeout
<1>7. ASSUME NEW m \in Message, TimerFires(m) PROVE MapIsCurrent'
  BY <1>7 DEF TimerFires
<1>8. ASSUME NEW m \in Message, Closed(m) PROVE MapIsCurrent'
  <2>1. \A t \in Message : t # m => closing[t] = Nothing
    BY <1>8 DEF Closed, Races
  <2>2. closing[m] = connection /\ connection \in Message
    BY <1>8 DEF Closed
  <2> QED
    BY <1>8, <2>1, <2>2 DEF Closed
<1> QED
  BY <1>1, <1>2, <1>3, <1>4, <1>5, <1>6, <1>7, <1>8 DEF Next, Progress

\* A store drops out of the map only after two opens or two closes have raced, however
\* sends overlap otherwise (addConnection, removeConnection).
THEOREM StoresKept == SpecH => []OnlyRacesLeak
<1>1. InitH => RaceInv
  BY ConnectionAssumption DEF ConnectionAssumption, InitH, Init, RaceInv, TypeOK, Phase, Maybe,
     Races, MapIsCurrent, OneStore
<1>2. RaceInv /\ [NextH]_<<vars, history>> => RaceInv'
  <2> SUFFICES ASSUME RaceInv, [NextH]_<<vars, history>> PROVE RaceInv'
    OBVIOUS
  <2>1. CASE UNCHANGED <<vars, history>>
    BY <2>1 DEF vars, history, RaceInv, TypeOK, Races, MapIsCurrent, OneStore
  <2>2. CASE NextH
    <3>1. TypeOK'
      BY <2>2, TypeStep DEF NextH, RaceInv
    <3>2. Next /\ raced' = (raced \/ Races')
      BY <2>2 DEF NextH
    <3>3. ~raced' => MapIsCurrent'
      <4> SUFFICES ASSUME ~raced' PROVE MapIsCurrent'
        OBVIOUS
      <4>1. ~raced
        BY <3>2
      <4> QED
        BY <3>2, <4>1, MapStaysCurrent DEF RaceInv
    <3> QED
      BY <3>1, <3>2, <3>3 DEF RaceInv
  <2> QED
    BY <2>1, <2>2
<1>3. RaceInv => OnlyRacesLeak
  BY DEF RaceInv, OnlyRacesLeak, MapIsCurrent
<1> QED
  BY <1>1, <1>2, <1>3, PTL DEF SpecH

-----------------------------------------------------------------------------
(* Before the first overlap *)

\* One message at a time, and nothing else happens meanwhile.
SendsAlone ==
  /\ \A m, n \in Message : UnderWay(m) /\ UnderWay(n) => m = n
  /\ \A m \in Message : UnderWay(m) => timers = {} /\ \A t \in Message : closing[t] = Nothing

\* A message under way holds the connection in the map.
HoldsConnection ==
  \A m \in Message :
    /\ phase[m] = "opening" => connection = Nothing
    /\ phase[m] = "connected" => connection # Nothing
    /\ phase[m] = "adding" => connection # Nothing /\ uses[m] = connection

\* At most one timer callback is closing, and it is closing the connection in the map,
\* which is open otherwise.
ClosesAlone ==
  /\ \A t \in Message : closing[t] # Nothing => closing[t] = connection /\ timers = {}
  /\ \A t, u \in Message : closing[t] # Nothing /\ closing[u] # Nothing => t = u
  /\ connection # Nothing =>
       store[connection] = "open" \/ \E t \in Message : closing[t] # Nothing

InTurn ==
  SendsAlone /\ HoldsConnection /\ ClosesAlone /\ TimersCanBeStopped /\ NothingThrows

OverlapInv == TypeOK /\ (~overlapped => InTurn)

\* A step that begins no send amid another one or amid a close leaves the sends in turn.
LEMMA StaysInTurn ==
  ASSUME TypeOK, InTurn, Next, ~BeginsAmid
  PROVE  InTurn'
<1>0. TypeOK'
  BY TypeStep
<1> USE ConnectionAssumption DEF ConnectionAssumption, InTurn, TypeOK, Phase, Maybe,
      SendsAlone, HoldsConnection, ClosesAlone, TimersCanBeStopped, NothingThrows, UnderWay
<1>1. ASSUME NEW m \in Message, phase[m] = "waiting", phase'[m] # "waiting"
      PROVE  \A n \in Message : ~UnderWay(n) /\ closing[n] = Nothing
  BY <1>1 DEF BeginsAmid
<1>2. ASSUME NEW m \in Message, Reuse(m) PROVE InTurn'
  BY <1>0, <1>1, <1>2 DEF Reuse, Ready, StopCloseTimeout
<1>3. ASSUME NEW m \in Message, Open(m) PROVE InTurn'
  BY <1>0, <1>1, <1>3 DEF Open, Ready
<1>4. ASSUME NEW m \in Message, OpenFails(m) \/ AddFails(m) PROVE InTurn'
  BY <1>0, <1>4 DEF OpenFails, AddFails
<1>5. ASSUME NEW m \in Message, Opened(m) PROVE InTurn'
  BY <1>0, <1>5 DEF Opened
<1>6. ASSUME NEW m \in Message, BeginAdd(m) PROVE InTurn'
  BY <1>0, <1>6 DEF BeginAdd
<1>7. ASSUME NEW m \in Message, Added(m) PROVE InTurn'
  BY <1>0, <1>7 DEF Added, CloseAfterTimeout
<1>8. ASSUME NEW m \in Message, TimerFires(m) PROVE InTurn'
  BY <1>0, <1>8 DEF TimerFires
<1>9. ASSUME NEW m \in Message, Closed(m) PROVE InTurn'
  BY <1>0, <1>9 DEF Closed
<1> QED
  BY <1>2, <1>3, <1>4, <1>5, <1>6, <1>7, <1>8, <1>9 DEF Next, Progress

\* Until a send begins amid another one or amid a close, every timer can be stopped, messages
\* are added to open stores and no call throws (sendMessageToExternalWorkflowInstance).
THEOREM SendsUnhurt == SpecH => []OnlyOverlapsHurt
<1>1. InitH => OverlapInv
  BY ConnectionAssumption DEF ConnectionAssumption, InitH, Init, OverlapInv, InTurn, TypeOK, Phase,
     Maybe, SendsAlone, HoldsConnection, ClosesAlone, TimersCanBeStopped, NothingThrows, UnderWay
<1>2. OverlapInv /\ [NextH]_<<vars, history>> => OverlapInv'
  <2> SUFFICES ASSUME OverlapInv, [NextH]_<<vars, history>> PROVE OverlapInv'
    OBVIOUS
  <2>1. CASE UNCHANGED <<vars, history>>
    BY <2>1 DEF vars, history, OverlapInv, InTurn, TypeOK, SendsAlone, HoldsConnection, ClosesAlone,
       TimersCanBeStopped, NothingThrows, UnderWay
  <2>2. CASE NextH
    BY <2>2, TypeStep, StaysInTurn DEF NextH, OverlapInv
  <2> QED
    BY <2>1, <2>2
<1>3. OverlapInv => OnlyOverlapsHurt
  BY ConnectionAssumption DEF ConnectionAssumption, OverlapInv, OnlyOverlapsHurt, InTurn, TypeOK,
     Maybe, SendsAlone, HoldsConnection, ClosesAlone, AddsToOpenStore, UnderWay
<1> QED
  BY <1>1, <1>2, <1>3, PTL DEF SpecH
=============================================================================
