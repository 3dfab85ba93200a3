--------------------------- MODULE ReplicationProofs ---------------------------
(***************************************************************************)
(* For any nodes and messages: the owner handles no message twice, however *)
(* the batches overlap; and every node handles a message after those that  *)
(* its writer had seen, as long as one batch is fetched at a time.  Copies *)
(* are closed under the past of their entries, so that what a batch lacks  *)
(* is in the copy already, and the clocks put the rest in order.           *)
(***************************************************************************)
EXTENDS ReplicationProperties, FiniteSetTheorems, WellFoundedInduction, TLAPS

\* Clocks stay below some number, caches finite: sorting a cache makes a sequence.
ClocksAreBounded == \E bound \in Nat : \A e \in Entry : time[e] <= bound
CachesAreFinite == \A n \in Node : IsFiniteSet(cachedEntries[n])

ReplicationTypes == TypeOK /\ ClocksAreBounded /\ CachesAreFinite

\* What the owner cached or handed on was reported, once.
ReportedOnce ==
  /\ cachedEntries[Owner] \subseteq reported[Owner]
  /\ \A m \in DOMAIN handled[Owner] :
       handled[Owner][m] \in reported[Owner] \ cachedEntries[Owner]
  /\ HandledOnce

\* Entries of copies and batches were written, after those of their past.
PastsAreEarlier ==
  /\ \A n \in Node : \A e \in Entry : e \in oplog[n] \/ e \in UNION batches[n] => time[e] > 0
  /\ \A e \in Entry : \A f \in past[e] : 0 < time[f] /\ time[f] < time[e]

\* A copy holds the past of its entries, a batch what the copy lacks of it.
CopiesAreClosed ==
  \A n \in Node :
    /\ \A e \in oplog[n] : past[e] \subseteq oplog[n]
    /\ \A b \in batches[n] :
         b \cap oplog[n] = {} /\ \A e \in b : past[e] \subseteq oplog[n] \union b

\* One batch at a time, of which the cache holds entries; what was handled is in the copy.
OneBatch ==
  \A n \in Node :
    /\ \A b, c \in batches[n] : b = c
    /\ cachedEntries[n] \subseteq UNION batches[n]
    /\ \A m \in DOMAIN handled[n] : handled[n][m] \in oplog[n]

CausalInv ==
  /\ ReplicationTypes
  /\ PastsAreEarlier
  /\ CopiesAreClosed
  /\ OneBatch
  /\ CausalOrder

-----------------------------------------------------------------------------
(* Clocks and sequences *)

\* A set of numbers has a least one.
LEMMA Least ==
  ASSUME NEW T, T \subseteq Nat, T # {}
  PROVE  \E m \in T : \A n \in T : m <= n
<1> DEFINE R == OpToRel(<, Nat)
<1>1. IsWellFoundedOn(R, Nat)
  BY NatLessThanWellFounded
<1>2. R = {ss \in Nat \X Nat : ss[1] < ss[2]}
  BY DEF OpToRel
<1> HIDE DEF R
<1>3. PICK x \in T : \A y \in T : ~(<<y, x>> \in R)
  BY <1>1, WFMin
<1>4. ASSUME NEW y \in T, ~(x <= y) PROVE FALSE
  <2>1. x \in Nat /\ y \in Nat /\ y < x
    BY <1>4
  <2>2. <<y, x>> \in R
    BY <1>2, <2>1
  <2> QED
    BY <1>3, <2>2
<1> QED
  BY <1>4

\* A bounded set of numbers has a greatest one (the clock of a new entry).
LEMMA Greatest ==
  ASSUME NEW S, S \subseteq Nat, S # {}, NEW bound \in Nat, \A x \in S : x <= bound
  PROVE  Max(S) \in S /\ \A x \in S : x <= Max(S)
<1> DEFINE T == {bound - x : x \in S}
<1>1. T \subseteq Nat /\ T # {}
  <2>1. \A x \in S : bound - x \in Nat
    OBVIOUS
  <2> QED
    BY <2>1
<1>2. PICK m \in T : \A n \in T : m <= n
  <2> HIDE DEF T
  <2> QED
    BY <1>1, Least
<1>3. PICK g \in S : m = bound - g
  BY <1>2
<1>4. \A x \in S : g >= x
  BY <1>2, <1>3
<1> QED
  BY <1>4 DEF Max

\* The orders in which a finite set is handed on: sequences without repetition.
LEMMA SortedType ==
  ASSUME NEW S, IsFiniteSet(S), NEW s \in SortedByClock(S)
  PROVE  /\ s \in Seq(S)
         /\ \A m, k \in 1 .. Len(s) : m # k => s[m] # s[k]
         /\ \A m, k \in 1 .. Len(s) : m < k => time[s[m]] <= time[s[k]]
<1> DEFINE L == Cardinality(S)
<1>1. L \in Nat
  BY FS_CardinalityType
<1>2. /\ s \in [1 .. L -> S] /\ \A m, k \in 1 .. L : m # k => s[m] # s[k]
      /\ \A m, k \in DOMAIN s : m < k => time[s[m]] <= time[s[k]]
  BY DEF SortedByClock, SetToSeqs
<1> HIDE DEF L
<1>3. s \in Seq(S) /\ Len(s) = L
  BY <1>1, <1>2
<1> QED
  BY <1>2, <1>3

\* Handing on adds to the end.
LEMMA HandedOn ==
  ASSUME NEW h \in Seq(Entry), NEW s \in Seq(Entry)
  PROVE  /\ h \o s \in Seq(Entry)
         /\ Len(h) \in Nat /\ Len(s) \in Nat
         /\ DOMAIN h = 1 .. Len(h)
         /\ DOMAIN (h \o s) = 1 .. Len(h) + Len(s)
         /\ \A m \in 1 .. Len(h) + Len(s) :
              \/ m \in 1 .. Len(h) /\ (h \o s)[m] = h[m]
              \/ m - Len(h) \in 1 .. Len(s) /\ (h \o s)[m] = s[m - Len(h)]
  OBVIOUS

-----------------------------------------------------------------------------
(* Types *)

\* Every step keeps the types, and caches finite.
LEMMA TypesKept == ReplicationTypes /\ [Next]_vars => ReplicationTypes'
<1> SUFFICES ASSUME ReplicationTypes, [Next]_vars PROVE ReplicationTypes'
  OBVIOUS
<1> USE DEF ReplicationTypes
<1>1. CASE UNCHANGED vars
  BY <1>1 DEF vars, TypeOK, ClocksAreBounded, CachesAreFinite
<1>2. ASSUME NEW n \in Node, Connect(n) \/ Opened(n) \/ (\E from \in Node : Replicate(n, from))
      PROVE  ReplicationTypes'
  <2>1. TypeOK'
    <3>1. CASE Connect(n) \/ Opened(n)
      BY <3>1 DEF Connect, Opened, TypeOK
    <3>2. ASSUME NEW from \in Node, Replicate(n, from) PROVE TypeOK'
      BY <3>2 DEF Replicate, TypeOK
    <3> QED
      BY <1>2, <3>1, <3>2
  <2>2. ClocksAreBounded' /\ CachesAreFinite'
    BY <1>2 DEF Connect, Opened, Replicate, ClocksAreBounded, CachesAreFinite
  <2> QED
    BY <2>1, <2>2
<1>3. ASSUME NEW n \in Node, Closed(n) PROVE ReplicationTypes'
  <2>1. TypeOK' /\ ClocksAreBounded'
    BY <1>3 DEF Closed, TypeOK, ClocksAreBounded
  <2>2. CachesAreFinite'
    BY <1>3, FS_EmptySet DEF Closed, TypeOK, CachesAreFinite
  <2> QED
    BY <2>1, <2>2
<1>4. ASSUME NEW n \in Node, NEW e \in Entry, AddEvent(n, e) PROVE ReplicationTypes'
  <2> DEFINE clocks == {0} \union {time[f] : f \in oplog[n]}
  <2>1. PICK bound \in Nat : \A f \in Entry : time[f] <= bound
    BY DEF ClocksAreBounded
  <2>2. clocks \subseteq Nat /\ clocks # {} /\ \A x \in clocks : x <= bound
    BY <2>1 DEF TypeOK
  <2>3. Max(clocks) \in clocks
    <3> HIDE DEF clocks
    <3> QED
      BY <2>2, Greatest
  <2>4. time' = [time EXCEPT ![e] = 1 + Max(clocks)]
    BY <1>4 DEF AddEvent
  <2> HIDE DEF clocks
  <2>5. 1 + Max(clocks) \in Nat /\ 1 + Max(clocks) <= bound + 1
    <3>1. Max(clocks) \in Nat /\ Max(clocks) <= bound
      BY <2>2, <2>3
    <3> QED
      BY <3>1
  <2>6. TypeOK'
    BY <1>4, <2>4, <2>5 DEF AddEvent, TypeOK
  <2>7. \A f \in Entry : time'[f] <= bound + 1
    BY <2>1, <2>4, <2>5 DEF TypeOK
  <2>8. ClocksAreBounded'
    BY <2>1, <2>7 DEF ClocksAreBounded
  <2>9. CachesAreFinite'
    BY <1>4 DEF AddEvent, CachesAreFinite
  <2> QED
    BY <2>6, <2>8, <2>9
<1>5. ASSUME NEW n \in Node, NEW e \in Entry, Progress(n, e) PROVE ReplicationTypes'
  <2>1. TypeOK' /\ ClocksAreBounded'
    BY <1>5 DEF Progress, TypeOK, ClocksAreBounded
  <2>2. CachesAreFinite'
    BY <1>5, FS_AddElement DEF Progress, TypeOK, CachesAreFinite
  <2> QED
    BY <2>1, <2>2
<1>6. ASSUME NEW n \in Node, NEW b \in batches[n], Replicated(n, b) PROVE ReplicationTypes'
  <2>1. PICK s \in SortedByClock(cachedEntries[n]) :
          handled' = [handled EXCEPT ![n] = IF connection[n] = "open" THEN @ \o s ELSE @]
    BY <1>6 DEF Replicated
  <2>2. s \in Seq(Entry)
    <3>1. s \in Seq(cachedEntries[n]) /\ cachedEntries[n] \subseteq Entry
      BY SortedType DEF CachesAreFinite, TypeOK
    <3> QED
      BY <3>1
  <2>3. handled' \in [Node -> Seq(Entry)]
    BY <2>1, <2>2 DEF TypeOK
  <2>4. TypeOK' /\ ClocksAreBounded'
    BY <1>6, <2>3 DEF Replicated, Emptied, TypeOK, ClocksAreBounded
  <2>5. CachesAreFinite'
    BY <1>6, FS_EmptySet DEF Replicated, Emptied, TypeOK, CachesAreFinite
  <2> QED
    BY <2>4, <2>5
<1> QED
  BY <1>1, <1>2, <1>3, <1>4, <1>5, <1>6 DEF Next, OrbitDB

\* They hold initially ...
LEMMA TypesInitially == Init => ReplicationTypes
<1> SUFFICES ASSUME Init PROVE ReplicationTypes
  OBVIOUS
<1>1. TypeOK
  BY DEF Init, TypeOK
<1>2. ClocksAreBounded
  BY DEF Init, ClocksAreBounded
<1>3. CachesAreFinite
  BY FS_EmptySet DEF Init, CachesAreFinite
<1> QED
  BY <1>1, <1>2, <1>3 DEF ReplicationTypes

\* ... and always.
LEMMA TypesAlways == Spec => []ReplicationTypes
  BY TypesInitially, TypesKept, PTL DEF Spec

\* The variables of the replication always have their types.
THEOREM ReplicationTyped == Spec => []TypeOK
<1>1. ReplicationTypes => TypeOK
  BY DEF ReplicationTypes
<1> QED
  BY <1>1, TypesAlways, PTL

-----------------------------------------------------------------------------
(* The owner handles no message twice *)

\* What was reported is cached or handled, never both, never twice.
LEMMA ReportedOnceKept == ReplicationTypes /\ ReportedOnce /\ [Next]_vars => ReportedOnce'
<1> SUFFICES ASSUME ReplicationTypes, ReportedOnce, [Next]_vars PROVE ReportedOnce'
  OBVIOUS
<1> USE ReplicationAssumption DEF ReplicationTypes
<1>1. ASSUME UNCHANGED <<reported[Owner], cachedEntries[Owner], handled[Owner]>>
      PROVE  ReportedOnce'
  BY <1>1 DEF ReportedOnce, HandledOnce, IsInjective
<1>2. ASSUME NEW n \in Node, Connect(n) \/ Opened(n) \/ (\E from \in Node : Replicate(n, from))
                             \/ (\E e \in Entry : AddEvent(n, e))
      PROVE  ReportedOnce'
  BY <1>1, <1>2 DEF Connect, Opened, Replicate, AddEvent
<1>3. ASSUME NEW n \in Node, Closed(n) PROVE ReportedOnce'
  BY <1>1, <1>3 DEF Closed, TypeOK
<1>4. ASSUME NEW n \in Node, NEW e \in Entry, Progress(n, e) PROVE ReportedOnce'
  <2>1. CASE n # Owner
    BY <1>1, <1>4, <2>1 DEF Progress, TypeOK
  <2>2. CASE n = Owner
    <3>1. /\ e \notin reported[Owner]
          /\ reported'[Owner] = reported[Owner] \union {e}
          /\ cachedEntries'[Owner] = cachedEntries[Owner] \union {e}
          /\ handled' = handled
      BY <1>4, <2>2 DEF Progress, TypeOK
    <3> QED
      BY <3>1 DEF ReportedOnce, HandledOnce, IsInjective
  <2> QED
    BY <2>1, <2>2
<1>5. ASSUME NEW n \in Node, NEW b \in batches[n], Replicated(n, b) PROVE ReportedOnce'
  <2>1. CASE n # Owner
    BY <1>1, <1>5, <2>1 DEF Replicated, Emptied, TypeOK
  <2>2. CASE n = Owner
    <3>1. PICK s \in SortedByClock(cachedEntries[Owner]) :
            handled' = [handled EXCEPT ![Owner] = IF connection[Owner] = "open" THEN @ \o s ELSE @]
      BY <1>5, <2>2 DEF Replicated
    <3>2. cachedEntries'[Owner] = {} /\ reported' = reported
      BY <1>5, <2>2 DEF Replicated, Emptied, TypeOK
    <3>3. CASE connection[Owner] # "open"
      <4>1. handled'[Owner] = handled[Owner]
        BY <3>1, <3>3 DEF TypeOK
      <4> QED
        BY <3>2, <4>1 DEF ReportedOnce, HandledOnce, IsInjective
    <3>4. CASE connection[Owner] = "open"
      <4> DEFINE h == handled[Owner]
      <4>1. handled'[Owner] = h \o s
        BY <3>1, <3>4 DEF TypeOK
      <4>2. /\ s \in Seq(cachedEntries[Owner]) /\ s \in Seq(Entry) /\ h \in Seq(Entry)
            /\ \A m, k \in 1 .. Len(s) : m # k => s[m] # s[k]
        <5>1. IsFiniteSet(cachedEntries[Owner]) /\ cachedEntries[Owner] \subseteq Entry
          BY DEF CachesAreFinite, TypeOK
        <5>2. s \in Seq(cachedEntries[Owner])
          BY <5>1, SortedType
        <5> QED
          BY <5>1, <5>2, SortedType DEF TypeOK
      <4>3. \A m \in DOMAIN h : h[m] \in reported[Owner] \ cachedEntries[Owner]
        BY DEF ReportedOnce
      <4>4. \A m, k \in DOMAIN h : h[m] = h[k] => m = k
        BY DEF ReportedOnce, HandledOnce, IsInjective
      <4>5. \A m \in 1 .. Len(s) : s[m] \in cachedEntries[Owner] /\ s[m] \in reported[Owner]
        BY <4>2 DEF ReportedOnce
      <4> HIDE DEF h
      <4>6. /\ Len(h) \in Nat /\ Len(s) \in Nat /\ DOMAIN h = 1 .. Len(h)
            /\ DOMAIN (h \o s) = 1 .. Len(h) + Len(s)
            /\ \A m \in 1 .. Len(h) + Len(s) :
                 \/ m \in 1 .. Len(h) /\ (h \o s)[m] = h[m]
                 \/ m - Len(h) \in 1 .. Len(s) /\ (h \o s)[m] = s[m - Len(h)]
        BY <4>2, HandedOn
      <4>7. \A m \in DOMAIN (h \o s) : (h \o s)[m] \in reported[Owner]
        BY <4>3, <4>5, <4>6
      <4>8. ASSUME NEW m \in DOMAIN (h \o s), NEW k \in DOMAIN (h \o s), (h \o s)[m] = (h \o s)[k]
            PROVE  m = k
        <5>1. CASE m \in 1 .. Len(h) /\ (h \o s)[m] = h[m] /\ k \in 1 .. Len(h) /\ (h \o s)[k] = h[k]
          BY <4>4, <4>6, <4>8, <5>1
        <5>2. CASE m - Len(h) \in 1 .. Len(s) /\ (h \o s)[m] = s[m - Len(h)]
                   /\ k - Len(h) \in 1 .. Len(s) /\ (h \o s)[k] = s[k - Len(h)]
          <6>1. m - Len(h) = k - Len(h)
            BY <4>2, <4>8, <5>2
          <6> QED
            BY <4>6, <6>1
        <5>3. ASSUME NEW i \in DOMAIN h, NEW j \in 1 .. Len(s) PROVE h[i] # s[j]
          BY <4>3, <4>5
        <5> QED
          BY <4>6, <4>8, <5>1, <5>2, <5>3
      <4> QED
        BY <3>2, <4>1, <4>7, <4>8 DEF ReportedOnce, HandledOnce, IsInjective
    <3> QED
      BY <3>3, <3>4
  <2> QED
    BY <2>1, <2>2
<1>6. CASE UNCHANGED vars
  BY <1>1, <1>6 DEF vars
<1> QED
  BY <1>2, <1>3, <1>4, <1>5, <1>6 DEF Next, OrbitDB

\* The owner handles no message twice, whether or not batches overlap: an entry is reported
\* once as long as the database stays open (EventNotifier empties its cache).
THEOREM HandledOnceOnly == Spec => []HandledOnce
<1>1. Init => ReportedOnce
  BY ReplicationAssumption DEF Init, ReportedOnce, HandledOnce, IsInjective
<1>2. ReportedOnce => HandledOnce
  BY DEF ReportedOnce
<1> QED
  BY <1>1, <1>2, ReportedOnceKept, TypesAlways, PTL DEF Spec

-----------------------------------------------------------------------------
(* Messages are handled after what their writers had seen *)

\* Writing an entry: nothing that exists has it in its past, and its clock is the greatest.
LEMMA AddEventKeepsOrder ==
  ASSUME CausalInv, NEW n \in Node, NEW e \in Entry, AddEvent(n, e)
  PROVE  PastsAreEarlier' /\ CopiesAreClosed' /\ OneBatch' /\ CausalOrder'
<1> USE DEF CausalInv, ReplicationTypes
<1> DEFINE clocks == {0} \union {time[f] : f \in oplog[n]}
<1>1. PICK bound \in Nat : \A f \in Entry : time[f] <= bound
  BY DEF ClocksAreBounded
<1>2. clocks \subseteq Nat /\ clocks # {} /\ \A x \in clocks : x <= bound
  BY <1>1 DEF TypeOK
<1>3. Max(clocks) \in clocks /\ \A x \in clocks : x <= Max(clocks)
  <2> HIDE DEF clocks
  <2> QED
    BY <1>2, Greatest
<1>4. PICK clock \in Nat : clock > 0 /\ time' = [time EXCEPT ![e] = clock]
                           /\ \A f \in oplog[n] : time[f] < clock
  <2>1. time' = [time EXCEPT ![e] = 1 + Max(clocks)]
    BY DEF AddEvent
  <2>2. \A f \in oplog[n] : time[f] \in clocks
    OBVIOUS
  <2> HIDE DEF clocks
  <2>3. Max(clocks) \in Nat
    BY <1>2, <1>3
  <2> DEFINE clock == 1 + Max(clocks)
  <2>4. \A x \in clocks : x \in Nat /\ x < clock
    BY <1>2, <1>3, <2>3
  <2>5. clock \in Nat /\ clock > 0
    BY <2>3
  <2>6. time' = [time EXCEPT ![e] = clock]
    BY <2>1
  <2> HIDE DEF clock
  <2>7. \A f \in oplog[n] : time[f] < clock
    BY <2>2, <2>4
  <2> QED
    BY <2>5, <2>6, <2>7
<1> HIDE DEF clocks
<1>5. /\ time[e] = 0 /\ past' = [past EXCEPT ![e] = oplog[n]]
      /\ oplog' = [oplog EXCEPT ![n] = oplog[n] \union {e}]
      /\ UNCHANGED <<connection, batches, reported, cachedEntries, handled>>
  BY DEF AddEvent
<1>6. \A m \in Node : oplog[m] \subseteq Entry /\ UNION batches[m] \subseteq Entry
  BY DEF TypeOK
<1>7. \A m \in Node : e \notin oplog[m] /\ e \notin UNION batches[m]
  BY <1>5, <1>6 DEF PastsAreEarlier
<1>8. \A f \in Entry : e \notin past[f]
  BY <1>5 DEF PastsAreEarlier, TypeOK
<1>9. \A f \in Entry : f # e => time'[f] = time[f] /\ past'[f] = past[f]
  BY <1>4, <1>5 DEF TypeOK
<1>10. time'[e] = clock /\ past'[e] = oplog[n]
  BY <1>4, <1>5 DEF TypeOK
<1>11. oplog'[n] = oplog[n] \union {e} /\ \A m \in Node : m # n => oplog'[m] = oplog[m]
  BY <1>5 DEF TypeOK
<1>12. PastsAreEarlier'
  <2>1. ASSUME NEW m \in Node, NEW f \in Entry, f \in oplog'[m] \/ f \in UNION batches'[m]
        PROVE  time'[f] > 0
    BY <1>4, <1>5, <1>9, <1>10, <1>11, <2>1 DEF PastsAreEarlier
  <2>2. ASSUME NEW f \in Entry, NEW g \in past'[f]
        PROVE  0 < time'[g] /\ time'[g] < time'[f]
    <3>1. CASE f = e
      <4>1. g \in oplog[n] /\ g # e /\ g \in Entry
        BY <1>6, <1>7, <1>10, <3>1
      <4>2. time[g] > 0 /\ time[g] < clock /\ time'[g] = time[g]
        BY <1>4, <1>9, <4>1 DEF PastsAreEarlier
      <4> QED
        BY <1>10, <3>1, <4>2
    <3>2. CASE f # e
      <4>1. g \in past[f] /\ g # e /\ g \in Entry
        BY <1>8, <1>9, <3>2 DEF TypeOK
      <4> QED
        BY <1>9, <3>2, <4>1 DEF PastsAreEarlier
    <3> QED
      BY <3>1, <3>2
  <2> QED
    BY <2>1, <2>2 DEF PastsAreEarlier
<1>13. CopiesAreClosed'
  <2>1. ASSUME NEW m \in Node, NEW f \in oplog'[m] PROVE past'[f] \subseteq oplog'[m]
    <3>1. CASE f = e
      <4>1. m = n
        BY <1>7, <1>11, <2>1, <3>1
      <4> QED
        BY <1>10, <1>11, <3>1, <4>1
    <3>2. CASE f # e
      BY <1>6, <1>9, <1>11, <3>2 DEF CopiesAreClosed
    <3> QED
      BY <3>1, <3>2
  <2>2. ASSUME NEW m \in Node, NEW b \in batches'[m]
        PROVE  b \cap oplog'[m] = {} /\ \A f \in b : past'[f] \subseteq oplog'[m] \union b
    <3>1. b \in batches[m] /\ e \notin b /\ b \subseteq Entry
      BY <1>5, <1>6, <1>7
    <3>2. b \cap oplog[m] = {} /\ \A f \in b : past[f] \subseteq oplog[m] \union b
      BY <3>1 DEF CopiesAreClosed
    <3> QED
      BY <1>9, <1>11, <3>1, <3>2
  <2> QED
    BY <2>1, <2>2 DEF CopiesAreClosed
<1>14. OneBatch'
  BY <1>5, <1>11 DEF OneBatch
<1>15. CausalOrder'
  <2>1. ASSUME NEW m \in Node, NEW k \in DOMAIN handled[m]
        PROVE  past'[handled[m][k]] = past[handled[m][k]]
    BY <1>6, <1>7, <1>9 DEF OneBatch
  <2> QED
    BY <1>5, <2>1 DEF CausalOrder
<1> QED
  BY <1>12, <1>13, <1>14, <1>15

\* What a batch fetches is closed with what the copy holds already, if it is the only one.
LEMMA ReplicateKeepsOrder ==
  ASSUME Overlap = FALSE, CausalInv, NEW n \in Node, NEW from \in Node, Replicate(n, from)
  PROVE  PastsAreEarlier' /\ CopiesAreClosed' /\ OneBatch' /\ CausalOrder'
<1> USE DEF CausalInv, ReplicationTypes
<1> DEFINE missing == oplog[from] \ oplog[n]
<1>1. batches[n] = {} /\ UNION batches[n] = {}
  BY DEF Replicate
<1>2. /\ batches' = [batches EXCEPT ![n] = {missing}]
      /\ UNCHANGED <<connection, oplog, time, past, reported, cachedEntries, handled>>
  BY <1>1 DEF Replicate
<1>3. batches'[n] = {missing} /\ \A m \in Node : m # n => batches'[m] = batches[m]
  BY <1>2 DEF TypeOK
<1>4. PastsAreEarlier'
  BY <1>2, <1>3 DEF PastsAreEarlier
<1>5. CopiesAreClosed'
  <2>1. \A e \in missing : past[e] \subseteq oplog[from]
    BY DEF CopiesAreClosed
  <2>2. missing \cap oplog[n] = {} /\ \A e \in missing : past[e] \subseteq oplog[n] \union missing
    BY <2>1
  <2> HIDE DEF missing
  <2> QED
    BY <1>2, <1>3, <2>2 DEF CopiesAreClosed
<1>6. OneBatch'
  <2>1. ASSUME NEW m \in Node, NEW c \in batches'[m], NEW d \in batches'[m] PROVE c = d
    <3> HIDE DEF missing
    <3>1. CASE m = n
      BY <1>3, <3>1
    <3>2. CASE m # n
      BY <1>3, <3>2 DEF OneBatch
    <3> QED
      BY <3>1, <3>2
  <2>2. ASSUME NEW m \in Node PROVE cachedEntries'[m] \subseteq UNION batches'[m]
    BY <1>1, <1>2, <1>3 DEF OneBatch
  <2>3. ASSUME NEW m \in Node, NEW k \in DOMAIN handled'[m] PROVE handled'[m][k] \in oplog'[m]
    BY <1>2 DEF OneBatch
  <2> QED
    BY <2>1, <2>2, <2>3 DEF OneBatch
<1>7. CausalOrder'
  BY <1>2 DEF CausalOrder
<1> QED
  BY <1>4, <1>5, <1>6, <1>7

\* What is handed on with a batch comes after everything handled, in the order of the clocks.
LEMMA ReplicatedKeepsOrder ==
  ASSUME CausalInv, NEW n \in Node, NEW b \in batches[n], Replicated(n, b)
  PROVE  PastsAreEarlier' /\ CopiesAreClosed' /\ OneBatch' /\ CausalOrder'
<1> USE DEF CausalInv, ReplicationTypes
<1>1. /\ oplog'[n] = oplog[n] \union b /\ batches'[n] = {} /\ cachedEntries'[n] = {}
      /\ \A m \in Node : m # n => /\ oplog'[m] = oplog[m] /\ batches'[m] = batches[m]
                                  /\ cachedEntries'[m] = cachedEntries[m]
      /\ UNCHANGED <<time, past>>
  <2>1. batches[n] \ {b} = {}
    BY DEF OneBatch
  <2> QED
    BY <2>1 DEF Replicated, Emptied, TypeOK
<1>2. /\ b \cap oplog[n] = {} /\ \A e \in b : past[e] \subseteq oplog[n] \union b
      /\ cachedEntries[n] \subseteq b /\ b \subseteq Entry
  BY DEF CopiesAreClosed, OneBatch, TypeOK
<1>3. PICK s \in SortedByClock(cachedEntries[n]) :
        handled' = [handled EXCEPT ![n] = IF connection[n] = "open" THEN @ \o s ELSE @]
  BY DEF Replicated
<1>4. /\ s \in Seq(cachedEntries[n]) /\ s \in Seq(Entry)
      /\ \A m, k \in 1 .. Len(s) : m < k => time[s[m]] <= time[s[k]]
  <2>1. IsFiniteSet(cachedEntries[n]) /\ cachedEntries[n] \subseteq Entry
    BY DEF CachesAreFinite, TypeOK
  <2>2. s \in Seq(cachedEntries[n])
    BY <2>1, SortedType
  <2> QED
    BY <2>1, <2>2, SortedType
<1>5. PastsAreEarlier'
  <2>1. \A e \in b : time[e] > 0
    BY <1>2 DEF PastsAreEarlier
  <2> QED
    BY <1>1, <2>1 DEF PastsAreEarlier
<1>6. CopiesAreClosed'
  BY <1>1, <1>2 DEF CopiesAreClosed
<1>7. \A m \in Node : m # n => handled'[m] = handled[m]
  BY <1>3 DEF TypeOK
<1> DEFINE h == handled[n]
<1>8. \A m \in DOMAIN h : h[m] \in oplog[n] /\ past[h[m]] \subseteq oplog[n]
  BY DEF OneBatch, CopiesAreClosed
<1>9. \A m, k \in DOMAIN h : h[m] \in past[h[k]] => m < k
  BY DEF CausalOrder
<1>10. CASE connection[n] # "open"
  <2>1. handled'[n] = h
    BY <1>3, <1>10 DEF TypeOK
  <2>2. OneBatch'
    BY <1>1, <1>7, <1>8, <2>1 DEF OneBatch
  <2>3. CausalOrder'
    BY <1>1, <1>7, <1>9, <2>1 DEF CausalOrder
  <2> QED
    BY <1>5, <1>6, <2>2, <2>3
<1>11. CASE connection[n] = "open"
  <2>1. handled'[n] = h \o s
    BY <1>3, <1>11 DEF TypeOK
  <2>2. h \in Seq(Entry)
    BY DEF TypeOK
  <2> HIDE DEF h
  <2>3. /\ Len(h) \in Nat /\ Len(s) \in Nat /\ DOMAIN h = 1 .. Len(h)
        /\ DOMAIN (h \o s) = 1 .. Len(h) + Len(s)
        /\ \A m \in 1 .. Len(h) + Len(s) :
             \/ m \in 1 .. Len(h) /\ (h \o s)[m] = h[m]
             \/ m - Len(h) \in 1 .. Len(s) /\ (h \o s)[m] = s[m - Len(h)]
    BY <1>4, <2>2, HandedOn
  <2>4. \A m \in 1 .. Len(s) : s[m] \in b /\ s[m] \notin oplog[n] /\ s[m] \in Entry
    BY <1>2, <1>4
  <2>5. \A m \in DOMAIN (h \o s) : (h \o s)[m] \in oplog'[n]
    BY <1>1, <1>8, <2>3, <2>4
  <2>6. OneBatch'
    <3>1. ASSUME NEW m \in Node, NEW c \in batches'[m], NEW d \in batches'[m] PROVE c = d
      BY <1>1 DEF OneBatch
    <3>2. ASSUME NEW m \in Node PROVE cachedEntries'[m] \subseteq UNION batches'[m]
      BY <1>1 DEF OneBatch
    <3>3. ASSUME NEW m \in Node, NEW k \in DOMAIN handled'[m] PROVE handled'[m][k] \in oplog'[m]
      <4>1. CASE m = n
        BY <2>1, <2>5, <4>1
      <4>2. CASE m # n
        BY <1>1, <1>7, <4>2 DEF OneBatch
      <4> QED
        BY <4>1, <4>2
    <3> QED
      BY <3>1, <3>2, <3>3 DEF OneBatch
  <2>7. ASSUME NEW m \in DOMAIN (h \o s), NEW k \in DOMAIN (h \o s), (h \o s)[m] \in past[(h \o s)[k]]
        PROVE  m < k
    <3>1. CASE m \in 1 .. Len(h) /\ (h \o s)[m] = h[m] /\ k \in 1 .. Len(h) /\ (h \o s)[k] = h[k]
      BY <1>9, <2>3, <2>7, <3>1
    <3>2. CASE m \in 1 .. Len(h) /\ k - Len(h) \in 1 .. Len(s)
      BY <2>3, <3>2
    <3>3. ASSUME m - Len(h) \in 1 .. Len(s), (h \o s)[m] = s[m - Len(h)],
                 k \in 1 .. Len(h), (h \o s)[k] = h[k]
          PROVE  FALSE
      BY <1>8, <2>3, <2>4, <2>7, <3>3
    <3>4. CASE /\ m - Len(h) \in 1 .. Len(s) /\ (h \o s)[m] = s[m - Len(h)]
               /\ k - Len(h) \in 1 .. Len(s) /\ (h \o s)[k] = s[k - Len(h)]
      <4> DEFINE i == m - Len(h)
                 j == k - Len(h)
      <4>1. i \in 1 .. Len(s) /\ j \in 1 .. Len(s) /\ s[i] \in past[s[j]]
        BY <2>7, <3>4
      <4>2. m \in Int /\ k \in Int
        BY <2>3
      <4>3. i < j => m < k
        BY <2>3, <4>2
      <4> HIDE DEF i, j
      <4>4. s[i] \in Entry /\ s[j] \in Entry
        BY <2>4, <4>1
      <4>5. time[s[i]] < time[s[j]] /\ time[s[i]] \in Nat /\ time[s[j]] \in Nat
        BY <4>1, <4>4 DEF PastsAreEarlier, TypeOK
      <4>6. i # j
        BY <4>5
      <4>7. ~(j < i)
        <5>1. j < i => time[s[j]] <= time[s[i]]
          BY <1>4, <4>1
        <5> QED
          BY <4>5, <5>1
      <4>8. i \in Int /\ j \in Int
        BY <2>3, <4>1
      <4> QED
        BY <4>3, <4>6, <4>7, <4>8
    <3> QED
      BY <2>3, <3>1, <3>2, <3>3, <3>4
  <2>8. CausalOrder'
    BY <1>1, <1>7, <2>1, <2>7 DEF CausalOrder
  <2> QED
    BY <1>5, <1>6, <2>6, <2>8
<1> QED
  BY <1>10, <1>11

\* Every step keeps the order, as long as one batch is fetched at a time.
LEMMA CausalKept == ASSUME Overlap = FALSE PROVE CausalInv /\ [Next]_vars => CausalInv'
<1> SUFFICES ASSUME CausalInv, [Next]_vars
             PROVE  PastsAreEarlier' /\ CopiesAreClosed' /\ OneBatch' /\ CausalOrder'
  BY TypesKept DEF CausalInv
<1> USE DEF CausalInv, ReplicationTypes
<1>1. ASSUME UNCHANGED <<oplog, time, past, batches, cachedEntries, handled>>
      PROVE  PastsAreEarlier' /\ CopiesAreClosed' /\ OneBatch' /\ CausalOrder'
  BY <1>1 DEF PastsAreEarlier, CopiesAreClosed, OneBatch, CausalOrder
<1>2. CASE UNCHANGED vars
  BY <1>1, <1>2 DEF vars
<1>3. ASSUME NEW n \in Node, Connect(n) \/ Opened(n)
      PROVE  PastsAreEarlier' /\ CopiesAreClosed' /\ OneBatch' /\ CausalOrder'
  BY <1>1, <1>3 DEF Connect, Opened
<1>4. ASSUME NEW n \in Node, Closed(n)
      PROVE  PastsAreEarlier' /\ CopiesAreClosed' /\ OneBatch' /\ CausalOrder'
  <2>1. /\ batches'[n] = {} /\ cachedEntries'[n] = {}
        /\ \A m \in Node : m # n => batches'[m] = batches[m] /\ cachedEntries'[m] = cachedEntries[m]
        /\ UNCHANGED <<oplog, time, past, handled>>
    BY <1>4 DEF Closed, TypeOK
  <2>2. PastsAreEarlier'
    BY <2>1 DEF PastsAreEarlier
  <2>3. CopiesAreClosed'
    BY <2>1 DEF CopiesAreClosed
  <2>4. OneBatch'
    BY <2>1 DEF OneBatch
  <2>5. CausalOrder'
    BY <2>1 DEF CausalOrder
  <2> QED
    BY <2>2, <2>3, <2>4, <2>5
<1>5. ASSUME NEW n \in Node, NEW e \in Entry, Progress(n, e)
      PROVE  PastsAreEarlier' /\ CopiesAreClosed' /\ OneBatch' /\ CausalOrder'
  <2>1. /\ e \in UNION batches[n] /\ cachedEntries'[n] = cachedEntries[n] \union {e}
        /\ \A m \in Node : m # n => cachedEntries'[m] = cachedEntries[m]
        /\ UNCHANGED <<oplog, time, past, batches, handled>>
    BY <1>5 DEF Progress, TypeOK
  <2>2. PastsAreEarlier' /\ CopiesAreClosed' /\ CausalOrder'
    BY <2>1 DEF PastsAreEarlier, CopiesAreClosed, CausalOrder
  <2>3. OneBatch'
    BY <2>1 DEF OneBatch
  <2> QED
    BY <2>2, <2>3
<1>6. ASSUME NEW n \in Node,
             \/ \E e \in Entry : AddEvent(n, e)
             \/ \E from \in Node : Replicate(n, from)
             \/ \E b \in batches[n] : Replicated(n, b)
      PROVE  PastsAreEarlier' /\ CopiesAreClosed' /\ OneBatch' /\ CausalOrder'
  BY <1>6, AddEventKeepsOrder, ReplicateKeepsOrder, ReplicatedKeepsOrder
<1> QED
  BY <1>2, <1>3, <1>4, <1>5, <1>6 DEF Next, OrbitDB

\* Initially there is nothing to be in order.
LEMMA CausalInitially == Init => CausalInv
<1> SUFFICES ASSUME Init PROVE CausalInv
  OBVIOUS
<1>1. PastsAreEarlier /\ CopiesAreClosed /\ OneBatch /\ CausalOrder
  BY DEF Init, PastsAreEarlier, CopiesAreClosed, OneBatch, CausalOrder
<1> QED
  BY <1>1, TypesInitially DEF CausalInv

\* Every node handles a message after those that its writer had seen, as long as no batch
\* starts before the one before is complete (EventNotifier sorts what one batch brought).
THEOREM CausalOrderKept == ASSUME Overlap = FALSE PROVE Spec => []CausalOrder
<1>1. CausalInv => CausalOrder
  BY DEF CausalInv
<1>2. CausalInv /\ [Next]_vars => CausalInv'
  BY CausalKept
<1> QED
  BY <1>1, <1>2, CausalInitially, PTL DEF Spec
=============================================================================
