--------------------------- MODULE DashboardProofs ---------------------------
(***************************************************************************)
(* Theorems about the dashboard, for any experiments, viewers, capacities  *)
(* and bounds.                                                             *)
(***************************************************************************)
EXTENDS Dashboard, FiniteSetTheorems, TLAPS

-----------------------------------------------------------------------------
(* The broker.                                                              *)

Viewer == [at : {"off", "register", "serve", "leave", "gone"}, buffer : Nat, closed : BOOLEAN]
BrokerTypes ==
    /\ broker \in [running : BOOLEAN, clients : SUBSET Viewers, queue : Nat, panic : BOOLEAN]
    /\ viewer \in [Viewers -> Viewer]
    /\ stopping \in {"no", "draining", "done"}

\* NoPanic alone is not inductive.  While the loop runs, only the broker itself
\* has closed channels, and only those of viewers that it has let go.
ClosedOnce ==
    broker.running =>
        \A c \in Viewers : viewer[c].closed => viewer[c].at = "gone" /\ c \notin broker.clients

BrokerInv == BrokerTypes /\ NoPanic /\ ClosedOnce

others == <<now, changes, crs, rows, sync>>
LEMMA BrokerInit == Init => BrokerInv
BY DEF Init, BrokerInv, BrokerTypes, NoPanic, ClosedOnce, Viewer

LEMMA BrokerQuiet ==
    BrokerInv /\ UNCHANGED <<broker, viewer, stopping>> => BrokerInv'
BY DEF BrokerInv, BrokerTypes, NoPanic, ClosedOnce, Viewer

LEMMA BrokerStep == BrokerInv /\ [Next]_vars => BrokerInv'
<1> SUFFICES ASSUME BrokerInv, [Next]_vars PROVE BrokerInv'
  OBVIOUS
<1> USE SizesAssumption
<1>1. CASE UNCHANGED vars
  BY <1>1, BrokerQuiet DEF vars
<1>2. CASE Tick \/ \E n \in Experiments : Create(n) \/ Proceed(n) \/ Delete(n)
  <2>1. UNCHANGED <<broker, viewer, stopping>>
    BY <1>2 DEF Tick, Create, Proceed, Delete, Change
  <2> QED
    BY <2>1, BrokerQuiet
<1>3. CASE SyncOnce \/ HandleCREvent
  BY <1>3, BrokerQuiet DEF SyncOnce, HandleCREvent
<1>4. CASE Broadcast
  BY <1>4 DEF Broadcast, BrokerInv, BrokerTypes, NoPanic, ClosedOnce, Viewer
<1>5. ASSUME NEW c \in Viewers, Register(c) PROVE BrokerInv'
  BY <1>5 DEF Register, BrokerInv, BrokerTypes, NoPanic, ClosedOnce, Viewer
<1>6. ASSUME NEW c \in Viewers, Unregister(c) PROVE BrokerInv'
  BY <1>6 DEF Unregister, Close, BrokerInv, BrokerTypes, NoPanic, ClosedOnce, Viewer
<1>7. CASE PassOn
  <2>1. \A c \in Viewers : /\ viewer'[c] \in Viewer
                           /\ viewer'[c].closed = viewer[c].closed /\ viewer'[c].at = viewer[c].at
    <3> TAKE c \in Viewers
    <3>1. viewer[c] \in Viewer
      BY DEF BrokerInv, BrokerTypes
    <3>2. viewer'[c] = viewer[c] \/ viewer'[c] = [viewer[c] EXCEPT !.buffer = @ + 1]
      BY <1>7 DEF PassOn
    <3> QED
      BY <3>1, <3>2 DEF Viewer
  <2>2. viewer' \in [Viewers -> Viewer]
    BY <2>1, <1>7 DEF PassOn
  <2>3. broker'.panic = FALSE /\ broker' \in [running : BOOLEAN, clients : SUBSET Viewers, queue : Nat, panic : BOOLEAN]
    <3>1. ~\E c \in broker.clients : viewer[c].closed
      BY <1>7 DEF PassOn, BrokerInv, BrokerTypes, ClosedOnce
    <3>2. (broker.panic \/ \E c \in broker.clients : viewer[c].closed) = FALSE
      BY <3>1 DEF BrokerInv, NoPanic
    <3>3. broker' = [broker EXCEPT !.queue = @ - 1, !.panic = FALSE] /\ broker.queue > 0
      BY <1>7, <3>2, Zenon DEF PassOn
    <3> DEFINE State == [running : BOOLEAN, clients : SUBSET Viewers, queue : Nat, panic : BOOLEAN]
    <3> DEFINE taken == [broker EXCEPT !.queue = @ - 1]
    <3>4. taken \in State
      BY <3>3 DEF BrokerInv, BrokerTypes
    <3>5. broker' = [taken EXCEPT !.panic = FALSE]
      BY <3>3, Zenon
    <3> HIDE DEF taken
    <3> QED
      BY <3>4, <3>5
  <2>4. broker'.running = broker.running /\ broker'.clients = broker.clients /\ stopping' = stopping
    BY <1>7 DEF PassOn, BrokerInv, BrokerTypes
  <2> QED
    BY <2>1, <2>2, <2>3, <2>4 DEF BrokerInv, BrokerTypes, NoPanic, ClosedOnce
<1>8. CASE Stopped
  BY <1>8 DEF Stopped, Close, BrokerInv, BrokerTypes, NoPanic, ClosedOnce, Viewer
<1>9. CASE Stop \/ Drain
  BY <1>9 DEF Stop, Drain, BrokerInv, BrokerTypes, NoPanic, ClosedOnce
<1>10. ASSUME NEW c \in Viewers, Connect(c) \/ Serving(c) \/ Disconnect(c) PROVE BrokerInv'
  <2>1. viewer[c] \in Viewer
    BY DEF BrokerInv, BrokerTypes
  <2>2. PICK new \in Viewer : /\ Handler(c, new) /\ new.closed = viewer[c].closed
                              /\ viewer[c].at # "gone"
    <3>1. CASE Connect(c) \/ Disconnect(c)
      BY <2>1, <3>1 DEF Connect, Disconnect, Viewer
    <3>2. CASE Receive(c)
      BY <2>1, <3>2 DEF Receive, Viewer
    <3>3. CASE LeaveStopped(c)
      BY <2>1, <3>3 DEF LeaveStopped, Viewer
    <3> QED
      BY <1>10, <3>1, <3>2, <3>3 DEF Serving
  <2> QED
    BY <2>2 DEF Handler, BrokerInv, BrokerTypes, NoPanic, ClosedOnce
<1> QED
  BY <1>1, <1>2, <1>3, <1>4, <1>5, <1>6, <1>7, <1>8, <1>9, <1>10 DEF Next, Syncing, Brokering

\* The broker never closes a channel twice and never sends to a closed one
\* (sse.go: the loop of Start with its register, unregister, message and stop).
THEOREM NoPanicTheorem == Spec => []NoPanic
<1>1. BrokerInv => NoPanic
  BY DEF BrokerInv
<1> QED
  BY BrokerInit, BrokerStep, <1>1, PTL DEF Spec

-----------------------------------------------------------------------------
(* The store.                                                               *)

AllPhases == {"Pending", "Observing", "Complete"}
CR == [created : Nat \cup {-1}, started : Nat \cup {-1}, phase : AllPhases]
Row == [name : Experiments, start : Nat, phase : AllPhases]
StartOf(n) == FromCR(n, crs[n]).start

StoreTypes ==
    /\ now \in Nat /\ crs \in [Experiments -> CR]
    /\ rows \in SUBSET Row
    /\ sync \in [at : {"idle", "upsert", "broadcast"}, listed : Seq(Row), i : Nat, whole : BOOLEAN]
    /\ sync.at = "idle" => sync = Nothing
    /\ sync.at # "idle" => sync.i \in 1..Len(sync.listed)

\* An experiment was created, and started, before now.
CRsPast ==
    \A n \in Experiments : crs[n] # NoCR => /\ crs[n].created \in 0..now
                                            /\ crs[n].started <= now

\* Rows and listed experiments are not younger than the experiment is now: an
\* experiment that is created anew, or started, gets a later start.
StartsPast ==
    /\ \A r \in rows : r.start <= now /\ (crs[r.name] # NoCR => r.start <= StartOf(r.name))
    /\ \A k \in DOMAIN sync.listed :
          LET exp == sync.listed[k]
          IN  exp.start <= now /\ (crs[exp.name] # NoCR => exp.start <= StartOf(exp.name))

\* No row is younger than what was listed of its experiment.
ListedLast ==
    \A r \in rows : \A k \in DOMAIN sync.listed :
        r.name = sync.listed[k].name => r.start <= sync.listed[k].start

ListedOnce == \A j, k \in DOMAIN sync.listed : sync.listed[j].name = sync.listed[k].name => j = k
RowsUnique == \A r, q \in rows : SameId(r, q) => r = q

\* What the sync has got through without an error is in the store.
Stored ==
    sync.at # "idle" /\ sync.whole =>
        \A k \in DOMAIN sync.listed :
            k < sync.i \/ (k = sync.i /\ sync.at = "broadcast") => sync.listed[k] \in rows

StoreInv == StoreTypes /\ CRsPast /\ StartsPast /\ ListedLast /\ ListedOnce /\ RowsUnique /\ Stored

LEMMA NothingType ==
    /\ Nothing \in [at : {"idle", "upsert", "broadcast"}, listed : Seq(Row), i : Nat, whole : BOOLEAN]
    /\ Nothing.at = "idle" /\ DOMAIN Nothing.listed = {} /\ Nothing.whole = TRUE
  BY DEF Nothing

LEMMA StoreInit == Init => StoreInv
<1> SUFFICES ASSUME Init PROVE StoreInv
  OBVIOUS
<1>1. NoCR \in CR
  BY DEF NoCR, CR, AllPhases
<1>2. sync = Nothing
  BY DEF Init
<1> QED
  BY <1>1, <1>2, NothingType DEF Init, StoreInv, StoreTypes, CRsPast, StartsPast, ListedLast, ListedOnce,
        RowsUnique, Stored

LEMMA StoreQuiet ==
    StoreInv /\ UNCHANGED <<now, crs, rows, sync>> => StoreInv'
BY DEF StoreInv, StoreTypes, CRsPast, StartsPast, ListedLast, ListedOnce, RowsUnique, Stored, StartOf

\* The clock and the cluster go on: starts only become later.
LEMMA StoreChange ==
  ASSUME StoreInv, NEW n \in Experiments, UNCHANGED <<now, rows, sync>>,
         crs'[n] \in CR, crs' = [crs EXCEPT ![n] = crs'[n]],
         crs'[n] # NoCR => /\ crs'[n].created \in 0..now /\ crs'[n].started <= now
                           /\ \/ FromCR(n, crs'[n]).start = now
                              \/ crs[n] # NoCR /\ FromCR(n, crs'[n]).start = StartOf(n)
  PROVE  StoreInv'
<1>1. crs' \in [Experiments -> CR] /\ \A m \in Experiments \ {n} : crs'[m] = crs[m]
  BY DEF StoreInv, StoreTypes
<1>2. CRsPast'
  BY <1>1 DEF StoreInv, CRsPast
<1>3. ASSUME NEW e \in Row, e.start <= now, crs[e.name] # NoCR => e.start <= StartOf(e.name),
             crs'[e.name] # NoCR
      PROVE  e.start <= StartOf(e.name)'
  <2>1. e.name \in Experiments
    BY DEF Row
  <2>2. CASE e.name = n
    <3>1. StartOf(e.name)' = FromCR(n, crs'[n]).start
      BY <1>1, <2>2 DEF StartOf
    <3> QED
      BY <1>1, <1>3, <2>2, <3>1
  <2>3. CASE e.name # n
    BY <1>1, <1>3, <2>1, <2>3 DEF StartOf
  <2> QED
    BY <2>2, <2>3
<1>4. StartsPast'
  <2>1. \A k \in DOMAIN sync.listed : sync.listed[k] \in Row
    BY DEF StoreInv, StoreTypes
  <2>2. \A r \in rows : r \in Row
    BY DEF StoreInv, StoreTypes
  <2> QED
    BY <1>3, <2>1, <2>2 DEF StoreInv, StartsPast
<1> QED
  BY <1>1, <1>2, <1>4 DEF StoreInv, StoreTypes, ListedLast, ListedOnce, RowsUnique, Stored

LEMMA StoreTick == StoreInv /\ Tick => StoreInv'
<1> SUFFICES ASSUME StoreInv, Tick PROVE StoreInv'
  OBVIOUS
<1>1. now \in Nat /\ now' = now + 1 /\ UNCHANGED <<crs, rows, sync>>
  BY DEF Tick, StoreInv, StoreTypes
<1>2. StoreTypes'
  BY <1>1 DEF StoreInv, StoreTypes
<1>3. CRsPast'
  BY <1>1 DEF StoreInv, StoreTypes, CRsPast, CR
<1>4. StartsPast'
  <2>1. \A k \in DOMAIN sync.listed : sync.listed[k] \in Row
    BY DEF StoreInv, StoreTypes
  <2>2. \A n : StartOf(n)' = StartOf(n)
    BY <1>1 DEF StartOf
  <2> QED
    BY <1>1, <2>1, <2>2 DEF StoreInv, StoreTypes, StartsPast, Row
<1> QED
  BY <1>1, <1>2, <1>3, <1>4 DEF StoreInv, ListedLast, ListedOnce, RowsUnique, Stored

LEMMA StoreCluster ==
  ASSUME StoreInv, NEW n \in Experiments, Create(n) \/ Proceed(n) \/ Delete(n)
  PROVE  StoreInv'
<1>1. crs[n] \in CR /\ now \in Nat
  BY DEF StoreInv, StoreTypes
<1>2. CASE Create(n)
  <2> DEFINE cr == [NoCR EXCEPT !.created = now]
  <2>1. cr \in CR /\ cr.created = now /\ cr.started = -1
    BY <1>1 DEF CR, NoCR, AllPhases
  <2>2. FromCR(n, cr).start = now
    BY <2>1 DEF FromCR
  <2>3. crs' = [crs EXCEPT ![n] = cr] /\ crs'[n] = cr /\ UNCHANGED <<now, rows, sync>>
    BY <1>2 DEF Create, Change, StoreInv, StoreTypes
  <2>4. cr.created \in 0..now /\ cr.started <= now
    BY <1>1, <2>1
  <2> HIDE DEF cr
  <2>5. crs'[n] # NoCR => /\ crs'[n].created \in 0..now /\ crs'[n].started <= now
                         /\ \/ FromCR(n, crs'[n]).start = now
                            \/ crs[n] # NoCR /\ FromCR(n, crs'[n]).start = StartOf(n)
    BY <2>2, <2>3, <2>4
  <2>6. crs'[n] \in CR /\ crs' = [crs EXCEPT ![n] = crs'[n]]
    BY <2>1, <2>3
  <2> QED
    BY <2>3, <2>5, <2>6, StoreChange
<1>3. CASE Proceed(n)
  <2>1. PICK k \in 2..Len(Phases) :
            /\ crs[n].phase = Phases[k-1]
            /\ Change(n, [crs[n] EXCEPT !.phase = Phases[k],
                            !.started = IF Phases[k] = "Observing" THEN now ELSE @])
    BY <1>3 DEF Proceed
  <2>2. Phases[k] \in AllPhases
    BY <2>1 DEF Phases, AllPhases
  <2> DEFINE started == IF Phases[k] = "Observing" THEN now ELSE crs[n].started
             cr == [crs[n] EXCEPT !.phase = Phases[k], !.started = started]
  <2>3. /\ cr = [created |-> crs[n].created, started |-> started, phase |-> Phases[k]]
        /\ started \in Nat \cup {-1}
    <3> DEFINE one == [crs[n] EXCEPT !.phase = Phases[k]]
    <3>1. one = [created |-> crs[n].created, started |-> crs[n].started, phase |-> Phases[k]]
          /\ crs[n].started \in Nat \cup {-1}
      BY <1>1 DEF CR
    <3>2. cr = [one EXCEPT !.started = started]
      BY Zenon
    <3> HIDE DEF one
    <3> QED
      BY <1>1, <3>1, <3>2
  <2>4. cr \in CR
    BY <1>1, <2>2, <2>3 DEF CR
  <2>5. crs[n] # NoCR /\ crs[n].created \in 0..now /\ crs[n].started <= now
    BY <1>3 DEF Proceed, StoreInv, CRsPast
  <2>6. FromCR(n, cr).start = now \/ FromCR(n, cr).start = StartOf(n)
    BY <1>1, <2>3 DEF FromCR, StartOf
  <2>7. crs' = [crs EXCEPT ![n] = cr] /\ crs'[n] = cr /\ UNCHANGED <<now, rows, sync>>
    BY <2>1 DEF Change, StoreInv, StoreTypes
  <2>8. cr.created \in 0..now /\ cr.started <= now
    BY <1>1, <2>3, <2>5
  <2>9. cr # NoCR => /\ cr.created \in 0..now /\ cr.started <= now
                     /\ \/ FromCR(n, cr).start = now
                        \/ crs[n] # NoCR /\ FromCR(n, cr).start = StartOf(n)
    BY <2>5, <2>6, <2>8
  <2> HIDE DEF cr
  <2>10. crs'[n] # NoCR => /\ crs'[n].created \in 0..now /\ crs'[n].started <= now
                           /\ \/ FromCR(n, crs'[n]).start = now
                              \/ crs[n] # NoCR /\ FromCR(n, crs'[n]).start = StartOf(n)
    BY <2>7, <2>9
  <2>11. crs'[n] \in CR /\ crs' = [crs EXCEPT ![n] = crs'[n]]
    BY <2>4, <2>7
  <2> QED
    BY <2>7, <2>10, <2>11, StoreChange
<1>4. CASE Delete(n)
  <2>1. NoCR \in CR
    BY DEF CR, NoCR, AllPhases
  <2>2. crs' = [crs EXCEPT ![n] = NoCR] /\ crs'[n] = NoCR /\ UNCHANGED <<now, rows, sync>>
    BY <1>4 DEF Delete, Change, StoreInv, StoreTypes
  <2> QED
    BY <2>1, <2>2, StoreChange
<1> QED
  BY <1>2, <1>3, <1>4

LEMMA StoreSyncOnce == StoreInv /\ SyncOnce => StoreInv'
<1> SUFFICES ASSUME StoreInv, SyncOnce PROVE StoreInv'
  OBVIOUS
<1> DEFINE S == {n \in Experiments : crs[n] # NoCR}
           D == 1..Cardinality(S)
<1>1. PICK order \in SetToSeqs(S) :
          sync' = IF order = <<>> THEN Nothing ELSE
                  [Nothing EXCEPT !.at = "upsert",
                                  !.listed = [k \in DOMAIN order |-> FromCR(order[k], crs[order[k]])]]
  BY DEF SyncOnce
<1>2. Cardinality(S) \in Nat
  BY SizesAssumption, FS_Subset, FS_CardinalityType
<1>3. order \in [D -> S] /\ \A i, j \in D : i # j => order[i] # order[j]
  BY <1>1 DEF SetToSeqs
<1>4. UNCHANGED <<now, crs, rows>>
  BY DEF SyncOnce
<1>5. CASE order = <<>>
  <2>1. sync' = Nothing
    BY <1>1, <1>5
  <2> QED
    BY <1>4, <2>1, NothingType DEF StoreInv, StoreTypes, CRsPast, StartsPast, ListedLast, ListedOnce, RowsUnique,
                      Stored, StartOf
<1>6. CASE order # <<>>
  <2> DEFINE listed == [k \in D |-> FromCR(order[k], crs[order[k]])]
  <2>1. sync' = [at |-> "upsert", listed |-> listed, i |-> 1, whole |-> TRUE]
    BY <1>1, <1>3, <1>6 DEF Nothing
  <2>2. ASSUME NEW k \in D
        PROVE  /\ listed[k] \in Row /\ listed[k].name = order[k]
               /\ listed[k].start = StartOf(order[k]) /\ listed[k].start <= now
    <3>1. order[k] \in Experiments /\ crs[order[k]] # NoCR /\ crs[order[k]] \in CR
      BY <1>3 DEF StoreInv, StoreTypes
    <3>2. crs[order[k]].created \in 0..now /\ crs[order[k]].started <= now
      BY <3>1 DEF StoreInv, CRsPast
    <3> QED
      BY <3>1, <3>2 DEF CR, Row, FromCR, StartOf, StoreInv, StoreTypes
  <2>3. listed \in Seq(Row) /\ Len(listed) = Cardinality(S) /\ DOMAIN listed = D
    BY <1>2, <2>2
  <2>4. 1 \in 1..Len(listed)
    BY <1>2, <1>3, <1>6, <2>3
  <2>5. StoreTypes'
    BY <1>4, <2>1, <2>3, <2>4 DEF StoreInv, StoreTypes
  <2>6. StartsPast'
    <3>1. \A n : StartOf(n)' = StartOf(n)
      BY <1>4 DEF StartOf
    <3>2. sync'.listed = listed
      BY <2>1
    <3>3. \A k \in DOMAIN listed : listed[k].start <= now /\ listed[k].start <= StartOf(listed[k].name)
      <4> TAKE k \in DOMAIN listed
      <4>1. k \in D
        BY <2>3
      <4>2. StartOf(order[k]) <= StartOf(order[k])
        BY <2>2, <4>1 DEF Row
      <4> QED
        BY <2>2, <4>1, <4>2
    <3> HIDE DEF listed
    <3> QED
      BY <1>4, <3>1, <3>2, <3>3 DEF StoreInv, StartsPast
  <2>7. ListedLast' /\ ListedOnce'
    <3>1. \A k \in D : crs[order[k]] # NoCR
      BY <1>3
    <3> QED
      BY <1>3, <1>4, <2>1, <2>2, <2>3, <3>1 DEF StoreInv, StartsPast, ListedLast, ListedOnce
  <2>8. Stored'
    BY <1>2, <1>4, <2>1, <2>3 DEF Stored
  <2> QED
    BY <1>4, <2>5, <2>6, <2>7, <2>8 DEF StoreInv, CRsPast, RowsUnique
<1> QED
  BY <1>5, <1>6

\* What the loop goes on with after an item.
LEMMA Advance ==
  ASSUME StoreInv, sync.at # "idle"
  PROVE  \/ NextItem = Nothing /\ sync.i = Len(sync.listed)
         \/ /\ NextItem = [sync EXCEPT !.at = "upsert", !.i = @ + 1]
            /\ sync.i + 1 \in 1..Len(sync.listed)
BY DEF StoreInv, StoreTypes, NextItem

LEMMA StoreIdle ==
  ASSUME StoreInv, sync' = Nothing, UNCHANGED <<now, crs, rows>>
  PROVE  StoreInv'
BY NothingType DEF StoreInv, StoreTypes, CRsPast, StartsPast, ListedLast, ListedOnce, RowsUnique,
                   Stored, StartOf

LEMMA StoreUpsert ==
  ASSUME StoreInv, sync.at = "upsert", rows' = Upsert(Item), sync' = [sync EXCEPT !.at = "broadcast"],
         UNCHANGED <<now, crs>>
  PROVE  StoreInv'
<1> DEFINE k == sync.i
           exp == sync.listed[k]
<1>1. k \in DOMAIN sync.listed /\ exp \in Row /\ Item = exp
  BY DEF StoreInv, StoreTypes, Item
<1>2. /\ sync'.at = "broadcast" /\ sync'.listed = sync.listed /\ sync'.whole = sync.whole /\ sync'.i = k
  BY DEF StoreInv, StoreTypes
<1>3. rows' = {r \in rows : ~SameId(r, exp)} \cup {exp}
  BY <1>1 DEF Upsert
<1> HIDE DEF exp, k
<1>4. StoreTypes'
  BY <1>1, <1>2, <1>3 DEF StoreInv, StoreTypes, exp, k
<1>5. StartsPast'
  <2>1. \A n : StartOf(n)' = StartOf(n)
    BY DEF StartOf
  <2>2. exp.start <= now /\ (crs[exp.name] # NoCR => exp.start <= StartOf(exp.name))
    BY <1>1 DEF StoreInv, StartsPast, exp
  <2> QED
    BY <1>2, <1>3, <2>1, <2>2 DEF StoreInv, StartsPast
<1>6. ListedLast'
  <2>1. ASSUME NEW j \in DOMAIN sync.listed, exp.name = sync.listed[j].name
        PROVE  exp.start <= sync.listed[j].start
    <3>1. j = k
      BY <1>1, <2>1 DEF StoreInv, ListedOnce, exp
    <3> QED
      BY <1>1, <3>1 DEF exp, Row
  <2> QED
    BY <1>2, <1>3, <2>1 DEF StoreInv, ListedLast
<1>7. RowsUnique'
  BY <1>3 DEF StoreInv, RowsUnique, SameId
<1>8. Stored'
  <2>1. ASSUME NEW j \in DOMAIN sync.listed, j < k, sync.whole
        PROVE  sync.listed[j] \in rows'
    <3>1. sync.listed[j] \in rows
      BY <2>1 DEF StoreInv, Stored, k
    <3>2. sync.listed[j].name # exp.name
      BY <1>1, <2>1 DEF StoreInv, StoreTypes, ListedOnce, exp, k
    <3> QED
      BY <1>3, <3>1, <3>2 DEF SameId
  <2>2. sync.listed[k] \in rows'
    BY <1>3 DEF exp
  <2> QED
    BY <1>2, <2>1, <2>2 DEF Stored
<1> QED
  BY <1>2, <1>4, <1>5, <1>6, <1>7, <1>8 DEF StoreInv, CRsPast, ListedOnce

LEMMA StoreNextItem ==
  ASSUME StoreInv, sync.at # "idle", UNCHANGED <<now, crs, rows>>,
         \/ sync.at = "broadcast" /\ sync' = NextItem
         \/ sync.at = "upsert" /\ sync' = IF NextItem = Nothing THEN Nothing
                                          ELSE [NextItem EXCEPT !.whole = FALSE]
  PROVE  StoreInv'
<1>1. CASE NextItem = Nothing
  BY <1>1, StoreIdle
<1>2. CASE NextItem # Nothing
  <2>1. NextItem = [sync EXCEPT !.at = "upsert", !.i = @ + 1] /\ sync.i + 1 \in 1..Len(sync.listed)
    BY <1>2, Advance
  <2>2. /\ NextItem.at = "upsert" /\ NextItem.listed = sync.listed /\ NextItem.i = sync.i + 1
        /\ NextItem.whole = sync.whole
        /\ NextItem \in [at : {"upsert"}, listed : Seq(Row), i : Nat, whole : BOOLEAN]
    <3> DEFINE turned == [sync EXCEPT !.at = "upsert"]
    <3>1. turned = [at |-> "upsert", listed |-> sync.listed, i |-> sync.i, whole |-> sync.whole]
          /\ sync.listed \in Seq(Row) /\ sync.i \in Nat /\ sync.whole \in BOOLEAN
      BY DEF StoreInv, StoreTypes
    <3>2. NextItem = [turned EXCEPT !.i = sync.i + 1]
      BY <2>1, Zenon
    <3> HIDE DEF turned
    <3> QED
      BY <3>1, <3>2
  <2>3. /\ sync' \in [at : {"upsert"}, listed : Seq(Row), i : Nat, whole : BOOLEAN]
        /\ sync'.at = "upsert" /\ sync'.listed = sync.listed /\ sync'.i = sync.i + 1
        /\ sync'.whole => sync.whole /\ sync.at = "broadcast"
    BY <1>2, <2>2
  <2>4. StoreTypes'
    BY <2>1, <2>3 DEF StoreInv, StoreTypes
  <2>5. StartsPast' /\ ListedLast' /\ ListedOnce'
    BY <2>3 DEF StoreInv, StartsPast, ListedLast, ListedOnce, StartOf
  <2>6. Stored'
    BY <2>1, <2>3 DEF StoreInv, StoreTypes, Stored
  <2> QED
    BY <2>4, <2>5, <2>6 DEF StoreInv, CRsPast, RowsUnique
<1> QED
  BY <1>1, <1>2

LEMMA StoreStep == StoreInv /\ [Next]_vars => StoreInv'
<1> SUFFICES ASSUME StoreInv, [Next]_vars PROVE StoreInv'
  OBVIOUS
<1>1. CASE UNCHANGED vars
  BY <1>1, StoreQuiet DEF vars
<1>2. CASE Tick \/ \E n \in Experiments : Create(n) \/ Proceed(n) \/ Delete(n)
  BY <1>2, StoreTick, StoreCluster
<1>3. CASE SyncOnce
  BY <1>3, StoreSyncOnce
<1>4. CASE HandleCREvent
  BY <1>4, StoreUpsert, StoreNextItem DEF HandleCREvent
<1>5. CASE Broadcast
  BY <1>5, StoreNextItem DEF Broadcast
<1>6. CASE \/ Brokering \/ Stopped \/ Stop \/ Drain
           \/ \E c \in Viewers : Connect(c) \/ Serving(c) \/ Disconnect(c)
  <2>1. UNCHANGED <<now, crs, rows, sync>>
    BY <1>6 DEF Brokering, PassOn, Register, Unregister, Stopped, Stop, Drain, Connect, Serving,
                Receive, LeaveStopped, Disconnect, Handler
  <2> QED
    BY <2>1, StoreQuiet
<1> QED
  BY <1>1, <1>2, <1>3, <1>4, <1>5, <1>6 DEF Next, Syncing

\* Get finds the youngest row of a name, and that is the listed one.
LEMMA StoreShowsCurrent == StoreInv => GetShowsCurrent
<1> SUFFICES ASSUME StoreInv, sync.at = "broadcast", sync.whole, sync.i = Len(sync.listed),
                    NEW k \in DOMAIN sync.listed
             PROVE  /\ Get(sync.listed[k].name).phase = sync.listed[k].phase
                    /\ sync.listed[k].phase \in RunningPhases => Get(sync.listed[k].name) \in ListRunning
  BY DEF GetShowsCurrent
<1> DEFINE exp == sync.listed[k]
           own == {r \in rows : r.name = exp.name}
           found == Get(exp.name)
<1>1. exp \in rows /\ exp \in Row
  BY DEF StoreInv, StoreTypes, Stored
<1>2. \A q \in own : q \in Row /\ q.start <= exp.start
  BY DEF StoreInv, StoreTypes, ListedLast
<1>3. \E r \in own : \A q \in own : q.start <= r.start
  BY <1>1, <1>2
<1>4. found = CHOOSE r \in own : \A q \in own : q.start <= r.start
  BY DEF Get
<1> HIDE DEF found, own
<1>5. found \in own /\ \A q \in own : q.start <= found.start
  BY <1>3, <1>4
<1>6. found.start = exp.start
  <2>1. exp \in own
    BY <1>1 DEF own
  <2> QED
    BY <1>1, <1>2, <1>5, <2>1 DEF Row
<1>7. found = exp
  BY <1>1, <1>5, <1>6 DEF StoreInv, RowsUnique, SameId, own
<1> QED
  BY <1>1, <1>7 DEF found, ListRunning

\* After a sync without errors the store answers with what was listed
\* (watcher.go and sqlite.go: SyncOnce, Upsert, Get, ListRunning).
THEOREM GetShowsCurrentTheorem == Spec => []GetShowsCurrent
  BY StoreInit, StoreStep, StoreShowsCurrent, PTL DEF Spec
=============================================================================
