------------------------- MODULE ClientFactoryProofs ------------------------
(***************************************************************************)
(* Proofs about ClientFactory, for any groups, brokers and route history:  *)
(* the types, that only an overtaken heartbeat brings a consumer back, that *)
(* consumers know the queues of the route in the table, that a factory     *)
(* that was shut down is quiet, and that no threads wait for each other in *)
(* a circle.                                                               *)
(***************************************************************************)
EXTENDS ClientFactory, OperatorProofs

(* Where each thread can be, and where a shared procedure takes it back to.*)
AppFlow(g) ==
    /\ pc[g] \in UpdateSteps \cup HeartbeatSteps \cup AppSteps \cup {"ended"}
    /\ pc[g] \in UpdateSteps => back[g] \in {"apBeat", "apPersist"}
    /\ pc[g] \in HeartbeatSteps => back[g] \in {"apStarted", "apRun"}

ServiceFlow ==
    /\ pc["rebalance"] \in RebalanceSteps \cup UpdateSteps \cup {"idle", "ended"}
    /\ pc["rebalance"] \in UpdateSteps => back["rebalance"] \in {"rbIds", "rbRemoved", "rbAsk"}
    /\ pc["route"] \in UpdateSteps \cup {"idle", "ended"}
    /\ pc["route"] \in UpdateSteps => back["route"] = "idle"
    /\ pc["clean"] \in HeartbeatSteps \cup {"idle", "ended"}
    /\ pc["clean"] \in HeartbeatSteps => back["clean"] = "idle"
    /\ pc["persist"] \in UpdateSteps \cup {"psNext", "idle", "ended"}
    /\ pc["persist"] \in UpdateSteps => back["persist"] = "psNext"

FlowInv == ServiceFlow /\ \A g \in Groups : AppFlow(g)

(* A rebalance round that is past its first step has a consumer to do.     *)
RoundInv == pc["rebalance"] \notin {"rbTopic", "idle", "ended"} => left # {}

(* Who holds a lock is where the lock is held.                             *)
LockInv ==
    /\ \A t \in Threads : lockNamesrv = t <=> pc[t] \in {"nsQuery", "nsNeed", "nsApply"}
    /\ \A t \in Threads : lockHeartbeat = t <=> pc[t] \in {"hbPrepare", "hbSend", "unSend"}

TableLockInv ==
    /\ consumerTableLock \in {Nobody, "rebalance", "persist"}
    /\ consumerTableLock = "rebalance" <=> pc["rebalance"] \notin {"idle", "ended"}
    /\ consumerTableLock = "persist" <=> pc["persist"] \notin {"idle", "ended"}

(* m_mutex and m_serviceState: services are not started before start and   *)
(* not after shutdown.                                                     *)
Starting(g) == pc[g] = "apStarted" \/ (pc[g] \in HeartbeatSteps /\ back[g] = "apStarted")

Stopping(g) == pc[g] \in {"apJoinTasks", "apJoinRebalance"}

ServiceInv ==
    /\ \A g \in Groups :
        /\ Starting(g) => mutex = g /\ serviceState = "CREATE_JUST"
        /\ Stopping(g) => mutex = g /\ serviceState = "RUNNING"
        /\ pc[g] = "apJoinRebalance" => \A t \in Tasks : pc[t] = "ended"
    /\ serviceState = "CREATE_JUST" /\ mutex = Nobody => \A t \in Services : pc[t] = "ended"
    /\ serviceState = "SHUTDOWN_ALREADY" => \A t \in Services : pc[t] = "ended"

(* A consumer that sent its unregistration has left the table, and no      *)
(* heartbeat that is being sent names it; a heartbeat that was late when   *)
(* the broker unregistered the consumer is the only one that can name it.  *)
LeftSteps == {"unTry", "unSend", "apShutdown", "apMutex", "apJoinTasks",
              "apJoinRebalance", "ended"}

Gone == unregistered \cup {g \in Groups : <<"unregister", g>> \in late}

OvertakenInv ==
    \A g \in unregistered : g \in registered \/ <<"heartbeat", g>> \in late => g \in overtaken

GhostInv ==
    /\ \A g \in Groups : pc[g] \in LeftSteps => g \notin consumerTable
    /\ \A g \in Gone : pc[g] \in LeftSteps \ {"unTry", "unSend"}
    /\ (\A t \in Threads : pc[t] # "hbSend") => beat = {}
    /\ Gone \cap beat = {}
    /\ OvertakenInv

(* A consumer that is new in the table knows no queues yet.                *)
InfoInv ==
    /\ \A g \in Groups : pc[g] = "apNew" =>
          g \notin consumerTable /\ topicSubscribeInfo[g] = Absent
    /\ \A g \in consumerTable : topicSubscribeInfo[g] \in {Absent, topicRouteTable}

FactoryInv ==
    /\ TypeOK /\ FlowInv /\ RoundInv /\ LockInv /\ TableLockInv
    /\ ServiceInv /\ GhostInv /\ InfoInv

-----------------------------------------------------------------------------
LEMMA ThreadNames ==
    /\ Services \subseteq Threads /\ Groups \subseteq Threads
    /\ {"rebalance", "route", "clean", "persist"} \subseteq Services
    /\ Nobody \notin Threads
    /\ \A g \in Groups : g \notin Services
BY GroupAssumption DEF Threads, Services, Nobody

(* The first consumer in the order of m_consumerTable is one of them.      *)
LEMMA FirstOfIsMember ==
    ASSUME NEW S \in SUBSET Groups, S # {}
    PROVE  FirstOf(S) \in S
<1> DEFINE n == Len(GroupOrder)
           I == {i \in 1 .. n : GroupOrder[i] \in S}
<1>1. DOMAIN GroupOrder = 1 .. n /\ n \in Nat
  BY GroupAssumption
<1>2. I \in SUBSET (0 .. n)
  BY <1>1
<1>3. I # {}
  BY <1>1 DEF Groups, Range
<1>4. First(I) \in I /\ \A i \in I : First(I) <= i
  <2>1. n \in Int
    BY <1>1
  <2> HIDE DEF I, n
  <2> QED
    BY <1>2, <1>3, <2>1, FirstIsLeast
<1>5. \A j \in 1 .. First(I) - 1 : GroupOrder[j] \notin S
  <2> SUFFICES ASSUME NEW j \in 1 .. First(I) - 1, GroupOrder[j] \in S
               PROVE  FALSE
    OBVIOUS
  <2>1. First(I) \in Int /\ First(I) <= n
    BY <1>1, <1>4
  <2>2. j \in I
    BY <1>1, <2>1
  <2> QED
    BY <1>4, <2>1, <2>2
<1>6. \E i \in DOMAIN GroupOrder :
          GroupOrder[i] \in S /\ \A j \in 1 .. i - 1 : GroupOrder[j] \notin S
  BY <1>1, <1>4, <1>5
<1> QED
  BY <1>6 DEF FirstOf

LEMMA FirstRoute ==
    /\ 1 \in DOMAIN RouteHistory
    /\ \A i \in DOMAIN RouteHistory : RouteHistory[i] \in Routes
<1>1. DOMAIN RouteHistory = 1 .. Len(RouteHistory)
  BY RouteAssumption
<1>2. Len(RouteHistory) \in Nat /\ Len(RouteHistory) # 0
  BY RouteAssumption
<1>3. \A i \in 1 .. Len(RouteHistory) : RouteHistory[i] \in (SUBSET Brokers) \ {Absent}
  BY RouteAssumption
<1> QED
  BY <1>1, <1>2, <1>3 DEF Routes

LEMMA InitHolds == Init => FactoryInv
<1> SUFFICES ASSUME Init PROVE FactoryInv
  OBVIOUS
<1>1. /\ \A t \in Services : pc[t] = "ended"
      /\ \A g \in Groups : pc[g] = "apNew"
  BY ThreadNames DEF Init
<1>2. TypeOK
  <2>1. pc \in [Threads -> Steps] /\ back \in [Threads -> Steps]
    BY DEF Init, Steps, AppSteps
  <2>2. nsRoute \in DOMAIN RouteHistory
    BY FirstRoute DEF Init
  <2> QED
    BY <2>1, <2>2 DEF Init, TypeOK, Routes, Absent
<1>3. FlowInv /\ RoundInv
  BY <1>1, ThreadNames DEF FlowInv, ServiceFlow, AppFlow, RoundInv, AppSteps,
     UpdateSteps, HeartbeatSteps
<1>4. LockInv /\ TableLockInv
  <2>1. \A t \in Threads : pc[t] \in {"ended", "apNew"}
    BY DEF Init
  <2> QED
    BY <1>1, <2>1, ThreadNames DEF Init, LockInv, TableLockInv, Nobody
<1>5. ServiceInv
  BY <1>1 DEF Init, ServiceInv, Starting, Stopping, HeartbeatSteps
<1>6. GhostInv /\ InfoInv
  BY <1>1 DEF Init, GhostInv, Gone, OvertakenInv, InfoInv, LeftSteps
<1> QED
  BY <1>2, <1>3, <1>4, <1>5, <1>6 DEF FactoryInv

-----------------------------------------------------------------------------
(* What a step that moves one thread leaves alone.                         *)
Moves(t, st) == pc' = [pc EXCEPT ![t] = st]

LEMMA ServiceFrame ==
    ASSUME TypeOK, ServiceInv, NEW t \in Threads, NEW st, Moves(t, st),
           UNCHANGED <<mutex, serviceState>>,
           \A g \in Groups : g # t => back'[g] = back[g],
           t \in Services => pc[t] # "ended",
           t \in Groups => (Starting(t)' => Starting(t)) /\ ~Stopping(t)'
    PROVE  ServiceInv'
<1>1. /\ pc'[t] = st
      /\ \A x \in Threads : x # t => pc'[x] = pc[x]
  BY DEF TypeOK, Moves
<1>2. ASSUME NEW g \in Groups
      PROVE  /\ Starting(g)' => Starting(g)
             /\ Stopping(g)' => Stopping(g)
             /\ pc'[g] = "apJoinRebalance" => pc[g] = "apJoinRebalance" /\ g # t
  <2>1. CASE g = t
    BY <2>1 DEF Stopping
  <2>2. CASE g # t
    BY <1>1, <2>2, ThreadNames DEF Starting, Stopping
  <2> QED
    BY <2>1, <2>2
<1>3. \A x \in Services : pc[x] = "ended" => pc'[x] = "ended"
  BY <1>1, ThreadNames
<1>4. Tasks \subseteq Services
  BY DEF Tasks
<1> QED
  BY <1>2, <1>3, <1>4 DEF ServiceInv

LEMMA InfoFrame ==
    ASSUME InfoInv, UNCHANGED <<consumerTable, topicSubscribeInfo, topicRouteTable>>,
           \A g \in Groups : pc'[g] = "apNew" => pc[g] = "apNew"
    PROVE  InfoInv'
BY DEF InfoInv

LEMMA GhostFrame ==
    ASSUME GhostInv, UNCHANGED <<consumerTable, registered, late, unregistered, overtaken, beat>>,
           \A g \in Groups : pc'[g] \in LeftSteps => pc[g] \in LeftSteps,
           \A g \in Gone : pc[g] \in LeftSteps \ {"unTry", "unSend"}
                                    => pc'[g] \in LeftSteps \ {"unTry", "unSend"},
           \A t \in Threads : pc[t] = "hbSend" => pc'[t] = "hbSend"
    PROVE  GhostInv'
BY DEF GhostInv, Gone, OvertakenInv

LEMMA GoneGroups == TypeOK => Gone \subseteq Groups
BY DEF TypeOK, Gone

LEMMA LockFrame ==
    ASSUME LockInv, UNCHANGED <<lockNamesrv, lockHeartbeat>>,
           \A t \in Threads :
              /\ pc'[t] \in {"nsQuery", "nsNeed", "nsApply"}
                   <=> pc[t] \in {"nsQuery", "nsNeed", "nsApply"}
              /\ pc'[t] \in {"hbPrepare", "hbSend", "unSend"}
                   <=> pc[t] \in {"hbPrepare", "hbSend", "unSend"}
    PROVE  LockInv'
BY DEF LockInv

LEMMA TableLockFrame ==
    ASSUME TableLockInv, UNCHANGED consumerTableLock,
           \A t \in {"rebalance", "persist"} :
              pc'[t] \in {"idle", "ended"} <=> pc[t] \in {"idle", "ended"}
    PROVE  TableLockInv'
BY DEF TableLockInv

-----------------------------------------------------------------------------
(* Where the update of the route does not take its thread.                 *)
LEMMA UpdateTakesBack ==
    ASSUME FlowInv, NEW t \in Threads \ {"clean"}, pc[t] \in UpdateSteps,
           NEW st \in UpdateSteps \cup {back[t]}
    PROVE  \/ st \notin {"apNew", "apStarted", "idle", "ended"} \cup HeartbeatSteps \cup LeftSteps
           \/ st = "idle" /\ t = "route"
<1>1. \/ st \in UpdateSteps
      \/ st \in {"apBeat", "apPersist", "rbIds", "rbRemoved", "rbAsk", "psNext"}
      \/ st = "idle" /\ t = "route"
  BY DEF FlowInv, ServiceFlow, AppFlow, Threads, Services
<1> QED
  BY <1>1 DEF UpdateSteps, HeartbeatSteps, LeftSteps

(* The update of the route, by any thread that does it.                    *)
LEMMA UpdatePreserves ==
    ASSUME FactoryInv, NEW t \in Threads \ {"clean"}, UpdateRoute(t)
    PROVE  FactoryInv'
<1> USE DEF UpdateRoute, UpdateLock, UpdateQuery, UpdateNeed, UpdateApply, UpdateEnds,
            Returns, Goes
<1>1. TypeOK /\ FlowInv /\ RoundInv /\ LockInv /\ TableLockInv /\ ServiceInv /\ GhostInv /\ InfoInv
  BY DEF FactoryInv
<1>2. PICK st : /\ Moves(t, st)
                /\ \/ st \in UpdateSteps /\ back' = back
                   \/ st = back[t] /\ back' = [back EXCEPT ![t] = "ended"]
  BY DEF Moves, UpdateSteps
<1>3. pc[t] \in UpdateSteps
  BY DEF UpdateSteps
<1>4. /\ \A x \in Threads : x # t => pc'[x] = pc[x] /\ back'[x] = back[x]
      /\ pc'[t] = st /\ (st \in UpdateSteps => back'[t] = back[t])
  <2>1. back[t] \notin UpdateSteps
    BY <1>1, <1>3 DEF FlowInv, ServiceFlow, AppFlow, Threads, Services, UpdateSteps
  <2> QED
    BY <1>1, <1>2, <2>1 DEF TypeOK, Moves
<1>5. TypeOK'
  <2>1. pc' \in [Threads -> Steps] /\ back' \in [Threads -> Steps]
    BY <1>1, <1>2 DEF TypeOK, Moves, Steps
  <2>2. received' \in Routes /\ brokerAddrTable' \in Routes
    BY <1>1, FirstRoute DEF TypeOK, Routes, Absent, routeVars
  <2>3. topicRouteTable' \in Routes /\ topicSubscribeInfo' \in [Groups -> Routes]
    BY <1>1 DEF TypeOK, routeVars
  <2>4. /\ UNCHANGED <<brokerVars, tableVars, todo, roundVars, beat>>
        /\ UNCHANGED <<consumerTableLock, lockHeartbeat, mutex>>
    OBVIOUS
  <2>5. lockNamesrv' \in Threads \cup {Nobody}
    BY <1>1 DEF TypeOK
  <2> QED
    BY <1>1, <2>1, <2>2, <2>3, <2>4, <2>5 DEF TypeOK, brokerVars, knownVars, tableVars, roundVars
<1>6. FlowInv'
  <2>1. st \in UpdateSteps \/ st = back[t]
    BY <1>2
  <2> HIDE DEF UpdateRoute
  <2>2. ASSUME NEW g \in Groups PROVE AppFlow(g)'
    <3>1. CASE g = t
      <4>1. back[t] \in {"apBeat", "apPersist"}
        BY <1>1, <1>3, <3>1 DEF FlowInv, AppFlow
      <4> QED
        BY <1>4, <2>1, <3>1, <4>1 DEF AppFlow, UpdateSteps, HeartbeatSteps, AppSteps
    <3>2. CASE g # t
      BY <1>1, <1>4, <3>2, ThreadNames DEF FlowInv, AppFlow
    <3> QED
      BY <3>1, <3>2
  <2>3. ServiceFlow'
    <3>1. ServiceFlow /\ {"rebalance", "route", "clean", "persist"} \subseteq Threads
      BY <1>1, ThreadNames DEF FlowInv
    <3>2. CASE t \in {"rebalance", "route", "persist"}
      BY <1>3, <1>4, <2>1, <3>1, <3>2 DEF ServiceFlow, UpdateSteps, RebalanceSteps
    <3>3. CASE t \notin {"rebalance", "route", "clean", "persist"}
      BY <1>4, <3>1, <3>3 DEF ServiceFlow
    <3> QED
      BY <3>2, <3>3
  <2> QED
    BY <2>2, <2>3 DEF FlowInv
<1>7. LockInv'
  <2>1. lockHeartbeat' = lockHeartbeat
    BY DEF lockVars
  <2>2. \/ pc[t] = "nsLock" /\ st = "nsQuery" /\ lockNamesrv = Nobody /\ lockNamesrv' = t
        \/ pc[t] = "nsLock" /\ st = back[t] /\ lockNamesrv' = lockNamesrv
        \/ /\ pc[t] \in {"nsQuery", "nsNeed"} /\ st \in {"nsNeed", "nsApply"}
           /\ lockNamesrv' = lockNamesrv
        \/ pc[t] \in {"nsQuery", "nsNeed", "nsApply"} /\ st = back[t] /\ lockNamesrv' = Nobody
    BY <1>1, <1>4 DEF TypeOK
  <2> HIDE DEF UpdateRoute
  <2>3. back[t] \notin {"nsQuery", "nsNeed", "nsApply", "hbPrepare", "hbSend", "unSend"}
    BY <1>1, <1>3 DEF FlowInv, ServiceFlow, AppFlow, Threads, Services
  <2> QED
    BY <1>1, <1>4, <2>1, <2>2, <2>3, ThreadNames DEF LockInv
<1>8. \/ st \notin {"apNew", "apStarted", "idle", "ended"} \cup HeartbeatSteps \cup LeftSteps
      \/ st = "idle" /\ t = "route"
  BY <1>1, <1>2, <1>3, UpdateTakesBack
<1>9. ServiceInv'
  BY <1>1, <1>2, <1>3, <1>4, <1>8, ServiceFrame, ThreadNames
     DEF Starting, Stopping, tableVars, UpdateSteps, LeftSteps
<1>10. RoundInv' /\ TableLockInv'
  BY <1>1, <1>2, <1>3, <1>4, <1>8, TableLockFrame, ThreadNames
     DEF RoundInv, roundVars, UpdateSteps
<1>11. GhostInv'
  <2>1. UNCHANGED <<consumerTable, registered, late, unregistered, overtaken, beat>>
    BY DEF brokerVars, knownVars, tableVars
  <2> HIDE DEF UpdateRoute
  <2>2. \A g \in Groups : pc'[g] \in LeftSteps => pc[g] \in LeftSteps
    BY <1>4, <1>8, ThreadNames DEF LeftSteps
  <2>3. \A g \in Gone : pc[g] \in LeftSteps \ {"unTry", "unSend"}
                                    => pc'[g] \in LeftSteps \ {"unTry", "unSend"}
    BY <1>1, <1>3, <1>4, ThreadNames, GoneGroups DEF UpdateSteps, LeftSteps
  <2>4. \A x \in Threads : pc[x] = "hbSend" => pc'[x] = "hbSend"
    BY <1>3, <1>4 DEF UpdateSteps
  <2> QED
    BY <1>1, <2>1, <2>2, <2>3, <2>4, GhostFrame
<1>12. InfoInv'
  <2>1. \A g \in Groups : pc'[g] = "apNew" => pc[g] = "apNew"
    BY <1>4, <1>8, ThreadNames
  <2>2. CASE UpdateApply(t)
    BY <1>1, <2>1, <2>2 DEF InfoInv, TypeOK, tableVars
  <2>3. CASE ~UpdateApply(t)
    BY <1>1, <2>1, <2>3, InfoFrame DEF tableVars, routeVars
  <2> QED
    BY <2>2, <2>3
<1> QED
  BY <1>5, <1>6, <1>7, <1>9, <1>10, <1>11, <1>12 DEF FactoryInv

(* The heartbeat: prepared and sent under m_lockHeartbeat, so that nobody  *)
(* unregisters in between.                                                 *)
LEMMA HeartbeatPreserves ==
    ASSUME FactoryInv, NEW t \in Groups \cup {"clean"}, Heartbeat(t)
    PROVE  FactoryInv'
<1>0. t \in Threads
  BY ThreadNames
<1>1. TypeOK /\ FlowInv /\ RoundInv /\ LockInv /\ TableLockInv /\ ServiceInv /\ GhostInv /\ InfoInv
  BY DEF FactoryInv
<1>2. /\ UNCHANGED <<nsRoute, unregistered, overtaken, consumerTableLock, lockNamesrv, mutex>>
      /\ UNCHANGED <<routeVars, tableVars, received, todo, roundVars>>
  BY DEF Heartbeat, HeartbeatTry, HeartbeatPrepare, HeartbeatSend, brokerVars, knownVars, lockVars
<1>3. PICK st : /\ Moves(t, st)
                /\ \/ st \in HeartbeatSteps /\ back' = back
                   \/ st = back[t] /\ back' = [back EXCEPT ![t] = "ended"]
  BY DEF Heartbeat, HeartbeatTry, HeartbeatPrepare, HeartbeatSend, Returns, Goes, Moves,
     HeartbeatSteps
<1>4. pc[t] \in HeartbeatSteps
  BY DEF Heartbeat, HeartbeatTry, HeartbeatPrepare, HeartbeatSend, HeartbeatSteps
<1>5. st \in HeartbeatSteps \cup {"apStarted", "apRun"} \/ (st = "idle" /\ t = "clean")
  BY <1>1, <1>3, <1>4 DEF FlowInv, ServiceFlow, AppFlow
<1>6. /\ pc'[t] = st
      /\ \A x \in Threads : x # t => pc'[x] = pc[x] /\ back'[x] = back[x]
  BY <1>0, <1>1, <1>3 DEF TypeOK, Moves
<1>7. TypeOK'
  <2>1. pc' \in [Threads -> Steps] /\ back' \in [Threads -> Steps]
    BY <1>0, <1>1, <1>3 DEF TypeOK, Moves, Steps
  <2>2. /\ registered' \subseteq Groups /\ beat' \subseteq Groups
        /\ late' \subseteq {"heartbeat", "unregister"} \X Groups
    BY <1>1 DEF TypeOK, Heartbeat, HeartbeatTry, HeartbeatPrepare, HeartbeatSend, brokerVars,
       knownVars
  <2>3. lockHeartbeat' \in Threads \cup {Nobody}
    BY <1>0, <1>1 DEF TypeOK, Heartbeat, HeartbeatTry, HeartbeatPrepare, HeartbeatSend,
       lockVars
  <2> QED
    BY <1>1, <1>2, <2>1, <2>2, <2>3 DEF TypeOK, routeVars, tableVars, roundVars
<1>8. FlowInv'
  <2>1. ASSUME NEW g \in Groups PROVE AppFlow(g)'
    <3>1. CASE g = t
      <4>1. t # "clean"
        BY <3>1, ThreadNames
      <4>2. st \in HeartbeatSteps \cup {"apStarted", "apRun"}
        BY <1>5, <4>1
      <4>3. st \in HeartbeatSteps => back'[t] \in {"apStarted", "apRun"}
        BY <1>1, <1>3, <1>4, <3>1 DEF FlowInv, AppFlow, HeartbeatSteps
      <4> QED
        BY <1>6, <3>1, <4>2, <4>3 DEF AppFlow, HeartbeatSteps, UpdateSteps, AppSteps
    <3>2. CASE g # t
      BY <1>1, <1>6, <3>2, ThreadNames DEF FlowInv, AppFlow
    <3> QED
      BY <3>1, <3>2
  <2>2. \A x \in {"rebalance", "route", "persist"} : pc'[x] = pc[x] /\ back'[x] = back[x]
    BY <1>6, ThreadNames
  <2>3. /\ pc'["clean"] \in HeartbeatSteps \cup {"idle", "ended"}
        /\ pc'["clean"] \in HeartbeatSteps => back'["clean"] = "idle"
    <3>1. CASE t = "clean"
      <4>1. back["clean"] = "idle" /\ st \in HeartbeatSteps \cup {"idle"}
        BY <1>1, <1>3, <1>4, <3>1 DEF FlowInv, ServiceFlow
      <4>2. "idle" \notin HeartbeatSteps
        BY DEF HeartbeatSteps
      <4> QED
        BY <1>3, <1>6, <3>1, <4>1, <4>2
    <3>2. CASE t # "clean"
      BY <1>1, <1>6, <3>2, ThreadNames DEF FlowInv, ServiceFlow
    <3> QED
      BY <3>1, <3>2
  <2> QED
    BY <1>1, <2>1, <2>2, <2>3 DEF FlowInv, ServiceFlow
<1>9. LockInv'
  <2>1. \A x \in Threads : lockNamesrv' = x <=> pc'[x] \in {"nsQuery", "nsNeed", "nsApply"}
    BY <1>1, <1>2, <1>4, <1>5, <1>6 DEF LockInv, HeartbeatSteps
  <2>2. CASE HeartbeatTry(t)
    <3>1. \A x \in Threads :
              lockHeartbeat' = x <=> pc'[x] \in {"hbPrepare", "hbSend", "unSend"}
      BY <1>0, <1>1, <1>4, <1>5, <1>6, <2>2, ThreadNames
         DEF LockInv, HeartbeatTry, Returns, Goes, TypeOK, FlowInv, AppFlow, ServiceFlow
    <3> QED
      BY <2>1, <3>1 DEF LockInv
  <2>3. CASE HeartbeatPrepare(t)
    <3>1. pc[t] = "hbPrepare" /\ pc'[t] = "hbSend" /\ UNCHANGED lockHeartbeat
      BY <1>0, <1>1, <2>3 DEF HeartbeatPrepare, Goes, lockVars, TypeOK
    <3>2. \A x \in Threads :
              lockHeartbeat' = x <=> pc'[x] \in {"hbPrepare", "hbSend", "unSend"}
      BY <1>1, <1>6, <3>1 DEF LockInv
    <3> QED
      BY <2>1, <3>2 DEF LockInv
  <2>4. CASE HeartbeatSend(t)
    <3>1. pc[t] = "hbSend" /\ pc'[t] = back[t] /\ lockHeartbeat' = Nobody
      BY <1>0, <1>1, <2>4 DEF HeartbeatSend, Returns, Goes, TypeOK
    <3>2. back[t] \in {"apStarted", "apRun", "idle"}
      BY <1>1, <3>1 DEF FlowInv, AppFlow, ServiceFlow, HeartbeatSteps
    <3>3. \A x \in Threads :
              lockHeartbeat' = x <=> pc'[x] \in {"hbPrepare", "hbSend", "unSend"}
      BY <1>0, <1>1, <1>6, <3>1, <3>2, ThreadNames DEF LockInv
    <3> QED
      BY <2>1, <3>3 DEF LockInv
  <2> QED
    BY <2>2, <2>3, <2>4 DEF Heartbeat
<1>10. RoundInv' /\ TableLockInv'
  BY <1>1, <1>2, <1>6, TableLockFrame, ThreadNames DEF RoundInv, roundVars
<1>11. ServiceInv'
  <2>1. \A g \in Groups : g # t => back'[g] = back[g]
    BY <1>6, ThreadNames
  <2>2. t \in Services => pc[t] # "ended"
    BY <1>4 DEF HeartbeatSteps
  <2>3. Starting(t)' => Starting(t)
    <3>1. back'[t] \in {back[t], "ended"}
      BY <1>0, <1>1, <1>3 DEF TypeOK
    <3>2. st = "apStarted" => back[t] = "apStarted"
      BY <1>3 DEF HeartbeatSteps
    <3> QED
      BY <1>4, <1>6, <3>1, <3>2 DEF Starting
  <2>4. ~Stopping(t)'
    BY <1>5, <1>6 DEF Stopping, HeartbeatSteps
  <2> QED
    <3>1. UNCHANGED <<mutex, serviceState>> /\ Moves(t, st)
      BY <1>2, <1>3 DEF tableVars
    <3>2. t \in Groups => (Starting(t)' => Starting(t)) /\ ~Stopping(t)'
      BY <2>3, <2>4
    <3> QED
      BY <1>0, <1>1, <2>1, <2>2, <3>1, <3>2, ServiceFrame
<1>12. InfoInv'
  <2>1. \A g \in Groups : pc'[g] = "apNew" => pc[g] = "apNew"
    BY <1>5, <1>6, ThreadNames DEF HeartbeatSteps
  <2> QED
    BY <1>1, <1>2, <2>1, InfoFrame DEF tableVars, routeVars
<1>13. GhostInv'
  <2>1. /\ pc[t] \notin LeftSteps
        /\ t \in Groups => pc'[t] \notin LeftSteps
    BY <1>4, <1>5, <1>6, ThreadNames DEF LeftSteps, HeartbeatSteps, Services
  <2>2. t \notin Gone
    BY <1>1, <2>1 DEF GhostInv
  <2>3. /\ \A g \in Groups : pc'[g] \in LeftSteps => g \notin consumerTable'
        /\ \A g \in Gone : pc'[g] \in LeftSteps \ {"unTry", "unSend"}
    BY <1>1, <1>2, <1>6, <2>1, <2>2, ThreadNames DEF GhostInv, Gone, TypeOK, tableVars
  <2>4. CASE HeartbeatTry(t)
    <3>1. UNCHANGED <<registered, late, beat>> /\ pc[t] # "hbSend"
      BY <2>4 DEF HeartbeatTry, brokerVars, knownVars
    <3>2. (\A x \in Threads : pc'[x] # "hbSend") => (\A x \in Threads : pc[x] # "hbSend")
      BY <1>6, <3>1
    <3> QED
      BY <1>1, <1>2, <2>3, <3>1, <3>2 DEF GhostInv, Gone, OvertakenInv
  <2>5. CASE HeartbeatPrepare(t)
    <3>1. /\ UNCHANGED <<registered, late>> /\ beat' = consumerTable /\ pc'[t] = "hbSend"
      BY <1>0, <1>1, <2>5 DEF HeartbeatPrepare, brokerVars, knownVars, Goes, TypeOK
    <3>2. Gone \cap consumerTable = {}
      BY <1>1 DEF GhostInv, Gone, TypeOK
    <3> QED
      BY <1>0, <1>1, <1>2, <2>3, <3>1, <3>2 DEF GhostInv, Gone, OvertakenInv
  <2>6. CASE HeartbeatSend(t)
    <3>1. /\ registered' \subseteq registered \cup beat /\ beat' = {}
          /\ late' = late \/ late' = late \cup ({"heartbeat"} \X beat)
      BY <2>6 DEF HeartbeatSend
    <3>2. /\ \A g \in Groups : <<"unregister", g>> \in late' => <<"unregister", g>> \in late
          /\ \A g \in Groups :
                <<"heartbeat", g>> \in late' => <<"heartbeat", g>> \in late \/ g \in beat
      BY <3>1
    <3>3. Gone' = Gone
      BY <1>2, <3>1, <3>2 DEF Gone
    <3>4. \A g \in unregistered : g \in Groups /\ g \notin beat
      BY <1>1 DEF GhostInv, Gone, TypeOK
    <3>5. OvertakenInv'
      BY <1>1, <1>2, <3>1, <3>2, <3>4 DEF GhostInv, OvertakenInv
    <3> QED
      BY <1>1, <1>2, <2>3, <3>1, <3>3, <3>5 DEF GhostInv
  <2> QED
    BY <2>4, <2>5, <2>6 DEF Heartbeat
<1> QED
  BY <1>7, <1>8, <1>9, <1>10, <1>11, <1>12, <1>13 DEF FactoryInv

-----------------------------------------------------------------------------
(* Steps that hold no other lock than before and change no table that the  *)
(* invariant is about: a thread moves between two quiet steps, or from one *)
(* into a shared procedure.                                                *)
QuietSteps == {"rbTopic", "rbIds", "rbRemove", "rbRemoved", "rbAdd", "rbAsk", "psNext",
               "apFactory", "apBeat", "apRun", "apPersist", "apUnregister", "idle"}

EntrySteps == {"nsLock", "hbTry"}

SharedVars == <<lockNamesrv, lockHeartbeat, mutex, serviceState, consumerTable,
                topicSubscribeInfo, topicRouteTable, registered, late, unregistered,
                overtaken, beat>>

LEMMA QuietStep ==
    ASSUME FactoryInv, NEW t \in Threads, NEW st \in QuietSteps \cup EntrySteps,
           Moves(t, st), pc[t] \in QuietSteps, UNCHANGED SharedVars,
           \A x \in Threads : x # t => back'[x] = back[x],
           st \in HeartbeatSteps => back'[t] # "apStarted"
    PROVE  LockInv' /\ ServiceInv' /\ GhostInv' /\ InfoInv'
<1>1. TypeOK /\ LockInv /\ ServiceInv /\ GhostInv /\ InfoInv
  BY DEF FactoryInv
<1>2. pc'[t] = st /\ \A x \in Threads : x # t => pc'[x] = pc[x]
  BY <1>1 DEF TypeOK, Moves
<1>3. pc[t] \notin LeftSteps \cup {"nsQuery", "nsNeed", "nsApply", "hbPrepare", "hbSend",
                                  "unSend", "apNew", "apStarted", "ended"}
  BY DEF QuietSteps, LeftSteps
<1>4. st \notin LeftSteps \cup {"nsQuery", "nsNeed", "nsApply", "hbPrepare", "hbSend",
                               "unSend", "apNew", "apStarted", "ended"}
  BY DEF QuietSteps, EntrySteps, LeftSteps
<1>5. UNCHANGED <<lockNamesrv, lockHeartbeat, mutex, serviceState>>
      /\ UNCHANGED <<consumerTable, topicSubscribeInfo, topicRouteTable>>
      /\ UNCHANGED <<registered, late, unregistered, overtaken, beat>>
  BY DEF SharedVars
<1>6. LockInv'
  BY <1>1, <1>2, <1>3, <1>4, <1>5, LockFrame
<1>7. ServiceInv'
  <2>1. Starting(t)' => Starting(t)
    BY <1>2, <1>4 DEF Starting
  <2>2. ~Stopping(t)'
    BY <1>2, <1>4 DEF Stopping, LeftSteps
  <2>3. \A g \in Groups : g # t => back'[g] = back[g]
    BY ThreadNames
  <2> QED
    BY <1>1, <1>3, <1>5, <2>1, <2>2, <2>3, ServiceFrame
<1>8. GhostInv'
  <2>1. \A g \in Groups : pc'[g] \in LeftSteps => pc[g] \in LeftSteps
    BY <1>2, <1>4, ThreadNames
  <2>2. \A g \in Gone : pc[g] \in LeftSteps \ {"unTry", "unSend"}
                                    => pc'[g] \in LeftSteps \ {"unTry", "unSend"}
    BY <1>1, <1>2, <1>3, ThreadNames, GoneGroups
  <2>3. \A x \in Threads : pc[x] = "hbSend" => pc'[x] = "hbSend"
    BY <1>2, <1>3
  <2> QED
    BY <1>1, <1>5, <2>1, <2>2, <2>3, GhostFrame
<1>9. InfoInv'
  <2>1. \A g \in Groups : pc'[g] = "apNew" => pc[g] = "apNew"
    BY <1>2, <1>4, ThreadNames
  <2> QED
    BY <1>1, <1>5, <2>1, InfoFrame
<1> QED
  BY <1>6, <1>7, <1>8, <1>9

(* A round of rebalance.                                                   *)
LEMMA RoundPreserves ==
    ASSUME FactoryInv, DoRebalance \/ Rebalance
    PROVE  FactoryInv'
<1> DEFINE t == "rebalance"
<1>0. t \in Threads /\ t \notin Groups
  BY ThreadNames
<1>1. TypeOK /\ FlowInv /\ RoundInv /\ TableLockInv /\ ServiceInv /\ GhostInv /\ InfoInv
  BY DEF FactoryInv
<1>2. left # {} => FirstOf(left) \in Groups
  BY <1>1, FirstOfIsMember DEF TypeOK
<1>3. UNCHANGED <<brokerVars, lockNamesrv, lockHeartbeat, mutex, routeVars, serviceState,
                  consumerTable, received, todo, beat>>
  BY DEF DoRebalance, Rebalance, RoundEnds, RebalanceByTopic, FindConsumerIdList,
     RemoveQueue, QueueRemoved, AddQueue, QueueAdded, tableVars, lockVars
<1>4. UNCHANGED SharedVars
  BY <1>3 DEF SharedVars, brokerVars, knownVars, routeVars
<1>5. CASE DoRebalance
  <2>1. /\ pc[t] = "idle" /\ pc' = [pc EXCEPT ![t] = "rbTopic"] /\ back' = back
        /\ consumerTableLock = Nobody /\ consumerTableLock' = t
        /\ left' = consumerTable /\ UNCHANGED <<processQueueTable, target, at>>
    BY <1>5 DEF DoRebalance, Goes, tableVars
  <2>2. pc'[t] = "rbTopic" /\ \A x \in Threads : x # t => pc'[x] = pc[x]
    BY <1>0, <1>1, <2>1 DEF TypeOK
  <2>3. TypeOK'
    <3>1. pc' \in [Threads -> Steps]
      BY <1>1, <2>1 DEF TypeOK, Steps, RebalanceSteps
    <3> QED
      BY <1>0, <1>1, <1>3, <2>1, <3>1 DEF TypeOK, brokerVars, knownVars, routeVars
  <2>4. FlowInv' /\ RoundInv'
    BY <1>1, <2>1, <2>2, ThreadNames DEF FlowInv, ServiceFlow, AppFlow, RoundInv,
       RebalanceSteps, UpdateSteps
  <2>5. TableLockInv'
    BY <1>1, <2>1, <2>2, ThreadNames DEF TableLockInv, Nobody
  <2>6. LockInv' /\ ServiceInv' /\ GhostInv' /\ InfoInv'
    BY <1>0, <1>4, <2>1, QuietStep DEF Moves, QuietSteps, HeartbeatSteps
  <2> QED
    BY <2>3, <2>4, <2>5, <2>6 DEF FactoryInv
<1>6. CASE RoundEnds
  <2>1. /\ pc[t] = "rbTopic" /\ pc'[t] \in {"idle", "ended"}
        /\ \A x \in Threads : x # t => pc'[x] = pc[x]
        /\ back' = back /\ consumerTableLock' = Nobody
        /\ UNCHANGED <<processQueueTable, left, target, at>>
        /\ pc' \in [Threads -> Steps]
    BY <1>0, <1>1, <1>6 DEF RoundEnds, Goes, TypeOK, tableVars, roundVars, Steps
  <2>2. TypeOK'
    BY <1>1, <1>3, <2>1 DEF TypeOK, brokerVars, knownVars, routeVars
  <2>3. FlowInv' /\ RoundInv'
    BY <1>1, <2>1, ThreadNames DEF FlowInv, ServiceFlow, AppFlow, RoundInv,
       RebalanceSteps, UpdateSteps
  <2>4. TableLockInv'
    BY <1>1, <2>1, ThreadNames DEF TableLockInv, Nobody
  <2>5. LockInv'
    BY <1>3, <2>1, LockFrame DEF FactoryInv
  <2>6. ServiceInv'
    <3>1. Moves(t, IF RebalanceStopped THEN "ended" ELSE "idle")
      BY <1>6 DEF RoundEnds, Goes, Moves
    <3> QED
      BY <1>0, <1>1, <1>3, <2>1, <3>1, ServiceFrame
  <2>7. GhostInv'
    <3>1. \A g \in Groups : pc'[g] = pc[g]
      BY <1>0, <2>1, ThreadNames
    <3> QED
      BY <1>1, <1>3, <2>1, <3>1, GoneGroups, GhostFrame DEF brokerVars, knownVars
  <2>8. InfoInv'
    <3>1. \A g \in Groups : pc'[g] = pc[g]
      BY <1>0, <2>1, ThreadNames
    <3> QED
      BY <1>1, <1>3, <3>1, InfoFrame DEF routeVars
  <2> QED
    BY <2>2, <2>3, <2>4, <2>5, <2>6, <2>7, <2>8 DEF FactoryInv
<1>7. CASE RebalanceByTopic \/ FindConsumerIdList \/ RemoveQueue \/ QueueRemoved
             \/ AddQueue \/ QueueAdded
  <2>1. PICK st \in RebalanceSteps \cup {"nsLock"} :
            /\ Moves(t, st)
            /\ \/ st # "nsLock" /\ back' = back
               \/ /\ st = "nsLock"
                  /\ \E b \in {"rbIds", "rbRemoved", "rbAsk"} :
                        back' = [back EXCEPT ![t] = b]
    BY <1>7 DEF RebalanceByTopic, FindConsumerIdList, RemoveQueue, QueueRemoved, AddQueue,
       QueueAdded, Goes, Enters, Moves, RebalanceSteps
  <2>2. pc[t] \in RebalanceSteps /\ UNCHANGED consumerTableLock
    BY <1>7 DEF RebalanceByTopic, FindConsumerIdList, RemoveQueue, QueueRemoved, AddQueue,
       QueueAdded, RebalanceSteps, lockVars
  <2>3. /\ pc'[t] = st
        /\ \A x \in Threads : x # t => pc'[x] = pc[x] /\ back'[x] = back[x]
        /\ st = "nsLock" => back'[t] \in {"rbIds", "rbRemoved", "rbAsk"}
    BY <1>0, <1>1, <2>1 DEF TypeOK, Moves
  <2>4. left # {} /\ left' \subseteq left /\ (left' = {} => st = "rbTopic")
    <3>1. left # {}
      BY <1>1, <1>7 DEF RoundInv, RebalanceByTopic, FindConsumerIdList, RemoveQueue,
         QueueRemoved, AddQueue, QueueAdded
    <3>2. left' = left \/ (left' \subseteq left /\ pc' = [pc EXCEPT ![t] = "rbTopic"])
      BY <1>7 DEF RebalanceByTopic, FindConsumerIdList, RemoveQueue,
         QueueRemoved, AddQueue, QueueAdded, Goes
    <3>3. pc' = [pc EXCEPT ![t] = "rbTopic"] => st = "rbTopic"
      BY <1>0, <1>1, <2>3 DEF TypeOK
    <3> QED
      BY <3>1, <3>2, <3>3
  <2>5. TypeOK'
    <3>1. pc' \in [Threads -> Steps] /\ back' \in [Threads -> Steps]
      BY <1>0, <1>1, <2>1 DEF TypeOK, Moves, Steps, RebalanceSteps, UpdateSteps
    <3>2. topicSubscribeInfo[FirstOf(left)] \in Routes /\ processQueueTable[FirstOf(left)] \in Routes
      BY <1>1, <1>2, <2>4 DEF TypeOK
    <3>3. target' \in Routes
      BY <1>1, <1>7, <3>2 DEF TypeOK, Routes, RebalanceByTopic, FindConsumerIdList, RemoveQueue,
         QueueRemoved, AddQueue, QueueAdded
    <3>4. at' \in Brokers \cup {Nobody}
      BY <1>1, <1>7, <3>2 DEF TypeOK, Routes, RebalanceByTopic, FindConsumerIdList, RemoveQueue,
         QueueRemoved, AddQueue, QueueAdded
    <3>5. processQueueTable' \in [Groups -> Routes]
      BY <1>1, <1>2, <1>7, <2>4, <3>2 DEF TypeOK, Routes, RebalanceByTopic,
         FindConsumerIdList, RemoveQueue, QueueRemoved, AddQueue, QueueAdded, tableVars
    <3> QED
      BY <1>1, <1>3, <2>2, <2>4, <3>1, <3>3, <3>4, <3>5 DEF TypeOK, brokerVars, knownVars, routeVars
  <2>6. FlowInv' /\ RoundInv'
    BY <1>1, <2>1, <2>3, <2>4, ThreadNames DEF FlowInv, ServiceFlow, AppFlow, RoundInv,
       RebalanceSteps, UpdateSteps
  <2>7. TableLockInv'
    BY <1>1, <2>1, <2>2, <2>3, TableLockFrame, ThreadNames DEF RebalanceSteps
  <2>8. LockInv' /\ ServiceInv' /\ GhostInv' /\ InfoInv'
    BY <1>0, <1>4, <2>1, <2>2, <2>3, QuietStep
       DEF QuietSteps, EntrySteps, RebalanceSteps, HeartbeatSteps
  <2> QED
    BY <2>5, <2>6, <2>7, <2>8 DEF FactoryInv
<1> QED
  BY <1>5, <1>6, <1>7 DEF Rebalance

-----------------------------------------------------------------------------
(* The timer tasks, and the offsets that a task or a shutdown persists.    *)
LEMMA PersistQueuePreserves ==
    ASSUME FactoryInv, NEW t \in Groups \cup {"persist"}, PersistQueue(t)
    PROVE  FactoryInv'
<1>0. t \in Threads
  BY ThreadNames
<1>1. TypeOK /\ FlowInv /\ RoundInv /\ TableLockInv
  BY DEF FactoryInv
<1>2. /\ UNCHANGED <<brokerVars, lockVars, routeVars, tableVars, received, roundVars, beat>>
      /\ UNCHANGED SharedVars
  BY DEF PersistQueue, SharedVars, brokerVars, knownVars, lockVars, routeVars, tableVars
<1>3. pc[t] \in {"psNext", "apPersist"}
  BY DEF PersistQueue
<1>4. /\ pc[t] = "psNext" <=> t = "persist"
      /\ pc[t] = "apPersist" <=> t \in Groups
  BY <1>1, <1>3, ThreadNames DEF FlowInv, AppFlow, ServiceFlow, UpdateSteps, HeartbeatSteps,
     AppSteps, Services
<1>5. PICK b \in todo[t] : /\ todo' = [todo EXCEPT ![t] = @ \ {b}]
                           /\ \/ UNCHANGED <<pc, back>>
                              \/ Enters(t, "nsLock", pc[t])
  BY DEF PersistQueue
<1>6. PICK st \in {pc[t], "nsLock"} : Moves(t, st)
  <2>1. pc = [pc EXCEPT ![t] = pc[t]]
    BY <1>0, <1>1 DEF TypeOK
  <2> QED
    BY <1>5, <2>1 DEF Enters, Goes, Moves
<1>7. /\ pc'[t] = st
      /\ \A x \in Threads : x # t => pc'[x] = pc[x] /\ back'[x] = back[x]
      /\ st = "nsLock" => back'[t] = pc[t]
  BY <1>0, <1>1, <1>3, <1>5, <1>6 DEF TypeOK, Moves, Enters, Goes
<1>8. TypeOK'
  <2>1. pc' \in [Threads -> Steps] /\ back' \in [Threads -> Steps]
    BY <1>0, <1>1, <1>5 DEF TypeOK, Enters, Goes, Steps, UpdateSteps
  <2>2. todo' \in [Threads -> Routes]
    BY <1>0, <1>1, <1>5 DEF TypeOK, Routes
  <2> QED
    BY <1>1, <1>2, <2>1, <2>2 DEF TypeOK, brokerVars, knownVars, lockVars, routeVars, tableVars, roundVars
<1>9. FlowInv'
  <2>1. ASSUME NEW g \in Groups PROVE AppFlow(g)'
    <3>1. CASE g = t
      BY <1>3, <1>4, <1>6, <1>7, <3>1 DEF AppFlow, UpdateSteps, HeartbeatSteps, AppSteps
    <3>2. CASE g # t
      BY <1>1, <1>7, <3>2, ThreadNames DEF FlowInv, AppFlow
    <3> QED
      BY <3>1, <3>2
  <2>2. \A x \in {"rebalance", "route", "clean"} : pc'[x] = pc[x] /\ back'[x] = back[x]
    BY <1>7, ThreadNames
  <2>3. /\ pc'["persist"] \in UpdateSteps \cup {"psNext", "idle", "ended"}
        /\ pc'["persist"] \in UpdateSteps => back'["persist"] = "psNext"
    <3>1. CASE t = "persist"
      BY <1>4, <1>6, <1>7, <3>1 DEF UpdateSteps
    <3>2. CASE t # "persist"
      BY <1>1, <1>7, <3>2, ThreadNames DEF FlowInv, ServiceFlow
    <3> QED
      BY <3>1, <3>2
  <2> QED
    BY <1>1, <2>1, <2>2, <2>3 DEF FlowInv, ServiceFlow
<1>10. RoundInv'
  BY <1>1, <1>2, <1>7, ThreadNames DEF RoundInv, roundVars
<1>11. TableLockInv'
  <2>1. \A x \in {"rebalance", "persist"} :
            pc'[x] \in {"idle", "ended"} <=> pc[x] \in {"idle", "ended"}
    BY <1>3, <1>6, <1>7, ThreadNames
  <2> QED
    BY <1>1, <1>2, <2>1, TableLockFrame DEF lockVars
<1>12. LockInv' /\ ServiceInv' /\ GhostInv' /\ InfoInv'
  <2>1. st \in QuietSteps \cup EntrySteps /\ pc[t] \in QuietSteps /\ st \notin HeartbeatSteps
    BY <1>3, <1>6 DEF QuietSteps, EntrySteps, HeartbeatSteps
  <2> QED
    BY <1>0, <1>2, <1>6, <1>7, <2>1, QuietStep
<1> QED
  BY <1>8, <1>9, <1>10, <1>11, <1>12 DEF FactoryInv

LEMMA TaskPreserves ==
    ASSUME FactoryInv, RouteTask \/ CleanTask \/ PersistTask \/ PersistEnds
    PROVE  FactoryInv'
<1>1. TypeOK /\ FlowInv /\ RoundInv /\ TableLockInv
  BY DEF FactoryInv
<1>2. /\ UNCHANGED <<brokerVars, lockNamesrv, lockHeartbeat, mutex, tableVars, received,
                     roundVars, beat>>
      /\ UNCHANGED <<topicRouteTable, topicSubscribeInfo>>
      /\ UNCHANGED SharedVars
  BY DEF RouteTask, CleanTask, PersistTask, PersistEnds, SharedVars, brokerVars, knownVars, lockVars,
     routeVars, tableVars
<1>3. CASE RouteTask
  <2>1. /\ pc["route"] = "idle"
        /\ pc' = [pc EXCEPT !["route"] = "nsLock"]
        /\ back' = [back EXCEPT !["route"] = "idle"]
        /\ UNCHANGED <<consumerTableLock, brokerAddrTable, todo>>
    BY <1>3 DEF RouteTask, Enters, Goes, lockVars, routeVars
  <2>2. /\ pc'["route"] = "nsLock" /\ back'["route"] = "idle"
        /\ \A x \in Threads : x # "route" => pc'[x] = pc[x] /\ back'[x] = back[x]
    BY <1>1, <2>1, ThreadNames DEF TypeOK
  <2>3. TypeOK'
    <3>1. pc' \in [Threads -> Steps] /\ back' \in [Threads -> Steps]
      BY <1>1, <2>1 DEF TypeOK, Steps, UpdateSteps
    <3> QED
      BY <1>1, <1>2, <2>1, <3>1 DEF TypeOK, brokerVars, knownVars, tableVars, roundVars
  <2>4. FlowInv' /\ RoundInv'
    BY <1>1, <1>2, <2>2, ThreadNames DEF FlowInv, ServiceFlow, AppFlow, RoundInv, roundVars,
       UpdateSteps
  <2>5. TableLockInv'
    BY <1>1, <2>1, <2>2, TableLockFrame, ThreadNames
  <2>6. LockInv' /\ ServiceInv' /\ GhostInv' /\ InfoInv'
    BY <1>2, <2>1, <2>2, ThreadNames, QuietStep DEF Moves, QuietSteps, EntrySteps, HeartbeatSteps
  <2> QED
    BY <2>3, <2>4, <2>5, <2>6 DEF FactoryInv
<1>4. CASE CleanTask
  <2>1. /\ pc["clean"] = "idle"
        /\ pc' = [pc EXCEPT !["clean"] = "hbTry"]
        /\ back' = [back EXCEPT !["clean"] = "idle"]
        /\ brokerAddrTable' = brokerAddrTable \cap topicRouteTable
        /\ UNCHANGED <<consumerTableLock, todo>>
    BY <1>4 DEF CleanTask, Enters, Goes, lockVars
  <2>2. /\ pc'["clean"] = "hbTry" /\ back'["clean"] = "idle"
        /\ \A x \in Threads : x # "clean" => pc'[x] = pc[x] /\ back'[x] = back[x]
    BY <1>1, <2>1, ThreadNames DEF TypeOK
  <2>3. TypeOK'
    <3>1. pc' \in [Threads -> Steps] /\ back' \in [Threads -> Steps]
      BY <1>1, <2>1 DEF TypeOK, Steps, HeartbeatSteps
    <3> QED
      BY <1>1, <1>2, <2>1, <3>1 DEF TypeOK, Routes, brokerVars, knownVars, tableVars, roundVars
  <2>4. FlowInv' /\ RoundInv'
    BY <1>1, <1>2, <2>2, ThreadNames DEF FlowInv, ServiceFlow, AppFlow, RoundInv, roundVars,
       HeartbeatSteps
  <2>5. TableLockInv'
    BY <1>1, <2>1, <2>2, TableLockFrame, ThreadNames
  <2>6. LockInv' /\ ServiceInv' /\ GhostInv' /\ InfoInv'
    BY <1>2, <2>1, <2>2, ThreadNames, QuietStep DEF Moves, QuietSteps, EntrySteps
  <2> QED
    BY <2>3, <2>4, <2>5, <2>6 DEF FactoryInv
<1>5. CASE PersistTask \/ PersistEnds
  <2>1. PICK st \in {"idle", "psNext"} :
          /\ pc[ "persist" ] \in {"idle", "psNext"}
          /\ pc' = [pc EXCEPT !["persist"] = st]
          /\ st = "psNext" => consumerTableLock = Nobody /\ consumerTableLock' = "persist"
          /\ st = "idle" => pc["persist"] = "psNext" /\ consumerTableLock' = Nobody
          /\ UNCHANGED <<back, brokerAddrTable>>
    BY <1>5 DEF PersistTask, PersistEnds, Goes, routeVars
  <2>2. /\ pc'["persist"] = st
        /\ \A x \in Threads : x # "persist" => pc'[x] = pc[x]
    BY <1>1, <2>1, ThreadNames DEF TypeOK
  <2>3. TypeOK'
    <3>1. pc' \in [Threads -> Steps]
      BY <1>1, <2>1 DEF TypeOK, Steps
    <3>2. todo' \in [Threads -> Routes]
      <4>1. UNION {processQueueTable[g] : g \in {h \in consumerTable : Running(h)}} \in Routes
        BY <1>1 DEF TypeOK, Routes
      <4> QED
        BY <1>1, <1>5, <4>1 DEF TypeOK, PersistTask, PersistEnds
    <3>3. consumerTableLock' \in Threads \cup {Nobody}
      BY <2>1, ThreadNames
    <3> QED
      BY <1>1, <1>2, <2>1, <3>1, <3>2, <3>3 DEF TypeOK, brokerVars, knownVars, tableVars, roundVars
  <2>4. FlowInv' /\ RoundInv'
    BY <1>1, <1>2, <2>1, <2>2, ThreadNames DEF FlowInv, ServiceFlow, AppFlow, RoundInv,
       roundVars, UpdateSteps
  <2>5. TableLockInv'
    BY <1>1, <2>1, <2>2, ThreadNames DEF TableLockInv, Nobody
  <2>6. LockInv' /\ ServiceInv' /\ GhostInv' /\ InfoInv'
    <3>1. st \in QuietSteps /\ pc["persist"] \in QuietSteps /\ st \notin HeartbeatSteps
      BY <2>1 DEF QuietSteps, HeartbeatSteps
    <3> QED
      BY <1>2, <2>1, <3>1, ThreadNames, QuietStep DEF Moves
  <2> QED
    BY <2>3, <2>4, <2>5, <2>6 DEF FactoryInv
<1> QED
  BY <1>3, <1>4, <1>5

-----------------------------------------------------------------------------
(* An application thread's step: what it leaves of the others' control.    *)
LEMMA AppStep ==
    ASSUME FactoryInv, NEW g \in Groups, NEW st, Moves(g, st),
           st \in UpdateSteps \cup HeartbeatSteps \cup AppSteps \cup {"ended"},
           \/ back' = back /\ st \in AppSteps \cup {"ended"}
           \/ st = "nsLock" /\ back' = [back EXCEPT ![g] = "apBeat"]
           \/ st = "hbTry" /\ back' = [back EXCEPT ![g] = "apRun"],
           UNCHANGED <<consumerTableLock, left>>
    PROVE  /\ pc' \in [Threads -> Steps] /\ back' \in [Threads -> Steps]
           /\ pc'[g] = st
           /\ \A x \in Threads : x # g => pc'[x] = pc[x] /\ back'[x] = back[x]
           /\ FlowInv' /\ RoundInv' /\ TableLockInv'
<1>1. TypeOK /\ FlowInv /\ RoundInv /\ TableLockInv
  BY DEF FactoryInv
<1>2. pc' \in [Threads -> Steps]
  BY <1>1, ThreadNames DEF TypeOK, Moves, Steps
<1>3. back' \in [Threads -> Steps]
  BY <1>1, ThreadNames DEF TypeOK, Steps, AppSteps
<1>4. /\ pc'[g] = st
      /\ \A x \in Threads : x # g => pc'[x] = pc[x] /\ back'[x] = back[x]
  BY <1>1, ThreadNames DEF TypeOK, Moves
<1>5. \A x \in Services : pc'[x] = pc[x] /\ back'[x] = back[x]
  BY <1>4, ThreadNames
<1>6. AppFlow(g)'
  <2>1. CASE back' = back /\ st \in AppSteps \cup {"ended"}
    BY <1>4, <2>1 DEF AppFlow, AppSteps, UpdateSteps, HeartbeatSteps
  <2>2. CASE st = "nsLock" /\ back' = [back EXCEPT ![g] = "apBeat"]
    BY <1>1, <1>4, <2>2, ThreadNames DEF TypeOK, AppFlow, UpdateSteps, HeartbeatSteps
  <2>3. CASE st = "hbTry" /\ back' = [back EXCEPT ![g] = "apRun"]
    BY <1>1, <1>4, <2>3, ThreadNames DEF TypeOK, AppFlow, UpdateSteps, HeartbeatSteps
  <2> QED
    BY <2>1, <2>2, <2>3
<1>7. ASSUME NEW x \in Groups PROVE AppFlow(x)'
  <2>1. x # g => AppFlow(x)'
    BY <1>1, <1>4, ThreadNames DEF FlowInv, AppFlow
  <2> QED
    BY <1>6, <2>1
<1>8. FlowInv'
  BY <1>1, <1>5, <1>7, ThreadNames DEF FlowInv, ServiceFlow
<1>9. RoundInv' /\ TableLockInv'
  BY <1>1, <1>5, ThreadNames, TableLockFrame DEF RoundInv
<1> QED
  BY <1>2, <1>3, <1>4, <1>8, <1>9

(* Registering, starting a heartbeat, shutting down, persisting.           *)
LEMMA AppQuietPreserves ==
    ASSUME FactoryInv, NEW g \in Groups, StartHeartbeat(g) \/ Shutdown(g) \/ Persisted(g)
    PROVE  FactoryInv'
<1>1. TypeOK
  BY DEF FactoryInv
<1>2. /\ UNCHANGED <<brokerVars, lockVars, routeVars, tableVars, received, roundVars, beat>>
      /\ UNCHANGED SharedVars
  BY DEF StartHeartbeat, Shutdown, Persisted, SharedVars, brokerVars, knownVars, lockVars, routeVars,
     tableVars
<1>3. PICK st \in {"hbTry", "apPersist", "apUnregister"} :
          /\ Moves(g, st)
          /\ pc[g] \in {"apBeat", "apRun", "apPersist"}
          /\ IF st = "hbTry" THEN back' = [back EXCEPT ![g] = "apRun"] ELSE back' = back
  BY DEF StartHeartbeat, Shutdown, Persisted, Enters, Goes, Moves
<1>4. /\ pc' \in [Threads -> Steps] /\ back' \in [Threads -> Steps]
      /\ pc'[g] = st
      /\ \A x \in Threads : x # g => pc'[x] = pc[x] /\ back'[x] = back[x]
      /\ FlowInv' /\ RoundInv' /\ TableLockInv'
  <2>1. st \in UpdateSteps \cup HeartbeatSteps \cup AppSteps
    BY DEF HeartbeatSteps, AppSteps
  <2>2. st # "hbTry" => st \in AppSteps
    BY DEF AppSteps
  <2>3. UNCHANGED <<consumerTableLock, left>>
    BY <1>2 DEF lockVars, roundVars
  <2> QED
    BY <1>3, <2>1, <2>2, <2>3, AppStep
<1>5. todo' \in [Threads -> Routes]
  BY <1>1, ThreadNames DEF TypeOK, StartHeartbeat, Shutdown, Persisted
<1>6. TypeOK'
  BY <1>1, <1>2, <1>4, <1>5 DEF TypeOK, brokerVars, knownVars, lockVars, routeVars, tableVars, roundVars
<1>7. LockInv' /\ ServiceInv' /\ GhostInv' /\ InfoInv'
  <2>1. st \in QuietSteps \cup EntrySteps /\ pc[g] \in QuietSteps
    BY <1>3 DEF QuietSteps, EntrySteps
  <2>2. st \in HeartbeatSteps => back'[g] # "apStarted"
    BY <1>1, <1>3, ThreadNames DEF TypeOK, HeartbeatSteps
  <2> QED
    BY <1>2, <1>3, <1>4, <2>1, <2>2, ThreadNames, QuietStep
<1> QED
  BY <1>4, <1>6, <1>7 DEF FactoryInv

(* A new consumer enters the table without queues.                         *)
LEMMA RegisterPreserves ==
    ASSUME FactoryInv, NEW g \in Groups, RegisterConsumer(g)
    PROVE  FactoryInv'
<1>1. TypeOK /\ LockInv /\ ServiceInv /\ GhostInv /\ InfoInv
  BY DEF FactoryInv
<1>2. /\ pc[g] = "apNew" /\ Moves(g, "apFactory") /\ back' = back
      /\ consumerTable' = consumerTable \cup {g}
      /\ UNCHANGED <<brokerVars, lockVars, routeVars, serviceState, processQueueTable,
                     received, todo, roundVars, beat>>
  BY DEF RegisterConsumer, Goes, Moves
<1>3. /\ pc' \in [Threads -> Steps] /\ pc'[g] = "apFactory"
      /\ \A x \in Threads : x # g => pc'[x] = pc[x]
      /\ FlowInv' /\ RoundInv' /\ TableLockInv'
  BY <1>2, AppStep DEF AppSteps, lockVars, roundVars
<1>4. TypeOK'
  BY <1>1, <1>2, <1>3 DEF TypeOK, brokerVars, knownVars, lockVars, routeVars, roundVars
<1>5. LockInv'
  BY <1>1, <1>2, <1>3, LockFrame DEF lockVars
<1>6. ServiceInv'
  BY <1>1, <1>2, <1>3, ThreadNames, ServiceFrame DEF Starting, Stopping, HeartbeatSteps, lockVars
<1>7. GhostInv'
  <2>1. g \notin Gone
    BY <1>1, <1>2 DEF GhostInv, LeftSteps
  <2>2. /\ \A x \in Groups : pc'[x] \in LeftSteps => x \notin consumerTable'
        /\ \A x \in Gone : pc'[x] \in LeftSteps \ {"unTry", "unSend"}
    BY <1>1, <1>2, <1>3, <2>1, ThreadNames, GoneGroups DEF GhostInv, LeftSteps
  <2>3. (\A x \in Threads : pc'[x] # "hbSend") => (\A x \in Threads : pc[x] # "hbSend")
    BY <1>2, <1>3
  <2> QED
    BY <1>1, <1>2, <2>2, <2>3 DEF GhostInv, Gone, OvertakenInv, brokerVars, knownVars
<1>8. InfoInv'
  BY <1>1, <1>2, <1>3, ThreadNames DEF InfoInv, routeVars, TypeOK
<1> QED
  BY <1>3, <1>4, <1>5, <1>6, <1>7, <1>8 DEF FactoryInv

(* The consumer leaves the table, then unregisters under m_lockHeartbeat,  *)
(* or without it does not.                                                 *)
LEMMA UnregisterPreserves ==
    ASSUME FactoryInv, NEW g \in Groups,
           \/ UnregisterConsumer(g) \/ UnregisterTry(g) \/ UnregisterSend(g)
           \/ FactoryShutdown(g)
    PROVE  FactoryInv'
<1>1. TypeOK /\ LockInv /\ ServiceInv /\ GhostInv /\ InfoInv
  BY DEF FactoryInv
<1>2. /\ UNCHANGED <<nsRoute, consumerTableLock, lockNamesrv, mutex, routeVars, serviceState,
                     processQueueTable, back, received, todo, roundVars, beat>>
  BY DEF UnregisterConsumer, UnregisterTry, UnregisterSend, FactoryShutdown, brokerVars, knownVars,
     lockVars, tableVars
<1>3. PICK st : Moves(g, st) /\ st \in {"unTry", "unSend", "apShutdown", "apMutex", "ended"}
  BY DEF UnregisterConsumer, UnregisterTry, UnregisterSend, FactoryShutdown, Goes, Moves
<1>4. /\ pc' \in [Threads -> Steps] /\ pc'[g] = st
      /\ \A x \in Threads : x # g => pc'[x] = pc[x]
      /\ FlowInv' /\ RoundInv' /\ TableLockInv'
  BY <1>2, <1>3, AppStep DEF AppSteps, roundVars
<1>5. pc[g] \in {"apUnregister", "unTry", "unSend", "apShutdown"}
  BY DEF UnregisterConsumer, UnregisterTry, UnregisterSend, FactoryShutdown
<1>6. TypeOK'
  <2>1. /\ registered' \subseteq Groups /\ unregistered' \subseteq Groups
        /\ consumerTable' \subseteq Groups /\ overtaken' \subseteq Groups
    BY <1>1 DEF TypeOK, UnregisterConsumer, UnregisterTry, UnregisterSend, Unregistered,
       FactoryShutdown, brokerVars, knownVars, tableVars
  <2>2. lockHeartbeat' \in Threads \cup {Nobody}
    BY <1>1, ThreadNames DEF TypeOK, UnregisterConsumer, UnregisterTry, UnregisterSend,
       FactoryShutdown, lockVars
  <2>3. late' \subseteq {"heartbeat", "unregister"} \X Groups
    <3>1. late' = late \/ late' = late \cup {<<"unregister", g>>}
      BY DEF UnregisterConsumer, UnregisterTry, UnregisterSend, FactoryShutdown, brokerVars,
         knownVars
    <3> QED
      BY <1>1, <3>1 DEF TypeOK
  <2> QED
    BY <1>1, <1>2, <1>4, <2>1, <2>2, <2>3 DEF TypeOK, routeVars, roundVars
<1>7. ServiceInv'
  <2>1. (Starting(g)' => Starting(g)) /\ ~Stopping(g)'
    BY <1>3, <1>4 DEF Starting, Stopping, HeartbeatSteps
  <2> QED
    BY <1>1, <1>2, <1>3, <2>1, ThreadNames, ServiceFrame
<1>8. InfoInv'
  <2>1. \A x \in Groups : pc'[x] = "apNew" => pc[x] = "apNew"
    BY <1>3, <1>4, ThreadNames
  <2>2. consumerTable' \subseteq consumerTable
    BY DEF UnregisterConsumer, UnregisterTry, UnregisterSend, FactoryShutdown, tableVars
  <2> QED
    BY <1>1, <1>2, <2>1, <2>2 DEF InfoInv, routeVars
<1>9. \A x \in Threads : lockNamesrv' = x <=> pc'[x] \in {"nsQuery", "nsNeed", "nsApply"}
  BY <1>1, <1>2, <1>3, <1>4, <1>5 DEF LockInv
<1>10. \A x \in Threads : pc[x] = "hbSend" <=> pc'[x] = "hbSend"
  BY <1>3, <1>4, <1>5
<1>11. CASE UnregisterConsumer(g) \/ FactoryShutdown(g)
  <2>1. /\ UNCHANGED <<lockHeartbeat, registered, late, unregistered, overtaken>>
        /\ consumerTable' \subseteq consumerTable
        /\ pc[g] = "apUnregister" => g \notin consumerTable'
    BY <1>11 DEF UnregisterConsumer, FactoryShutdown, lockVars, brokerVars, knownVars, tableVars
  <2>2. pc[g] \in {"apUnregister", "apShutdown"} /\ st \notin {"unSend"}
    BY <1>1, <1>4, <1>11, ThreadNames DEF UnregisterConsumer, FactoryShutdown, Goes, TypeOK
  <2>3. LockInv'
    BY <1>1, <1>3, <1>4, <1>9, <2>1, <2>2 DEF LockInv
  <2>4. st = "unTry" => pc[g] = "apUnregister"
    BY <1>1, <1>4, <1>11, ThreadNames DEF UnregisterConsumer, FactoryShutdown, Goes, TypeOK
  <2>5. \A x \in Groups : pc'[x] \in LeftSteps => x \notin consumerTable'
    BY <1>1, <1>4, <2>1, <2>2, ThreadNames DEF GhostInv, LeftSteps
  <2>6. \A x \in Gone' : pc'[x] \in LeftSteps \ {"unTry", "unSend"}
    <3>1. g \in Gone => pc[g] = "apShutdown"
      BY <1>1, <2>2 DEF GhostInv, LeftSteps
    <3>2. pc[g] = "apShutdown" => st \in LeftSteps \ {"unTry", "unSend"}
      BY <1>3, <2>2, <2>4 DEF LeftSteps
    <3> QED
      BY <1>1, <1>4, <2>1, <3>1, <3>2, ThreadNames DEF GhostInv, Gone, TypeOK
  <2>7. GhostInv'
    BY <1>1, <1>2, <1>10, <2>1, <2>5, <2>6 DEF GhostInv, Gone, OvertakenInv
  <2> QED
    BY <1>4, <1>6, <1>7, <1>8, <2>3, <2>7 DEF FactoryInv
<1>12. CASE UnregisterTry(g)
  <2>1. /\ pc[g] = "unTry" /\ UNCHANGED <<registered, late, unregistered, overtaken, consumerTable>>
        /\ \/ lockHeartbeat = Nobody /\ lockHeartbeat' = g /\ st = "unSend"
           \/ lockHeartbeat # Nobody /\ lockHeartbeat' = lockHeartbeat /\ st = "apShutdown"
    BY <1>1, <1>4, <1>12, ThreadNames DEF UnregisterTry, Goes, TypeOK, brokerVars, knownVars, tableVars
  <2>2. LockInv'
    BY <1>1, <1>4, <1>9, <2>1, ThreadNames DEF LockInv
  <2>3. g \notin Gone
    BY <1>1, <2>1 DEF GhostInv
  <2>4. GhostInv'
    <3>1. \A x \in Gone : x \in Threads /\ x # g
      BY <1>1, <2>3, ThreadNames DEF Gone, TypeOK
    <3> QED
      BY <1>1, <1>2, <1>4, <1>10, <2>1, <3>1, ThreadNames
         DEF GhostInv, Gone, OvertakenInv, LeftSteps
  <2> QED
    BY <1>4, <1>6, <1>7, <1>8, <2>2, <2>4 DEF FactoryInv
<1>13. CASE UnregisterSend(g)
  <2>1. /\ pc[g] = "unSend" /\ UNCHANGED consumerTable
        /\ lockHeartbeat' = Nobody /\ st = "apShutdown"
        /\ \/ UNCHANGED <<registered, late, unregistered, overtaken>>
           \/ Unregistered(g) /\ UNCHANGED late
           \/ /\ late' = late \cup {<<"unregister", g>>}
              /\ UNCHANGED <<registered, unregistered, overtaken>>
    BY <1>1, <1>4, <1>13, ThreadNames DEF UnregisterSend, Goes, TypeOK, tableVars, knownVars
  <2>2. lockHeartbeat = g
    BY <1>1, <2>1, ThreadNames DEF LockInv
  <2>3. LockInv'
    BY <1>1, <1>4, <1>9, <2>1, <2>2, ThreadNames DEF LockInv
  <2>4. beat = {}
    BY <1>1, <2>1, <2>2 DEF LockInv, GhostInv
  <2>5. \A x \in Groups : pc'[x] \in LeftSteps => x \notin consumerTable'
    BY <1>1, <1>4, <2>1, ThreadNames DEF GhostInv, LeftSteps
  <2>6. \A x \in Gone' : pc'[x] \in LeftSteps \ {"unTry", "unSend"}
    <3>1. Gone' \subseteq Gone \cup {g}
      BY <2>1 DEF Gone, Unregistered
    <3>2. \A x \in Gone : x \in Threads
      BY <1>1, ThreadNames DEF Gone, TypeOK
    <3> QED
      BY <1>1, <1>4, <2>1, <3>1, <3>2, ThreadNames DEF GhostInv, LeftSteps
  <2>7. OvertakenInv'
    <3>1. CASE Unregistered(g) /\ UNCHANGED late
      BY <1>1, <3>1 DEF GhostInv, OvertakenInv, Unregistered
    <3>2. CASE UNCHANGED <<registered, unregistered, overtaken>>
      <4>1. \A x : <<"heartbeat", x>> \in late' => <<"heartbeat", x>> \in late
        BY <2>1 DEF Unregistered
      <4> QED
        BY <1>1, <3>2, <4>1 DEF GhostInv, OvertakenInv
    <3> QED
      BY <2>1, <3>1, <3>2
  <2>8. GhostInv'
    BY <1>1, <1>2, <2>4, <2>5, <2>6, <2>7 DEF GhostInv
  <2> QED
    BY <1>4, <1>6, <1>7, <1>8, <2>3, <2>8 DEF FactoryInv
<1> QED
  BY <1>11, <1>12, <1>13

-----------------------------------------------------------------------------
(* start and shutdown of the factory, under m_mutex.                       *)
LEMMA FactoryStartPreserves ==
    ASSUME FactoryInv, NEW g \in Groups, FactoryStart(g)
    PROVE  FactoryInv'
<1>1. TypeOK /\ FlowInv /\ RoundInv /\ LockInv /\ TableLockInv /\ ServiceInv /\ GhostInv /\ InfoInv
  BY DEF FactoryInv
<1>2. /\ pc[g] = "apFactory" /\ mutex = Nobody
      /\ UNCHANGED <<brokerVars, consumerTableLock, lockNamesrv, lockHeartbeat, routeVars,
                     tableVars, received, todo, roundVars, beat>>
  BY DEF FactoryStart
<1>3. UNCHANGED <<registered, late, unregistered, overtaken, serviceState, consumerTable,
                  topicSubscribeInfo, topicRouteTable, left>>
  BY <1>2 DEF brokerVars, knownVars, tableVars, routeVars, roundVars
<1>4. CASE serviceState = "CREATE_JUST"
  <2>1. \A t \in Services : pc[t] = "ended"
    BY <1>1, <1>2, <1>4 DEF ServiceInv
  <2>2. /\ mutex' = g
        /\ pc' = [t \in Threads |-> IF t = g THEN "hbTry"
                                    ELSE IF t \in Services THEN "idle" ELSE pc[t]]
        /\ back' = [back EXCEPT ![g] = "apStarted"]
    BY <1>4 DEF FactoryStart
  <2>3. /\ pc'[g] = "hbTry" /\ back'[g] = "apStarted"
        /\ \A t \in Services : pc'[t] = "idle"
        /\ \A t \in Groups : t # g => pc'[t] = pc[t] /\ back'[t] = back[t]
    BY <1>1, <2>2, ThreadNames DEF TypeOK
  <2>4. TypeOK'
    <3>1. pc' \in [Threads -> Steps] /\ back' \in [Threads -> Steps]
      BY <1>1, <2>2 DEF TypeOK, Steps, HeartbeatSteps, AppSteps
    <3> QED
      BY <1>1, <1>2, <2>2, <3>1, ThreadNames DEF TypeOK, brokerVars, knownVars, routeVars, tableVars,
         roundVars
  <2>5. FlowInv'
    <3>1. ServiceFlow'
      BY <2>3, ThreadNames DEF ServiceFlow, UpdateSteps, HeartbeatSteps
    <3>2. ASSUME NEW x \in Groups PROVE AppFlow(x)'
      BY <1>1, <2>3 DEF FlowInv, AppFlow, HeartbeatSteps, UpdateSteps
    <3> QED
      BY <3>1, <3>2 DEF FlowInv
  <2>6. RoundInv'
    BY <2>3, ThreadNames DEF RoundInv
  <2>7. TableLockInv'
    BY <1>1, <1>2, <2>1, <2>3, TableLockFrame, ThreadNames
  <2>8. LockInv'
    BY <1>1, <1>2, <2>1, <2>3, LockFrame DEF Threads
  <2>9. ServiceInv'
    <3>1. ASSUME NEW x \in Groups, x # g
          PROVE  ~Starting(x)' /\ ~Stopping(x)' /\ pc'[x] # "apJoinRebalance"
      <4>1. ~Starting(x) /\ ~Stopping(x)
        BY <1>1, <1>2, ThreadNames DEF ServiceInv
      <4> QED
        BY <2>3, <3>1, <4>1 DEF Starting, Stopping
    <3>2. ~Stopping(g)' /\ pc'[g] # "apJoinRebalance"
      BY <2>3 DEF Stopping
    <3> QED
      BY <1>3, <1>4, <2>2, <3>1, <3>2, ThreadNames DEF ServiceInv
  <2>10. GhostInv'
    <3>1. \A x \in Groups : pc'[x] \in LeftSteps => pc[x] \in LeftSteps
      BY <2>3 DEF LeftSteps
    <3>2. \A x \in Gone : pc[x] \in LeftSteps \ {"unTry", "unSend"}
                                    => pc'[x] \in LeftSteps \ {"unTry", "unSend"}
      BY <1>1, <1>2, <2>3, GoneGroups DEF LeftSteps
    <3>3. \A t \in Threads : pc[t] = "hbSend" => pc'[t] = "hbSend"
      BY <1>2, <2>1, <2>3 DEF Threads
    <3> QED
      BY <1>1, <1>2, <1>3, <3>1, <3>2, <3>3, GhostFrame
  <2>11. InfoInv'
    <3>1. \A x \in Groups : pc'[x] = "apNew" => pc[x] = "apNew"
      BY <2>3
    <3> QED
      BY <1>1, <1>3, <3>1, InfoFrame
  <2> QED
    BY <2>4, <2>5, <2>6, <2>7, <2>8, <2>9, <2>10, <2>11 DEF FactoryInv
<1>5. CASE serviceState # "CREATE_JUST"
  <2>1. /\ Moves(g, "nsLock") /\ back' = [back EXCEPT ![g] = "apBeat"] /\ mutex' = mutex
    BY <1>5 DEF FactoryStart, Enters, Goes, Moves
  <2>2. /\ pc' \in [Threads -> Steps] /\ back' \in [Threads -> Steps]
        /\ \A x \in Threads : x # g => back'[x] = back[x]
        /\ FlowInv' /\ RoundInv' /\ TableLockInv'
    BY <1>2, <1>3, <2>1, AppStep DEF UpdateSteps
  <2>3. TypeOK'
    BY <1>1, <1>2, <2>1, <2>2 DEF TypeOK, brokerVars, knownVars, routeVars, tableVars, roundVars
  <2>4. LockInv' /\ ServiceInv' /\ GhostInv' /\ InfoInv'
    BY <1>2, <1>3, <2>1, <2>2, ThreadNames, QuietStep
       DEF SharedVars, QuietSteps, EntrySteps, HeartbeatSteps
  <2> QED
    BY <2>2, <2>3, <2>4 DEF FactoryInv
<1> QED
  BY <1>4, <1>5

(* Steps of the factory's start and shutdown that move only their thread.  *)
LEMMA FactoryMovesPreserve ==
    ASSUME FactoryInv, NEW g \in Groups,
           FactoryStarted(g) \/ StopServices(g) \/ JoinRebalance(g)
    PROVE  FactoryInv'
<1>1. TypeOK /\ LockInv /\ ServiceInv /\ GhostInv /\ InfoInv
  BY DEF FactoryInv
<1>2. UNCHANGED <<brokerVars, consumerTableLock, lockNamesrv, lockHeartbeat, routeVars,
                  consumerTable, processQueueTable, received, todo, roundVars, beat>>
  BY DEF FactoryStarted, StopServices, JoinRebalance, tableVars
<1>3. UNCHANGED <<registered, late, unregistered, overtaken, topicSubscribeInfo, topicRouteTable, left>>
  BY <1>2 DEF brokerVars, knownVars, routeVars, roundVars
<1>4. PICK st \in {"nsLock", "apJoinTasks", "ended"} :
          /\ Moves(g, st)
          /\ IF st = "nsLock" THEN back' = [back EXCEPT ![g] = "apBeat"] ELSE back' = back
  BY DEF FactoryStarted, StopServices, JoinRebalance, Enters, Goes, Moves
<1>5. /\ pc' \in [Threads -> Steps] /\ back' \in [Threads -> Steps] /\ pc'[g] = st
      /\ \A x \in Threads : x # g => pc'[x] = pc[x] /\ back'[x] = back[x]
      /\ FlowInv' /\ RoundInv' /\ TableLockInv'
  <2>1. /\ st = "nsLock" => st \in UpdateSteps
        /\ st # "nsLock" => st \in AppSteps \cup {"ended"}
    BY DEF UpdateSteps, AppSteps
  <2> QED
    BY <1>2, <1>3, <1>4, <2>1, AppStep
<1>6. pc[g] \in {"apStarted", "apMutex", "apJoinRebalance"}
  BY DEF FactoryStarted, StopServices, JoinRebalance
<1>7. TypeOK'
  <2>1. /\ mutex' \in Threads \cup {Nobody}
        /\ serviceState' \in {"CREATE_JUST", "RUNNING", "SHUTDOWN_ALREADY"}
    BY <1>1, ThreadNames DEF TypeOK, FactoryStarted, StopServices, JoinRebalance, tableVars
  <2> QED
    BY <1>1, <1>2, <1>5, <2>1 DEF TypeOK, brokerVars, knownVars, routeVars, roundVars
<1>8. LockInv'
  BY <1>1, <1>2, <1>5, <1>6, LockFrame
<1>9. GhostInv'
  <2>1. st \in LeftSteps => pc[g] \in LeftSteps
    BY <1>1, <1>5, <1>6, ThreadNames
       DEF FactoryStarted, StopServices, JoinRebalance, Enters, Goes, TypeOK, LeftSteps
  <2>2. pc[g] \in LeftSteps => st \in LeftSteps \ {"unTry", "unSend"}
    BY <1>1, <1>5, <1>6, ThreadNames
       DEF FactoryStarted, StopServices, JoinRebalance, Enters, Goes, TypeOK, LeftSteps
  <2>3. \A x \in Groups : pc'[x] \in LeftSteps => pc[x] \in LeftSteps
    BY <1>5, <2>1, ThreadNames
  <2>4. \A x \in Gone : pc[x] \in LeftSteps \ {"unTry", "unSend"}
                                    => pc'[x] \in LeftSteps \ {"unTry", "unSend"}
    BY <1>1, <1>5, <2>2, ThreadNames, GoneGroups
  <2>5. \A x \in Threads : pc[x] = "hbSend" => pc'[x] = "hbSend"
    BY <1>5, <1>6
  <2> QED
    BY <1>1, <1>2, <1>3, <2>3, <2>4, <2>5, GhostFrame
<1>10. InfoInv'
  <2>1. \A x \in Groups : pc'[x] = "apNew" => pc[x] = "apNew"
    BY <1>5, ThreadNames
  <2> QED
    BY <1>1, <1>2, <1>3, <2>1, InfoFrame
<1>11. \A t \in Services : pc'[t] = pc[t]
  BY <1>5, ThreadNames
<1>12. ASSUME NEW x \in Groups, x # g
       PROVE  /\ Starting(x)' <=> Starting(x)
              /\ Stopping(x)' <=> Stopping(x)
  BY <1>5, <1>12, ThreadNames DEF Starting, Stopping
<1>13. ServiceInv'
  <2>1. CASE FactoryStarted(g)
    <3>1. pc[g] = "apStarted" /\ serviceState' = "RUNNING" /\ mutex' = Nobody /\ st = "nsLock"
      BY <1>1, <1>5, <2>1, ThreadNames DEF FactoryStarted, Enters, Goes, TypeOK
    <3>2. mutex = g
      BY <1>1, <3>1 DEF ServiceInv, Starting
    <3>3. ASSUME NEW x \in Groups
          PROVE  ~Starting(x)' /\ ~Stopping(x)' /\ pc'[x] # "apJoinRebalance"
      <4>1. CASE x = g
        BY <1>5, <3>1, <4>1 DEF Starting, Stopping, HeartbeatSteps
      <4>2. CASE x # g
        BY <1>1, <1>12, <3>2, <4>2 DEF ServiceInv, Stopping
      <4> QED
        BY <4>1, <4>2
    <3> QED
      BY <3>1, <3>3 DEF ServiceInv
  <2>2. CASE StopServices(g) /\ serviceState = "RUNNING"
    <3>1. /\ pc[g] = "apMutex" /\ mutex = Nobody /\ mutex' = g /\ st = "apJoinTasks"
          /\ serviceState' = serviceState
      BY <1>1, <1>5, <2>2, ThreadNames DEF StopServices, Goes, TypeOK, tableVars
    <3>2. ASSUME NEW x \in Groups, x # g
          PROVE  ~Starting(x)' /\ ~Stopping(x)' /\ pc'[x] # "apJoinRebalance"
      BY <1>1, <1>12, <3>1, <3>2, ThreadNames DEF ServiceInv, Stopping
    <3>3. ~Starting(g)' /\ pc'[g] # "apJoinRebalance"
      BY <1>5, <3>1 DEF Starting, HeartbeatSteps
    <3> QED
      BY <2>2, <3>1, <3>2, <3>3 DEF ServiceInv
  <2>3. CASE StopServices(g) /\ serviceState # "RUNNING"
    <3>1. /\ mutex = Nobody /\ mutex' = mutex /\ st = "ended"
          /\ serviceState' = serviceState
      BY <1>1, <1>5, <2>3, ThreadNames DEF StopServices, Goes, TypeOK, tableVars
    <3>2. ~Starting(g)' /\ ~Stopping(g)'
      BY <1>5, <3>1 DEF Starting, Stopping, HeartbeatSteps
    <3>3. \A x \in Groups : x # g => back'[x] = back[x]
      BY <1>5, ThreadNames
    <3> QED
      BY <1>1, <1>4, <3>1, <3>2, <3>3, ThreadNames, ServiceFrame
  <2>4. CASE JoinRebalance(g)
    <3>1. /\ pc[g] = "apJoinRebalance" /\ pc["rebalance"] = "ended"
          /\ serviceState' = "SHUTDOWN_ALREADY" /\ mutex' = Nobody /\ st = "ended"
      BY <1>1, <1>5, <2>4, ThreadNames DEF JoinRebalance, Goes, TypeOK
    <3>2. mutex = g /\ \A t \in Tasks : pc[t] = "ended"
      BY <1>1, <3>1 DEF ServiceInv, Stopping
    <3>3. \A t \in Services : pc'[t] = "ended"
      BY <1>11, <3>1, <3>2 DEF Tasks
    <3>4. ASSUME NEW x \in Groups
          PROVE  ~Starting(x)' /\ ~Stopping(x)' /\ pc'[x] # "apJoinRebalance"
      <4>1. CASE x = g
        BY <1>5, <3>1, <4>1 DEF Starting, Stopping, HeartbeatSteps
      <4>2. CASE x # g
        BY <1>1, <1>12, <3>2, <4>2 DEF ServiceInv, Stopping
      <4> QED
        BY <4>1, <4>2
    <3> QED
      BY <3>1, <3>3, <3>4 DEF ServiceInv
  <2> QED
    BY <2>1, <2>2, <2>3, <2>4
<1> QED
  BY <1>5, <1>7, <1>8, <1>9, <1>10, <1>13 DEF FactoryInv

(* The workers are joined: the tasks have ended and start no more.         *)
LEMMA JoinTasksPreserves ==
    ASSUME FactoryInv, NEW g \in Groups, JoinTasks(g)
    PROVE  FactoryInv'
<1>1. TypeOK /\ FlowInv /\ RoundInv /\ LockInv /\ TableLockInv /\ ServiceInv /\ GhostInv /\ InfoInv
  BY DEF FactoryInv
<1>2. /\ pc[g] = "apJoinTasks" /\ \A t \in Tasks : pc[t] = "idle"
      /\ pc' = [t \in Threads |-> IF t = g THEN "apJoinRebalance"
                                  ELSE IF t \in Tasks THEN "ended" ELSE pc[t]]
      /\ UNCHANGED <<brokerVars, lockVars, routeVars, tableVars, back, received, todo,
                     roundVars, beat>>
  BY DEF JoinTasks
<1>3. Tasks \subseteq Services /\ "rebalance" \notin Tasks
      /\ {"route", "clean", "persist"} \subseteq Tasks
  BY DEF Tasks, Services
<1>4. /\ pc'[g] = "apJoinRebalance"
      /\ \A t \in Tasks : pc'[t] = "ended"
      /\ \A t \in Threads : t # g /\ t \notin Tasks => pc'[t] = pc[t]
  BY <1>2, <1>3, ThreadNames
<1>5. pc'["rebalance"] = pc["rebalance"] /\ \A x \in Groups : x # g => pc'[x] = pc[x]
  BY <1>3, <1>4, ThreadNames
<1>6. TypeOK'
  <2>1. pc' \in [Threads -> Steps]
    BY <1>1, <1>2 DEF TypeOK, Steps, AppSteps
  <2> QED
    BY <1>1, <1>2, <2>1 DEF TypeOK, brokerVars, knownVars, lockVars, routeVars, tableVars, roundVars
<1>7. FlowInv'
  <2>1. ServiceFlow'
    BY <1>1, <1>2, <1>3, <1>4, <1>5 DEF FlowInv, ServiceFlow, UpdateSteps, HeartbeatSteps
  <2>2. ASSUME NEW x \in Groups PROVE AppFlow(x)'
    BY <1>1, <1>2, <1>4, <1>5 DEF FlowInv, AppFlow, AppSteps, UpdateSteps, HeartbeatSteps
  <2> QED
    BY <2>1, <2>2 DEF FlowInv
<1>8. RoundInv' /\ TableLockInv'
  BY <1>1, <1>2, <1>3, <1>4, <1>5, TableLockFrame DEF RoundInv, roundVars, lockVars
<1>9. LockInv'
  BY <1>1, <1>2, <1>3, <1>4, LockFrame DEF lockVars
<1>10. ServiceInv'
  <2>1. mutex = g /\ serviceState = "RUNNING" /\ UNCHANGED <<mutex, serviceState>>
    BY <1>1, <1>2 DEF ServiceInv, Stopping, lockVars, tableVars
  <2>2. ASSUME NEW x \in Groups, x # g PROVE ~Starting(x)' /\ ~Stopping(x)'
    BY <1>1, <1>2, <1>5, <2>1, <2>2 DEF ServiceInv, Starting, Stopping
  <2>3. ~Starting(g)'
    BY <1>4 DEF Starting, HeartbeatSteps
  <2> QED
    BY <1>4, <2>1, <2>2, <2>3, ThreadNames DEF ServiceInv, Stopping
<1>11. GhostInv'
  <2>1. \A x \in Groups : pc'[x] \in LeftSteps => pc[x] \in LeftSteps
    BY <1>2, <1>5 DEF LeftSteps
  <2>2. \A x \in Gone : pc[x] \in LeftSteps \ {"unTry", "unSend"}
                                    => pc'[x] \in LeftSteps \ {"unTry", "unSend"}
    BY <1>1, <1>4, <1>5, GoneGroups DEF LeftSteps
  <2>3. \A t \in Threads : pc[t] = "hbSend" => pc'[t] = "hbSend"
    BY <1>2, <1>4
  <2> QED
    BY <1>1, <1>2, <2>1, <2>2, <2>3, GhostFrame DEF brokerVars, knownVars, tableVars
<1>12. InfoInv'
  <2>1. \A x \in Groups : pc'[x] = "apNew" => pc[x] = "apNew"
    BY <1>4, <1>5
  <2> QED
    BY <1>1, <1>2, <2>1, InfoFrame DEF routeVars, tableVars
<1> QED
  BY <1>6, <1>7, <1>8, <1>9, <1>10, <1>11, <1>12 DEF FactoryInv

(* The name server's next route, and stuttering.                           *)
LEMMA ElsewherePreserves ==
    ASSUME FactoryInv, RouteChanges \/ UNCHANGED vars
    PROVE  FactoryInv'
<1>1. TypeOK /\ FlowInv /\ RoundInv /\ LockInv /\ TableLockInv /\ ServiceInv /\ GhostInv /\ InfoInv
  BY DEF FactoryInv
<1>2. /\ UNCHANGED <<knownVars, lockVars, routeVars, tableVars, threadVars>>
      /\ nsRoute' \in DOMAIN RouteHistory
  BY <1>1 DEF RouteChanges, vars, brokerVars, knownVars, TypeOK
<1>3. /\ UNCHANGED <<registered, late, unregistered, overtaken, consumerTableLock, lockNamesrv,
                     lockHeartbeat, mutex, topicRouteTable, brokerAddrTable, topicSubscribeInfo>>
      /\ UNCHANGED <<serviceState, consumerTable, processQueueTable, pc, back, received, todo,
                     left, target, at, beat>>
  BY <1>2 DEF knownVars, lockVars, routeVars, tableVars, threadVars, roundVars
<1>4. TypeOK'
  BY <1>1, <1>2, <1>3 DEF TypeOK
<1>5. FlowInv' /\ RoundInv'
  BY <1>1, <1>3 DEF FlowInv, ServiceFlow, AppFlow, RoundInv
<1>6. LockInv' /\ TableLockInv'
  BY <1>1, <1>3 DEF LockInv, TableLockInv
<1>7. ServiceInv'
  BY <1>1, <1>3 DEF ServiceInv, Starting, Stopping
<1>8. GhostInv' /\ InfoInv'
  BY <1>1, <1>3 DEF GhostInv, Gone, OvertakenInv, InfoInv
<1> QED
  BY <1>4, <1>5, <1>6, <1>7, <1>8 DEF FactoryInv

(* A request that arrives after its call timed out: it is an early one of  *)
(* a consumer that unregistered, or none of its requests is.               *)
LEMMA LatePreserves ==
    ASSUME FactoryInv, LateRequest
    PROVE  FactoryInv'
<1>1. TypeOK /\ FlowInv /\ RoundInv /\ LockInv /\ TableLockInv /\ ServiceInv /\ GhostInv /\ InfoInv
  BY DEF FactoryInv
<1>2. /\ UNCHANGED <<nsRoute, consumerTableLock, lockNamesrv, lockHeartbeat, mutex,
                     topicRouteTable, brokerAddrTable, topicSubscribeInfo>>
      /\ UNCHANGED <<serviceState, consumerTable, processQueueTable, pc, back, received, todo,
                     left, target, at, beat>>
  BY DEF LateRequest, lockVars, routeVars, tableVars, threadVars, roundVars
<1>3. PICK g \in Groups :
          \/ /\ <<"heartbeat", g>> \in late
             /\ late' = late \ {<<"heartbeat", g>>}
             /\ registered' = registered \cup {g}
             /\ UNCHANGED <<unregistered, overtaken>>
          \/ /\ <<"unregister", g>> \in late
             /\ late' = late \ {<<"unregister", g>>}
             /\ Unregistered(g)
  <2>1. PICK m \in late :
            /\ late' = late \ {m}
            /\ \/ /\ m[1] = "heartbeat"
                  /\ registered' = registered \cup {m[2]}
                  /\ UNCHANGED <<unregistered, overtaken>>
               \/ m[1] = "unregister" /\ Unregistered(m[2])
    BY DEF LateRequest
  <2>2. m = <<m[1], m[2]>> /\ m[2] \in Groups
    BY <1>1 DEF TypeOK
  <2> QED
    BY <2>1, <2>2
<1>4. late' \subseteq late
  BY <1>3
<1>5. TypeOK'
  BY <1>1, <1>2, <1>3, <1>4 DEF TypeOK, Unregistered
<1>6. FlowInv' /\ RoundInv' /\ LockInv' /\ TableLockInv'
  BY <1>1, <1>2 DEF FlowInv, ServiceFlow, AppFlow, RoundInv, LockInv, TableLockInv
<1>7. ServiceInv' /\ InfoInv'
  BY <1>1, <1>2 DEF ServiceInv, Starting, Stopping, InfoInv
<1>8. Gone' \subseteq Gone
  BY <1>3, <1>4 DEF Gone, Unregistered
<1>9. OvertakenInv'
  <2>1. CASE UNCHANGED <<unregistered, overtaken>>
    BY <1>1, <1>3, <1>4, <2>1 DEF GhostInv, OvertakenInv, Unregistered
  <2>2. CASE Unregistered(g)
    BY <1>1, <1>4, <2>2 DEF GhostInv, OvertakenInv, Unregistered
  <2> QED
    BY <1>3, <2>1, <2>2
<1>10. GhostInv'
  BY <1>1, <1>2, <1>8, <1>9 DEF GhostInv
<1> QED
  BY <1>5, <1>6, <1>7, <1>10 DEF FactoryInv

-----------------------------------------------------------------------------
(* The invariant of the factory's tables, locks and threads.               *)
THEOREM FactoryInvHolds == Spec => []FactoryInv
<1>1. ASSUME FactoryInv, [Next]_vars
      PROVE  FactoryInv'
  <2>1. CASE \E t \in Threads \ {"clean"} : UpdateRoute(t)
    BY <1>1, <2>1, UpdatePreserves
  <2>2. CASE \E t \in Groups \cup {"clean"} : Heartbeat(t)
    BY <1>1, <2>2, HeartbeatPreserves
  <2>3. CASE \E t \in Groups \cup {"persist"} : PersistQueue(t)
    BY <1>1, <2>3, PersistQueuePreserves
  <2>4. CASE DoRebalance \/ Rebalance
    BY <1>1, <2>4, RoundPreserves
  <2>5. CASE RouteTask \/ CleanTask \/ PersistTask \/ PersistEnds
    BY <1>1, <2>5, TaskPreserves
  <2>6. CASE \E g \in Groups : RegisterConsumer(g) \/ Shutdown(g) \/ App(g)
    <3>1. PICK g \in Groups : RegisterConsumer(g) \/ Shutdown(g) \/ App(g)
      BY <2>6
    <3> QED
      BY <1>1, <3>1, RegisterPreserves, AppQuietPreserves, UnregisterPreserves,
         FactoryStartPreserves, FactoryMovesPreserve, JoinTasksPreserves DEF App
  <2>7. CASE RouteChanges \/ UNCHANGED vars
    BY <1>1, <2>7, ElsewherePreserves
  <2>8. CASE LateRequest
    BY <1>1, <2>8, LatePreserves
  <2> QED
    BY <1>1, <2>1, <2>2, <2>3, <2>4, <2>5, <2>6, <2>7, <2>8 DEF Next
<1> QED
  BY <1>1, InitHolds, PTL DEF Spec

(* The tables hold what they are for, and a lock is held by a thread of    *)
(* the factory or by nobody.                                               *)
THEOREM TypeCorrect == Spec => []TypeOK
<1>1. FactoryInv => TypeOK
  BY DEF FactoryInv
<1> QED
  BY <1>1, FactoryInvHolds, PTL

(* A consumer that a broker has unregistered is registered again only by a *)
(* heartbeat whose call timed out before and that the unregistration has   *)
(* overtaken, never by one that was prepared while the consumer was in     *)
(* m_consumerTable and sent after it left (sendHeartbeatToAllBrokerWithLock, *)
(* unregisterClientWithLock), for any number of consumers and any broker.  *)
THEOREM NoGhostEver == Spec => []NoGhost
<1>1. FactoryInv => NoGhost
  BY DEF FactoryInv, GhostInv, OvertakenInv, NoGhost
<1> QED
  BY <1>1, FactoryInvHolds, PTL

(* A registered consumer has no queues or those of the route in the table, *)
(* though a consumer may register between a query and its application      *)
(* (updateTopicRouteInfoFromNameServer, registerConsumer).                 *)
THEOREM InfoAlwaysCurrent == Spec => []InfoIsCurrent
<1>1. FactoryInv => InfoIsCurrent
  BY DEF FactoryInv, InfoInv, InfoIsCurrent
<1> QED
  BY <1>1, FactoryInvHolds, PTL

(* After MQClientFactory::shutdown no service thread is in a task or a     *)
(* round and none holds a lock, whichever consumers started and shut down  *)
(* at the same time.                                                       *)
THEOREM QuietAfterShutdown == Spec => []ShutdownIsQuiet
<1>1. FactoryInv => ShutdownIsQuiet
  <2> SUFFICES ASSUME FactoryInv, serviceState = "SHUTDOWN_ALREADY"
               PROVE  /\ \A t \in Services : pc[t] = "ended"
                      /\ {consumerTableLock, lockNamesrv, lockHeartbeat} \cap Services = {}
    BY DEF ShutdownIsQuiet
  <2>1. \A t \in Services : pc[t] = "ended"
    BY DEF FactoryInv, ServiceInv
  <2>2. \A t \in Services : lockNamesrv # t /\ lockHeartbeat # t
    BY <2>1, ThreadNames DEF FactoryInv, LockInv
  <2>3. consumerTableLock = Nobody
    BY <2>1, ThreadNames DEF FactoryInv, TableLockInv
  <2> QED
    BY <2>1, <2>2, <2>3, ThreadNames
<1> QED
  BY <1>1, FactoryInvHolds, PTL

-----------------------------------------------------------------------------
(* Circular waits.                                                         *)

(* Whoever has m_mutex starts or stops the factory.                        *)
MutexInv == mutex # Nobody => mutex \in Groups /\ (Starting(mutex) \/ Stopping(mutex))

(* A step of another thread, or one that keeps the holder where it is.     *)
LEMMA MutexStays ==
    ASSUME FactoryInv, MutexInv, NEW t \in Threads, UNCHANGED mutex,
           \E st : pc' = [pc EXCEPT ![t] = st],
           UNCHANGED back \/ \E st : back' = [back EXCEPT ![t] = st],
           t = mutex => Starting(t)' \/ Stopping(t)'
    PROVE  MutexInv'
<1> SUFFICES ASSUME mutex # Nobody PROVE Starting(mutex)' \/ Stopping(mutex)'
  BY DEF MutexInv
<1>1. mutex \in Groups /\ mutex \in Threads /\ (Starting(mutex) \/ Stopping(mutex))
  BY ThreadNames DEF MutexInv
<1>2. CASE t = mutex
  BY <1>2
<1>3. CASE t # mutex
  <2>1. pc'[mutex] = pc[mutex] /\ back'[mutex] = back[mutex]
    BY <1>1, <1>3 DEF FactoryInv, TypeOK
  <2> QED
    BY <1>1, <2>1 DEF Starting, Stopping
<1> QED
  BY <1>2, <1>3

(* A thread that is at none of the holder's steps is not the holder.       *)
LEMMA NotHolder ==
    ASSUME MutexInv, NEW t \in Threads,
           pc[t] \notin HeartbeatSteps \cup {"apStarted", "apJoinTasks", "apJoinRebalance"}
    PROVE  t # mutex
BY ThreadNames DEF MutexInv, Starting, Stopping

LEMMA MutexHeartbeat ==
    ASSUME FactoryInv, MutexInv, NEW t \in Threads, Heartbeat(t)
    PROVE  MutexInv'
<1>1. /\ pc[t] \in HeartbeatSteps /\ UNCHANGED mutex
      /\ \E st : pc' = [pc EXCEPT ![t] = st]
      /\ UNCHANGED back \/ \E st : back' = [back EXCEPT ![t] = st]
  BY DEF Heartbeat, HeartbeatTry, HeartbeatPrepare, HeartbeatSend, Goes, Returns, HeartbeatSteps,
     lockVars
<1>2. ASSUME t = mutex PROVE Starting(t)' \/ Stopping(t)'
  <2>1. back[t] = "apStarted"
    BY <1>1, <1>2, ThreadNames DEF MutexInv, Starting, Stopping, HeartbeatSteps
  <2>2. \/ /\ pc' \in {[pc EXCEPT ![t] = "hbPrepare"], [pc EXCEPT ![t] = "hbSend"]}
           /\ UNCHANGED back
        \/ pc' = [pc EXCEPT ![t] = "apStarted"]
    BY <2>1 DEF Heartbeat, HeartbeatTry, HeartbeatPrepare, HeartbeatSend, Goes, Returns
  <2> QED
    BY <2>1, <2>2 DEF Starting, HeartbeatSteps, FactoryInv, TypeOK
<1> QED
  BY <1>1, <1>2, MutexStays

LEMMA MutexUpdate ==
    ASSUME FactoryInv, MutexInv, NEW t \in Threads, UpdateRoute(t)
    PROVE  MutexInv'
<1>1. /\ pc[t] \in UpdateSteps /\ UNCHANGED mutex
      /\ \E st : pc' = [pc EXCEPT ![t] = st]
      /\ UNCHANGED back \/ \E st : back' = [back EXCEPT ![t] = st]
  BY DEF UpdateRoute, UpdateLock, UpdateQuery, UpdateNeed, UpdateApply, UpdateEnds, Goes,
     Returns, UpdateSteps
<1>2. t # mutex
  BY <1>1, NotHolder DEF UpdateSteps, HeartbeatSteps
<1> QED
  BY <1>1, <1>2, MutexStays

LEMMA MutexPersist ==
    ASSUME FactoryInv, MutexInv, NEW t \in Threads, PersistQueue(t)
    PROVE  MutexInv'
<1>1. pc[t] \in {"psNext", "apPersist"} /\ UNCHANGED mutex
  BY DEF PersistQueue, lockVars
<1>2. t # mutex
  BY <1>1, NotHolder DEF HeartbeatSteps
<1>3. CASE UNCHANGED <<pc, back>>
  BY <1>1, <1>3 DEF MutexInv, Starting, Stopping
<1>4. CASE Enters(t, "nsLock", pc[t])
  BY <1>1, <1>2, <1>4, MutexStays DEF Enters, Goes
<1> QED
  BY <1>3, <1>4 DEF PersistQueue

LEMMA MutexServices ==
    ASSUME FactoryInv, MutexInv,
           DoRebalance \/ Rebalance \/ RouteTask \/ CleanTask \/ PersistTask \/ PersistEnds
    PROVE  MutexInv'
<1>1. UNCHANGED mutex
  BY DEF DoRebalance, Rebalance, RoundEnds, RebalanceByTopic, FindConsumerIdList, RemoveQueue,
     QueueRemoved, AddQueue, QueueAdded, RouteTask, CleanTask, PersistTask, PersistEnds, lockVars
<1>2. \E t \in Services :
          /\ \E st : pc' = [pc EXCEPT ![t] = st]
          /\ UNCHANGED back \/ \E st : back' = [back EXCEPT ![t] = st]
  <2>1. {"rebalance", "route", "clean", "persist"} \subseteq Services
    BY ThreadNames
  <2> QED
    BY <2>1 DEF DoRebalance, Rebalance, RoundEnds, RebalanceByTopic, FindConsumerIdList,
       RemoveQueue, QueueRemoved, AddQueue, QueueAdded, RouteTask, CleanTask, PersistTask,
       PersistEnds, Enters, Goes
<1>3. \A t \in Services : t \in Threads /\ t # mutex
  BY ThreadNames DEF MutexInv, Services, Nobody
<1> QED
  BY <1>1, <1>2, <1>3, MutexStays

LEMMA MutexApp ==
    ASSUME FactoryInv, MutexInv, NEW g \in Groups, RegisterConsumer(g) \/ Shutdown(g) \/ App(g)
    PROVE  MutexInv'
<1>0. g \in Threads /\ g # Nobody /\ pc \in [Threads -> Steps] /\ back \in [Threads -> Steps]
  BY ThreadNames DEF FactoryInv, TypeOK
<1>1. CASE \/ RegisterConsumer(g) \/ Shutdown(g) \/ StartHeartbeat(g) \/ Persisted(g)
           \/ UnregisterConsumer(g) \/ UnregisterTry(g) \/ UnregisterSend(g) \/ FactoryShutdown(g)
  <2>1. /\ pc[g] \notin HeartbeatSteps \cup {"apStarted", "apJoinTasks", "apJoinRebalance"}
        /\ UNCHANGED mutex
        /\ \E st : pc' = [pc EXCEPT ![g] = st]
        /\ UNCHANGED back \/ \E st : back' = [back EXCEPT ![g] = st]
    BY <1>1 DEF RegisterConsumer, Shutdown, StartHeartbeat, Persisted, UnregisterConsumer,
       UnregisterTry, UnregisterSend, FactoryShutdown, Enters, Goes, HeartbeatSteps, lockVars
  <2> QED
    BY <1>0, <2>1, NotHolder, MutexStays
<1>2. CASE FactoryStart(g)
  <2>1. CASE mutex' = g
    <3>1. pc'[g] = "hbTry" /\ back'[g] = "apStarted"
      BY <1>0, <1>2, <2>1 DEF FactoryStart
    <3> QED
      BY <2>1, <3>1 DEF MutexInv, Starting, HeartbeatSteps
  <2>2. CASE mutex' = Nobody
    BY <2>2 DEF MutexInv
  <2> QED
    BY <1>2, <2>1, <2>2 DEF FactoryStart
<1>3. CASE FactoryStarted(g) \/ JoinRebalance(g)
  BY <1>3 DEF FactoryStarted, JoinRebalance, MutexInv
<1>4. CASE StopServices(g)
  <2>1. CASE mutex' = g /\ Goes(g, "apJoinTasks")
    BY <1>0, <2>1 DEF MutexInv, Stopping, Goes
  <2>2. CASE mutex' = Nobody
    BY <2>2 DEF MutexInv
  <2> QED
    BY <1>4, <2>1, <2>2 DEF StopServices
<1>5. CASE JoinTasks(g)
  <2>1. pc[g] = "apJoinTasks" /\ pc'[g] = "apJoinRebalance" /\ mutex' = mutex
    BY <1>0, <1>5 DEF JoinTasks, lockVars
  <2>2. mutex = g
    BY <2>1 DEF FactoryInv, ServiceInv, Stopping
  <2> QED
    BY <2>1, <2>2 DEF MutexInv, Stopping
<1> QED
  BY <1>1, <1>2, <1>3, <1>4, <1>5 DEF App

LEMMA MutexInvHolds == Spec => []MutexInv
<1>1. Init => MutexInv
  BY DEF Init, MutexInv
<1>2. ASSUME FactoryInv, MutexInv, [Next]_vars
      PROVE  MutexInv'
  <2>1. CASE \/ \E t \in Threads \ {"clean"} : UpdateRoute(t)
             \/ \E t \in Groups \cup {"clean"} : Heartbeat(t)
             \/ \E t \in Groups \cup {"persist"} : PersistQueue(t)
    BY <1>2, <2>1, ThreadNames, MutexUpdate, MutexHeartbeat, MutexPersist
  <2>2. CASE DoRebalance \/ Rebalance \/ RouteTask \/ CleanTask \/ PersistTask \/ PersistEnds
    BY <1>2, <2>2, MutexServices
  <2>3. CASE \E g \in Groups : RegisterConsumer(g) \/ Shutdown(g) \/ App(g)
    BY <1>2, <2>3, MutexApp
  <2>4. CASE RouteChanges \/ LateRequest \/ UNCHANGED vars
    BY <1>2, <2>4 DEF RouteChanges, LateRequest, vars, lockVars, threadVars, MutexInv, Starting, Stopping
  <2> QED
    BY <1>2, <2>1, <2>2, <2>3, <2>4 DEF Next
<1> QED
  BY <1>1, <1>2, FactoryInvHolds, PTL DEF Spec

(* A thread of a circle that takes m_consumerTableLock waits for the       *)
(* rebalance service or the persist task, which have it across calls.      *)
LEMMA TableHolder ==
    ASSUME FactoryInv, NEW t \in Threads, consumerTableLock = t,
           NEW u \in Threads, WaitsFor(t, u)
    PROVE  LockedOut(t)
<1>1. t \in {"rebalance", "persist"} /\ pc[t] \notin {"idle", "ended"}
  BY ThreadNames DEF FactoryInv, TableLockInv
<1>2. pc[t] \in RebalanceSteps \cup UpdateSteps \cup {"psNext"}
  BY <1>1 DEF FactoryInv, FlowInv, ServiceFlow
<1>3. pc[t] \notin {"hbPrepare", "apNew", "apUnregister", "idle", "apFactory", "apMutex",
                    "apJoinTasks", "apJoinRebalance"}
  BY <1>2 DEF RebalanceSteps, UpdateSteps
<1>4. WaitsForTable(t)
  BY <1>3 DEF WaitsFor, TakesTable
<1> QED
  BY <1>4 DEF LockedOut

(* The service threads wait for nothing else.                              *)
LEMMA ServiceWaits ==
    ASSUME FactoryInv, NEW t \in Services, NEW u, WaitsFor(t, u)
    PROVE  consumerTableLock = u
<1>1. t \in {"rebalance", "route", "clean", "persist"}
  BY DEF Services
<1>2. pc[t] \in RebalanceSteps \cup UpdateSteps \cup HeartbeatSteps \cup {"psNext", "idle", "ended"}
  BY <1>1 DEF FactoryInv, FlowInv, ServiceFlow
<1>3. pc[t] \notin {"apFactory", "apMutex", "apJoinTasks", "apJoinRebalance"}
  BY <1>2 DEF RebalanceSteps, UpdateSteps, HeartbeatSteps
<1> QED
  BY <1>3 DEF WaitsFor

(* A thread that has m_mutex waits for the table's lock or joins services. *)
LEMMA MutexHolder ==
    ASSUME MutexInv, NEW g \in Threads, mutex = g, NEW u, WaitsFor(g, u), u \notin Services
    PROVE  consumerTableLock = u
<1>1. pc[g] \notin {"apFactory", "apMutex"}
  BY ThreadNames DEF MutexInv, Starting, Stopping, HeartbeatSteps
<1>2. Tasks \subseteq Services /\ "rebalance" \in Services
  BY DEF Tasks, Services
<1> QED
  BY <1>1, <1>2 DEF WaitsFor

(* Whatever consumers start and shut down beside the rebalance service and *)
(* the timer tasks, no threads wait for each other in a circle over        *)
(* m_consumerTableLock, m_mutex and the joins of MQClientFactory::shutdown, *)
(* unless one of them takes m_consumerTableLock twice.                     *)
THEOREM NeverInACircle == Spec => []NoCircularWait
<1>1. FactoryInv /\ MutexInv => NoCircularWait
  <2> SUFFICES ASSUME FactoryInv, MutexInv, NEW S \in SUBSET Threads, S # {},
                      \A t \in S : \E u \in S : WaitsFor(t, u),
                      \A t \in S : ~LockedOut(t)
               PROVE  FALSE
    BY DEF NoCircularWait
  <2>1. \A t \in S : consumerTableLock # t
    BY TableHolder
  <2>2. \A t \in S : t \notin Services
    BY <2>1, ServiceWaits
  <2>3. \A t \in S : mutex # t
    BY <2>1, <2>2, MutexHolder
  <2>4. Tasks \subseteq Services /\ "rebalance" \in Services
    BY DEF Tasks, Services
  <2> QED
    BY <2>1, <2>2, <2>3, <2>4 DEF WaitsFor
<1> QED
  BY <1>1, FactoryInvHolds, MutexInvHolds, PTL
=============================================================================
