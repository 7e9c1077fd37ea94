---------------------------- MODULE ClientFactory ----------------------------
(***************************************************************************)
(* MQClientFactory.cpp: the tables that the consumers of one client share, *)
(* the locks that protect them and the threads that take these locks: the  *)
(* rebalance service, the timer tasks that poll the route, clean the broker *)
(* addresses and persist offsets, and one application thread per consumer, *)
(* which starts the consumer and shuts it down.                            *)
(*                                                                         *)
(* All consumers subscribe to one topic with one queue per broker, so that *)
(* a set of brokers stands for a route, for the queues a consumer knows    *)
(* and for the ones it was assigned.  A lock that is taken and given back  *)
(* without a call in between (m_brokerAddrTableLock, m_producerTableLock,  *)
(* m_consumerTableLock in most places) is part of one step; a lock that is *)
(* held across calls has a variable with its holder.  Each broker keeps    *)
(* track of the client on its own, and the client never asks for it, so    *)
(* the model follows one broker, which may be any.                         *)
(***************************************************************************)
EXTENDS Integers, Sequences, FiniteSets, Functions

CONSTANTS
    GroupOrder,     \* the consumer groups in the order of m_consumerTable
    Brokers,
    Observed,       \* the broker whose view of the client is followed
    RouteHistory    \* the topic's routes, as the name server has them in turn

Groups == Range(GroupOrder)

Services == {"rebalance", "route", "clean", "persist"}

Threads == Groups \cup Services

Nobody == "nobody"

(* No route, no subscribe info: the topic is not in the table.             *)
Absent == {}

ASSUME RouteAssumption ==
    /\ RouteHistory \in Seq((SUBSET Brokers) \ {Absent})
    /\ RouteHistory # <<>>

ASSUME ObservedAssumption == Observed \in Brokers

(* Thread names: a group's application thread is none of the services.     *)
ASSUME GroupAssumption ==
    /\ GroupOrder \in Seq(Groups)
    /\ Groups \cap (Services \cup {Nobody}) = {}

VARIABLES
    nsRoute,              \* which route the name server has
    registered,           \* the groups that the broker knows of this client
    late,                 \* requests to it whose calls timed out on the way
    serviceState,         \* m_serviceState
    consumerTable,        \* m_consumerTable
    topicRouteTable,      \* m_topicRouteTable's entry of the topic
    brokerAddrTable,      \* m_brokerAddrTable
    topicSubscribeInfo,   \* m_topicSubscribeInfoTable of a consumer
    processQueueTable,    \* m_processQueueTable of a consumer
    consumerTableLock, lockNamesrv, lockHeartbeat, mutex,
    pc,                   \* where a thread is
    back,                 \* where it goes on after a shared procedure
    received,             \* the route that the holder of lockNamesrv received
    todo,                 \* the queues whose offset it still has to persist
    left,                 \* the groups a rebalance round still has to do
    target,               \* the queues the round gives to the first of them
    at,                   \* the queue it adds or removes
    beat,                 \* the groups in a heartbeat
    unregistered,         \* history: groups whose unregistration was accepted
    overtaken             \* history: those that had a late heartbeat by then

knownVars == <<registered, late, unregistered, overtaken>>
brokerVars == <<nsRoute, knownVars>>
lockVars == <<consumerTableLock, lockNamesrv, lockHeartbeat, mutex>>
routeVars == <<topicRouteTable, brokerAddrTable, topicSubscribeInfo>>
tableVars == <<serviceState, consumerTable, processQueueTable>>
roundVars == <<left, target, at>>
threadVars == <<pc, back, received, todo, roundVars, beat>>
vars == <<brokerVars, lockVars, routeVars, tableVars, threadVars>>

UpdateSteps == {"nsLock", "nsQuery", "nsNeed", "nsApply"}
HeartbeatSteps == {"hbTry", "hbPrepare", "hbSend"}
RebalanceSteps == {"rbTopic", "rbIds", "rbRemove", "rbRemoved", "rbAdd", "rbAsk"}
AppSteps == {"apNew", "apFactory", "apStarted", "apBeat", "apRun", "apPersist",
             "apUnregister", "unTry", "unSend", "apShutdown", "apMutex",
             "apJoinTasks", "apJoinRebalance"}
Steps == UpdateSteps \cup HeartbeatSteps \cup RebalanceSteps \cup AppSteps
            \cup {"idle", "psNext", "ended"}

Routes == SUBSET Brokers

TypeOK ==
    /\ nsRoute \in DOMAIN RouteHistory
    /\ registered \subseteq Groups
    /\ late \subseteq {"heartbeat", "unregister"} \X Groups
    /\ serviceState \in {"CREATE_JUST", "RUNNING", "SHUTDOWN_ALREADY"}
    /\ consumerTable \subseteq Groups
    /\ topicRouteTable \in Routes
    /\ brokerAddrTable \in Routes
    /\ topicSubscribeInfo \in [Groups -> Routes]
    /\ processQueueTable \in [Groups -> Routes]
    /\ {consumerTableLock, lockNamesrv, lockHeartbeat, mutex}
            \subseteq Threads \cup {Nobody}
    /\ pc \in [Threads -> Steps]
    /\ back \in [Threads -> Steps]
    /\ received \in Routes
    /\ todo \in [Threads -> Routes]
    /\ left \subseteq Groups
    /\ target \in Routes
    /\ at \in Brokers \cup {Nobody}
    /\ beat \subseteq Groups
    /\ unregistered \subseteq Groups
    /\ overtaken \subseteq Groups

Init ==
    /\ nsRoute = 1
    /\ registered = {}
    /\ late = {}
    /\ serviceState = "CREATE_JUST"
    /\ consumerTable = {}
    /\ topicRouteTable = Absent
    /\ brokerAddrTable = {}
    /\ topicSubscribeInfo = [g \in Groups |-> Absent]
    /\ processQueueTable = [g \in Groups |-> {}]
    /\ consumerTableLock = Nobody
    /\ lockNamesrv = Nobody
    /\ lockHeartbeat = Nobody
    /\ mutex = Nobody
    /\ pc = [t \in Threads |-> IF t \in Groups THEN "apNew" ELSE "ended"]
    /\ back = [t \in Threads |-> "ended"]
    /\ received = Absent
    /\ todo = [t \in Threads |-> {}]
    /\ left = {}
    /\ target = {}
    /\ at = Nobody
    /\ beat = {}
    /\ unregistered = {}
    /\ overtaken = {}

Goes(t, st) == pc' = [pc EXCEPT ![t] = st]

(* Enter a shared procedure at step st, to go on at step next after it.    *)
Enters(t, st, next) == Goes(t, st) /\ back' = [back EXCEPT ![t] = next]

Returns(t) == Goes(t, back[t]) /\ back' = [back EXCEPT ![t] = "ended"]

FirstOf(S) == GroupOrder[CHOOSE i \in DOMAIN GroupOrder :
    GroupOrder[i] \in S /\ \A j \in 1 .. i - 1 : GroupOrder[j] \notin S]

LastOf(S) == GroupOrder[CHOOSE i \in DOMAIN GroupOrder :
    GroupOrder[i] \in S /\ \A j \in i + 1 .. Len(GroupOrder) : GroupOrder[j] \notin S]

-----------------------------------------------------------------------------
(* updateTopicRouteInfoFromNameServer(topic, ..., bLocked), which most     *)
(* threads call.  Only findConsumerIdList passes bLocked.                  *)

BLocked(t) == back[t] = "rbIds"

(* Mutation: the lock is waited for without a limit.                       *)
UpdateLock_Waits(t) ==
    /\ pc[t] = "nsLock"
    /\ lockNamesrv = Nobody
    /\ lockNamesrv' = t
    /\ Goes(t, "nsQuery")
    /\ UNCHANGED <<brokerVars, consumerTableLock, lockHeartbeat, mutex, routeVars, tableVars,
                   back, received, todo, roundVars, beat>>

(* ToMutex::Lock gives up after LockTimeoutMillis.                         *)
UpdateLock(t) ==
    /\ pc[t] = "nsLock"
    /\ \/ /\ lockNamesrv = Nobody
          /\ lockNamesrv' = t
          /\ Goes(t, "nsQuery")
          /\ UNCHANGED back
       \/ /\ lockNamesrv # Nobody
          /\ Returns(t)
          /\ UNCHANGED lockNamesrv
    /\ UNCHANGED <<brokerVars, consumerTableLock, lockHeartbeat, mutex, routeVars, tableVars,
                   received, todo, roundVars, beat>>

(* The update is over: the lock is given back.                             *)
UpdateEnds(t) ==
    /\ lockNamesrv' = Nobody
    /\ received' = Absent
    /\ Returns(t)

(* The name server does not answer: the exception frees the lock.  Or it   *)
(* does: an unchanged route is applied only if somebody needs it.          *)
UpdateQuery(t) ==
    /\ pc[t] = "nsQuery"
    /\ \/ UpdateEnds(t) /\ UNCHANGED brokerAddrTable
       \/ LET route == RouteHistory[nsRoute] IN
          /\ received' = route
          /\ IF route = topicRouteTable
             THEN Goes(t, "nsNeed") /\ UNCHANGED brokerAddrTable
             ELSE /\ brokerAddrTable' = brokerAddrTable \cup route
                  /\ Goes(t, "nsApply")
          /\ UNCHANGED <<lockNamesrv, back>>
    /\ UNCHANGED <<brokerVars, consumerTableLock, lockHeartbeat, mutex, topicRouteTable,
                   topicSubscribeInfo, tableVars, todo, roundVars, beat>>

(* The possible answers.  The loops over the producers, which may know the *)
(* topic or not, and the consumers keep the last answer only.              *)
IsNeedUpdateTopicRouteInfo ==
    IF consumerTable = {} THEN BOOLEAN
    ELSE {topicSubscribeInfo[LastOf(consumerTable)] = Absent}

(* isNeedUpdateTopicRouteInfo takes m_consumerTableLock in any case.       *)
UpdateNeed(t) ==
    /\ pc[t] = "nsNeed"
    /\ consumerTableLock = Nobody
    /\ \/ /\ TRUE \in IsNeedUpdateTopicRouteInfo
          /\ brokerAddrTable' = brokerAddrTable \cup received
          /\ Goes(t, "nsApply")
          /\ UNCHANGED <<lockNamesrv, received, back>>
       \/ /\ FALSE \in IsNeedUpdateTopicRouteInfo
          /\ UpdateEnds(t)
          /\ UNCHANGED brokerAddrTable
    /\ UNCHANGED <<brokerVars, consumerTableLock, lockHeartbeat, mutex, topicRouteTable,
                   topicSubscribeInfo, tableVars, todo, roundVars, beat>>

(* Mutation: only a consumer without queues gets those of the route.       *)
UpdateApply_New(t) ==
    /\ pc[t] = "nsApply"
    /\ BLocked(t) \/ consumerTableLock = Nobody
    /\ topicSubscribeInfo' = [g \in Groups |->
            IF g \in consumerTable /\ topicSubscribeInfo[g] = Absent
            THEN received ELSE topicSubscribeInfo[g]]
    /\ topicRouteTable' = received
    /\ UpdateEnds(t)
    /\ UNCHANGED <<brokerVars, consumerTableLock, lockHeartbeat, mutex, brokerAddrTable,
                   tableVars, todo, roundVars, beat>>

(* Every registered consumer gets the queues of the route, and then the    *)
(* route is stored.                                                        *)
UpdateApply(t) ==
    /\ pc[t] = "nsApply"
    /\ BLocked(t) \/ consumerTableLock = Nobody
    /\ topicSubscribeInfo' = [g \in Groups |->
            IF g \in consumerTable THEN received ELSE topicSubscribeInfo[g]]
    /\ topicRouteTable' = received
    /\ UpdateEnds(t)
    /\ UNCHANGED <<brokerVars, consumerTableLock, lockHeartbeat, mutex, brokerAddrTable,
                   tableVars, todo, roundVars, beat>>

-----------------------------------------------------------------------------
(* sendHeartbeatToAllBrokerWithLock and unregisterClientWithLock share a   *)
(* lock and skip their work when the other one has it.                     *)

(* Mutation: the heartbeat does not take the lock.                         *)
HeartbeatTry_Free(t) ==
    /\ pc[t] = "hbTry"
    /\ Goes(t, "hbPrepare")
    /\ UNCHANGED <<brokerVars, lockVars, routeVars, tableVars, back, received, todo, roundVars,
                   beat>>

HeartbeatTry(t) ==
    /\ pc[t] = "hbTry"
    /\ \/ lockHeartbeat = Nobody /\ lockHeartbeat' = t /\ Goes(t, "hbPrepare") /\ UNCHANGED back
       \/ lockHeartbeat # Nobody /\ Returns(t) /\ UNCHANGED lockHeartbeat
    /\ UNCHANGED <<brokerVars, consumerTableLock, lockNamesrv, mutex, routeVars, tableVars,
                   received, todo, roundVars, beat>>

(* prepareHeartbeatData.                                                   *)
HeartbeatPrepare(t) ==
    /\ pc[t] = "hbPrepare"
    /\ consumerTableLock = Nobody
    /\ beat' = consumerTable
    /\ Goes(t, "hbSend")
    /\ UNCHANGED <<brokerVars, lockVars, routeVars, tableVars, back, received, todo, roundVars>>

(* The call to the broker arrives, or it times out while the request is    *)
(* still on its way, or it fails.                                          *)
HeartbeatSend(t) ==
    /\ pc[t] = "hbSend"
    /\ \/ /\ Observed \in brokerAddrTable
          /\ \/ registered' = registered \cup beat /\ UNCHANGED late
             \/ late' = late \cup ({"heartbeat"} \X beat) /\ UNCHANGED registered
       \/ UNCHANGED <<registered, late>>
    /\ lockHeartbeat' = Nobody
    /\ beat' = {}
    /\ Returns(t)
    /\ UNCHANGED <<nsRoute, unregistered, overtaken, consumerTableLock, lockNamesrv, mutex,
                   routeVars, tableVars, received, todo, roundVars>>

UnregisterTry(t) ==
    /\ pc[t] = "unTry"
    /\ \/ lockHeartbeat = Nobody /\ lockHeartbeat' = t /\ Goes(t, "unSend")
       \/ lockHeartbeat # Nobody /\ Goes(t, "apShutdown") /\ UNCHANGED lockHeartbeat
    /\ UNCHANGED <<brokerVars, consumerTableLock, lockNamesrv, mutex, routeVars, tableVars, back,
                   received, todo, roundVars, beat>>

(* The broker takes group g from its table.                                *)
Unregistered(g) ==
    /\ registered' = registered \ {g}
    /\ unregistered' = unregistered \cup {g}
    /\ overtaken' = overtaken \cup {h \in {g} : <<"heartbeat", h>> \in late}

UnregisterSend(t) ==
    /\ pc[t] = "unSend"
    /\ \/ /\ Observed \in brokerAddrTable
          /\ \/ Unregistered(t) /\ UNCHANGED late
             \/ /\ late' = late \cup {<<"unregister", t>>}
                /\ UNCHANGED <<registered, unregistered, overtaken>>
       \/ UNCHANGED knownVars
    /\ lockHeartbeat' = Nobody
    /\ Goes(t, "apShutdown")
    /\ UNCHANGED <<nsRoute, consumerTableLock, lockNamesrv, mutex, routeVars, tableVars, back,
                   received, todo, roundVars, beat>>

(* A request arrives after its call timed out, if ever: m_lockHeartbeat is *)
(* free by then.                                                           *)
LateRequest ==
    /\ \E m \in late :
        /\ late' = late \ {m}
        /\ \/ /\ m[1] = "heartbeat"
              /\ registered' = registered \cup {m[2]}
              /\ UNCHANGED <<unregistered, overtaken>>
           \/ m[1] = "unregister" /\ Unregistered(m[2])
    /\ UNCHANGED <<nsRoute, lockVars, routeVars, tableVars, threadVars>>

-----------------------------------------------------------------------------
(* The rebalance service: doRebalance holds m_consumerTableLock throughout.*)

Tasks == Services \ {"rebalance"}

(* TimerTaskManager::Close was called; RebalanceService::stop was called.  *)
TimersClosed == \E g \in Groups : pc[g] \in {"apJoinTasks", "apJoinRebalance"}
RebalanceStopped == \E g \in Groups : pc[g] = "apJoinRebalance"

DoRebalance ==
    /\ pc["rebalance"] = "idle"
    /\ consumerTableLock = Nobody
    /\ consumerTableLock' = "rebalance"
    /\ left' = consumerTable
    /\ Goes("rebalance", "rbTopic")
    /\ UNCHANGED <<brokerVars, lockNamesrv, lockHeartbeat, mutex, routeVars, tableVars, back,
                   received, todo, target, at, beat>>

(* Mutation: the service thread does not look whether it was stopped.      *)
RoundEnds_Deaf ==
    /\ pc["rebalance"] = "rbTopic"
    /\ left = {}
    /\ consumerTableLock' = Nobody
    /\ Goes("rebalance", "idle")
    /\ UNCHANGED <<brokerVars, lockNamesrv, lockHeartbeat, mutex, routeVars, tableVars, back,
                   received, todo, roundVars, beat>>

RoundEnds ==
    /\ pc["rebalance"] = "rbTopic"
    /\ left = {}
    /\ consumerTableLock' = Nobody
    /\ Goes("rebalance", IF RebalanceStopped THEN "ended" ELSE "idle")
    /\ UNCHANGED <<brokerVars, lockNamesrv, lockHeartbeat, mutex, routeVars, tableVars, back,
                   received, todo, roundVars, beat>>

(* rebalanceByTopic looks the topic up before findConsumerIdList, which    *)
(* asks for the route when it has none.                                    *)
RebalanceByTopic ==
    /\ pc["rebalance"] = "rbTopic"
    /\ left # {}
    /\ target' = topicSubscribeInfo[FirstOf(left)]
    /\ IF topicRouteTable = Absent
       THEN Enters("rebalance", "nsLock", "rbIds")
       ELSE Goes("rebalance", "rbIds") /\ UNCHANGED back
    /\ UNCHANGED <<brokerVars, lockVars, routeVars, tableVars, received, todo, left, at, beat>>

(* The ids of the group's clients: none, or some share of the queues.      *)
FindConsumerIdList ==
    /\ pc["rebalance"] = "rbIds"
    /\ \/ /\ left' = left \ {FirstOf(left)}
          /\ target' = {}
          /\ Goes("rebalance", "rbTopic")
       \/ /\ topicRouteTable # Absent /\ target # Absent
          /\ target' \in SUBSET topicSubscribeInfo[FirstOf(left)]
          /\ Goes("rebalance", "rbRemove")
          /\ UNCHANGED left
    /\ UNCHANGED <<brokerVars, lockVars, routeVars, tableVars, back, received, todo, at, beat>>

(* updateProcessQueueTableInRebalance first removes the queues that are not *)
(* the consumer's any more.  Each offset is sent to its broker, for which  *)
(* updateConsumeOffsetToBroker may need a new route.                       *)
RemoveQueue ==
    /\ pc["rebalance"] = "rbRemove"
    /\ LET g == FirstOf(left) IN
       \/ /\ processQueueTable[g] \subseteq target
          /\ Goes("rebalance", "rbAdd")
          /\ UNCHANGED <<back, at>>
       \/ \E b \in processQueueTable[g] \ target :
            /\ at' = b
            /\ IF b \in brokerAddrTable
               THEN Goes("rebalance", "rbRemoved") /\ UNCHANGED back
               ELSE Enters("rebalance", "nsLock", "rbRemoved")
    /\ UNCHANGED <<brokerVars, lockVars, routeVars, tableVars, received, todo, left, target,
                   beat>>

QueueRemoved ==
    /\ pc["rebalance"] = "rbRemoved"
    /\ processQueueTable' = [processQueueTable EXCEPT ![FirstOf(left)] = @ \ {at}]
    /\ at' = Nobody
    /\ Goes("rebalance", "rbRemove")
    /\ UNCHANGED <<brokerVars, lockVars, routeVars, serviceState, consumerTable, back, received,
                   todo, left, target, beat>>

(* Then it adds the new ones, if computePullFromWhere has an offset for    *)
(* them; fetchConsumeOffsetFromBroker may need a new route, too.           *)
AddQueue ==
    /\ pc["rebalance"] = "rbAdd"
    /\ LET g == FirstOf(left) IN
       \/ /\ target \subseteq processQueueTable[g]
          /\ left' = left \ {g}
          /\ target' = {}
          /\ Goes("rebalance", "rbTopic")
          /\ UNCHANGED <<back, at>>
       \/ \E b \in target \ processQueueTable[g] :
            /\ at' = b
            /\ IF b \in brokerAddrTable
               THEN Goes("rebalance", "rbAsk") /\ UNCHANGED back
               ELSE Enters("rebalance", "nsLock", "rbAsk")
            /\ UNCHANGED <<left, target>>
    /\ UNCHANGED <<brokerVars, lockVars, routeVars, tableVars, received, todo, beat>>

(* Mutation: the queue is put into the table after it was reset.           *)
QueueAdded_Reset ==
    /\ pc["rebalance"] = "rbAsk"
    /\ at' = Nobody
    /\ processQueueTable' = [processQueueTable EXCEPT ![FirstOf(left)] = @ \cup {at'}]
    /\ Goes("rebalance", "rbAdd")
    /\ UNCHANGED <<brokerVars, lockVars, routeVars, serviceState, consumerTable, back, received,
                   todo, left, target, beat>>

QueueAdded ==
    /\ pc["rebalance"] = "rbAsk"
    /\ \/ /\ at \in brokerAddrTable
          /\ processQueueTable' = [processQueueTable EXCEPT ![FirstOf(left)] = @ \cup {at}]
          /\ UNCHANGED target
       \/ target' = target \ {at} /\ UNCHANGED processQueueTable
    /\ at' = Nobody
    /\ Goes("rebalance", "rbAdd")
    /\ UNCHANGED <<brokerVars, lockVars, routeVars, serviceState, consumerTable, back, received,
                   todo, left, beat>>

-----------------------------------------------------------------------------
(* The timer tasks, until TimerTaskManager::Close.                         *)

(* updateTopicRouteInfoFromNameServerTask collects the topics first.       *)
RouteTask ==
    /\ pc["route"] = "idle" /\ ~TimersClosed
    /\ consumerTableLock = Nobody
    /\ consumerTable # {}
    /\ Enters("route", "nsLock", "idle")
    /\ UNCHANGED <<brokerVars, lockVars, routeVars, tableVars, received, todo, roundVars, beat>>

(* cleanBroker: cleanOfflineBroker, then a heartbeat.                      *)
CleanTask ==
    /\ pc["clean"] = "idle" /\ ~TimersClosed
    /\ brokerAddrTable' = brokerAddrTable \cap topicRouteTable
    /\ Enters("clean", "hbTry", "idle")
    /\ UNCHANGED <<brokerVars, lockVars, topicRouteTable, topicSubscribeInfo, tableVars, received,
                   todo, roundVars, beat>>

(* The consumer's own m_serviceState is RUNNING.                           *)
Running(g) == pc[g] \notin {"apNew", "apFactory", "apStarted", "ended"}
                /\ back[g] # "apStarted"

(* persistAllConsumerOffset holds m_consumerTableLock until the end.       *)
PersistTask ==
    /\ pc["persist"] = "idle" /\ ~TimersClosed
    /\ consumerTableLock = Nobody
    /\ consumerTableLock' = "persist"
    /\ todo' = [todo EXCEPT !["persist"] =
            UNION {processQueueTable[g] : g \in {h \in consumerTable : Running(h)}}]
    /\ Goes("persist", "psNext")
    /\ UNCHANGED <<brokerVars, lockNamesrv, lockHeartbeat, mutex, routeVars, tableVars, back,
                   received, roundVars, beat>>

(* One offset of persistAll, by updateConsumeOffsetToBroker.               *)
PersistQueue(t) ==
    /\ pc[t] \in {"psNext", "apPersist"}
    /\ \E b \in todo[t] :
        /\ todo' = [todo EXCEPT ![t] = @ \ {b}]
        /\ IF b \in brokerAddrTable
           THEN UNCHANGED <<pc, back>>
           ELSE Enters(t, "nsLock", pc[t])
    /\ UNCHANGED <<brokerVars, lockVars, routeVars, tableVars, received, roundVars, beat>>

PersistEnds ==
    /\ pc["persist"] = "psNext"
    /\ todo["persist"] = {}
    /\ consumerTableLock' = Nobody
    /\ Goes("persist", "idle")
    /\ UNCHANGED <<brokerVars, lockNamesrv, lockHeartbeat, mutex, routeVars, tableVars, back,
                   received, todo, roundVars, beat>>

-----------------------------------------------------------------------------
(* An application thread: DefaultMQPushConsumerImpl (or the pull consumer) *)
(* start and shutdown.                                                     *)

(* registerConsumer.  A client started later gets a factory of its own.    *)
RegisterConsumer(g) ==
    /\ pc[g] = "apNew"
    /\ serviceState # "SHUTDOWN_ALREADY"
    /\ consumerTableLock = Nobody
    /\ consumerTable' = consumerTable \cup {g}
    /\ Goes(g, "apFactory")
    /\ UNCHANGED <<brokerVars, lockVars, routeVars, serviceState, processQueueTable, back,
                   received, todo, roundVars, beat>>

(* MQClientFactory::start, once: it starts the services and the inner      *)
(* producer, which sends a heartbeat while m_mutex is held.  The consumer  *)
(* then asks for its route.                                                *)
FactoryStart(g) ==
    /\ pc[g] = "apFactory"
    /\ mutex = Nobody
    /\ IF serviceState = "CREATE_JUST"
       THEN /\ mutex' = g
            /\ pc' = [t \in Threads |-> IF t = g THEN "hbTry"
                                        ELSE IF t \in Services THEN "idle" ELSE pc[t]]
            /\ back' = [back EXCEPT ![g] = "apStarted"]
       ELSE Enters(g, "nsLock", "apBeat") /\ UNCHANGED mutex
    /\ UNCHANGED <<brokerVars, consumerTableLock, lockNamesrv, lockHeartbeat, routeVars, tableVars,
                   received, todo, roundVars, beat>>

FactoryStarted(g) ==
    /\ pc[g] = "apStarted"
    /\ serviceState' = "RUNNING"
    /\ mutex' = Nobody
    /\ Enters(g, "nsLock", "apBeat")
    /\ UNCHANGED <<brokerVars, consumerTableLock, lockNamesrv, lockHeartbeat, routeVars,
                   consumerTable, processQueueTable, received, todo, roundVars, beat>>

StartHeartbeat(g) ==
    /\ pc[g] = "apBeat"
    /\ Enters(g, "hbTry", "apRun")
    /\ UNCHANGED <<brokerVars, lockVars, routeVars, tableVars, received, todo, roundVars, beat>>

(* shutdown persists the offsets without m_consumerTableLock ...           *)
Shutdown(g) ==
    /\ pc[g] = "apRun"
    /\ todo' = [todo EXCEPT ![g] = processQueueTable[g]]
    /\ Goes(g, "apPersist")
    /\ UNCHANGED <<brokerVars, lockVars, routeVars, tableVars, back, received, roundVars, beat>>

Persisted(g) ==
    /\ pc[g] = "apPersist"
    /\ todo[g] = {}
    /\ Goes(g, "apUnregister")
    /\ UNCHANGED <<brokerVars, lockVars, routeVars, tableVars, back, received, todo, roundVars,
                   beat>>

(* Mutation: the lock is kept until the factory has shut down.             *)
UnregisterConsumer_KeepsLock(g) ==
    /\ pc[g] = "apUnregister"
    /\ consumerTableLock = Nobody
    /\ consumerTableLock' = g
    /\ consumerTable' = consumerTable \ {g}
    /\ Goes(g, "unTry")
    /\ UNCHANGED <<brokerVars, lockNamesrv, lockHeartbeat, mutex, routeVars, serviceState,
                   processQueueTable, back, received, todo, roundVars, beat>>

(* ... takes the consumer from the table ...                               *)
UnregisterConsumer(g) ==
    /\ pc[g] = "apUnregister"
    /\ consumerTableLock = Nobody
    /\ consumerTable' = consumerTable \ {g}
    /\ Goes(g, "unTry")
    /\ UNCHANGED <<brokerVars, lockVars, routeVars, serviceState, processQueueTable, back,
                   received, todo, roundVars, beat>>

(* ... and shuts the factory down, if no consumer is left.  The tables are *)
(* read without their locks.                                               *)
FactoryShutdown(g) ==
    /\ pc[g] = "apShutdown"
    /\ Goes(g, IF consumerTable = {} THEN "apMutex" ELSE "ended")
    /\ UNCHANGED <<brokerVars, lockVars, routeVars, tableVars, back, received, todo, roundVars,
                   beat>>

StopServices(g) ==
    /\ pc[g] = "apMutex"
    /\ mutex = Nobody
    /\ IF serviceState = "RUNNING"
       THEN mutex' = g /\ Goes(g, "apJoinTasks")
       ELSE Goes(g, "ended") /\ UNCHANGED mutex
    /\ UNCHANGED <<brokerVars, consumerTableLock, lockNamesrv, lockHeartbeat, routeVars, tableVars,
                   back, received, todo, roundVars, beat>>

(* Mutation: the workers are not joined.                                   *)
JoinTasks_Now(g) ==
    /\ pc[g] = "apJoinTasks"
    /\ Goes(g, "apJoinRebalance")
    /\ UNCHANGED <<brokerVars, lockVars, routeVars, tableVars, back, received, todo, roundVars,
                   beat>>

(* ThreadPool::Destroy joins the workers: the tasks that run come to their *)
(* end first.  The pull service is stopped and joined next and the         *)
(* remoting client shut down; neither is a thread of this module, and the  *)
(* pull service takes the locks as the route task does.                    *)
JoinTasks(g) ==
    /\ pc[g] = "apJoinTasks"
    /\ \A t \in Tasks : pc[t] = "idle"
    /\ pc' = [t \in Threads |-> IF t = g THEN "apJoinRebalance"
                                ELSE IF t \in Tasks THEN "ended" ELSE pc[t]]
    /\ UNCHANGED <<brokerVars, lockVars, routeVars, tableVars, back, received, todo, roundVars,
                   beat>>

JoinRebalance(g) ==
    /\ pc[g] = "apJoinRebalance"
    /\ pc["rebalance"] = "ended"
    /\ serviceState' = "SHUTDOWN_ALREADY"
    /\ mutex' = Nobody
    /\ Goes(g, "ended")
    /\ UNCHANGED <<brokerVars, consumerTableLock, lockNamesrv, lockHeartbeat, routeVars,
                   consumerTable, processQueueTable, back, received, todo, roundVars, beat>>

-----------------------------------------------------------------------------
(* Brokers join and leave: the name server has the topic's next route.     *)
RouteChanges ==
    /\ nsRoute + 1 \in DOMAIN RouteHistory
    /\ nsRoute' = nsRoute + 1
    /\ UNCHANGED <<knownVars, lockVars, routeVars, tableVars, threadVars>>

UpdateRoute(t) == UpdateLock(t) \/ UpdateQuery(t) \/ UpdateNeed(t) \/ UpdateApply(t)

Heartbeat(t) == HeartbeatTry(t) \/ HeartbeatPrepare(t) \/ HeartbeatSend(t)

Rebalance ==
    \/ RoundEnds \/ RebalanceByTopic \/ FindConsumerIdList \/ RemoveQueue
    \/ QueueRemoved \/ AddQueue \/ QueueAdded

App(g) ==
    \/ FactoryStart(g) \/ FactoryStarted(g) \/ StartHeartbeat(g) \/ Persisted(g)
    \/ UnregisterConsumer(g) \/ UnregisterTry(g) \/ UnregisterSend(g)
    \/ FactoryShutdown(g) \/ StopServices(g) \/ JoinTasks(g) \/ JoinRebalance(g)

Next ==
    \/ \E t \in Threads \ {"clean"} : UpdateRoute(t)
    \/ \E t \in Groups \cup {"clean"} : Heartbeat(t)
    \/ \E t \in Groups \cup {"persist"} : PersistQueue(t)
    \/ DoRebalance \/ Rebalance
    \/ RouteTask \/ CleanTask \/ PersistTask \/ PersistEnds
    \/ \E g \in Groups : RegisterConsumer(g) \/ Shutdown(g) \/ App(g)
    \/ RouteChanges \/ LateRequest

Spec == Init /\ [][Next]_vars

(* Threads run and calls return.  A thread that waits for a lock which is  *)
(* free again and again gets it some day; the steps of a rebalance round   *)
(* and of persistAllConsumerOffset, which have the consumers' lock, need   *)
(* none of this.  When a consumer starts or shuts down, when the timers    *)
(* fire and what the calls answer is open; the service thread comes to its *)
(* next round.                                                             *)
Fairness ==
    /\ WF_vars(Rebalance \/ UpdateRoute("rebalance"))
    /\ WF_vars(PersistQueue("persist") \/ PersistEnds \/ UpdateRoute("persist"))
    /\ SF_vars(DoRebalance)
    /\ SF_vars(UpdateRoute("route"))
    /\ SF_vars(Heartbeat("clean"))
    /\ \A g \in Groups : SF_vars(UpdateRoute(g) \/ Heartbeat(g) \/ PersistQueue(g) \/ App(g))

FairSpec == Spec /\ Fairness

-----------------------------------------------------------------------------
(* A thread waits for m_consumerTableLock in the update of the route.      *)
WaitsForTable(t) ==
    pc[t] = "nsNeed" \/ (pc[t] = "nsApply" /\ ~BLocked(t))

(* It would have to give the lock up first, and never will.                *)
LockedOut(t) == WaitsForTable(t) /\ consumerTableLock = t

(* doRebalance's comment: the tag that is passed down keeps a thread from  *)
(* taking m_consumerTableLock twice.                                       *)
NoNestedLock == \A t \in Threads : ~LockedOut(t)

(* Its next step takes m_consumerTableLock.                                *)
TakesTable(t) ==
    \/ WaitsForTable(t)
    \/ pc[t] \in {"hbPrepare", "apNew", "apUnregister"}
    \/ pc[t] = "idle" /\ t # "clean"

(* Thread t cannot go on before thread u does something: u has a lock that *)
(* t waits for without a limit, or t joins u.  (Nobody waits so for        *)
(* m_lockNamesrv or m_lockHeartbeat.)                                      *)
WaitsFor(t, u) ==
    \/ TakesTable(t) /\ consumerTableLock = u
    \/ pc[t] \in {"apFactory", "apMutex"} /\ mutex = u
    \/ pc[t] = "apJoinTasks" /\ u \in Tasks /\ pc[u] # "idle"
    \/ pc[t] = "apJoinRebalance" /\ u = "rebalance" /\ pc[u] # "ended"

(* Threads do not wait for each other in a circle, though they take        *)
(* m_consumerTableLock, m_lockNamesrv and m_mutex in different orders and  *)
(* join threads that take them: in every circle one waits for itself.      *)
NoCircularWait ==
    \A S \in SUBSET Threads :
        S # {} /\ (\A t \in S : \E u \in S : WaitsFor(t, u)) => \E t \in S : LockedOut(t)

(* A consumer that a broker has unregistered comes back only by a          *)
(* heartbeat whose call had timed out and which the unregistration has     *)
(* overtaken: never by one that was prepared while the consumer shut down  *)
(* and whose call was answered or failed (m_lockHeartbeat).                *)
NoGhost == unregistered \cap registered \subseteq overtaken

(* What does not hold, because sendHearbeat's invokeSync may time out with *)
(* the request on its way and unregisterClientWithLock sends once:         *)
(* a consumer that shut down stays unregistered.                           *)
StaysUnregistered == unregistered \cap registered = {}

(* Between updates of the route a registered consumer has no queues at all *)
(* or those of the route in the table: never those of an earlier route.    *)
InfoIsCurrent ==
    lockNamesrv = Nobody =>
        \A g \in consumerTable : topicSubscribeInfo[g] \in {Absent, topicRouteTable}

(* A factory that was shut down has no thread left in a task or a round,   *)
(* and none that keeps a lock.                                             *)
ShutdownIsQuiet ==
    serviceState = "SHUTDOWN_ALREADY" =>
        /\ \A t \in Services : pc[t] = "ended"
        /\ {consumerTableLock, lockNamesrv, lockHeartbeat} \cap Services = {}

(* A round of rebalance comes to its end, though it waits for the name     *)
(* server's lock with the consumers' lock and others wait the other way    *)
(* round; unless it waits for itself.                                      *)
RoundsEnd ==
    (pc["rebalance"] \notin {"idle", "ended"}) ~>
        (pc["rebalance"] \in {"idle", "ended"} \/ LockedOut("rebalance"))

(* A shutdown comes to its end, unless a thread waits for itself.          *)
ShutdownEnds ==
    \A g \in Groups :
        (pc[g] = "apPersist") ~> (pc[g] = "ended" \/ \E t \in Threads : LockedOut(t))
=============================================================================
