------------------------------ MODULE Rebalance ------------------------------
(***************************************************************************)
(* RebalanceImpl.cpp: how the clients of a group divide the queues of its  *)
(* topics between them.  No client talks to another: each one polls the    *)
(* route of its topics from the name server, asks a broker for the ids of  *)
(* the group's clients and computes its own share.  The views differ while *)
(* clients come and go and brokers change.                                 *)
(*                                                                         *)
(* Clients are numbered in the order of their ids, and the queues of a     *)
(* topic in the order of MessageQueue::operator<.  A round runs with       *)
(* m_consumerTableLock held, so a client has one at a time.  All clients   *)
(* of the group subscribe to the same topics from start to end, as the     *)
(* division requires; truncateMessageQueueNotMyTopic finds nothing then.   *)
(***************************************************************************)
EXTENDS Integers, Sequences, FiniteSets, Allocation

CONSTANTS
    Clients,        \* a set of numbers
    Mortal,         \* the clients that may end
    TopicOrder,     \* the topics in the order of m_subscriptionInner
    BrokerOf,       \* the broker of a queue
    RouteHistory    \* the routes that the name server has in turn

Topics == {TopicOrder[i] : i \in DOMAIN TopicOrder}
Queues == DOMAIN BrokerOf
Brokers == {BrokerOf[n] : n \in Queues}

(* findMasterBrokerAddrByTopicAndName finds nothing; no address is known.  *)
NoAddr == "no address"

(* A route has the readable queues of every topic and the address that     *)
(* selectBrokerAddr finds for a broker: the master's or, without one, a    *)
(* slave's.                                                                *)
Addrs == UNION {{RouteHistory[i].addr[b] : b \in Brokers} : i \in DOMAIN RouteHistory}

Routes == {RouteHistory[i] : i \in DOMAIN RouteHistory}

ASSUME RouteAssumption ==
    /\ Clients \subseteq Nat /\ IsFiniteSet(Clients)
    /\ Queues \subseteq Nat /\ IsFiniteSet(Queues)
    /\ TopicOrder \in Seq(Topics) /\ TopicOrder # <<>>
    /\ RouteHistory \in Seq(Routes) /\ RouteHistory # <<>>
    /\ \A r \in Routes :
        /\ r.queues \in [Topics -> SUBSET Queues]
        /\ DOMAIN r.addr = Brokers

VARIABLES
    nsRoute,      \* which route the name server has
    members,      \* the clients that the broker lists for the group
    status,       \* of a client
    info,         \* which route m_topicSubscribeInfoTable is from, 0 for none
    route,        \* which route m_topicRouteTable has
    table,        \* m_processQueueTable: pairs of a topic and a queue
    brokerMaster, \* m_brokerMaster
    downBroker,   \* m_downBrokerName
    turn,         \* the topic a round is at, 0 between rounds
    ids,          \* findConsumerIdList's answer for it, or NotAsked
    view,         \* history: what a topic's last share was computed from
    fetchedFrom   \* history: the broker's address when a queue was added

envVars == <<nsRoute, members>>
routeVars == <<info, route>>
roundVars == <<turn, ids>>
tableVars == <<table, brokerMaster, downBroker, view, fetchedFrom>>
vars == <<envVars, status, routeVars, tableVars, roundVars>>

NotAsked == {-1}
NoView == <<{}, {}>>

TypeOK ==
    /\ nsRoute \in DOMAIN RouteHistory
    /\ members \subseteq Clients
    /\ status \in [Clients -> {"up", "gone"}]
    /\ info \in [Clients -> [Topics -> 0 .. Len(RouteHistory)]]
    /\ route \in [Clients -> [Topics -> 0 .. Len(RouteHistory)]]
    /\ table \in [Clients -> SUBSET (Topics \X Queues)]
    /\ brokerMaster \in [Clients -> [Brokers -> Addrs \cup {NoAddr}]]
    /\ downBroker \in [Clients -> SUBSET Brokers]
    /\ turn \in [Clients -> 0 .. Len(TopicOrder)]
    /\ ids \in [Clients -> (SUBSET Clients) \cup {NotAsked}]
    /\ view \in [Clients -> [Topics -> (SUBSET Queues) \X (SUBSET Clients)]]
    /\ fetchedFrom \in [Clients -> [Topics \X Queues -> Addrs \cup {NoAddr}]]

NoFetch == [q \in Topics \X Queues |-> NoAddr]

Init ==
    /\ nsRoute = 1
    /\ members = {}
    /\ status = [c \in Clients |-> "up"]
    /\ info = [c \in Clients |-> [t \in Topics |-> 0]]
    /\ route = [c \in Clients |-> [t \in Topics |-> 0]]
    /\ table = [c \in Clients |-> {}]
    /\ brokerMaster = [c \in Clients |-> [b \in Brokers |-> NoAddr]]
    /\ downBroker = [c \in Clients |-> {}]
    /\ turn = [c \in Clients |-> 0]
    /\ ids = [c \in Clients |-> NotAsked]
    /\ view = [c \in Clients |-> [t \in Topics |-> NoView]]
    /\ fetchedFrom = [c \in Clients |-> NoFetch]

-----------------------------------------------------------------------------
(* Around the round: clients and brokers come and go.                      *)

(* A heartbeat arrives: the broker lists the client, which has not been    *)
(* heard of before.                                                        *)
Heartbeat(c) ==
    /\ status[c] = "up"
    /\ c \notin members
    /\ members' = members \cup {c}
    /\ UNCHANGED <<nsRoute, status, routeVars, tableVars, roundVars>>

(* The client's process ends: nothing of it is left but its entry.         *)
Ends(c) ==
    /\ status' = [status EXCEPT ![c] = "gone"]
    /\ info' = [info EXCEPT ![c] = [t \in Topics |-> 0]]
    /\ route' = [route EXCEPT ![c] = [t \in Topics |-> 0]]
    /\ table' = [table EXCEPT ![c] = {}]
    /\ brokerMaster' = [brokerMaster EXCEPT ![c] = [b \in Brokers |-> NoAddr]]
    /\ downBroker' = [downBroker EXCEPT ![c] = {}]
    /\ turn' = [turn EXCEPT ![c] = 0]
    /\ ids' = [ids EXCEPT ![c] = NotAsked]
    /\ view' = [view EXCEPT ![c] = [t \in Topics |-> NoView]]
    /\ fetchedFrom' = [fetchedFrom EXCEPT ![c] = NoFetch]

(* At any time, also by itself: when a topic has no readable queue the     *)
(* strategy throws and rebalanceByTopic uses allocateResult, which has no  *)
(* value then; it may happen to be NULL, which is an empty share.          *)
Crash(c) ==
    /\ c \in Mortal
    /\ status[c] = "up"
    /\ Ends(c)
    /\ UNCHANGED envVars

(* The broker drops a client that is gone: unregisterClient arrived, or no *)
(* heartbeat did for two minutes.                                          *)
Expire(c) ==
    /\ status[c] = "gone"
    /\ c \in members
    /\ members' = members \ {c}
    /\ UNCHANGED <<nsRoute, status, routeVars, tableVars, roundVars>>

RouteChanges ==
    /\ nsRoute + 1 \in DOMAIN RouteHistory
    /\ nsRoute' = nsRoute + 1
    /\ UNCHANGED <<members, status, routeVars, tableVars, roundVars>>

(* updateTopicRouteInfoFromNameServer, by a timer task, changes the queues *)
(* of the consumer with the round's lock ...                               *)
UpdateTopicSubscribeInfo(c, t) ==
    /\ status[c] = "up"
    /\ turn[c] = 0
    /\ route[c][t] = info[c][t] /\ info[c][t] # nsRoute
    /\ info' = [info EXCEPT ![c][t] = nsRoute]
    /\ UNCHANGED <<envVars, status, route, tableVars, roundVars>>

(* ... and stores the route without it.                                    *)
StoreRoute(c, t) ==
    /\ status[c] = "up"
    /\ route[c][t] # info[c][t]
    /\ route' = [route EXCEPT ![c][t] = info[c][t]]
    /\ UNCHANGED <<envVars, status, info, tableVars, roundVars>>

-----------------------------------------------------------------------------
(* doRebalance: the topics in turn.                                        *)

DoRebalance(c) ==
    /\ status[c] = "up"
    /\ turn[c] = 0
    /\ turn' = [turn EXCEPT ![c] = 1]
    /\ UNCHANGED <<envVars, status, routeVars, tableVars, ids>>

(* Mutation: the round goes on after the last topic.                       *)
NextTurn_Past(c, down) ==
    /\ downBroker' = [downBroker EXCEPT ![c] = down]
    /\ turn' = [turn EXCEPT ![c] = @ + 1]
    /\ ids' = [ids EXCEPT ![c] = NotAsked]

(* m_downBrokerName, which the next round clears before it reads it, is    *)
(* cleared here with the last topic.                                       *)
NextTurn(c, down) ==
    /\ downBroker' = [downBroker EXCEPT ![c] =
            IF turn[c] = Len(TopicOrder) THEN {} ELSE down]
    /\ turn' = [turn EXCEPT ![c] = (@ + 1) % (Len(TopicOrder) + 1)]
    /\ ids' = [ids EXCEPT ![c] = NotAsked]

PassesTopic(c) ==
    /\ NextTurn(c, downBroker[c])
    /\ UNCHANGED <<envVars, status, table, brokerMaster, view, fetchedFrom>>

Asking(c) == turn[c] # 0 /\ ids[c] = NotAsked

(* findConsumerIdList asks a broker of the topic's route.                  *)
AskIds(c) ==
    LET t == TopicOrder[turn[c]] IN
    /\ Asking(c)
    /\ route[c][t] # 0 /\ members # {}
    /\ ids' = [ids EXCEPT ![c] = members]
    /\ UNCHANGED <<envVars, status, routeVars, tableVars, turn>>

(* No connection, no answer in time: the topic is passed over.             *)
AskInVain(c) == Asking(c) /\ PassesTopic(c) /\ UNCHANGED routeVars

(* Without a route it asks the name server first.  The topic's queues were *)
(* looked up before that, so that this round passes it over all the same.  *)
AskRoute(c) ==
    LET t == TopicOrder[turn[c]] IN
    /\ Asking(c)
    /\ route[c][t] = 0 /\ info[c][t] = 0
    /\ info' = [info EXCEPT ![c][t] = nsRoute]
    /\ route' = [route EXCEPT ![c][t] = nsRoute]
    /\ PassesTopic(c)

(* findMasterBrokerAddrByTopicAndName for the broker of queue n in route r.*)
Addr(r, n) == RouteHistory[r].addr[BrokerOf[n]]

(* The queues that the loops of the table's update look up in one route.   *)
(* There are calls to brokers between the look-ups, and StoreRoute may run *)
(* during one of them: those of the queues from n on find the new route.   *)
OldRoute(c, t) == [m \in Queues |-> route[c][t]]
NewRoute(c, t) == [m \in Queues |-> info[c][t]]
RouteUntil(c, t, n) == [m \in Queues |-> IF m < n THEN route[c][t] ELSE info[c][t]]

(* The first loop keeps the queues that are in the share, except those on  *)
(* a broker that was found moved so far in this round, for this or an      *)
(* earlier topic: its address is not the remembered one.                   *)
Moved(c, t, share, first) ==
    {n \in share : /\ <<t, n>> \in table[c]
                   /\ brokerMaster[c][BrokerOf[n]] \notin {NoAddr, Addr(first[n], n)}}

Kept(c, t, share, moved) ==
    {n \in share :
        /\ <<t, n>> \in table[c]
        /\ \/ brokerMaster[c][BrokerOf[n]] = NoAddr
           \/ /\ BrokerOf[n] \notin downBroker[c]
              /\ \A m \in moved : m <= n => BrokerOf[m] # BrokerOf[n]}

(* The last queue of broker b among the added ones for which the second    *)
(* loop finds an address.                                                  *)
IsLast(n, b, added, second) ==
    LET known == {m \in added : BrokerOf[m] = b /\ Addr(second[m], m) # NoAddr} IN
    n \in known /\ \A m \in known : m <= n

(* updateProcessQueueTableInRebalance: the queues that are not kept are    *)
(* dropped; the second loop adds those that are missing and for which      *)
(* computePullFromWhere has an offset, and remembers the address of their  *)
(* broker.                                                                 *)
UpdateProcessQueueTable(c, t, moved, kept, added, second) ==
    /\ NextTurn(c, downBroker[c] \cup {BrokerOf[n] : n \in moved})
    /\ table' = [table EXCEPT ![c] = {q \in @ : q[1] # t} \cup ({t} \X (kept \cup added))]
    /\ brokerMaster' = [brokerMaster EXCEPT ![c] = [b \in Brokers |->
            IF \E n \in added : IsLast(n, b, added, second)
            THEN LET n == CHOOSE n \in added : IsLast(n, b, added, second)
                 IN Addr(second[n], n)
            ELSE @[b]]]
    /\ fetchedFrom' = [fetchedFrom EXCEPT ![c] = [q \in Topics \X Queues |->
            IF q[1] # t \/ q[2] \in kept THEN @[q]
            ELSE IF q[2] \in added THEN Addr(second[q[2]], q[2]) ELSE NoAddr]]

(* rebalanceByTopic: the share is computed from the queues that the topic  *)
(* has now and the ids that were answered before.  An offset is found for   *)
(* all missing queues, or only for some.                                   *)
Dividing(c, t) == turn[c] # 0 /\ ids[c] # NotAsked /\ t = TopicOrder[turn[c]]

MqAll(c, t) == RouteHistory[info[c][t]].queues[t]

RebalanceByTopic(c, t, first, second, all) ==
    /\ Dividing(c, t)
    /\ \E share \in {Allocate(c, MqAll(c, t), ids[c])} :
       \E moved \in {Moved(c, t, share, first)} :
       \E kept \in {Kept(c, t, share, moved)} :
       \E added \in SUBSET (share \ kept) :
            /\ all => added = share \ kept
            /\ UpdateProcessQueueTable(c, t, moved, kept, added, second)
    /\ view' = [view EXCEPT ![c][t] = <<MqAll(c, t), ids[c]>>]
    /\ UNCHANGED <<envVars, status, info>>

AllAdded(c, t) ==
    /\ RebalanceByTopic(c, t, OldRoute(c, t), OldRoute(c, t), TRUE)
    /\ UNCHANGED route

SomeAdded(c, t) ==
    /\ RebalanceByTopic(c, t, OldRoute(c, t), OldRoute(c, t), FALSE)
    /\ UNCHANGED route

(* The new route is stored while the first loop is at queue n, or while    *)
(* the second is.                                                          *)
StoredMeanwhile(c, t, n) ==
    /\ route[c][t] # info[c][t]
    /\ \/ RebalanceByTopic(c, t, RouteUntil(c, t, n), NewRoute(c, t), FALSE)
       \/ RebalanceByTopic(c, t, OldRoute(c, t), RouteUntil(c, t, n), FALSE)
    /\ route' = [route EXCEPT ![c][t] = info[c][t]]

-----------------------------------------------------------------------------
Next ==
    \/ \E c \in Clients :
        \/ Heartbeat(c) \/ Crash(c) \/ Expire(c)
        \/ \E t \in Topics : UpdateTopicSubscribeInfo(c, t) \/ StoreRoute(c, t)
        \/ DoRebalance(c) \/ AskIds(c) \/ AskInVain(c) \/ AskRoute(c)
        \/ \E t \in Topics :
            \/ AllAdded(c, t) \/ SomeAdded(c, t)
            \/ \E n \in Queues : StoredMeanwhile(c, t, n)
    \/ RouteChanges

Spec == Init /\ [][Next]_vars

(* The service thread does a round every 10 seconds and the timer tasks    *)
(* run; the calls to the broker may fail any number of times, but not for  *)
(* ever.  Clients start, end and routes change at will.                    *)
Fairness ==
    \A c \in Clients :
        /\ WF_vars(Heartbeat(c) \/ Expire(c))
        /\ \A t \in Topics : SF_vars(UpdateTopicSubscribeInfo(c, t)) /\ WF_vars(StoreRoute(c, t))
        /\ WF_vars(DoRebalance(c) \/ AskInVain(c))
        /\ SF_vars(AskIds(c)) /\ SF_vars(\E t \in Topics : AllAdded(c, t))

FairSpec == Spec /\ Fairness

-----------------------------------------------------------------------------
Up == {c \in Clients : status[c] = "up"}

Assigned(c, t) == {n \in Queues : <<t, n>> \in table[c]}

(* Two clients whose last shares of a topic come from the same queues and  *)
(* the same ids never have a queue of it in common, whatever either of     *)
(* them failed to add or dropped and added again.                          *)
SameViewIsDisjoint ==
    \A c, d \in Up : \A t \in Topics :
        c # d /\ view[c][t] = view[d][t] => Assigned(c, t) \cap Assigned(d, t) = {}

(* A queue in the table was added when its broker had the address that the *)
(* client remembers for the broker: after a switch of the master it is     *)
(* fetched from the new one again.  The code departs from this: a queue    *)
(* that the first loop kept at the old address is left behind when the new *)
(* one is stored before the second loop adds another queue of the broker.  *)
AddedFromMaster ==
    \A c \in Clients : \A q \in table[c] :
        fetchedFrom[c][q] = brokerMaster[c][BrokerOf[q[2]]]

(* Each queue has one owner.                                               *)
Divided ==
    \A t \in Topics : \A n \in RouteHistory[nsRoute].queues[t] :
        Cardinality({c \in Up : n \in Assigned(c, t)}) = 1

(* Once nothing changes any more the clients come to agree, each by        *)
(* itself: whatever views, failed calls, ended clients and half-seen       *)
(* switches of masters came before, every queue stays with one owner.      *)
ComesToDivide == <>[](Up # {} => Divided)
=============================================================================
