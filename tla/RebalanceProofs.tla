-------------------------- MODULE RebalanceProofs --------------------------
(***************************************************************************)
(* What rebalance keeps for any group, any topics and any history of       *)
(* routes: the shares that clients compute from the same view are          *)
(* disjoint, and so are the queues they hold.                              *)
(***************************************************************************)
EXTENDS Rebalance, OperatorProofs

-----------------------------------------------------------------------------
(* The invariant.                                                          *)

(* A route that is stored has been given to the consumer before, and a     *)
(* round that has the ids of its topic's group has found the topic's route *)
(* to ask for them.                                                        *)
RouteInv ==
    \A c \in Clients :
        /\ \A t \in Topics : route[c][t] # 0 => info[c][t] # 0
        /\ ids[c] # NotAsked => turn[c] # 0 /\ route[c][TopicOrder[turn[c]]] # 0

(* A client has only queues of the share that it computed last.            *)
ViewInv ==
    \A c \in Clients : \A t \in Topics : \A n \in Queues :
        <<t, n>> \in table[c] => n \in Allocate(c, view[c][t][1], view[c][t][2])

RebalanceInv == TypeOK /\ RouteInv /\ ViewInv

-----------------------------------------------------------------------------
(* The constants.                                                          *)

LEMMA Lengths ==
    /\ Len(TopicOrder) \in Nat \ {0} /\ DOMAIN TopicOrder = 1 .. Len(TopicOrder)
    /\ Len(RouteHistory) \in Nat \ {0} /\ DOMAIN RouteHistory = 1 .. Len(RouteHistory)
    /\ \A i \in 1 .. Len(TopicOrder) : TopicOrder[i] \in Topics
  BY RouteAssumption DEF Topics

LEMMA RouteData ==
    ASSUME NEW i \in DOMAIN RouteHistory
    PROVE  /\ \A t \in Topics : RouteHistory[i].queues[t] \in SUBSET Queues
           /\ \A b \in Brokers : RouteHistory[i].addr[b] \in Addrs
  <1>1. RouteHistory[i] \in Routes
    BY DEF Routes
  <1>2. RouteHistory[i].queues \in [Topics -> SUBSET Queues]
    BY <1>1, RouteAssumption
  <1>3. \A b \in Brokers : RouteHistory[i].addr[b] \in Addrs
    BY DEF Addrs
  <1> QED
    BY <1>1, <1>2, <1>3

-----------------------------------------------------------------------------
(* The actions around the round.                                           *)

LEMMA InitRebalanceInv == Init => RebalanceInv
  <1> SUFFICES ASSUME Init PROVE RebalanceInv
    OBVIOUS
  <1>1. TypeOK
    <2>1. 1 \in DOMAIN RouteHistory /\ 0 \in 0 .. Len(RouteHistory) /\ 0 \in 0 .. Len(TopicOrder)
      BY Lengths
    <2>2. NoView \in (SUBSET Queues) \X (SUBSET Clients)
      BY DEF NoView
    <2> QED
      BY <2>1, <2>2 DEF Init, TypeOK, NoFetch
  <1>2. RouteInv
    BY DEF Init, RouteInv
  <1>3. \A c \in Clients : table[c] = {}
    BY DEF Init
  <1>4. ViewInv
    BY <1>3 DEF ViewInv
  <1> QED
    BY <1>1, <1>2, <1>4 DEF RebalanceInv

(* What holds of the table is left alone by a step that does not change    *)
(* what it is about.                                                       *)
LEMMA TableFrame ==
    ASSUME ViewInv,
           UNCHANGED <<table, brokerMaster, view, fetchedFrom>>
    PROVE  ViewInv'
  BY DEF ViewInv

LEMMA StutterPreserves ==
    ASSUME RebalanceInv, UNCHANGED vars
    PROVE  RebalanceInv'
  <1>1. TypeOK /\ RouteInv /\ ViewInv
    BY DEF RebalanceInv
  <1>2. UNCHANGED <<nsRoute, members, status, info, route, table, brokerMaster,
                    downBroker, turn, ids, view, fetchedFrom>>
    BY DEF vars, envVars, routeVars, tableVars, roundVars
  <1>3. TypeOK'
    BY <1>1, <1>2 DEF TypeOK
  <1>4. RouteInv'
    BY <1>1, <1>2 DEF RouteInv
  <1> QED
    BY <1>1, <1>2, <1>3, <1>4, TableFrame DEF RebalanceInv

LEMMA EnvironmentPreserves ==
    ASSUME RebalanceInv,
           NEW c \in Clients, Heartbeat(c) \/ Expire(c) \/ RouteChanges
    PROVE  RebalanceInv'
  <1>1. TypeOK /\ RouteInv /\ ViewInv
    BY DEF RebalanceInv
  <1>2. /\ nsRoute' \in DOMAIN RouteHistory
        /\ members' \subseteq Clients
    BY <1>1 DEF TypeOK, Heartbeat, Expire, RouteChanges
  <1>3. UNCHANGED <<status, info, route, table, brokerMaster,
                    downBroker, turn, ids, view, fetchedFrom>>
    BY DEF Heartbeat, Expire, RouteChanges, routeVars, tableVars, roundVars
  <1>4. TypeOK'
    BY <1>1, <1>2, <1>3 DEF TypeOK
  <1>5. RouteInv'
    BY <1>1, <1>3 DEF RouteInv
  <1> QED
    BY <1>1, <1>3, <1>4, <1>5, TableFrame DEF RebalanceInv

(* A client that ends has no table, and asks nobody.                       *)
LEMMA EndsPreserves ==
    ASSUME RebalanceInv, NEW c \in Clients, Ends(c), UNCHANGED envVars
    PROVE  RebalanceInv'
  <1>1. TypeOK /\ RouteInv /\ ViewInv
    BY DEF RebalanceInv
  <1>2. /\ status' = [status EXCEPT ![c] = "gone"]
        /\ info' = [info EXCEPT ![c] = [t \in Topics |-> 0]]
        /\ route' = [route EXCEPT ![c] = [t \in Topics |-> 0]]
        /\ table' = [table EXCEPT ![c] = {}]
        /\ brokerMaster' = [brokerMaster EXCEPT ![c] = [b \in Brokers |-> NoAddr]]
        /\ downBroker' = [downBroker EXCEPT ![c] = {}]
        /\ turn' = [turn EXCEPT ![c] = 0]
        /\ ids' = [ids EXCEPT ![c] = NotAsked]
        /\ view' = [view EXCEPT ![c] = [t \in Topics |-> NoView]]
        /\ fetchedFrom' = [fetchedFrom EXCEPT ![c] = NoFetch]
        /\ UNCHANGED <<nsRoute, members>>
    BY DEF Ends, envVars
  <1>3. TypeOK'
    <2>1. 0 \in 0 .. Len(RouteHistory) /\ 0 \in 0 .. Len(TopicOrder)
      BY Lengths
    <2>2. /\ nsRoute' \in DOMAIN RouteHistory
          /\ members' \subseteq Clients
          /\ status' \in [Clients -> {"up", "gone"}]
      BY <1>1, <1>2 DEF TypeOK
    <2>3. info' \in [Clients -> [Topics -> 0 .. Len(RouteHistory)]]
      BY <1>1, <1>2, <2>1 DEF TypeOK
    <2>4. route' \in [Clients -> [Topics -> 0 .. Len(RouteHistory)]]
      BY <1>1, <1>2, <2>1 DEF TypeOK
    <2>5. table' \in [Clients -> SUBSET (Topics \X Queues)]
      BY <1>1, <1>2 DEF TypeOK
    <2>6. brokerMaster' \in [Clients -> [Brokers -> Addrs \cup {NoAddr}]]
      BY <1>1, <1>2 DEF TypeOK
    <2>7. downBroker' \in [Clients -> SUBSET Brokers]
      BY <1>1, <1>2 DEF TypeOK
    <2>8. turn' \in [Clients -> 0 .. Len(TopicOrder)]
      BY <1>1, <1>2, <2>1 DEF TypeOK
    <2>9. ids' \in [Clients -> (SUBSET Clients) \cup {NotAsked}]
      BY <1>1, <1>2 DEF TypeOK
    <2>10. view' \in [Clients -> [Topics -> (SUBSET Queues) \X (SUBSET Clients)]]
      <3>1. NoView \in (SUBSET Queues) \X (SUBSET Clients)
        BY DEF NoView
      <3> QED
        BY <1>1, <1>2, <3>1 DEF TypeOK
    <2>11. fetchedFrom' \in [Clients -> [Topics \X Queues -> Addrs \cup {NoAddr}]]
      <3>1. NoFetch \in [Topics \X Queues -> Addrs \cup {NoAddr}]
        BY DEF NoFetch
      <3> QED
        BY <1>1, <1>2, <3>1 DEF TypeOK
    <2> QED
      BY <2>2, <2>3, <2>4, <2>5, <2>6, <2>7, <2>8, <2>9, <2>10, <2>11 DEF TypeOK
  <1>4. RouteInv'
    <2> SUFFICES ASSUME NEW e \in Clients
                 PROVE  /\ \A t \in Topics : route'[e][t] # 0 => info'[e][t] # 0
                        /\ ids'[e] # NotAsked =>
                              turn'[e] # 0 /\ route'[e][TopicOrder[turn'[e]]] # 0
      BY DEF RouteInv
    <2>1. CASE e = c
      BY <1>1, <1>2, <2>1 DEF TypeOK
    <2>2. CASE e # c
      BY <1>1, <1>2, <2>2 DEF TypeOK, RouteInv
    <2> QED
      BY <2>1, <2>2
  <1>5. /\ table'[c] = {}
        /\ \A e \in Clients \ {c} : /\ table'[e] = table[e] /\ view'[e] = view[e]
                                    /\ brokerMaster'[e] = brokerMaster[e]
                                    /\ fetchedFrom'[e] = fetchedFrom[e]
    BY <1>1, <1>2 DEF TypeOK
  <1>6. ViewInv'
    BY <1>1, <1>5 DEF ViewInv
  <1> QED
    BY <1>3, <1>4, <1>6 DEF RebalanceInv

-----------------------------------------------------------------------------
(* The routes that a client polls.                                         *)

LEMMA UpdateTopicSubscribeInfoPreserves ==
    ASSUME RebalanceInv, NEW c \in Clients, NEW t \in Topics,
           UpdateTopicSubscribeInfo(c, t)
    PROVE  RebalanceInv'
  <1>1. TypeOK /\ RouteInv /\ ViewInv
    BY DEF RebalanceInv
  <1>2. /\ info' = [info EXCEPT ![c][t] = nsRoute]
        /\ UNCHANGED <<nsRoute, members, status, route, table, brokerMaster,
                       downBroker, turn, ids, view, fetchedFrom>>
    BY DEF UpdateTopicSubscribeInfo, envVars, tableVars, roundVars
  <1>3. nsRoute \in 0 .. Len(RouteHistory) /\ nsRoute # 0
    BY <1>1, Lengths DEF TypeOK
  <1>4. info' \in [Clients -> [Topics -> 0 .. Len(RouteHistory)]]
    BY <1>1, <1>2, <1>3 DEF TypeOK
  <1>5. TypeOK'
    BY <1>1, <1>2, <1>4 DEF TypeOK
  <1>6. \A e \in Clients : \A s \in Topics :
            info'[e][s] = IF e = c /\ s = t THEN nsRoute ELSE info[e][s]
    BY <1>1, <1>2 DEF TypeOK
  <1>7. RouteInv'
    BY <1>1, <1>2, <1>3, <1>6 DEF RouteInv
  <1> QED
    BY <1>1, <1>2, <1>5, <1>7, TableFrame DEF RebalanceInv

LEMMA StoreRoutePreserves ==
    ASSUME RebalanceInv, NEW c \in Clients, NEW t \in Topics, StoreRoute(c, t)
    PROVE  RebalanceInv'
  <1>1. TypeOK /\ RouteInv /\ ViewInv
    BY DEF RebalanceInv
  <1>2. /\ route[c][t] # info[c][t]
        /\ route' = [route EXCEPT ![c][t] = info[c][t]]
        /\ UNCHANGED <<nsRoute, members, status, info, table, brokerMaster,
                       downBroker, turn, ids, view, fetchedFrom>>
    BY DEF StoreRoute, envVars, tableVars, roundVars
  <1>3. route' \in [Clients -> [Topics -> 0 .. Len(RouteHistory)]]
    BY <1>1, <1>2 DEF TypeOK
  <1>4. TypeOK'
    BY <1>1, <1>2, <1>3 DEF TypeOK
  <1>5. \A e \in Clients : \A s \in Topics :
            route'[e][s] = IF e = c /\ s = t THEN info[c][t] ELSE route[e][s]
    BY <1>1, <1>2 DEF TypeOK
  <1>6. RouteInv'
    <2> SUFFICES ASSUME NEW e \in Clients
                 PROVE  /\ \A s \in Topics : route'[e][s] # 0 => info[e][s] # 0
                        /\ ids[e] # NotAsked =>
                              turn[e] # 0 /\ route'[e][TopicOrder[turn[e]]] # 0
      BY <1>2 DEF RouteInv
    <2>1. \A s \in Topics : route'[e][s] # 0 => info[e][s] # 0
      BY <1>1, <1>5 DEF RouteInv
    <2>2. ASSUME ids[e] # NotAsked
          PROVE  turn[e] # 0 /\ route'[e][TopicOrder[turn[e]]] # 0
      <3>1. turn[e] # 0 /\ route[e][TopicOrder[turn[e]]] # 0
        BY <1>1, <2>2 DEF RouteInv
      <3>2. TopicOrder[turn[e]] \in Topics
        BY <1>1, <3>1, Lengths DEF TypeOK
      <3>3. info[c][t] # 0
        BY <1>1, <1>2 DEF RouteInv
      <3> QED
        BY <1>5, <3>1, <3>2, <3>3
    <2> QED
      BY <2>1, <2>2
  <1> QED
    BY <1>1, <1>2, <1>4, <1>6, TableFrame DEF RebalanceInv

-----------------------------------------------------------------------------
(* The round up to the ids.                                                *)

LEMMA DoRebalancePreserves ==
    ASSUME RebalanceInv, NEW c \in Clients, DoRebalance(c)
    PROVE  RebalanceInv'
  <1>1. TypeOK /\ RouteInv /\ ViewInv
    BY DEF RebalanceInv
  <1>2. /\ turn[c] = 0
        /\ turn' = [turn EXCEPT ![c] = 1]
        /\ UNCHANGED <<nsRoute, members, status, info, route, table, brokerMaster,
                       downBroker, ids, view, fetchedFrom>>
    BY DEF DoRebalance, envVars, routeVars, tableVars
  <1>3. turn' \in [Clients -> 0 .. Len(TopicOrder)]
    BY <1>1, <1>2, Lengths DEF TypeOK
  <1>4. TypeOK'
    BY <1>1, <1>2, <1>3 DEF TypeOK
  <1>5. ids[c] = NotAsked
    BY <1>1, <1>2 DEF RouteInv
  <1>6. \A e \in Clients \ {c} : turn'[e] = turn[e]
    BY <1>1, <1>2 DEF TypeOK
  <1>7. RouteInv'
    BY <1>1, <1>2, <1>5, <1>6 DEF RouteInv
  <1> QED
    BY <1>1, <1>2, <1>4, <1>7, TableFrame DEF RebalanceInv

LEMMA AskIdsPreserves ==
    ASSUME RebalanceInv, NEW c \in Clients, AskIds(c)
    PROVE  RebalanceInv'
  <1>1. TypeOK /\ RouteInv /\ ViewInv
    BY DEF RebalanceInv
  <1>2. /\ turn[c] # 0 /\ route[c][TopicOrder[turn[c]]] # 0
        /\ ids' = [ids EXCEPT ![c] = members]
        /\ UNCHANGED <<nsRoute, members, status, info, route, table, brokerMaster,
                       downBroker, turn, view, fetchedFrom>>
    BY DEF AskIds, Asking, envVars, routeVars, tableVars
  <1>3. ids' \in [Clients -> (SUBSET Clients) \cup {NotAsked}]
    BY <1>1, <1>2 DEF TypeOK
  <1>4. TypeOK'
    BY <1>1, <1>2, <1>3 DEF TypeOK
  <1>5. \A e \in Clients \ {c} : ids'[e] = ids[e]
    BY <1>1, <1>2 DEF TypeOK
  <1>6. RouteInv'
    BY <1>1, <1>2, <1>5 DEF RouteInv
  <1> QED
    BY <1>1, <1>2, <1>4, <1>6, TableFrame DEF RebalanceInv

(* NextTurn moves to a topic of the list or ends the round.                *)
LEMMA NextTurnType ==
    ASSUME TypeOK, NEW c \in Clients, NEW down \in SUBSET Brokers, NextTurn(c, down)
    PROVE  /\ downBroker' \in [Clients -> SUBSET Brokers]
           /\ turn' \in [Clients -> 0 .. Len(TopicOrder)]
           /\ ids' \in [Clients -> (SUBSET Clients) \cup {NotAsked}]
           /\ ids'[c] = NotAsked
           /\ \A e \in Clients \ {c} : turn'[e] = turn[e] /\ ids'[e] = ids[e]
  <1>1. /\ downBroker' = [downBroker EXCEPT ![c] =
                IF turn[c] = Len(TopicOrder) THEN {} ELSE down]
        /\ turn' = [turn EXCEPT ![c] = (turn[c] + 1) % (Len(TopicOrder) + 1)]
        /\ ids' = [ids EXCEPT ![c] = NotAsked]
    BY DEF NextTurn
  <1>2. (turn[c] + 1) % (Len(TopicOrder) + 1) \in 0 .. Len(TopicOrder)
    <2>1. turn[c] + 1 \in Nat /\ Len(TopicOrder) + 1 \in Nat \ {0} /\ Len(TopicOrder) \in Nat
      BY Lengths DEF TypeOK
    <2>2. /\ (turn[c] + 1) % (Len(TopicOrder) + 1) \in Nat
          /\ (turn[c] + 1) % (Len(TopicOrder) + 1) < Len(TopicOrder) + 1
      BY <2>1, Division, Zenon
    <2> QED
      BY <2>1, <2>2
  <1>3. downBroker' \in [Clients -> SUBSET Brokers]
    BY <1>1 DEF TypeOK
  <1>4. turn' \in [Clients -> 0 .. Len(TopicOrder)]
    BY <1>1, <1>2 DEF TypeOK
  <1>5. ids' \in [Clients -> (SUBSET Clients) \cup {NotAsked}]
    BY <1>1 DEF TypeOK
  <1> QED
    BY <1>1, <1>3, <1>4, <1>5 DEF TypeOK

LEMMA AskInVainPreserves ==
    ASSUME RebalanceInv, NEW c \in Clients, AskInVain(c)
    PROVE  RebalanceInv'
  <1>1. TypeOK /\ RouteInv /\ ViewInv
    BY DEF RebalanceInv
  <1>2. /\ NextTurn(c, downBroker[c])
        /\ UNCHANGED <<nsRoute, members, status, info, route, table, brokerMaster,
                       view, fetchedFrom>>
    BY DEF AskInVain, PassesTopic, envVars, routeVars
  <1>3. downBroker[c] \in SUBSET Brokers
    BY <1>1 DEF TypeOK
  <1>4. /\ downBroker' \in [Clients -> SUBSET Brokers]
        /\ turn' \in [Clients -> 0 .. Len(TopicOrder)]
        /\ ids' \in [Clients -> (SUBSET Clients) \cup {NotAsked}]
        /\ ids'[c] = NotAsked
        /\ \A e \in Clients \ {c} : turn'[e] = turn[e] /\ ids'[e] = ids[e]
    BY <1>1, <1>2, <1>3, NextTurnType
  <1>5. TypeOK'
    BY <1>1, <1>2, <1>4 DEF TypeOK
  <1>6. RouteInv'
    BY <1>1, <1>2, <1>4 DEF RouteInv
  <1> QED
    BY <1>1, <1>2, <1>5, <1>6, TableFrame DEF RebalanceInv

LEMMA AskRoutePreserves ==
    ASSUME RebalanceInv, NEW c \in Clients, AskRoute(c)
    PROVE  RebalanceInv'
  <1>1. TypeOK /\ RouteInv /\ ViewInv
    BY DEF RebalanceInv
  <1>2. PICK t : t = TopicOrder[turn[c]]
    OBVIOUS
  <1>3. /\ turn[c] # 0
        /\ info' = [info EXCEPT ![c][t] = nsRoute]
        /\ route' = [route EXCEPT ![c][t] = nsRoute]
        /\ NextTurn(c, downBroker[c])
        /\ UNCHANGED <<nsRoute, members, status, table, brokerMaster,
                       view, fetchedFrom>>
    BY <1>2 DEF AskRoute, Asking, PassesTopic, envVars
  <1>4. t \in Topics
    BY <1>1, <1>2, <1>3, Lengths DEF TypeOK
  <1>5. nsRoute \in 0 .. Len(RouteHistory) /\ nsRoute # 0
    BY <1>1, Lengths DEF TypeOK
  <1>6. downBroker[c] \in SUBSET Brokers
    BY <1>1 DEF TypeOK
  <1>7. /\ downBroker' \in [Clients -> SUBSET Brokers]
        /\ turn' \in [Clients -> 0 .. Len(TopicOrder)]
        /\ ids' \in [Clients -> (SUBSET Clients) \cup {NotAsked}]
        /\ ids'[c] = NotAsked
        /\ \A e \in Clients \ {c} : turn'[e] = turn[e] /\ ids'[e] = ids[e]
    BY <1>1, <1>3, <1>6, NextTurnType
  <1>8. /\ info' \in [Clients -> [Topics -> 0 .. Len(RouteHistory)]]
        /\ route' \in [Clients -> [Topics -> 0 .. Len(RouteHistory)]]
    BY <1>1, <1>3, <1>4, <1>5 DEF TypeOK
  <1>9. TypeOK'
    BY <1>1, <1>3, <1>7, <1>8 DEF TypeOK
  <1>10. /\ \A e \in Clients \ {c} : info'[e] = info[e] /\ route'[e] = route[e]
         /\ \A s \in Topics : /\ info'[c][s] = IF s = t THEN nsRoute ELSE info[c][s]
                              /\ route'[c][s] = IF s = t THEN nsRoute ELSE route[c][s]
    BY <1>1, <1>3, <1>4 DEF TypeOK
  <1>11. RouteInv'
    <2> SUFFICES ASSUME NEW e \in Clients
                 PROVE  /\ \A s \in Topics : route'[e][s] # 0 => info'[e][s] # 0
                        /\ ids'[e] # NotAsked =>
                              turn'[e] # 0 /\ route'[e][TopicOrder[turn'[e]]] # 0
      BY DEF RouteInv
    <2>1. CASE e = c
      BY <1>1, <1>5, <1>7, <1>10, <2>1 DEF RouteInv
    <2>2. CASE e # c
      BY <1>1, <1>7, <1>10, <2>2 DEF RouteInv
    <2> QED
      BY <2>1, <2>2
  <1> QED
    BY <1>1, <1>3, <1>9, <1>11, TableFrame DEF RebalanceInv

-----------------------------------------------------------------------------
(* The new share.                                                          *)

(* A round that has its ids has a route and the queues from one.           *)
LEMMA DividingData ==
    ASSUME RebalanceInv, NEW c \in Clients, NEW t \in Topics, Dividing(c, t)
    PROVE  /\ route[c][t] \in DOMAIN RouteHistory /\ info[c][t] \in DOMAIN RouteHistory
           /\ MqAll(c, t) \in SUBSET Queues
           /\ ids[c] \in SUBSET Clients
           /\ OldRoute(c, t) \in [Queues -> DOMAIN RouteHistory]
           /\ NewRoute(c, t) \in [Queues -> DOMAIN RouteHistory]
           /\ \A n \in Queues : RouteUntil(c, t, n) \in [Queues -> DOMAIN RouteHistory]
  <1>1. TypeOK /\ RouteInv
    BY DEF RebalanceInv
  <1>2. turn[c] # 0 /\ ids[c] # NotAsked /\ t = TopicOrder[turn[c]]
    BY DEF Dividing
  <1>3. route[c][t] # 0 /\ info[c][t] # 0
    BY <1>1, <1>2 DEF RouteInv
  <1>4. route[c][t] \in DOMAIN RouteHistory /\ info[c][t] \in DOMAIN RouteHistory
    BY <1>1, <1>3, Lengths DEF TypeOK
  <1>5. MqAll(c, t) \in SUBSET Queues
    BY <1>4, RouteData DEF MqAll
  <1>6. ids[c] \in SUBSET Clients
    BY <1>1, <1>2 DEF TypeOK
  <1> QED
    BY <1>4, <1>5, <1>6 DEF OldRoute, NewRoute, RouteUntil

(* The address of a queue's broker is one of a route.                      *)
LEMMA AddrType ==
    ASSUME NEW second \in [Queues -> DOMAIN RouteHistory], NEW n \in Queues
    PROVE  Addr(second[n], n) \in Addrs
  <1>1. second[n] \in DOMAIN RouteHistory
    OBVIOUS
  <1>2. BrokerOf[n] \in Brokers
    BY DEF Brokers, Queues
  <1> QED
    BY <1>1, <1>2, RouteData DEF Addr

(* The update of the table: whatever the look-ups find, the client holds   *)
(* queues of its share only.                                               *)
LEMMA RebalanceByTopicPreserves ==
    ASSUME RebalanceInv, NEW c \in Clients, NEW t \in Topics, NEW all, NEW first,
           NEW second \in [Queues -> DOMAIN RouteHistory],
           RebalanceByTopic(c, t, first, second, all),
           route' = route \/ route' = [route EXCEPT ![c][t] = info[c][t]]
    PROVE  RebalanceInv'
  <1>1. TypeOK /\ RouteInv /\ ViewInv
    BY DEF RebalanceInv
  <1>2. Dividing(c, t)
    BY DEF RebalanceByTopic
  <1>3. /\ route[c][t] \in DOMAIN RouteHistory /\ info[c][t] \in DOMAIN RouteHistory
        /\ MqAll(c, t) \in SUBSET Queues
        /\ ids[c] \in SUBSET Clients
    BY <1>2, DividingData
  <1>4. PICK share, moved, kept, added :
            /\ share = Allocate(c, MqAll(c, t), ids[c])
            /\ moved = Moved(c, t, share, first)
            /\ kept = Kept(c, t, share, moved)
            /\ added \in SUBSET (share \ kept)
            /\ UpdateProcessQueueTable(c, t, moved, kept, added, second)
    BY Zenon DEF RebalanceByTopic
  <1>5. /\ view' = [view EXCEPT ![c][t] = <<MqAll(c, t), ids[c]>>]
        /\ UNCHANGED <<nsRoute, members, status, info>>
    BY DEF RebalanceByTopic, envVars
  <1>6. /\ share \subseteq Queues
        /\ kept \cup added \subseteq share
        /\ moved \subseteq Queues
    BY <1>3, <1>4 DEF Allocate, Kept, Moved
  <1>7. \A n \in Queues : BrokerOf[n] \in Brokers
    BY DEF Brokers, Queues
  <1>8. downBroker[c] \cup {BrokerOf[n] : n \in moved} \in SUBSET Brokers
    <2>1. downBroker[c] \subseteq Brokers
      BY <1>1 DEF TypeOK
    <2> QED
      BY <1>6, <1>7, <2>1
  <1>9. NextTurn(c, downBroker[c] \cup {BrokerOf[n] : n \in moved})
    BY <1>4 DEF UpdateProcessQueueTable
  <1>10. /\ downBroker' \in [Clients -> SUBSET Brokers]
         /\ turn' \in [Clients -> 0 .. Len(TopicOrder)]
         /\ ids' \in [Clients -> (SUBSET Clients) \cup {NotAsked}]
         /\ ids'[c] = NotAsked
         /\ \A e \in Clients \ {c} : turn'[e] = turn[e] /\ ids'[e] = ids[e]
    BY <1>1, <1>8, <1>9, NextTurnType
  <1>11. PICK T : T = {q \in table[c] : q[1] # t} \cup ({t} \X (kept \cup added))
    OBVIOUS
  <1>12. PICK M : M = [b \in Brokers |->
            IF \E n \in added : IsLast(n, b, added, second)
            THEN LET n == CHOOSE n \in added : IsLast(n, b, added, second)
                 IN Addr(second[n], n)
            ELSE brokerMaster[c][b]]
    OBVIOUS
  <1>13. PICK F : F = [q \in Topics \X Queues |->
            IF q[1] # t \/ q[2] \in kept THEN fetchedFrom[c][q]
            ELSE IF q[2] \in added THEN Addr(second[q[2]], q[2]) ELSE NoAddr]
    OBVIOUS
  <1>14. /\ table' = [table EXCEPT ![c] = T]
         /\ brokerMaster' = [brokerMaster EXCEPT ![c] = M]
         /\ fetchedFrom' = [fetchedFrom EXCEPT ![c] = F]
    BY <1>4, <1>11, <1>12, <1>13, Zenon DEF UpdateProcessQueueTable
  <1>15. T \in SUBSET (Topics \X Queues)
    <2>1. table[c] \in SUBSET (Topics \X Queues)
      BY <1>1 DEF TypeOK
    <2> QED
      BY <1>6, <1>11, <2>1
  <1>16. M \in [Brokers -> Addrs \cup {NoAddr}]
    <2>1. ASSUME NEW b \in Brokers, \E n \in added : IsLast(n, b, added, second)
          PROVE  Addr(second[CHOOSE n \in added : IsLast(n, b, added, second)],
                      CHOOSE n \in added : IsLast(n, b, added, second)) \in Addrs
      <3>1. PICK n \in added : n = CHOOSE m \in added : IsLast(m, b, added, second)
        BY <2>1, Zenon
      <3>2. n \in Queues
        BY <1>6
      <3>3. Addr(second[n], n) \in Addrs
        BY <3>2, AddrType
      <3> QED
        BY <3>1, <3>3
    <2>2. \A b \in Brokers : brokerMaster[c][b] \in Addrs \cup {NoAddr}
      BY <1>1 DEF TypeOK
    <2>3. \A b \in Brokers :
            (IF \E n \in added : IsLast(n, b, added, second)
             THEN LET n == CHOOSE n \in added : IsLast(n, b, added, second)
                  IN Addr(second[n], n)
             ELSE brokerMaster[c][b]) \in Addrs \cup {NoAddr}
      BY <2>1, <2>2
    <2> QED
      BY <1>12, <2>3
  <1>17. F \in [Topics \X Queues -> Addrs \cup {NoAddr}]
    <2>1. fetchedFrom[c] \in [Topics \X Queues -> Addrs \cup {NoAddr}]
      BY <1>1 DEF TypeOK
    <2>2. ASSUME NEW q \in Topics \X Queues
          PROVE  (IF q[1] # t \/ q[2] \in kept THEN fetchedFrom[c][q]
                  ELSE IF q[2] \in added THEN Addr(second[q[2]], q[2]) ELSE NoAddr)
                    \in Addrs \cup {NoAddr}
      <3>1. fetchedFrom[c][q] \in Addrs \cup {NoAddr}
        BY <2>1
      <3>2. Addr(second[q[2]], q[2]) \in Addrs
        BY AddrType
      <3> QED
        BY <3>1, <3>2
    <2> QED
      BY <1>13, <2>2
  <1>18. TypeOK'
    <2>1. table' \in [Clients -> SUBSET (Topics \X Queues)]
      BY <1>1, <1>14, <1>15 DEF TypeOK
    <2>2. brokerMaster' \in [Clients -> [Brokers -> Addrs \cup {NoAddr}]]
      BY <1>1, <1>14, <1>16 DEF TypeOK
    <2>3. fetchedFrom' \in [Clients -> [Topics \X Queues -> Addrs \cup {NoAddr}]]
      BY <1>1, <1>14, <1>17 DEF TypeOK
    <2>4. view' \in [Clients -> [Topics -> (SUBSET Queues) \X (SUBSET Clients)]]
      <3>1. <<MqAll(c, t), ids[c]>> \in (SUBSET Queues) \X (SUBSET Clients)
        BY <1>3
      <3> QED
        BY <1>1, <1>5, <3>1 DEF TypeOK
    <2>5. route' \in [Clients -> [Topics -> 0 .. Len(RouteHistory)]]
      <3>1. /\ route \in [Clients -> [Topics -> 0 .. Len(RouteHistory)]]
            /\ info[c][t] \in 0 .. Len(RouteHistory)
        BY <1>1 DEF TypeOK
      <3>2. [route[c] EXCEPT ![t] = info[c][t]] \in [Topics -> 0 .. Len(RouteHistory)]
        BY <3>1
      <3>3. CASE route' = route
        BY <3>1, <3>3
      <3>4. CASE route' = [route EXCEPT ![c][t] = info[c][t]]
        BY <3>1, <3>2, <3>4
      <3> QED
        BY <3>3, <3>4
    <2> QED
      BY <1>1, <1>5, <1>10, <2>1, <2>2, <2>3, <2>4, <2>5 DEF TypeOK
  <1>19. RouteInv'
    <2>1. info[c][t] # 0
      BY <1>3, Lengths
    <2>2. \A e \in Clients : \A s \in Topics : route'[e][s] # 0 => info[e][s] # 0
      <3>1. CASE route' = route
        BY <1>1, <3>1 DEF RouteInv
      <3>2. CASE route' = [route EXCEPT ![c][t] = info[c][t]]
        <4> SUFFICES ASSUME NEW e \in Clients, NEW s \in Topics, route'[e][s] # 0
                     PROVE  info[e][s] # 0
          OBVIOUS
        <4>1. CASE e = c /\ s = t
          BY <2>1, <4>1
        <4>2. CASE ~(e = c /\ s = t)
          <5>1. route'[e][s] = route[e][s]
            BY <1>1, <3>2, <4>2 DEF TypeOK
          <5> QED
            BY <1>1, <5>1 DEF RouteInv
        <4> QED
          BY <4>1, <4>2
      <3> QED
        BY <3>1, <3>2
    <2>3. \A e \in Clients \ {c} : route'[e] = route[e]
      BY <1>1 DEF TypeOK
    <2>4. \A e \in Clients : ids'[e] # NotAsked =>
                /\ turn'[e] # 0 /\ route'[e][TopicOrder[turn'[e]]] # 0
      BY <1>1, <1>10, <2>3 DEF RouteInv
    <2> QED
      BY <1>5, <2>2, <2>4 DEF RouteInv
  <1>20. ViewInv'
    <2>1. \A s \in Topics : view'[c][s] =
                IF s = t THEN <<MqAll(c, t), ids[c]>> ELSE view[c][s]
      BY <1>1, <1>5 DEF TypeOK
    <2>2. /\ \A e \in Clients \ {c} : table'[e] = table[e] /\ view'[e] = view[e]
          /\ table'[c] = T
      BY <1>1, <1>5, <1>14 DEF TypeOK
    <2> SUFFICES ASSUME NEW e \in Clients, NEW s \in Topics, NEW n \in Queues,
                        <<s, n>> \in table'[e]
                 PROVE  n \in Allocate(e, view'[e][s][1], view'[e][s][2])
      BY DEF ViewInv
    <2>3. CASE e # c
      BY <1>1, <2>2, <2>3 DEF ViewInv
    <2>4. CASE e = c /\ s # t
      <3>1. <<s, n>> \in table[c] /\ view'[c][s] = view[c][s]
        BY <1>11, <2>1, <2>2, <2>4
      <3> QED
        BY <1>1, <2>4, <3>1 DEF ViewInv
    <2>5. CASE e = c /\ s = t
      <3>1. n \in share
        BY <1>6, <1>11, <2>2, <2>5
      <3>2. view'[c][t][1] = MqAll(c, t) /\ view'[c][t][2] = ids[c]
        BY <2>1
      <3> QED
        BY <1>4, <2>5, <3>1, <3>2
    <2> QED
      BY <2>3, <2>4, <2>5
  <1> QED
    BY <1>18, <1>19, <1>20 DEF RebalanceInv

-----------------------------------------------------------------------------
(* The theorems.                                                           *)

(* Every step of a client, of the broker and of the name server keeps      *)
(* RebalanceInv, and so every state of rebalance has it.                   *)
THEOREM RebalanceInvHolds == Spec => []RebalanceInv
  <1>1. Init => RebalanceInv
    BY InitRebalanceInv
  <1>2. RebalanceInv /\ [Next]_vars => RebalanceInv'
    <2> SUFFICES ASSUME RebalanceInv, [Next]_vars PROVE RebalanceInv'
      OBVIOUS
    <2>1. CASE UNCHANGED vars
      BY <2>1, StutterPreserves
    <2>2. CASE RouteChanges
      <3>1. CASE Clients = {}
        <4>1. TypeOK
          BY DEF RebalanceInv
        <4>2. nsRoute' \in DOMAIN RouteHistory
          BY <2>2 DEF RouteChanges
        <4>3. UNCHANGED <<members, status, info, route, table, brokerMaster,
                          downBroker, turn, ids, view, fetchedFrom>>
          BY <2>2 DEF RouteChanges, routeVars, tableVars, roundVars
        <4>4. TypeOK'
          BY <4>1, <4>2, <4>3 DEF TypeOK
        <4> QED
          BY <3>1, <4>4 DEF RebalanceInv, RouteInv, ViewInv
      <3>2. ASSUME NEW c \in Clients PROVE RebalanceInv'
        BY <2>2, EnvironmentPreserves
      <3> QED
        BY <3>1, <3>2
    <2>3. ASSUME NEW c \in Clients, Heartbeat(c) \/ Expire(c)
          PROVE  RebalanceInv'
      BY <2>3, EnvironmentPreserves
    <2>4. ASSUME NEW c \in Clients, Crash(c)
          PROVE  RebalanceInv'
      <3>1. Ends(c) /\ UNCHANGED envVars
        BY <2>4 DEF Crash
      <3> QED
        BY <3>1, EndsPreserves
    <2>5. ASSUME NEW c \in Clients, NEW t \in Topics,
                 UpdateTopicSubscribeInfo(c, t) \/ StoreRoute(c, t)
          PROVE  RebalanceInv'
      BY <2>5, UpdateTopicSubscribeInfoPreserves, StoreRoutePreserves
    <2>6. ASSUME NEW c \in Clients,
                 DoRebalance(c) \/ AskIds(c) \/ AskInVain(c) \/ AskRoute(c)
          PROVE  RebalanceInv'
      BY <2>6, DoRebalancePreserves, AskIdsPreserves, AskInVainPreserves, AskRoutePreserves
    <2>7. ASSUME NEW c \in Clients, NEW t \in Topics, AllAdded(c, t) \/ SomeAdded(c, t)
          PROVE  RebalanceInv'
      <3>1. PICK all : RebalanceByTopic(c, t, OldRoute(c, t), OldRoute(c, t), all)
        BY <2>7 DEF AllAdded, SomeAdded
      <3>2. route' = route
        BY <2>7 DEF AllAdded, SomeAdded
      <3>3. OldRoute(c, t) \in [Queues -> DOMAIN RouteHistory]
        BY <3>1, DividingData DEF RebalanceByTopic
      <3> QED
        BY <3>1, <3>2, <3>3, RebalanceByTopicPreserves
    <2>8. ASSUME NEW c \in Clients, NEW t \in Topics, NEW n \in Queues,
                 StoredMeanwhile(c, t, n)
          PROVE  RebalanceInv'
      <3>1. route' = [route EXCEPT ![c][t] = info[c][t]]
        BY <2>8 DEF StoredMeanwhile
      <3>2. CASE RebalanceByTopic(c, t, RouteUntil(c, t, n), NewRoute(c, t), FALSE)
        <4>1. NewRoute(c, t) \in [Queues -> DOMAIN RouteHistory]
          BY <3>2, DividingData DEF RebalanceByTopic
        <4> QED
          BY <3>1, <3>2, <4>1, RebalanceByTopicPreserves
      <3>3. CASE RebalanceByTopic(c, t, OldRoute(c, t), RouteUntil(c, t, n), FALSE)
        <4>1. RouteUntil(c, t, n) \in [Queues -> DOMAIN RouteHistory]
          BY <3>3, DividingData DEF RebalanceByTopic
        <4> QED
          BY <3>1, <3>3, <4>1, RebalanceByTopicPreserves
      <3> QED
        BY <2>8, <3>2, <3>3 DEF StoredMeanwhile
    <2> QED
      BY <2>1, <2>2, <2>3, <2>4, <2>5, <2>6, <2>7, <2>8 DEF Next
  <1> QED
    BY <1>1, <1>2, PTL DEF Spec

(* A client only looks up routes that it has, so that the queues, the      *)
(* addresses and the shares it works with are ones of a route the name     *)
(* server had, and a round never runs past the last topic.                 *)
THEOREM TypeCorrect == Spec => []TypeOK
  <1>1. RebalanceInv => TypeOK
    BY DEF RebalanceInv
  <1> QED
    BY <1>1, RebalanceInvHolds, PTL

(* Clients that computed their last shares of a topic from the same queues *)
(* and the same ids have no queue in common, for any number of queues and  *)
(* clients, whatever failed to be added and whatever was dropped when a    *)
(* master moved.                                                           *)
THEOREM AlwaysDisjoint == Spec => []SameViewIsDisjoint
  <1>1. RebalanceInv => SameViewIsDisjoint
    <2> SUFFICES ASSUME RebalanceInv,
                        NEW c \in Up, NEW d \in Up, NEW t \in Topics,
                        c # d, view[c][t] = view[d][t],
                        NEW n \in Assigned(c, t) \cap Assigned(d, t)
                 PROVE  FALSE
      BY DEF SameViewIsDisjoint
    <2>1. TypeOK /\ ViewInv
      BY DEF RebalanceInv
    <2>2. c \in Clients /\ d \in Clients
      BY DEF Up
    <2>3. PICK Q \in SUBSET Queues, K \in SUBSET Clients : view[c][t] = <<Q, K>>
      BY <2>1, <2>2 DEF TypeOK
    <2>4. n \in Queues /\ <<t, n>> \in table[c] /\ <<t, n>> \in table[d]
      BY DEF Assigned
    <2>5. n \in Allocate(c, Q, K) /\ n \in Allocate(d, Q, K)
      <3>1. view[d][t][1] = Q /\ view[d][t][2] = K /\ view[c][t][1] = Q /\ view[c][t][2] = K
        BY <2>3
      <3>2. n \in Allocate(c, view[c][t][1], view[c][t][2])
        BY <2>1, <2>2, <2>4, Zenon DEF ViewInv
      <3>3. n \in Allocate(d, view[d][t][1], view[d][t][2])
        BY <2>1, <2>2, <2>4, Zenon DEF ViewInv
      <3> QED
        BY <3>1, <3>2, <3>3
    <2>6. /\ IsFiniteSet(Q) /\ \A y \in Q : y \in Int
          /\ IsFiniteSet(K) /\ \A y \in K : y \in Int
      <3>1. IsFiniteSet(Queues) /\ IsFiniteSet(Clients)
        BY RouteAssumption
      <3>2. IsFiniteSet(Q) /\ IsFiniteSet(K)
        BY <3>1, FS_Subset
      <3>3. \A y \in Queues \cup Clients : y \in Int
        BY RouteAssumption
      <3> QED
        BY <3>2, <3>3
    <2>7. Allocate(c, Q, K) \cap Allocate(d, Q, K) = {}
      BY <2>6, SharesAreDisjoint
    <2> QED
      BY <2>5, <2>7
  <1> QED
    BY <1>1, RebalanceInvHolds, PTL
=============================================================================
