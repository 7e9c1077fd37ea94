------------------------------ MODULE Producer ------------------------------
(***************************************************************************)
(* DefaultMQProducerImpl: what a send call does between the application    *)
(* and the brokers.  Several threads send messages of one topic, each with *)
(* a message of its own, while timer tasks replace the publish information *)
(* that all of them use.                                                   *)
(*                                                                         *)
(* A lookup of the publish information, an update of the route (which      *)
(* holds m_lockNamesrv), a request and its answer are one step each; the   *)
(* locks are released between them.                                        *)
(***************************************************************************)
EXTENDS Integers, Sequences, FiniteSets

CONSTANTS
    Senders,        \* the threads that send
    Modes,          \* the calls that each may make
    Sizes,          \* the sizes that the message of each may have
    RouteHistory,   \* the routes of the topic that the name server has in turn
    DefaultRoute,   \* the route of getCreateTopicKey(), cut to the default queue numbers
    Period          \* m_sendWhichQueue is counted modulo Period

(* send and sendOneway without a queue, with a selector (sendSelectImpl),  *)
(* and to a given queue.  sendOneway with a selector is an asynchronous    *)
(* send without a callback.                                                *)
Looping == {"sync", "async", "oneway"}
Selecting == {"select", "selectAsync", "selectOneway"}
Directed == {"queue", "queueAsync", "queueOneway"}
AllModes == Looping \cup Selecting \cup Directed

Async == {"async", "selectAsync", "queueAsync"}
Oneway == {"oneway", "selectOneway", "queueOneway"}

(* A small body is below compressMsgBodyOverHowmuch, a big one is so once  *)
(* it is compressed, and a huge one is not even then.                      *)
AllSizes == {"small", "big", "huge"}

(* A route has the queues in the order of their brokers, the brokers that  *)
(* grant write permission, the brokers and those with a master; order is   *)
(* whether orderTopicConf is set.  The route of a topic that does not      *)
(* exist has no brokers.                                                   *)
Routes == Append(RouteHistory, DefaultRoute)
DefaultIndex == Len(Routes)

Queues == UNION {{Routes[i].queues[j] : j \in DOMAIN Routes[i].queues} : i \in DOMAIN Routes}
Brokers == UNION {Routes[i].brokers : i \in DOMAIN Routes}
NoBroker == ""
NoQueue == [broker |-> NoBroker, id |-> 0]

ASSUME ProducerAssumption ==
    /\ RouteHistory \in Seq({RouteHistory[i] : i \in DOMAIN RouteHistory}) /\ RouteHistory # <<>>
    /\ Modes \in [Senders -> SUBSET AllModes]
    /\ Sizes \in [Senders -> SUBSET AllSizes]
    /\ Period \in Nat \ {0}
    /\ \A i \in DOMAIN Routes :
        /\ Routes[i].queues \in Seq(Queues)
        /\ Routes[i].masters \subseteq Routes[i].brokers
        /\ Routes[i].writeable \subseteq Routes[i].brokers
        /\ Routes[i].order \in BOOLEAN
        /\ \A n \in 1 .. Len(Routes[i].queues) : Period % n = 0

VARIABLES
    ns,            \* which route the name server has
    route,         \* which one m_topicRouteTable has, 0 for none
    addr,          \* the brokers whose master's address m_brokerAddrTable has
    known,         \* m_topicPublishInfoTable has the topic
    info,          \* its m_messageQueueList
    which,         \* its m_sendWhichQueue
    retryAnother,  \* isRetryAnotherBrokerWhenNotStoreOK
    pc,            \* where a sender is
    mode,          \* the call it makes
    size,          \* the size of its message
    layers,        \* how often the body in its Message has been compressed
    flag,          \* whether sysFlag of its request says so
    times,         \* the counter of the loop
    last,          \* lastBrokerName
    mq,            \* the queue the sender has chosen
    dangling,      \* senders whose MessageQueue* has been deleted
    sent,          \* history: the number of requests of a sender
    copies,        \* history: what brokers have stored of its message
    result         \* what the application has been told

routeVars == <<route, addr, info>>
tableVars == <<routeVars, known, which, dangling>>
callVars == <<mode, size>>
tryVars == <<layers, flag, times, last, mq>>
brokerVars == <<sent, copies, result>>
vars == <<ns, tableVars, retryAnother, pc, callVars, tryVars, brokerVars>>

Untold == [kind |-> "none", queue |-> NoQueue]
Told(kind, q) == [kind |-> kind, queue |-> q]

Copies == [n : 1 .. 3, queue : Queues, layers : 0 .. 3, flag : BOOLEAN,
           status : {"ok", "notOk", "unknown"}]

TypeOK ==
    /\ ns \in DOMAIN RouteHistory
    /\ route \in 0 .. Len(Routes)
    /\ addr \subseteq Brokers
    /\ known \in BOOLEAN
    /\ info \in Seq(Queues) /\ (info # <<>> => known)
    /\ which \in 0 .. Period - 1
    /\ retryAnother \in BOOLEAN
    /\ pc \in [Senders -> {"idle", "find", "update", "findAgain", "default", "findLast",
                           "select", "address", "addressAgain", "request", "answer",
                           "done", "gone"}]
    /\ mode \in [Senders -> AllModes]
    /\ size \in [Senders -> AllSizes]
    /\ layers \in [Senders -> 0 .. 3]
    /\ flag \in [Senders -> BOOLEAN]
    /\ times \in [Senders -> 0 .. 2]
    /\ last \in [Senders -> {q.broker : q \in Queues} \cup {NoBroker}]
    /\ mq \in [Senders -> Queues \cup {NoQueue}]
    /\ dangling \subseteq Senders
    /\ sent \in [Senders -> 0 .. 3]
    /\ \A s \in Senders : copies[s] \subseteq Copies
    /\ result \in [Senders -> [kind : {"none", "ok", "notOk", "exception"},
                               queue : Queues \cup {NoQueue}]]

Init ==
    /\ ns = 1
    /\ route = 0 /\ addr = {} /\ known = FALSE /\ info = <<>> /\ which = 0
    /\ retryAnother \in BOOLEAN
    /\ pc = [s \in Senders |-> "idle"]
    /\ mode \in {f \in [Senders -> AllModes] : \A s \in Senders : f[s] \in Modes[s]}
    /\ size \in {f \in [Senders -> AllSizes] : \A s \in Senders : f[s] \in Sizes[s]}
    /\ layers = [s \in Senders |-> 0]
    /\ flag = [s \in Senders |-> FALSE]
    /\ times = [s \in Senders |-> 0]
    /\ last = [s \in Senders |-> NoBroker]
    /\ mq = [s \in Senders |-> NoQueue]
    /\ dangling = {}
    /\ sent = [s \in Senders |-> 0]
    /\ copies = [s \in Senders |-> {}]
    /\ result = [s \in Senders |-> Untold]

-----------------------------------------------------------------------------
(* The route and the publish information.                                  *)

RouteChanges ==
    /\ ns + 1 \in DOMAIN RouteHistory
    /\ ns' = ns + 1
    /\ UNCHANGED <<tableVars, retryAnother, pc, callVars, tryVars, brokerVars>>

(* topicRouteData2TopicPublishInfo: only a writeable broker with a master  *)
(* is published to, unless the topic is ordered.                           *)
PublishQueues(r) ==
    LET usable == {i \in DOMAIN r.queues :
                      r.order \/ r.queues[i].broker \in r.writeable \cap r.masters}
        Nth(n) == CHOOSE i \in usable : Cardinality({j \in usable : j < i}) = n - 1
    IN [n \in 1 .. Cardinality(usable) |-> r.queues[Nth(n)]]

(* The call has returned; an asynchronous one does so without an answer.   *)
Returned(s) == pc[s] \in {"done", "gone"} \/ (pc[s] = "answer" /\ mode[s] \in Async \cup Oneway)

(* A sender with a selector holds a pointer to the queue until the call    *)
(* ends.                                                                   *)
Holds(s) == mode[s] \in Selecting /\ mq[s] # NoQueue /\ ~Returned(s)

(* updateTopicPublishInfo deletes the old queues and keeps the counter.    *)
UpdateTopicPublishInfo(queues) ==
    /\ info' = queues
    /\ known' = TRUE
    /\ dangling' = dangling \cup {s \in Senders : Holds(s) /\ info # <<>>}
    /\ UNCHANGED which

(* updateTopicRouteInfoFromNameServer with route i of Routes.  No other    *)
(* client of the factory uses the topic.                                   *)
ApplyRoute(i) ==
    LET r == Routes[i] IN
    IF route # i \/ info = <<>>
    THEN /\ addr' = (addr \ r.brokers) \cup r.masters
         /\ route' = i
         /\ UpdateTopicPublishInfo(PublishQueues(r))
    ELSE UNCHANGED tableVars

(* The lock is not had in time, the name server does not answer.           *)
UpdateFails == UNCHANGED tableVars

(* A topic that does not exist leaves everything as it is.                 *)
UpdateTopic == IF Routes[ns].brokers = {} THEN UpdateFails ELSE ApplyRoute(ns)

(* The timer task, for the topics of m_topicPublishInfoTable.              *)
UpdateTask ==
    /\ known
    /\ UpdateTopic
    /\ UNCHANGED <<ns, retryAnother, pc, callVars, tryVars, brokerVars>>

(* cleanOfflineBroker: an address that no route has is forgotten.          *)
CleanOfflineBroker ==
    /\ addr' = addr \cap (IF route = 0 THEN {} ELSE Routes[route].masters)
    /\ UNCHANGED <<ns, route, known, info, which, dangling,
                   retryAnother, pc, callVars, tryVars, brokerVars>>

-----------------------------------------------------------------------------
(* A call.                                                                 *)

To(s, place) == pc' = [pc EXCEPT ![s] = place]

(* An exception leaves the call, but for the asynchronous and oneway sends *)
(* to a given queue, which swallow it.                                     *)
Throw(s) ==
    /\ To(s, "done")
    /\ result' = [result EXCEPT ![s] =
            IF mode[s] \in {"queueAsync", "queueOneway"} THEN @ ELSE Told("exception", NoQueue)]

Call(s) ==
    /\ pc[s] = "idle"
    /\ \/ /\ mode[s] \notin Directed
          /\ To(s, "find")
          /\ UNCHANGED mq
       \/ /\ mode[s] \in Directed
          /\ To(s, "address")
          /\ \E q \in Queues : mq' = [mq EXCEPT ![s] = q]
    /\ UNCHANGED <<ns, tableVars, retryAnother, callVars, layers, flag, times, last, brokerVars>>

(* selectOneMessageQueue: the next queue of another broker than the last.  *)
SelectOneMessageQueue(lastBroker) ==
    LET n == Len(info)
        At(i) == info[((which + i) % n) + 1]
        other == {i \in 0 .. n - 1 : At(i).broker # lastBroker}
    IN IF other = {} THEN NoQueue
       ELSE At(CHOOSE i \in other : \A j \in other : i <= j)

(* What follows a lookup that found the topic's entry: the loop selects a  *)
(* queue or ends without one, the selector is called, or sendKernelImpl,   *)
(* which has a queue already, looks for its address again.                 *)
Use(s) ==
    \/ /\ mq[s] # NoQueue
       /\ To(s, "addressAgain")
       /\ UNCHANGED <<which, last, mq, result>>
    \/ /\ mq[s] = NoQueue
       /\ mode[s] \in Selecting
       /\ To(s, "select")
       /\ UNCHANGED <<which, last, mq, result>>
    \/ /\ mq[s] = NoQueue
       /\ mode[s] \notin Selecting
       /\ LET q == SelectOneMessageQueue(last[s]) IN
            /\ which' = IF info # <<>> \/ last[s] # NoBroker THEN (which + 1) % Period ELSE which
            /\ \/ /\ q # NoQueue
                  /\ mq' = [mq EXCEPT ![s] = q]
                  /\ last' = [last EXCEPT ![s] = q.broker]
                  /\ To(s, "address")
                  /\ UNCHANGED result
               \/ /\ q = NoQueue
                  /\ Throw(s)
                  /\ UNCHANGED <<mq, last>>

(* The first lookup of tryToFindTopicPublishInfo and of                    *)
(* tryToFindTopicPublishMq.                                                *)
TryToFind(s) ==
    /\ pc[s] = "find"
    /\ \/ /\ info # <<>>
          /\ Use(s)
          /\ UNCHANGED known
       \/ /\ info = <<>>
          /\ known' = TRUE
          /\ which' = 0
          /\ To(s, "update")
          /\ UNCHANGED <<mq, last, result>>
    /\ UNCHANGED <<ns, routeVars, dangling, retryAnother, callVars, layers, flag, times, sent, copies>>

UpdateRoute(s) ==
    /\ pc[s] = "update"
    /\ UpdateTopic \/ UpdateFails
    /\ To(s, "findAgain")
    /\ UNCHANGED <<ns, retryAnother, callVars, tryVars, brokerVars>>

FindAgain(s) ==
    /\ pc[s] = "findAgain"
    /\ \/ /\ info # <<>>
          /\ Use(s)
       \/ /\ info = <<>>
          /\ To(s, "default")
          /\ UNCHANGED <<which, mq, last, result>>
    /\ UNCHANGED <<ns, routeVars, known, dangling, retryAnother, callVars, layers, flag, times, sent,
                   copies>>

UpdateDefault(s) ==
    /\ pc[s] = "default"
    /\ ApplyRoute(DefaultIndex) \/ UpdateFails
    /\ To(s, "findLast")
    /\ UNCHANGED <<ns, retryAnother, callVars, tryVars, brokerVars>>

(* Mutation: a topic without a queue is looked up until it has one.        *)
FindLast_Waits(s) ==
    /\ pc[s] = "findLast"
    /\ \/ info # <<>> /\ Use(s)
       \/ info = <<>> /\ To(s, "find") /\ UNCHANGED <<which, mq, last, result>>
    /\ UNCHANGED <<ns, routeVars, known, dangling, retryAnother, callVars, layers, flag, times,
                   sent, copies>>

FindLast(s) ==
    /\ pc[s] = "findLast"
    /\ Use(s)
    /\ UNCHANGED <<ns, routeVars, known, dangling, retryAnother, callVars, layers, flag, times, sent,
                   copies>>

(* sendSelectImpl: any queue of the list may be selected, or none.         *)
SelectQueue(s) ==
    /\ pc[s] = "select"
    /\ \/ /\ \E i \in DOMAIN info : mq' = [mq EXCEPT ![s] = info[i]]
          /\ To(s, "address")
          /\ UNCHANGED result
       \/ Throw(s) /\ UNCHANGED mq
    /\ UNCHANGED <<ns, tableVars, retryAnother, callVars, layers, flag, times, last, sent, copies>>

-----------------------------------------------------------------------------
(* sendKernelImpl.                                                         *)

(* Mutation: a fourth turn.                                                *)
Again_Four(s) ==
    /\ mq' = [mq EXCEPT ![s] = NoQueue]
    /\ \/ /\ times[s] < 3
          /\ times' = [times EXCEPT ![s] = @ + 1]
          /\ To(s, "find")
          /\ UNCHANGED result
       \/ Throw(s) /\ UNCHANGED times

(* sendDefaultImpl goes on to the next turn of its loop, unless it was the *)
(* third or the time is up.                                                *)
Again(s) ==
    /\ mq' = [mq EXCEPT ![s] = NoQueue]
    /\ \/ /\ times[s] < 2
          /\ times' = [times EXCEPT ![s] = @ + 1]
          /\ To(s, "find")
          /\ UNCHANGED result
       \/ Throw(s) /\ UNCHANGED times

(* The exceptions that sendDefaultImpl catches: the other calls have no    *)
(* loop.                                                                   *)
Retried(s) ==
    IF mode[s] \in Looping THEN Again(s) ELSE Throw(s) /\ UNCHANGED <<mq, times>>

(* tryToCompressMessage replaces the body in the caller's Message.         *)
Compresses(s) == size[s] = "huge" \/ (size[s] = "big" /\ layers[s] = 0)

(* findBrokerAddressInPublish; without an address the topic is looked up   *)
(* again, which updates its route only if it has no queue.                 *)
FindAddress(s) ==
    /\ pc[s] = "address"
    /\ To(s, IF mq[s].broker \in addr THEN "request" ELSE "find")
    /\ UNCHANGED <<ns, tableVars, retryAnother, callVars, tryVars, brokerVars>>

FindAddressAgain(s) ==
    /\ pc[s] = "addressAgain"
    /\ \/ /\ mq[s].broker \in addr
          /\ To(s, "request")
          /\ UNCHANGED <<mq, times, result>>
       \/ /\ mq[s].broker \notin addr
          /\ Retried(s)
    /\ UNCHANGED <<ns, tableVars, retryAnother, callVars, layers, flag, last, sent, copies>>

SendMessage(s) ==
    /\ pc[s] = "request"
    /\ layers' = [layers EXCEPT ![s] = IF Compresses(s) THEN @ + 1 ELSE @]
    /\ flag' = [flag EXCEPT ![s] = Compresses(s)]
    /\ sent' = [sent EXCEPT ![s] = @ + 1]
    /\ To(s, "answer")
    /\ UNCHANGED <<ns, tableVars, retryAnother, callVars, times, last, mq, copies, result>>

-----------------------------------------------------------------------------
(* What becomes of the request.  A call with a callback or without an      *)
(* answer has returned to the application by then.                         *)

Stores(s, status) ==
    copies' = [copies EXCEPT ![s] = @ \cup
        {[n |-> sent[s], queue |-> mq[s], layers |-> layers[s], flag |-> flag[s],
          status |-> status]}]

Tell(s, told) ==
    /\ To(s, "done")
    /\ result' = [result EXCEPT ![s] = IF mode[s] \in Oneway THEN @ ELSE told]
    /\ UNCHANGED <<mq, times>>

(* The broker has stored the message, in memory at least (processSend-     *)
(* Response has a status for what is still missing).                       *)
AnswerStored(s) ==
    \E status \in {"ok", "notOk"} :
        /\ Stores(s, status)
        /\ IF mode[s] = "sync" /\ status = "notOk" /\ retryAnother
           THEN Again(s)
           ELSE Tell(s, Told(status, mq[s]))

(* An error code that sendDefaultImpl takes as a reason to try again.      *)
AnswerRetryable(s) ==
    /\ UNCHANGED copies
    /\ IF mode[s] = "sync" THEN Again(s) ELSE Tell(s, Told("exception", NoQueue))

AnswerError(s) ==
    /\ UNCHANGED copies
    /\ Tell(s, Told("exception", NoQueue))

(* Mutation: the empty result, whose status is SEND_OK, is returned.       *)
NoAnswer_Returns(s) ==
    /\ UNCHANGED copies \/ Stores(s, "unknown")
    /\ Tell(s, Told("ok", mq[s]))

(* Mutation: a call without an answer is repeated.                         *)
NoAnswer_Retried(s) ==
    /\ UNCHANGED copies \/ Stores(s, "unknown")
    /\ IF mode[s] = "sync" THEN Again(s) ELSE Tell(s, Told("exception", NoQueue))

(* No connection, a failed send, no answer in time: invokeSync has no      *)
(* response and processSendResponse throws.  The message may be stored.    *)
NoAnswer(s) ==
    /\ UNCHANGED copies \/ Stores(s, "unknown")
    /\ Tell(s, Told("exception", NoQueue))

(* invokeAsync without a connection drops the callback.                    *)
CallbackDropped(s) ==
    /\ mode[s] \in Async
    /\ To(s, "done")
    /\ UNCHANGED <<copies, result, mq, times>>

Answer(s) ==
    /\ pc[s] = "answer"
    /\ \/ AnswerStored(s) \/ AnswerRetryable(s) \/ AnswerError(s)
       \/ NoAnswer(s) \/ CallbackDropped(s)
    /\ UNCHANGED <<ns, tableVars, retryAnother, callVars, layers, flag, last, sent>>

(* The queue that a sender's pointer refers to has been deleted: it may be *)
(* intact all the same, or the process ends.                               *)
UseDeleted(s) ==
    /\ s \in dangling /\ Holds(s)
    /\ pc' = [t \in Senders |-> "gone"]
    /\ UNCHANGED <<ns, tableVars, retryAnother, callVars, tryVars, brokerVars>>

-----------------------------------------------------------------------------
Step(s) ==
    \/ TryToFind(s) \/ UpdateRoute(s) \/ FindAgain(s) \/ UpdateDefault(s) \/ FindLast(s)
    \/ SelectQueue(s) \/ FindAddress(s) \/ FindAddressAgain(s) \/ SendMessage(s) \/ Answer(s)

Next ==
    \/ RouteChanges \/ UpdateTask \/ CleanOfflineBroker
    \/ \E s \in Senders : Call(s) \/ Step(s) \/ UseDeleted(s)

Spec == Init /\ [][Next]_vars

(* A sender that is in a call goes on: the locks it waits for are held for *)
(* a moment or are given up in time, and every request has a timeout.      *)
FairSpec == Spec /\ \A s \in Senders : WF_vars(Step(s))

-----------------------------------------------------------------------------
(* What an application is told of a message that was sent is true of the   *)
(* last request: the broker has stored it in the queue that the result     *)
(* names, with that status.                                                *)
ResultIsStored ==
    \A s \in Senders : result[s].kind \in {"ok", "notOk"} =>
        \E c \in copies[s] : /\ c.n = sent[s]
                             /\ c.queue = result[s].queue
                             /\ c.status = result[s].kind

(* sendDefaultImpl repeats a request that may have stored the message only *)
(* where the application asked for it and the broker has said that the     *)
(* copy is not safe; without retryAnotherBrokerWhenNotStoreOK there is at  *)
(* most one copy.  (The next copy may be on the same broker: an attempt at *)
(* a queue whose broker has lost its address counts as the last one.)      *)
RepeatedOnPurpose ==
    \A s \in Senders : \A c \in copies[s] :
        c.n < sent[s] => retryAnother /\ c.status = "notOk" /\ mode[s] = "sync"

(* What does not hold, because a retry calls tryToCompressMessage on the   *)
(* body that the attempt before has compressed: a copy is compressed once  *)
(* if its sysFlag says so and not at all otherwise.                        *)
CopiesAreReadable ==
    \A s \in Senders : \A c \in copies[s] : c.layers = IF c.flag THEN 1 ELSE 0

(* Every call returns, whatever brokers answer and however routes change.  *)
SendReturns == \A s \in Senders : pc[s] # "idle" ~> Returned(s)
=============================================================================
