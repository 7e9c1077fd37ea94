# A TLA+ model of the RocketMQ C++ client

The repository is a C++ client of RocketMQ: producers, push and pull consumers,
and the remoting layer, thread pool and timers they run on. This directory
models its protocols in TLA+, checks them with TLC on small instances, and
proves the central ones with TLAPS for every instance.

## 1. Inventory

| Component | State it keeps | Operations | Talks to |
|---|---|---|---|
| `ProcessQueue` | messages pulled from one queue and not consumed (`m_msgTreeMap`, `m_msgTreeMapTemp`), their count, `m_droped`, `m_locked`, `m_consuming` | `putMessage`, `removeMessage`, `takeMessags`, `commit`, `rollback`, `makeMessageToCosumeAgain`, `setDroped`, `setLocked` | shared by the pull thread, callbacks, pool threads, timers and rebalance |
| Pull cycle (`DefaultMQPushConsumerImpl`, `PullMessageService`, `PullAPIWrapper`) | one `PullRequest` per assigned queue, its next offset | `pullMessage`, the callback's `onSuccess` / `onException`, `ExecutePullTaskLater` | remoting (asynchronous pull), consume service, offset store |
| Concurrent consume service | `ConsumeConcurrentlyRequest`s in the pool, retry timers | `submitConsumeRequest`, `Do`, `processConsumeResult`, `submitConsumeRequestLater` | `ProcessQueue`, offset store, broker (send back) |
| Orderly consume service | `ConsumeOrderlyRequest`s, one mutex per queue, broker locks | `Do`, `processConsumeResult`, `lockMQPeriodically`, `tryLockLaterAndReconsume` | `ProcessQueue`, broker (lock, unlock) |
| Rebalance | `m_processQueueTable`, `m_brokerMaster`, `m_downBrokerName` | `doRebalance`, `updateProcessQueueTableInRebalance`, `truncateMessageQueueNotMyTopic`, `lock`, `lockAll`, `unlock` | broker (consumer id list, locks), offset store, pull cycle |
| Allocation strategies | none | `allocate` | rebalance |
| Offset stores | `m_offsetTable`; the broker's or the file's offsets | `updateOffset`, `readOffset`, `persist`, `persistAll`, `removeOffset`, `load` | broker (query, oneway update), local file |
| Remoting client | `m_responseTable` of `ResponseFuture`s, `m_tcpTransportTable` | `invokeSync`, `invokeAsync`, `invokeOneway`, `HandleTimerEvent`, `processResponseCommand` | transport; callbacks into the consumer |
| TCP transport | receive buffer, state of the connection | `Connect`, `SendOneMsg`, `RecvMsg`, `ProcessData` | remoting |
| Thread pool, timers, service threads | workers, work queue, timer list | `AddWork`, `GetWork`, `WakeOneThread`, `RegisterTimer`, `CheckTimeOut` | all of the above |
| Producer | topic publish info, queue selection index | `send`, `sendDefaultImpl`, `selectOneMessageQueue` | remoting, client factory |
| Client factory | producers, consumers, routes, broker addresses | `start`, `shutdown`, register / unregister, `updateTopicRouteInfoFromNameServer`, heartbeat, `doRebalance` | everything |

What is hard here is not one function but the order of steps of the actors that
share these objects: the pull thread, the asynchronous callbacks (pool threads
of the remoting client), the consume pool, the timer thread, the rebalance
thread, the offset timer, and other clients of the group. Connections break,
oneway updates get lost, lock and pull answers arrive after the situation they
were asked for is gone, clients crash. `PROJECT.json` lists each such place as a
hazard with its line and the properties that cover it; what makes each
component correct:

- **Consumption (concurrent):** the durable offset never passes a message
  nobody dealt with, unless a broker moves it there; every buffered message has exactly one holder; buffers
  drain; dropped queues are freed.
- **Consumption (orderly):** batches in offset order within an assignment,
  commits only of accepted messages, exactly one request or timer per queue,
  one lock holder.
- **Remoting:** a call ends once and is answered only with its response; an
  asynchronous future is called back once and deleted; where the code uses
  deleted futures is known and confined.
- **Rebalance:** clients with the same view never share a queue; once clients
  and routes stay, the queues are divided among the clients.
- **Thread pool, timers:** a work that finds a worker is done; a periodic task
  never runs beside itself; closing ends.
- **Producer:** the result is true of the last request; a message is stored a
  second time only where the application asked for that; a call returns.
- **Client factory:** a consumer that was unregistered comes back only by a
  heartbeat that was delayed beyond its time-out; after shutdown nothing runs; rebalance rounds and shutdown end although locks are taken in
  both orders and one of them twice.

## 2. Modules

| Module | Models | Extends |
|---|---|---|
| `ProcessQueue` | the operations of `ProcessQueue.cpp` as operators on a record | |
| `PushConsumer` | pull cycle, concurrent consume service, offset stores, rebalance of one queue | `ProcessQueue`; instantiates `AtLeastOnce` |
| `OrderlyConsume` | orderly consume service, queue locks, the same offset store and rebalance | `ProcessQueue`; instantiates `AtLeastOnce` |
| `AtLeastOnce` | abstract: what a group promises about the durable offset | |
| `Remoting` | `TcpRemotingClient`, `ResponseFuture`, the connection to one server | instantiates `RemoteCall` |
| `RemoteCall` | abstract: what the remoting client promises of a call | |
| `Allocation` | `AllocateMessageQueueAveragely` as operators | |
| `Rebalance` | `RebalanceImpl` over several clients, topics and queues, with routes and master changes | `Allocation` |
| `ThreadPool` | `kpr/ThreadPool.cpp`: queue of works, workers, manager | |
| `TimerTasks` | `TimerTaskManager` and `TimerThread` on such a pool | `ThreadPool` |
| `Producer` | send calls, publish information, its updates | |
| `ClientFactory` | the tables, locks and threads of `MQClientFactory` with its consumers' start and shutdown | |
| `MC…` | model values and symmetry for TLC | the specification |
| `OperatorProofs` | facts about the operators: buffers, positions, the allocation | `ProcessQueue`, `Allocation` |
| `PushConsumerProofs` | the inductive invariant of the push consumer and what follows from it | `PushConsumer`, `OperatorProofs` |
| `OrderlyConsumeProofs` | the same for the orderly service | `OrderlyConsume`, `OperatorProofs` |
| `RemotingProofs` | the same for a call's future | `Remoting` |
| `RebalanceProofs` | the same for rebalance | `Rebalance`, `OperatorProofs` |
| `TimerTasksProofs` | the same for pool and timer thread | `TimerTasks` |
| `ProducerProofs` | the same for a send call | `Producer`, `OperatorProofs` |
| `ClientFactoryProofs` | the same for the factory's tables, locks and threads | `ClientFactory`, `OperatorProofs` |

### ProcessQueue

A record holds what the class keeps. `msgTreeMap` and `msgTreeMapTemp` are sets
of offsets (the map's keys; the message behind an offset is not needed).
`putMessage`, `removeMessage`, `takeMessags`, `commit`, `rollback`,
`makeMessageToCosumeAgain`, `setDroped` and `setLocked` return the new record; a
second operator gives a method's result where it has one
(`removeMessageResult`, `commitResult`, `dispathToConsume`, `takeBatch`).
`takeMessags` resets `m_consuming` after it released the lock, so
`stopConsuming` is an operator, and in `OrderlyConsume` an action, of its own.

### PushConsumer

One message queue, the clients of its group, and a heap `ProcessQueues` of
objects: each assignment uses a new one for its `ProcessQueue`, `PullRequest`
and `MessageQueue`, which the code allocates and deletes together. Late steps
of an old assignment therefore act on the old object, as in the code, while the
client's offset table and the broker's offset are shared.

A pool thread's pass through `processConsumeResult` is three actions:
`ListenerReturns` (the listener's verdict, and which messages could be sent
back), `RemoveConsumed` (`removeMessage` under the queue's lock) and
`StoreOffset` (`updateOffset` under the store's lock). Other threads run between
them. A pull is `PullSend` and one of `PullFound`, `PullNotFound`,
`PullOffsetIllegal`, `PullException`, `PullNotConnected`. An answer
OFFSET_ILLEGAL may name any offset: below the messages that the broker has
expired, or, from a slave that lags behind or a new master, below or inside what
is buffered. `CorrectOffset` stores it ten seconds later; the messages it passes
over that nobody has dealt with are recorded in `overruled`. `RemoveQueue` is the whole
removal by rebalance: drop, persist, forget the offset. A persisted offset may
be lost (`persist` returns the set of possible outcomes of the oneway call).
`Crash` is the death of a client and, under BROADCASTING, the reload of its
file. `AssignQueue` reads the durable offset with all the ways this can fail
(`readOffset`) and starts from there or, without one, from where
`computePullFromWhere` says for the three settings of `consumeFromWhere`; what
such a start passes over counts as `discarded`.

`AtLeastOnce` is the abstract specification: messages get settled in any order,
the durable offset moves only to where nothing is left behind, the broker
expires messages or overrules the group with an offset of its own.
`ImplementsAtLeastOnce` maps `settled` to `handled \cup discarded`.

The history variables `handled`, `discarded` and `overruled` say what became of
a message; no guard in `Next` reads them.

### OrderlyConsume

Same objects, same offset store. `submitted`, `later` and `lockLater` count an
object's requests in the pool, 10 ms / 3 s retry timers and lock timers.
`running` is the request that holds the client's mutex of the queue, with its
place in the loop of `ConsumeOrderlyRequest::Do`: the checks at the top
(`LoopDropped`, `LoopUnlocked`, `LoopYields`, `LoopGoesOn`), `TakeMessages`,
`StopConsuming`, one action per verdict of the listener, `StoreOffset`. A lock
call is answered at the broker (`LockAll`, `LockOne`) and its answer applied
later (`LockAnswer`) to whatever object the table then holds. The broker's lock
table is external: it is modelled from the answers `lockBatchMQ` distinguishes.
A client's copy of the lock expires at any moment, the broker's not before it
(60 s and 30 s).

The pull cycle only fills the buffer here, and an assignment reads its offset
without a failure; what can go wrong there is in `PushConsumer`. A client does not crash, and an unlock reaches the broker at once or not at all.

`ImplementsAtLeastOnce` maps `settled` to the messages accepted for good by any
assignment (`Firm`: accepted and no longer in `m_msgTreeMapTemp`, from where a
rollback could return them); this broker expires and overrules nothing.

### Remoting

Each call of `Calls` is made once, of any kind. `mem` is the future's memory:
none, live, deleted. The caller and the pool thread use a future outside
`m_mutexResp`, and every other thread may run at each of these points: a future
expires during its send, an answer is handled before `setSendRequestOK`, a waiter
times out between `putResponse`'s assignment and its notification. `misuse`
records each use of a deleted future with the step that makes it; the steps after
it read what the destructor left there (no callback, no monitor).
`MisuseIsConfined` says which three steps can, and so which cannot.

`rset` is `m_rset`, the sockets on which the event thread selects. `UpdateEvent`
rebuilds it from the table, after an event or a new connection;
`GetAndCreateTransport` deletes a transport without that when the next `Connect`
fails. While `rset` names a deleted transport (`BadSet`) `select` fails and `Run`
handles neither responses nor expiry. `OtherServer` and `OtherCall` are the rest
of the process, which shares the set and the transport.

`RemoteCall` is the abstract specification: a call is dismissed (no connection,
or oneway) or opened, an open call ends once, as answered, for which a reply
must have come, or as unanswered, and a reply that nobody waits for is dropped.
`ImplementsRemoteCall` reads a call's outcome from its future: open while the
callback is not made or the synchronous caller has not returned, answered if the
future was deleted with a response in it.

### Rebalance and Allocation

Clients and queues are numbers, which gives `Allocation` the order that the
strategy's sorted lists have. A client learns the route (`UpdateTopicSubscribeInfo`
and, later, `StoreRoute`: the two tables are written one after the other), and a
round asks for the ids of the group topic by topic (`AskIds`, `AskInVain`,
`AskRoute`), computes its share and updates its table. The first loop of the
update looks up the master of each queue it has (`Moved`: it is not the
remembered one; `Kept`), the second one adds queues, each after a question to the
broker, and looks up the master again. The offset of any of them may not be found
(`SomeAdded`), and the new route may be stored between any two look-ups
(`StoredMeanwhile`, `RouteUntil`). The rest of an update only concerns the
client itself, so that it is one step. The broker's list of
clients is external: heartbeats enter it, dead clients expire from it.

### ThreadPool and TimerTasks

Each operation under the pool's lock is one step; a worker's own steps
(`StopsWaiting`, `GetWork`, `WorkDone`, `GoesBack`) lie between them, and the manager thread stops
idle workers at any of these points. `missed` says that the last work found
neither an idle worker nor room for a new one nor a worker that still asks. The
timer thread makes its list of due timers, then calls the handlers one by one;
owner and timer thread meet in the manager's mutex.

### Producer

A sender's call is one of nine: synchronous, asynchronous or oneway, alone
(`Looping`, the only ones with retries), with a selector, or to a given queue
(whose asynchronous and oneway forms swallow every exception). It is a program
counter from `Call` to its result: look up the
publish information, update the route, fall back on the default topic's route,
select a queue, find the broker's address, send, evaluate the answer, retry. The
message's body counts its layers of compression. `copies` is what the brokers
stored. `m_sendWhichQueue` is counted modulo `Period`, a multiple of every number
of queues.

### ClientFactory

Threads are the rebalance service, three timer tasks and one application thread
per consumer. `updateTopicRouteInfoFromNameServer` is a procedure of four steps
that any of them calls (`UpdateLock`, `UpdateQuery`, `UpdateNeed`, `UpdateApply`),
`back` is where the caller goes on. A lock held across calls has a variable with
its holder; `m_lockNamesrv` and `m_lockHeartbeat` are tried with a time-out. A
route is a set of brokers with one queue each. What brokers know of the consumers
is followed at one of them, `Observed`, which may be any: a heartbeat or an
unregistration arrives during its call, or fails, or is still on its way when the
call times out (`late`) and arrives later, if ever (`LateRequest`). `overtaken`
are the consumers whose heartbeat was late when they were unregistered. The
producers' answer in `isNeedUpdateTopicRouteInfo` is any. Between `JoinTasks` and
`JoinRebalance` the code also joins the pull service and shuts the remoting
client down; neither is a thread of this module (`ShutdownEnds` does not say that
their joins end). `WaitsFor` says which thread
cannot go on before which other one does something: it waits without a limit
for a lock that the other one has, or joins it. `NoCircularWait` leaves out the
thread that waits for itself, which is `factory_nested_lock`'s subject.

## 3. Runs

| Run | Question | Result |
|---|---|---|
| `push_one_client` | a client loses and regains the queue (two assignments, batches of two), crashes, brokers impose offsets | safe; `AccountingInv`, which contains `TypeOK`, holds; implements `AtLeastOnce` |
| `push_broadcasting` | local file store, batches of two, a filtered message between them, start at the end of the queue, expired messages, imposed offsets | safe: `CommittedIsSettled` |
| `push_liveness` | batches of two of which one message may be sent back: each message has one holder; every buffered message leaves the buffer; a dropped queue's objects are freed; start by time | holds under `FairSpec` |
| `orderly_one_client` | order, commits, requests, count; automatic and manual commit, rollback, suspension, expiring locks | safe; implements `AtLeastOnce` |
| `orderly_two_clients` | two clients compete for the lock | safe: `LockIsExclusive`, `CommittedIsAccepted` |
| `orderly_liveness` | is the first message of a dispatched queue delivered? | holds under `FairSpec` |
| `remoting` | two calls of any kind, all interleavings, connections lost, replaced or not | implements `RemoteCall`; deleted futures are used in three places only; every registered asynchronous call is called back, or `select` fails for ever |
| `rebalance` | two clients, one of which may die; the topic gets a queue and its broker another master; offsets are not found | disjoint for one view, divided in the end |
| `timer_tasks` | two periodic tasks, a pool of one to two workers, idle removal, closing | a task runs once at a time; works that found a worker are done; closing ends |
| `producer` | two senders, all nine kinds of calls, routes that appear and lose a master, lost and negative answers | results are true, copies are on purpose, calls return |
| `factory` | start and shutdown of a consumer beside all services, the topic moves to another broker, late heartbeats | no circle of waiting threads, no ghost but by an overtaken heartbeat, no stale queues, quiet after shutdown; rounds and shutdown end |
| `factory_nested_lock` | does a thread never take `m_consumerTableLock` twice, as `doRebalance`'s comment has it? | no: the offset store's calls lack the tag (`findings`) |

The `violation` run is a disagreement between the code and a sentence of the
repository; `findings` quotes both. `RoundsEnd` and `ShutdownEnds` leave out the
behaviours in which this happened: they show that nothing else stops a round.

**Bounds.** Two objects per queue give one complete life (assign, drop, free)
and the next assignment, which is what late steps need. Two or three offsets
(one with two competing clients) give a first, a middle and a last message, with
a filtered one in `push_broadcasting`. Batches of two give a partly failed batch,
and, since a pull may bring one message, several requests of one queue as well.
`MaxExpired` = 1 lets the broker expire a message below, at or above the pulled
ones (not in `push_one_client`, where an imposed offset takes its place).
`PullThreshold` = 1 makes flow control act. Two calls and two connections in `remoting` let a call
find the transport another one broke. They also bound how often `rset` can go bad
and be rebuilt: a process in which it does so for ever, each time before the
event thread gets to its timers, is outside the run. `rebalance` has two routes
of one topic, with two queues and one master, then with three queues and another
master: the shares of two clients differ in size, and a queue is added while
others are kept. `producer` has a route for each kind of change that the code
tells apart and a default route; one sender is enough for the calls, the second
one moves the shared index and information. `timer_tasks` needs two tasks for
two workers and one worker less at the beginning, so that the pool grows and
shrinks. `factory` has one consumer and a topic that moves, so that addresses
get lost; `Observed` is the broker it moves to. Each liveness run of a consumer has one
assignment, since what it asks is about one object. Symmetry permutes
interchangeable objects and is not used in liveness runs. Deadlock is not
checked: all of these systems may come to rest (queue consumed, heap of
assignments used up, all calls returned, client shut down).

**Fairness.** Threads of the pool, the timers and the event thread get to run
(weak fairness of their steps), a pull at the broker is answered or fails (the
event thread expires it), a listener returns. In `remoting` the event thread
expires futures only while `select` does not fail: the guard `~BadSet` of
`HandleTimerEvent`, so that its fairness promises nothing when the set stays bad.
`push_liveness` takes for granted that it does not. Strong fairness is used for what
the environment must grant some day if tried again and again: the listener or
the send-back succeeds for a message that is retried (`push_liveness`), the
lock call of the retry timer gets through, and the consuming loop passes its
checks (`orderly_liveness`). Nothing is assumed of rebalance, the offset
timer or the server there. In `rebalance` the clients go on with heartbeats,
polls and rounds (weak fairness), and a question or an update that is tried
again and again succeeds some day (strong fairness): without it a client may
never learn what it needs; the route that a timer task has begun to store is
stored. In `factory` the service threads run, and a thread
that waits for a lock which is free again and again gets it. In `producer` every
request is answered, refused or times out. In `timer_tasks` workers and the timer
thread run, and the owner's `Close` gets the mutexes it waits for. The lost
wake-up of the pool is outside the assumptions of the consumers' runs:
`timer_tasks` models it, and `WorkIsDone` is about works that found a worker.

Every property is also checked against a mutated operation (`mutants`; the
operators named `…_…` next to the ones they mutate), which breaks it.

## 4. Proofs

Each theorem holds for every value of the constants that satisfies the named
assumptions of its module, which TLC evaluates in the module's runs: any number
of clients, objects, calls, tasks, senders, queues and messages, any batch size
and threshold, any history of routes. Each specification has one inductive
invariant, a conjunction of named parts, one lemma per action (or per kind of
step) that shows it preserved, and its properties as consequences. Every
inductive invariant was first checked by TLC on the constants of the module's
runs.

The assumptions say what the constants stand for: names for "nobody" and
"nothing" are not names of something, sizes are positive, a route is one of its
history, clients and queues are finitely many numbers (the order of the sorted
lists), an application thread's name is not a service's.

- **`PushConsumerProofs`**: `AccountingHolds`, `TypeCorrect`, `CommittedSettled`,
  `HeldOnce`, `CountExact`, `Refinement`. `CommittedIsSettled` is not inductive: a commit
  copies the in-memory offset, which comes from a request about to store what
  `removeMessage` returned. So `AccountingInv` adds that these offsets are
  settled (`OffsetsSettled`); that what an object pulled is buffered or dealt
  with (`PulledIsAccounted`), which with `BufferedWasPulled` bounds
  `removeMessage`'s result; that messages are removed only when handled
  (`RemovedWasHandled`); and that each has one holder (`EachMessageHeldOnce`).
  The offset of an object whose correction is under way (`Corrected`) is the
  broker's word and bounds nothing; what it passes over enters `overruled` when it
  is stored, which keeps all other offsets settled. One lemma per action shows
  that it preserves the invariant. `Refinement` is
  `Spec => ImplementsAtLeastOnce`: under the invariant each step settles
  messages (`SettleStep`), leaves the durable offset where nothing is left
  behind (`CommitStep`), expires a message (`ExpireStep`), or is a correction,
  which is `Overrule`.
- **`OperatorProofs`**: what `putMessage`, `removeMessage` and
  `removeMessageResult` preserve, that the count follows the set, and that a
  bounded set of offsets has a first and a last one (`FirstIsLeast`: among the
  finite sets of elements up to one of them a smallest exists, which is the
  library's theorem on inclusion and takes the place of an induction).
  `AllocationIsPartition` is about `AllocateMessageQueueAveragely`: slices are
  intervals although `allocate` computes positions modulo the number of queues
  (`SliceIsInterval`), a slice ends before the next one begins (`SlicesApart`),
  every position is in one (`SlicesCover`), and positions in a sorted list are
  all different and all taken (`PositionsDiffer`, `PositionTaken`).
- **`OrderlyConsumeProofs`**: `OrderInvHolds`, `TypeCorrect`,
  `CountAlwaysExact`, `OneRequest`, `AlwaysInOrder`, `CommitsAreAccepted`,
  `ExclusiveLock`, `Refinement`. `CommittedIsAccepted` is not inductive, because a rollback
  takes accepted messages back while offsets computed from them may be on
  their way. What never shrinks is `Firm`, the accepted messages that are no
  longer in `m_msgTreeMapTemp`: a rollback returns only that map. `FirmInv`
  says that the durable offset, the clients' stores, the offsets about to be
  stored and the starts of assignments pass only firm messages. `Orderly` ties
  the two maps, the count, the accepted messages and the batch at the listener
  of one object together and is preserved by each method of `ProcessQueue`;
  order of delivery and the exact count follow from it. `RequestInv` counts an
  object's requests wherever they are (pool, two kinds of timer, running loop,
  lock call): at most one, and none while `m_consuming` is false. `LockInv`
  says that a client which never lost the queue believes in its lock only while
  the broker has it; `OwnerInv` that threads, calls and tables name objects of
  their own client. `Refinement` is `Spec => ImplementsAtLeastOnce`: `Firm` never
  shrinks, and each step either leaves it alone and the durable offset where
  nothing is left behind (`CommitStep`), or accepts a batch for good and leaves
  the durable offset alone (`BatchGrows`, `SettleStep`).
- **`RemotingProofs`**: `FutureInvHolds`, `LiveTable`, `ConfinedMisuse`,
  `AtMostOneCallback`, `NoAsyncLeak`. `FutureInv` says of each call who keeps
  its future alive (`AliveInv`: the table, the pool thread that has an
  asynchronous call's response or has not stored it yet, a synchronous caller),
  that whoever handles an answer has taken the
  future from the table (`AnswerInv`), that a live asynchronous future was not
  called back and somebody will do it (`CallbackInv`), and what the kinds of
  call exclude (`KindInv`), besides `TypeOK` and `MisuseIsConfined`, which the
  other parts make inductive. A step touches one call
  (`OthersAreSame`); `SameCallInv` carries the others over. `Refinement` is
  `Spec => ImplementsRemoteCall`: under the invariant the outcome of a call
  depends on its kind, its place and its future alone (`OutcomeCases`), each of
  the fourteen steps of a call is one of `AbstractStep` (one lemma per action),
  and such a step is one of `RemoteCall` or a stutter (`AbstractStepIsNext`).
  What it rests on: a pool thread that is about to notify or call back has put
  the response (`AnswerInv`), and a future in the table has none (`AliveInv`).
- **`RebalanceProofs`**: `RebalanceInvHolds`, `TypeCorrect`, `AlwaysDisjoint`.
  The invariant says that a client has only queues of the share it computed last
  (`ViewInv`), from which, with `AllocationIsPartition`'s lemmas, disjointness
  follows, and that a round which has the ids has the route (`RouteInv`), without
  which the tables are not even well typed. Both hold wherever in an update
  another route is stored.
- **`TimerTasksProofs`**: `TaskInvHolds`, `TypeCorrect`, `NeverBesideItself`.
  `m_isProcessing` marks exactly what is somewhere: a task that is queued, with
  a worker or about to be added is marked and in no second place (`QueuedInv`,
  `AtWorkInv`, `AddingInv`); `FlagsInv` says what a worker's wake-up and stop
  flags exclude, which the pool's types rest on.
- **`ProducerProofs`**: `CallInvHolds`, `ToldTheTruth`, `NoStrayCopy`,
  `AtMostThreeRequests`, `TypeCorrect`. Per sender: requests follow the turns of
  the loop (`TriesInv`), copies come from requests that were made (`CopiesInv`),
  what was told is true and told last (`ToldInv`), and a copy that is followed by
  another request was reported as not safe (`OnPurposeInv`). None of these needs
  the publish information. `TypeCorrect` does: `TypeInv` adds that it is a list
  of the route's queues (`PublishQueuesType`, from the positions of
  `OperatorProofs`), that a selection whose index runs modulo its length is in
  it (`SelectType`), and that a call from the look-up of the address to the
  answer has a queue (`ChoiceType`), without which neither copies nor results
  are well typed.
- **`ClientFactoryProofs`**: `FactoryInvHolds`, `TypeCorrect`, `NoGhostEver`,
  `InfoAlwaysCurrent`, `QuietAfterShutdown`, `NeverInACircle`. `FlowInv` says where each thread can
  be and where a shared procedure returns it to; `LockInv` and `TableLockInv` that a
  lock's holder is where the lock is held; `ServiceInv` what `m_mutex` and
  `m_serviceState` mean for the service threads; `GhostInv` that a heartbeat
  which is being sent names no consumer that was unregistered or is about to be,
  and (`OvertakenInv`) that an unregistered consumer which is registered again, or
  could be by a late heartbeat, was overtaken; `InfoInv` that a registered
  consumer's queues are the table's. `NeverInACircle` adds `MutexInv`, that
  `m_mutex` is held by a consumer's thread in the factory's start or shutdown
  (the holder waits for the consumer table or joins services). From there the
  graph of waits is followed: the table's holder is a service that waits for
  nobody but itself (`TableHolder`), services wait for the table only
  (`ServiceWaits`), and whoever holds `m_mutex` waits for the table's holder or
  for services (`MutexHolder`), so that a path of waits ends.

Only model-checked: the liveness properties and `ClientFactory`'s ends of rounds
and shutdown (the prover does not handle fairness and ENABLED), and the
counterexample. Every invariant and every refinement that a run checks has its
theorem.

## 5. Known departures

Thirteen sentences of the code's comments or evident intentions are stated as
properties next to the ones that hold and are refuted by what the code does. No
run checks them; to see the counterexample, name the property as the INVARIANT
(or PROPERTY) of the module's configuration.

- `PushConsumer!ReturnedOffsetIsConsumed`: `ProcessQueue.h:51` promises the
  smallest unconsumed offset; requests of a dropped queue remove unconsumed
  messages (`ConsumeMessageConcurrentlyService.cpp:328`), and a request that is
  still running then stores an offset beyond them.
- `PushConsumer!PullRequestKept`: `pullMessage` retries after every failure
  (`DefaultMQPushConsumerImpl.cpp:406`), but without a connection `invokeAsync`
  returns -1 (`TcpRemotingClient.cpp:164`) and nobody holds the request any more.
- `PushConsumer!SkippedOnlyAtFirst` (with CONSUME_FROM_LAST_OFFSET):
  `MQClientAPIImpl.cpp:663` takes an error answer for the first registration of
  the group; any other error answer also makes `computePullFromWhere` start at
  the end of the queue.
- `PushConsumer!NothingOverruled`: a broker whose queue is shorter (a lagging
  slave, a new master; the case `RebalancePushImpl.cpp:94` describes) answers
  OFFSET_ILLEGAL with an offset inside or above what the client has buffered, and
  the client stores it (`DefaultMQPushConsumerImpl.cpp:974`, `:905`): buffered,
  unconsumed messages are passed over.
- `PushConsumer!CorrectionStands`: the correction waits 10 s so that nothing
  overwrites it; a listener that runs for longer stores its own offset afterwards.
- `OrderlyConsume!BufferedIsDispatched`: `takeMessags` resets `m_consuming`
  after the unlock (`ProcessQueue.cpp:283`), so that a concurrent `putMessage`
  dispatches nothing.
- `OrderlyConsume!RolledBackIsAlive`: after SUCCESS without commit the messages
  are deleted (`ConsumeMessageOrderlyService.cpp:484`), a later ROLLBACK returns
  them to the buffer (`:298`).
- `Remoting!FutureIsDeleted`: the future of a synchronous call without a
  response is never deleted (`TcpRemotingClient.cpp:350`, against the comments at
  `:461` and `:466`).
- `Remoting!NeverUsedAfterDelete`: an asynchronous future can be deleted by its
  response or expiry while its caller is in `SendCmd`
  (`TcpRemotingClient.cpp:527`, `:534`), a synchronous one by its caller between
  the two halves of `putResponse` (`ResponseFuture.cpp:92`).
- `Remoting!FdSetIsRebuilt` (under `FairSpec`): `TcpRemotingClient.cpp:268` says
  "let's loop and build fd set again", but `Run` only copies `m_rset`. After a
  transport was deleted (`:304`) and its successor could not connect (`:311`) the
  set names a closed socket, `select` fails in every round and nothing is
  received or expired until some other connection is made.
- `Rebalance!AddedFromMaster`: after a change of master the queues are to be
  fetched again from the new one (`RebalanceImpl.cpp:625`). A route stored between
  the look-ups at `:597` and `:686` makes the client remember the new master in a
  round that kept a queue of the old one, which is then never found moved; so does,
  with two topics, a topic that gets its first queue after the switch, and a queue
  that was added while its broker had no address.
- `Producer!CopiesAreReadable`: `sendKernelImpl` compresses the body in the
  caller's `Message` and nothing restores it (`DefaultMQProducerImpl.cpp:699`): a
  retry's copy has two layers of compression, or one that its flag does not tell.
- `ClientFactory!StaysUnregistered`: `m_lockHeartbeat` is to keep a heartbeat from
  following an unregistration, but `sendHearbeat` may time out with its request on
  the way (`MQClientAPIImpl.cpp:781`), which then arrives after it.

Also met on the way, in states the models reach: a retry of `sendDefaultImpl` can
go to the same broker, and a call whose route
shrank to one broker reports "No route info" though a copy was stored; a topic
without write permission is sent through the default route; all periodic tasks
can be stranded (every one queued, every worker waiting); `Close` of the timer
manager does not wait for the timer thread.

## 6. Not modelled

Nearly half of the lines in the repository belong to bundled libraries (jsoncpp,
spdlog, zlib), and most of the remaining ones to code without protocol state:
encoding and decoding of commands, headers and messages; accessors and
declarations; logging, dates and other utilities; examples and benchmarks; and
the second API in `alimq/`, which delegates each call. None of it has states or
interleavings to check, so the models cover the protocol code and no more.

Of the protocol code these parts are left out: the pull consumer (the rebalance
of its queues is `Rebalance`'s, with offset 0; what its `dispatchPullRequest`
deletes includes a `ProcessQueue` that is in the table), the queue and the
wake-ups of `PullMessageService` and its join in `shutdown`, the framing of `TcpTransport`, name resolution
and socket options, `unlockAll`, `MQClientManager`, send hooks and transactions
(stubs). Undefined behaviour after a deleted object is used is limited to the
outcomes described above. Listed as hazards without a property, because the code
does nothing against them: the pull thread may delete a queue's objects between
`removeMessage` and `updateOffset`, or under a running orderly listener whose
batch is in `m_msgTreeMapTemp`; a selector's queue may be deleted while it is in
use; a transport may be deleted while another caller has it; a dropped orderly
queue with messages is never freed.

## 7. Plan

The framing of `TcpTransport`, `PullMessageService`, the pull consumer.
