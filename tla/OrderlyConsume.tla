--------------------------- MODULE OrderlyConsume ---------------------------
(***************************************************************************)
(* Orderly consumption of one message queue by the clients of a group      *)
(* (ConsumeMessageOrderlyService): the requests and timers that hand a     *)
(* ProcessQueue to the pool, the loop of ConsumeOrderlyRequest::Do under   *)
(* the client's per-queue mutex, commit and rollback, and the queue lock   *)
(* at the broker that is meant to serialise the clients.                   *)
(*                                                                         *)
(* Here the pull cycle only fills the buffer and frees dropped objects;    *)
(* its failures, filtered messages and illegal offsets are PushConsumer's. *)
(* Time is abstract: a lock may expire at any moment, but the broker's     *)
(* lock (60 s) not before the client's copy of it (30 s).                  *)
(***************************************************************************)
EXTENDS ProcessQueue

CONSTANTS
    Clients,          \* the consumers of the group
    ProcessQueues,    \* objects rebalance may allocate, each used once
    NoClient, NoQueue,
    MaxOffset,        \* the broker's queue holds offsets 0 .. MaxOffset - 1
    BatchSize,        \* consumeMessageBatchMaxSize
    PullThreshold,    \* pullThresholdForQueue
    AutoCommit,       \* values listeners give ConsumeOrderlyContext.autoCommit
    MessageModel      \* "CLUSTERING" or "BROADCASTING"

Messages == 0 .. (MaxOffset - 1)

Offsets == 0 .. MaxOffset

NoOffset == -1

ASSUME ConstantsAssumption ==
    /\ MaxOffset \in Nat
    /\ BatchSize \in Nat \ {0}
    /\ PullThreshold \in Nat
    /\ AutoCommit \subseteq BOOLEAN
    /\ MessageModel \in {"CLUSTERING", "BROADCASTING"}
    /\ NoClient \notin Clients
    /\ NoQueue \notin ProcessQueues

VARIABLES
    pq,          \* the ProcessQueue objects
    owner,       \* the client an object was allocated by
    pull,        \* where the object's PullRequest is
    nextOffset,  \* PullRequest.m_nextOffset
    table,       \* m_processQueueTable: the client's current object
    store,       \* m_offsetTable: the client's in-memory offset
    committed,   \* the durable offset
    submitted,   \* number of the object's requests in the pool's queue
    later,       \* number of its SubmitConsumeRequestLaterOrderly timers
    lockLater,   \* number of its TryLockLaterAndReconsume timers
    running,     \* the request that holds the client's mutex of the queue
    lockCall,    \* the client's lockBatchMQ call that has been answered
    brokerLock,  \* the client the broker has locked the queue for
    start,       \* history: the object's first pull offset
    accepted,    \* history: offsets the object's listener accepted
    freed        \* history: offsets whose MessageExt was deleted

queueVars == <<pq, owner, pull, nextOffset, table, start>>
offsetVars == <<store, committed>>
requestVars == <<submitted, later, lockLater>>
lockVars == <<lockCall, brokerLock>>
historyVars == <<accepted, freed>>
vars == <<queueVars, offsetVars, requestVars, running, lockVars, historyVars>>

PullStates == {"unused", "queued", "pulling", "deleted"}

(* The thread is at the top of the loop, past the loop's checks, has found *)
(* nothing to take, is in the listener, or is about to store an offset.    *)
LoopStates == {"loop", "taking", "stopping", "listening", "updating"}

Idle == [q |-> NoQueue, st |-> "loop", msgs |-> {}, offset |-> NoOffset]

Running(p, st, msgs, offset) ==
    [q |-> p, st |-> st, msgs |-> msgs, offset |-> offset]

RunningType == [ q : ProcessQueues \cup {NoQueue}, st : LoopStates,
                 msgs : SUBSET Messages, offset : Offsets \cup {NoOffset} ]

(* by is the object whose TryLockLaterAndReconsume made the call, NoQueue  *)
(* for lockAll.                                                            *)
NoCall == [by |-> NoQueue, answer |-> "none"]

LockCallType == [ by : ProcessQueues \cup {NoQueue},
                  answer : {"none", "granted", "refused", "failed"} ]

TypeOK ==
    /\ pq \in [ProcessQueues -> ProcessQueueType(Messages)]
    /\ owner \in [ProcessQueues -> Clients \cup {NoClient}]
    /\ pull \in [ProcessQueues -> PullStates]
    /\ nextOffset \in [ProcessQueues -> Offsets]
    /\ start \in [ProcessQueues -> Offsets]
    /\ table \in [Clients -> ProcessQueues \cup {NoQueue}]
    /\ store \in [Clients -> Offsets \cup {NoOffset}]
    /\ committed \in Offsets \cup {NoOffset}
    /\ submitted \in [ProcessQueues -> Nat]
    /\ later \in [ProcessQueues -> Nat]
    /\ lockLater \in [ProcessQueues -> Nat]
    /\ running \in [Clients -> RunningType]
    /\ lockCall \in [Clients -> LockCallType]
    /\ brokerLock \in Clients \cup {NoClient}
    /\ accepted \in [ProcessQueues -> SUBSET Messages]
    /\ freed \in [ProcessQueues -> SUBSET Messages]

Init ==
    /\ pq = [p \in ProcessQueues |-> NewProcessQueue]
    /\ owner = [p \in ProcessQueues |-> NoClient]
    /\ pull = [p \in ProcessQueues |-> "unused"]
    /\ nextOffset = [p \in ProcessQueues |-> 0]
    /\ start = [p \in ProcessQueues |-> 0]
    /\ table = [c \in Clients |-> NoQueue]
    /\ store = [c \in Clients |-> NoOffset]
    /\ committed = NoOffset
    /\ submitted = [p \in ProcessQueues |-> 0]
    /\ later = [p \in ProcessQueues |-> 0]
    /\ lockLater = [p \in ProcessQueues |-> 0]
    /\ running = [c \in Clients |-> Idle]
    /\ lockCall = [c \in Clients |-> NoCall]
    /\ brokerLock = NoClient
    /\ accepted = [p \in ProcessQueues |-> {}]
    /\ freed = [p \in ProcessQueues |-> {}]

Add(count, p) == [count EXCEPT ![p] = @ + 1]

Take(count, p) == [count EXCEPT ![p] = @ - 1]

-----------------------------------------------------------------------------
(* The offset store (CLUSTERING: the broker's; see PushConsumer).          *)

updateOffset(entry, offset, increaseOnly) ==
    IF entry = NoOffset \/ ~increaseOnly \/ offset > entry
    THEN offset ELSE entry

persist(durable, entry) ==
    IF MessageModel = "CLUSTERING" /\ entry # NoOffset
    THEN {durable, entry} ELSE {durable}

removeOffset(entry) ==
    IF MessageModel = "CLUSTERING" THEN NoOffset ELSE entry

PersistAll(c) ==
    /\ table[c] # NoQueue
    /\ store[c] # NoOffset
    /\ committed' = store[c]
    /\ UNCHANGED <<queueVars, store, requestVars, running, lockVars, historyVars>>

-----------------------------------------------------------------------------
(* Rebalance.                                                              *)

(* A queue newly allocated to c: CONSUME_FROM_FIRST_OFFSET, and the offset *)
(* is read without a failure (PushConsumer has those).                     *)
AssignQueue(c) ==
    /\ table[c] = NoQueue
    /\ \E p \in ProcessQueues :
        LET from == IF committed = NoOffset THEN 0 ELSE committed
        IN  /\ pull[p] = "unused"
            /\ store' = [store EXCEPT ![c] =
                             IF committed = NoOffset THEN @ ELSE committed]
            /\ nextOffset' = [nextOffset EXCEPT ![p] = from]
            /\ start' = [start EXCEPT ![p] = from]
            /\ owner' = [owner EXCEPT ![p] = c]
            /\ pull' = [pull EXCEPT ![p] = "queued"]
            /\ table' = [table EXCEPT ![c] = p]
    /\ UNCHANGED <<pq, committed, requestVars, running, lockVars, historyVars>>

(* The broker frees the queue if the client holds it; the oneway unlock    *)
(* may be lost.                                                            *)
unlock(c) ==
    IF brokerLock = c THEN {brokerLock, NoClient} ELSE {brokerLock}

(* removeUnnecessaryMessageQueue also unlocks the queue at the broker,     *)
(* whatever the queue's running request is doing.                          *)
RemoveQueue(c) ==
    /\ table[c] # NoQueue
    /\ pq' = [pq EXCEPT ![table[c]] = setDroped(@)]
    /\ committed' \in persist(committed, store[c])
    /\ store' = [store EXCEPT ![c] = removeOffset(@)]
    /\ brokerLock' \in unlock(c)
    /\ table' = [table EXCEPT ![c] = NoQueue]
    /\ UNCHANGED <<owner, pull, nextOffset, start, requestVars, running, lockCall,
                   historyVars>>

-----------------------------------------------------------------------------
(* The pull cycle.                                                         *)

PullSend(p) ==
    /\ pull[p] = "queued"
    /\ ~pq[p].droped
    /\ pq[p].msgCount <= PullThreshold
    /\ pull' = [pull EXCEPT ![p] = "pulling"]
    /\ committed' \in IF store[owner[p]] > 0
                      THEN persist(committed, store[owner[p]]) ELSE {committed}
    /\ UNCHANGED <<pq, owner, nextOffset, table, start, store, requestVars, running,
                   lockVars, historyVars>>

(* FOUND: the messages go into the buffer; the queue goes to the pool only *)
(* when putMessage says that nobody is consuming it.                       *)
PullFound(p) ==
    /\ pull[p] = "pulling"
    /\ \E n \in (nextOffset[p] + 1) .. MaxOffset :
        LET found == nextOffset[p] .. (n - 1)
        IN  /\ nextOffset' = [nextOffset EXCEPT ![p] = n]
            /\ pq' = [pq EXCEPT ![p] = putMessage(@, found)]
            /\ submitted' = IF dispathToConsume(pq[p], found)
                            THEN Add(submitted, p) ELSE submitted
    /\ pull' = [pull EXCEPT ![p] = "queued"]
    /\ UNCHANGED <<owner, table, start, offsetVars, later, lockLater, running,
                   lockVars, historyVars>>

(* Mutation: the offset is corrected whatever is still buffered.           *)
PullNotFound_Always(p) ==
    /\ pull[p] = "pulling"
    /\ nextOffset[p] = MaxOffset
    /\ pull' = [pull EXCEPT ![p] = "queued"]
    /\ store' = [store EXCEPT ![owner[p]] = updateOffset(@, nextOffset[p], TRUE)]
    /\ UNCHANGED <<pq, owner, nextOffset, table, start, committed, requestVars,
                   running, lockVars, historyVars>>

(* NO_NEW_MSG, with correctTagsOffset.                                     *)
PullNotFound(p) ==
    /\ pull[p] = "pulling"
    /\ nextOffset[p] = MaxOffset
    /\ pull' = [pull EXCEPT ![p] = "queued"]
    /\ store' = IF pq[p].msgCount = 0
                THEN [store EXCEPT ![owner[p]] = updateOffset(@, nextOffset[p], TRUE)]
                ELSE store
    /\ UNCHANGED <<pq, owner, nextOffset, table, start, committed, requestVars,
                   running, lockVars, historyVars>>

PullDropped(p) ==
    /\ pull[p] = "queued"
    /\ pq[p].droped
    /\ pq[p].msgTreeMap = {}
    /\ pull' = [pull EXCEPT ![p] = "deleted"]
    /\ UNCHANGED <<pq, owner, nextOffset, table, start, offsetVars, requestVars,
                   running, lockVars, historyVars>>

-----------------------------------------------------------------------------
(* Queue locks.                                                            *)

HoldsLock(q) == q.locked /\ ~q.lockExpired

(* lockBatchMQ: the broker answers, or no answer comes back although the   *)
(* broker may have locked the queue.                                       *)
BrokerAnswers(c, by) ==
    \/ /\ brokerLock \in {c, NoClient}
       /\ brokerLock' = c
       /\ \E answer \in {"granted", "failed"} :
             lockCall' = [lockCall EXCEPT ![c] = [by |-> by, answer |-> answer]]
    \/ /\ brokerLock \notin {c, NoClient}
       /\ lockCall' = [lockCall EXCEPT ![c] = [by |-> by, answer |-> "refused"]]
       /\ UNCHANGED brokerLock
    \/ /\ lockCall' = [lockCall EXCEPT ![c] = [by |-> by, answer |-> "failed"]]
       /\ UNCHANGED brokerLock

(* LockMq, every 20 s: lockAll, when the client has the queue.  The timer  *)
(* thread makes one call at a time.                                        *)
LockAll(c) ==
    /\ lockCall[c] = NoCall
    /\ table[c] # NoQueue
    /\ BrokerAnswers(c, NoQueue)
    /\ UNCHANGED <<queueVars, offsetVars, requestVars, running, historyVars>>

(* TryLockLaterAndReconsume: lockOneMQ for the object's queue.             *)
LockOne(c, p) ==
    /\ lockCall[c] = NoCall
    /\ owner[p] = c
    /\ lockLater[p] > 0
    /\ lockLater' = Take(lockLater, p)
    /\ BrokerAnswers(c, p)
    /\ UNCHANGED <<queueVars, offsetVars, submitted, later, running, historyVars>>

(* Mutation: the queue is consumed again only when the lock was granted.   *)
reconsumeLater_IfLocked(call) ==
    IF call.by = NoQueue \/ call.answer # "granted" THEN later
    ELSE Add(later, call.by)

reconsumeLater(call) ==
    IF call.by = NoQueue THEN later ELSE Add(later, call.by)

(* Mutation: every queue lockAll asked for is taken for locked.            *)
applyAnswer_AnyAnswer(call, q) ==
    IF call.answer = "granted" \/ (call.answer = "refused" /\ call.by = NoQueue)
    THEN [setLocked(q, TRUE) EXCEPT !.lockExpired = FALSE]
    ELSE q

(* A refusal clears m_locked in lockAll only.                              *)
applyAnswer(call, q) ==
    IF call.answer = "granted" THEN [setLocked(q, TRUE) EXCEPT !.lockExpired = FALSE]
    ELSE IF call.answer = "refused" /\ call.by = NoQueue THEN setLocked(q, FALSE)
    ELSE q

(* The answer is applied to the object that is in the table now.  Granted  *)
(* or not, the timer submits its request again, 10 ms or 3 s later.        *)
LockAnswer(c) ==
    LET call == lockCall[c]
        p == table[c]
    IN  /\ call # NoCall
        /\ pq' = IF p = NoQueue THEN pq
                 ELSE [pq EXCEPT ![p] = applyAnswer(call, @)]
        /\ later' = reconsumeLater(call)
        /\ lockCall' = [lockCall EXCEPT ![c] = NoCall]
        /\ UNCHANGED <<owner, pull, nextOffset, table, start, offsetVars, submitted,
                       lockLater, running, brokerLock, historyVars>>

(* 30 s without a successful lock; on a queue that is not locked nobody    *)
(* sees it.                                                                *)
LockExpires(p) ==
    /\ pq[p].locked
    /\ ~pq[p].lockExpired
    /\ pq' = [pq EXCEPT ![p].lockExpired = TRUE]
    /\ UNCHANGED <<owner, pull, nextOffset, table, start, offsetVars, requestVars,
                   running, lockVars, historyVars>>

BrokerLockExpires ==
    /\ brokerLock # NoClient
    /\ lockCall[brokerLock].answer # "granted"
    /\ \A p \in ProcessQueues : owner[p] = brokerLock => ~HoldsLock(pq[p])
    /\ brokerLock' = NoClient
    /\ UNCHANGED <<queueVars, offsetVars, requestVars, running, lockCall, historyVars>>

-----------------------------------------------------------------------------
(* ConsumeOrderlyRequest::Do.                                              *)

SubmitTimeout(p) ==
    /\ later[p] > 0
    /\ later' = Take(later, p)
    /\ submitted' = Add(submitted, p)
    /\ UNCHANGED <<queueVars, offsetVars, lockLater, running, lockVars, historyVars>>

MayConsume(p) == MessageModel = "BROADCASTING" \/ HoldsLock(pq[p])

(* A pool thread gets the client's mutex of the queue: into the loop when  *)
(* the queue is locked, otherwise back to a lock timer.                    *)
EnterRequest(p) ==
    /\ submitted[p] > 0
    /\ running[owner[p]] = Idle
    /\ submitted' = Take(submitted, p)
    /\ \/ /\ MayConsume(p)
          /\ running' = [running EXCEPT ![owner[p]] = Running(p, "loop", {}, NoOffset)]
          /\ UNCHANGED lockLater
       \/ /\ ~MayConsume(p)
          /\ lockLater' = Add(lockLater, p)
          /\ UNCHANGED running
    /\ UNCHANGED <<queueVars, offsetVars, later, lockVars, historyVars>>

(* A dropped queue ends the request; nothing is done with its messages.    *)
LoopDropped(c) ==
    /\ running[c].q # NoQueue
    /\ running[c].st = "loop"
    /\ pq[running[c].q].droped
    /\ running' = [running EXCEPT ![c] = Idle]
    /\ UNCHANGED <<queueVars, offsetVars, requestVars, lockVars, historyVars>>

(* Not locked any more: a lock timer.                                      *)
LoopUnlocked(c) ==
    LET p == running[c].q
    IN  /\ p # NoQueue
        /\ running[c].st = "loop"
        /\ ~pq[p].droped
        /\ ~MayConsume(p)
        /\ running' = [running EXCEPT ![c] = Idle]
        /\ lockLater' = Add(lockLater, p)
        /\ UNCHANGED <<queueVars, offsetVars, submitted, later, lockVars, historyVars>>

(* More than s_MaxTimeConsumeContinuously in this request: a 10 ms timer.  *)
LoopYields(c) ==
    LET p == running[c].q
    IN  /\ p # NoQueue
        /\ running[c].st = "loop"
        /\ ~pq[p].droped
        /\ MayConsume(p)
        /\ running' = [running EXCEPT ![c] = Idle]
        /\ later' = Add(later, p)
        /\ UNCHANGED <<queueVars, offsetVars, submitted, lockLater, lockVars, historyVars>>

LoopGoesOn(c) ==
    LET p == running[c].q
    IN  /\ p # NoQueue
        /\ running[c].st = "loop"
        /\ ~pq[p].droped
        /\ MayConsume(p)
        /\ running' = [running EXCEPT ![c].st = "taking"]
        /\ UNCHANGED <<queueVars, offsetVars, requestVars, lockVars, historyVars>>

(* takeMessags under the map's lock, then the listener is called.          *)
TakeMessages(c) ==
    LET p == running[c].q
        batch == takeBatch(pq[p], BatchSize)
    IN  /\ p # NoQueue
        /\ running[c].st = "taking"
        /\ pq' = [pq EXCEPT ![p] = takeMessags(@, BatchSize)]
        /\ running' = [running EXCEPT ![c] =
               Running(p, IF batch = {} THEN "stopping" ELSE "listening", batch, NoOffset)]
        /\ UNCHANGED <<owner, pull, nextOffset, table, start, offsetVars, requestVars,
                       lockVars, historyVars>>

(* The end of takeMessags after the unlock: nothing was taken.             *)
StopConsuming(c) ==
    LET p == running[c].q
    IN  /\ p # NoQueue
        /\ running[c].st = "stopping"
        /\ pq' = [pq EXCEPT ![p] = stopConsuming(@)]
        /\ running' = [running EXCEPT ![c] = Idle]
        /\ UNCHANGED <<owner, pull, nextOffset, table, start, offsetVars, requestVars,
                       lockVars, historyVars>>

(* COMMIT, and with automatic commit also SUCCESS and ROLLBACK: commit()   *)
(* everything uncommitted, then store the offset.                          *)
ListenerCommits(c) ==
    LET p == running[c].q
        msgs == running[c].msgs
    IN  /\ p # NoQueue
        /\ running[c].st = "listening"
        /\ pq' = [pq EXCEPT ![p] = commit(@)]
        /\ running' = [running EXCEPT ![c] = Running(p, "updating", msgs, commitResult(pq[p]))]
        /\ accepted' = [accepted EXCEPT ![p] = @ \cup msgs]
        /\ UNCHANGED <<owner, pull, nextOffset, table, start, offsetVars, requestVars,
                       lockVars, freed>>

(* SUCCESS without automatic commit: the batch stays uncommitted, and Do   *)
(* deletes its messages as it does after every result that goes on.        *)
ListenerSucceeds(c) ==
    LET p == running[c].q
        msgs == running[c].msgs
    IN  /\ p # NoQueue
        /\ running[c].st = "listening"
        /\ FALSE \in AutoCommit
        /\ running' = [running EXCEPT ![c] = Running(p, "loop", {}, NoOffset)]
        /\ accepted' = [accepted EXCEPT ![p] = @ \cup msgs]
        /\ freed' = [freed EXCEPT ![p] = @ \cup msgs]
        /\ UNCHANGED <<queueVars, offsetVars, requestVars, lockVars>>

(* ROLLBACK without automatic commit: everything uncommitted is consumed   *)
(* again after a pause.                                                    *)
ListenerRollsBack(c) ==
    LET p == running[c].q
    IN  /\ p # NoQueue
        /\ running[c].st = "listening"
        /\ FALSE \in AutoCommit
        /\ pq' = [pq EXCEPT ![p] = rollback(@)]
        /\ running' = [running EXCEPT ![c] = Idle]
        /\ later' = Add(later, p)
        /\ accepted' = [accepted EXCEPT ![p] = @ \ pq[p].msgTreeMapTemp]
        /\ UNCHANGED <<owner, pull, nextOffset, table, start, offsetVars, submitted,
                       lockLater, lockVars, freed>>

(* SUSPEND_CURRENT_QUEUE_A_MOMENT, or an exception: the batch is consumed  *)
(* again after a pause.                                                    *)
ListenerSuspends(c) ==
    LET p == running[c].q
    IN  /\ p # NoQueue
        /\ running[c].st = "listening"
        /\ pq' = [pq EXCEPT ![p] = makeMessageToCosumeAgain(@, running[c].msgs)]
        /\ running' = [running EXCEPT ![c] = Idle]
        /\ later' = Add(later, p)
        /\ UNCHANGED <<owner, pull, nextOffset, table, start, offsetVars, submitted,
                       lockLater, lockVars, historyVars>>

(* updateOffset, not increase-only; the batch's messages are deleted, and  *)
(* round the loop again.                                                   *)
StoreOffset(c) ==
    LET r == running[c]
    IN  /\ r.q # NoQueue
        /\ r.st = "updating"
        /\ store' = IF r.offset >= 0
                    THEN [store EXCEPT ![c] = updateOffset(@, r.offset, FALSE)]
                    ELSE store
        /\ running' = [running EXCEPT ![c] = Running(r.q, "loop", {}, NoOffset)]
        /\ freed' = [freed EXCEPT ![r.q] = @ \cup r.msgs]
        /\ UNCHANGED <<queueVars, committed, requestVars, lockVars, accepted>>

Next ==
    \/ \E c \in Clients : PersistAll(c)
    \/ \E c \in Clients : AssignQueue(c)
    \/ \E c \in Clients : RemoveQueue(c)
    \/ \E p \in ProcessQueues : PullSend(p)
    \/ \E p \in ProcessQueues : PullFound(p)
    \/ \E p \in ProcessQueues : PullNotFound(p)
    \/ \E p \in ProcessQueues : PullDropped(p)
    \/ \E c \in Clients : LockAll(c)
    \/ \E c \in Clients, p \in ProcessQueues : LockOne(c, p)
    \/ \E c \in Clients : LockAnswer(c)
    \/ \E p \in ProcessQueues : LockExpires(p)
    \/ BrokerLockExpires
    \/ \E p \in ProcessQueues : SubmitTimeout(p)
    \/ \E p \in ProcessQueues : EnterRequest(p)
    \/ \E c \in Clients : LoopDropped(c)
    \/ \E c \in Clients : LoopUnlocked(c)
    \/ \E c \in Clients : LoopYields(c)
    \/ \E c \in Clients : LoopGoesOn(c)
    \/ \E c \in Clients : TakeMessages(c)
    \/ \E c \in Clients : StopConsuming(c)
    \/ \E c \in Clients : ListenerCommits(c)
    \/ \E c \in Clients : ListenerSucceeds(c)
    \/ \E c \in Clients : ListenerRollsBack(c)
    \/ \E c \in Clients : ListenerSuspends(c)
    \/ \E c \in Clients : StoreOffset(c)

Spec == Init /\ [][Next]_vars

(* Threads run, timers fire, a listener returns, and a client whose timer  *)
(* thread is shared gets its turn (SF).  A request that would go on may    *)
(* yield, but only after a minute: it goes on some of the time (SF).  No   *)
(* fairness for rebalance, pulls that find messages, or broker locks.      *)
Fairness ==
    /\ \A p \in ProcessQueues :
        /\ WF_vars(SubmitTimeout(p))
        /\ WF_vars(EnterRequest(p))
    /\ \A c \in Clients, p \in ProcessQueues : SF_vars(LockOne(c, p))
    /\ \A c \in Clients :
        /\ WF_vars(LockAnswer(c))
        /\ WF_vars(LoopDropped(c))
        /\ WF_vars(LoopUnlocked(c))
        /\ SF_vars(LoopGoesOn(c))
        /\ WF_vars(TakeMessages(c))
        /\ WF_vars(StopConsuming(c))
        /\ WF_vars(ListenerCommits(c) \/ ListenerSucceeds(c)
                   \/ ListenerRollsBack(c) \/ ListenerSuspends(c))
        /\ WF_vars(StoreOffset(c))

FairSpec == Spec /\ Fairness

-----------------------------------------------------------------------------
(* Safety.                                                                 *)

Settled(x) == \A o \in Messages : o < x => \E p \in ProcessQueues : o \in accepted[p]

(* The durable offset passes only messages that some assignment's listener *)
(* accepted and did not roll back, although results of dropped queues are  *)
(* still stored and stores may go backwards (processConsumeResult).        *)
CommittedIsAccepted == Settled(committed)

(* Accepted for good: no rollback takes it back.                           *)
Firm == [p \in ProcessQueues |-> accepted[p] \ pq[p].msgTreeMapTemp]

(* The abstract specification: a message has been dealt with when it was   *)
(* accepted for good, by any assignment.  This broker expires nothing and  *)
(* refuses no offset.                                                      *)
AO == INSTANCE AtLeastOnce WITH
    Positions <- Offsets \cup {NoOffset},
    settled <- UNION {Firm[p] : p \in ProcessQueues},
    overruled <- {},
    expired <- 0

(* The orderly consumers implement it: whatever is committed, rolled back, *)
(* suspended or unlocked, and whichever results of dropped queues are      *)
(* still stored, the durable offset only moves to where nothing is left    *)
(* behind, and no rollback takes back what an offset may have passed       *)
(* (commit, rollback, processConsumeResult, persist).                      *)
ImplementsAtLeastOnce == AO!Spec

(* Orderly: when a batch is with the listener, the listener has accepted   *)
(* every earlier message of this assignment (takeMessags, rollback,        *)
(* makeMessageToCosumeAgain).                                              *)
DeliveredInOrder ==
    \A c \in Clients : running[c].st = "listening" =>
        LET p == running[c].q
        IN  \A o \in running[c].msgs, x \in Messages :
                start[p] <= x /\ x < o => x \in accepted[p] \cup running[c].msgs

Requests(p) ==
    submitted[p] + later[p] + lockLater[p]
    + Cardinality({c \in Clients : running[c].q = p})
    + Cardinality({c \in Clients : lockCall[c].by = p})

(* m_consuming admits one request or timer per object at a time.           *)
OneRequestPerQueue == \A p \in ProcessQueues : Requests(p) <= 1

(* m_msgCount counts what is buffered or handed out and uncommitted, and   *)
(* no message is both.                                                     *)
CountIsExact ==
    \A p \in ProcessQueues :
        /\ pq[p].msgTreeMap \cap pq[p].msgTreeMapTemp = {}
        /\ pq[p].msgCount = Cardinality(pq[p].msgTreeMap)
                            + Cardinality(pq[p].msgTreeMapTemp)

(* Two clients both hold a queue's lock, fresh and undropped, only after   *)
(* one of them lost the queue before (a lock answer that was on its way    *)
(* when rebalance unlocked the queue is applied to the next assignment):   *)
(* refusals, lost answers and expiry on either side never lead to it       *)
(* (lockAll, lock, isLockExpired).                                         *)
LockIsExclusive ==
    \A p, q \in ProcessQueues :
        /\ HoldsLock(pq[p]) /\ ~pq[p].droped
        /\ HoldsLock(pq[q]) /\ ~pq[q].droped
        /\ owner[p] # owner[q]
        => \E r \in ProcessQueues : pq[r].droped /\ owner[r] \in {owner[p], owner[q]}

(* A queue with messages waiting has a request or a timer to consume them  *)
(* (putMessage's result, takeMessags' reset of m_consuming).  The code     *)
(* departs from this: m_consuming is reset after the unlock, and messages  *)
(* put in between are not dispatched.                                      *)
BufferedIsDispatched ==
    \A p \in ProcessQueues :
        pq[p].msgTreeMap # {} /\ ~pq[p].droped => Requests(p) > 0

(* A message that is still to be delivered was not deleted (Do's delete    *)
(* after every result that goes on, rollback).  The code departs from      *)
(* this: a batch accepted without commit is deleted before its rollback.   *)
RolledBackIsAlive ==
    \A p \in ProcessQueues : pq[p].msgTreeMap \cap freed[p] = {}

-----------------------------------------------------------------------------
(* Liveness.                                                               *)

(* A request or timer that has not yet found the queue empty.              *)
Dispatched(p) ==
    /\ Requests(p) > 0
    /\ \A c \in Clients : running[c].q = p => running[c].st # "stopping"

IsFirst(p, o) ==
    \A x \in pq[p].msgTreeMap \cup pq[p].msgTreeMapTemp : o <= x

(* The first message of a dispatched queue is handed to the listener       *)
(* sooner or later, unless the queue is dropped or its lock lost: no       *)
(* request, retry or lock timer is forgotten on the way (Do,               *)
(* submitConsumeRequestLater, tryLockLaterAndReconsume).  A later message  *)
(* waits for as long as the listener refuses the first.                    *)
DispatchedIsTaken ==
    \A p \in ProcessQueues, o \in Messages :
        (o \in pq[p].msgTreeMap /\ IsFirst(p, o) /\ Dispatched(p))
            ~> (o \notin pq[p].msgTreeMap \/ pq[p].droped \/ ~MayConsume(p))
=============================================================================
