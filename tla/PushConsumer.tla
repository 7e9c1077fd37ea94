---------------------------- MODULE PushConsumer ----------------------------
(***************************************************************************)
(* The push consumer's at-least-once machinery for one message queue of a  *)
(* group: the pull cycle (DefaultMQPushConsumerImpl), the concurrent       *)
(* consume service (ConsumeMessageConcurrentlyService) with its pool       *)
(* threads and retry timers, the client's offset store, and rebalance,     *)
(* which gives the queue to a client and takes it away again while pulls,  *)
(* listeners and timers of the old assignment are still running.           *)
(*                                                                         *)
(* Every assignment allocates a ProcessQueue, a PullRequest and a          *)
(* MessageQueue that live and die together; ProcessQueues is the heap they *)
(* come from, an element is used once.  Each action is one handler, cut    *)
(* where it gives up a lock that another thread's step may slip through.   *)
(***************************************************************************)
EXTENDS ProcessQueue

CONSTANTS
    Clients,          \* the consumers of the group
    ProcessQueues,    \* objects rebalance may allocate
    NoClient,         \* owner of an object not allocated yet
    NoQueue,          \* "not in m_processQueueTable"
    MaxOffset,        \* the broker's queue holds offsets 0 .. MaxOffset - 1
    Matching,         \* offsets whose message passes the tag filter
    BatchSize,        \* consumeMessageBatchMaxSize
    PullThreshold,    \* pullThresholdForQueue
    MaxSpan,          \* consumeConcurrentlyMaxSpan
    MaxExpired,       \* bound: how far the broker expires old messages
    MessageModel,     \* "CLUSTERING" or "BROADCASTING"
    ConsumeFromWhere, \* where a group without an offset starts
    RetryTopic        \* the queue belongs to the group's retry topic

Offsets == 0 .. MaxOffset

NoOffset == -1

StartingPoints == {"CONSUME_FROM_LAST_OFFSET", "CONSUME_FROM_FIRST_OFFSET",
                   "CONSUME_FROM_TIMESTAMP"}

ASSUME ConstantsAssumption ==
    /\ MaxOffset \in Nat
    /\ Matching \subseteq 0 .. (MaxOffset - 1)
    /\ BatchSize \in Nat \ {0}
    /\ PullThreshold \in Nat
    /\ MaxSpan \in Nat
    /\ MaxExpired \in 0 .. MaxOffset
    /\ MessageModel \in {"CLUSTERING", "BROADCASTING"}
    /\ ConsumeFromWhere \in StartingPoints
    /\ RetryTopic \in BOOLEAN
    /\ NoClient \notin Clients
    /\ NoQueue \notin ProcessQueues

VARIABLES
    pq,          \* the ProcessQueue objects
    owner,       \* the client an object was allocated by
    pull,        \* where the object's PullRequest is
    nextOffset,  \* PullRequest.m_nextOffset
    table,       \* m_processQueueTable: the client's current object
    store,       \* m_offsetTable: the client's in-memory offset
    committed,   \* the durable offset: at the broker, or in the local file
    requests,    \* ConsumeConcurrentlyRequests submitted to the pool
    retries,     \* SubmitConsumeRequestLater timers
    minOffset,   \* the broker's smallest offset not expired
    handled,     \* history: consumed, sent back, or given up by BROADCASTING
    discarded,   \* history: removed unconsumed from a dropped queue, or
                 \* below the start of a client that found no offset
    overruled    \* history: below an offset that a broker's OFFSET_ILLEGAL
                 \* put in place of the consumer's own

queueVars == <<pq, owner, pull, nextOffset, table>>
offsetVars == <<store, committed>>
consumeVars == <<requests, retries, handled, discarded, overruled>>
vars == <<queueVars, offsetVars, consumeVars, minOffset>>

(* A PullRequest is waiting for the pull thread (in its queue or on a      *)
(* timer), at the broker, waiting to correct an illegal offset, deleted    *)
(* with its queue, forgotten after the correction, or lost.                *)
PullStates == {"unused", "queued", "pulling", "correcting", "deleted",
               "forgotten", "lost"}

(* A request waits for a thread, runs the listener, is about to remove its *)
(* messages, or is about to store the offset removeMessage returned.       *)
RequestStates == {"submitted", "consuming", "removing", "updating"}

Request(p, msgs, st, offset) ==
    [q |-> p, msgs |-> msgs, st |-> st, offset |-> offset]

Retry(p, msgs) == [q |-> p, msgs |-> msgs]

RequestType == [ q : ProcessQueues, msgs : SUBSET Matching,
                 st : RequestStates, offset : Offsets \cup {NoOffset} ]

RetryType == [ q : ProcessQueues, msgs : SUBSET Matching ]

TypeOK ==
    /\ pq \in [ProcessQueues -> ProcessQueueType(Matching)]
    /\ owner \in [ProcessQueues -> Clients \cup {NoClient}]
    /\ pull \in [ProcessQueues -> PullStates]
    /\ nextOffset \in [ProcessQueues -> Offsets]
    /\ table \in [Clients -> ProcessQueues \cup {NoQueue}]
    /\ store \in [Clients -> Offsets \cup {NoOffset}]
    /\ committed \in Offsets \cup {NoOffset}
    /\ requests \subseteq RequestType
    /\ retries \subseteq RetryType
    /\ minOffset \in Offsets
    /\ handled \subseteq Matching
    /\ discarded \subseteq Matching
    /\ overruled \subseteq Matching

Init ==
    /\ pq = [p \in ProcessQueues |-> NewProcessQueue]
    /\ owner = [p \in ProcessQueues |-> NoClient]
    /\ pull = [p \in ProcessQueues |-> "unused"]
    /\ nextOffset = [p \in ProcessQueues |-> 0]
    /\ table = [c \in Clients |-> NoQueue]
    /\ store = [c \in Clients |-> NoOffset]
    /\ committed = NoOffset
    /\ requests = {}
    /\ retries = {}
    /\ minOffset = 0
    /\ handled = {}
    /\ discarded = {}
    /\ overruled = {}

-----------------------------------------------------------------------------
(* The offset store.                                                       *)

(* updateOffset on an entry: a missing one is created, increaseOnly is     *)
(* compareAndIncreaseOnly's compare-and-set loop.                          *)
updateOffset(entry, offset, increaseOnly) ==
    IF entry = NoOffset \/ ~increaseOnly \/ offset > entry
    THEN offset ELSE entry

(* What persist(mq) may leave durable: the oneway update may be lost, and  *)
(* the local file store does nothing for a single queue.                   *)
persist(durable, entry) ==
    IF MessageModel = "CLUSTERING" /\ entry # NoOffset
    THEN {durable, entry} ELSE {durable}

(* removeOffset(mq): the local file store keeps its entries.               *)
removeOffset(entry) ==
    IF MessageModel = "CLUSTERING" THEN NoOffset ELSE entry

(* The broker's offset; nothing, which every error answer counts as; or 0, *)
(* when there is no answer.                                                *)
queryConsumerOffset(durable) == {durable, NoOffset, 0}

(* The file's entry, or nothing when the file cannot be decoded.           *)
readOffsetFromLocal(durable) == {durable, NoOffset}

(* What readOffset(mq, READ_FROM_STORE) may find.                          *)
readOffset(durable) ==
    IF MessageModel = "CLUSTERING" THEN queryConsumerOffset(durable)
                                   ELSE readOffsetFromLocal(durable)

(* persistAll, every 5 s: a queue still in the table is written; when only *)
(* other queues are, the broker store forgets the entry and the file store *)
(* writes its file without it.  An empty table writes nothing, and a lost  *)
(* oneway changes nothing.                                                 *)
PersistAll(c) ==
    /\ \/ /\ MessageModel = "CLUSTERING"
          /\ table[c] # NoQueue
          /\ store[c] # NoOffset
          /\ committed' = store[c]
          /\ UNCHANGED store
       \/ /\ MessageModel = "CLUSTERING"
          /\ table[c] = NoQueue
          /\ store' = [store EXCEPT ![c] = NoOffset]
          /\ UNCHANGED committed
       \/ /\ MessageModel = "BROADCASTING"
          /\ committed' = IF table[c] # NoQueue THEN store[c] ELSE NoOffset
          /\ UNCHANGED store
    /\ UNCHANGED <<queueVars, consumeVars, minOffset>>

-----------------------------------------------------------------------------
(* Rebalance.                                                              *)

(* Where the queue may end at the broker asked: messages arrive all the    *)
(* time, and a broker that took over may not have all of them.             *)
QueueEnds == minOffset .. MaxOffset

(* Mutation: the end of the queue is also taken where an offset was found. *)
computePullFromWhere_IgnoresStore(last) == QueueEnds

(* The broker's answers to questions about the queue, or 0 when there is   *)
(* none.                                                                   *)
maxOffset == QueueEnds \cup {0}

searchOffset == QueueEnds \cup {0}

(* The offset that was found, or else the beginning or the end of the      *)
(* queue or what the broker has for a time.                                *)
computePullFromWhere(last) ==
    IF last # NoOffset THEN {last}
    ELSE CASE ConsumeFromWhere = "CONSUME_FROM_FIRST_OFFSET" -> {0}
           [] ConsumeFromWhere = "CONSUME_FROM_LAST_OFFSET" ->
                 IF RetryTopic THEN {0} ELSE maxOffset
           [] ConsumeFromWhere = "CONSUME_FROM_TIMESTAMP" ->
                 IF RetryTopic THEN maxOffset ELSE searchOffset

(* The messages a client passes over when it starts without an offset.     *)
Skipped(last, next) ==
    IF last = NoOffset THEN {o \in Matching : o < next} ELSE {}

(* A queue newly allocated to c.  An offset that was read goes to the      *)
(* store.  When there is none and none can be computed (the broker has no  *)
(* address, or refuses), the queue is left to the next rebalance.          *)
AssignQueue(c) ==
    /\ table[c] = NoQueue
    /\ \E p \in ProcessQueues, last \in readOffset(committed) :
        \E next \in computePullFromWhere(last) :
            /\ pull[p] = "unused"
            /\ store' = [store EXCEPT ![c] = IF last = NoOffset THEN @ ELSE last]
            /\ nextOffset' = [nextOffset EXCEPT ![p] = next]
            /\ discarded' = discarded \cup Skipped(last, next)
            /\ owner' = [owner EXCEPT ![p] = c]
            /\ pull' = [pull EXCEPT ![p] = "queued"]
            /\ table' = [table EXCEPT ![c] = p]
    /\ UNCHANGED <<pq, committed, requests, retries, handled, overruled, minOffset>>

(* A queue no longer c's, or whose broker changed master: setDroped, then  *)
(* removeUnnecessaryMessageQueue persists and forgets the offset.          *)
RemoveQueue(c) ==
    /\ table[c] # NoQueue
    /\ pq' = [pq EXCEPT ![table[c]] = setDroped(@)]
    /\ committed' \in persist(committed, store[c])
    /\ store' = [store EXCEPT ![c] = removeOffset(@)]
    /\ table' = [table EXCEPT ![c] = NoQueue]
    /\ UNCHANGED <<owner, pull, nextOffset, consumeVars, minOffset>>

(* truncateMessageQueueNotMyTopic after unsubscribe: dropped, and nothing  *)
(* is done to its offset.                                                  *)
TruncateQueue(c) ==
    /\ table[c] # NoQueue
    /\ pq' = [pq EXCEPT ![table[c]] = setDroped(@)]
    /\ table' = [table EXCEPT ![c] = NoQueue]
    /\ UNCHANGED <<owner, pull, nextOffset, offsetVars, consumeVars, minOffset>>

-----------------------------------------------------------------------------
(* Submitting messages to the pool: the list is cut in batches.            *)

Rank(msgs, o) == Cardinality({x \in msgs : x < o})

Batches(msgs) ==
    {{o \in msgs : Rank(msgs, o) \div BatchSize = Rank(msgs, x) \div BatchSize} :
        x \in msgs}

submitConsumeRequest(p, msgs) ==
    {Request(p, b, "submitted", NoOffset) : b \in Batches(msgs)}

-----------------------------------------------------------------------------
(* The pull cycle.                                                         *)

(* pullMessage on a dropped queue: deleted once its map is empty, tried    *)
(* again later otherwise.  Nothing of a deleted object is read again.      *)
PullDropped(p) ==
    /\ pull[p] = "queued"
    /\ pq[p].droped
    /\ pq[p].msgTreeMap = {}
    /\ pull' = [pull EXCEPT ![p] = "deleted"]
    /\ pq' = [pq EXCEPT ![p] = NewProcessQueue]
    /\ nextOffset' = [nextOffset EXCEPT ![p] = 0]
    /\ UNCHANGED <<owner, table, offsetVars, consumeVars, minOffset>>

(* The guards of pullMessage; a request held back by one of them is put    *)
(* back on a timer, where it already is.                                   *)
PullAllowed(p) ==
    /\ pull[p] = "queued"
    /\ ~pq[p].droped
    /\ pq[p].msgCount <= PullThreshold
    /\ getMaxSpan(pq[p]) <= MaxSpan

(* A pull carries the in-memory offset for the broker to commit when it is *)
(* positive (CLUSTERING); a slave is not asked to, and the request may be  *)
(* lost on the way.                                                        *)
pullKernelImpl(durable, entry) ==
    IF entry > 0 THEN persist(durable, entry) ELSE {durable}

PullSend(p) ==
    /\ PullAllowed(p)
    /\ pull' = [pull EXCEPT ![p] = "pulling"]
    /\ committed' \in pullKernelImpl(committed, store[owner[p]])
    /\ UNCHANGED <<pq, owner, nextOffset, table, store, consumeVars, minOffset>>

(* No connection to the broker: invokeAsync returns -1 without calling the *)
(* callback and without an exception, and nobody holds the request.        *)
PullNotConnected(p) ==
    /\ PullAllowed(p)
    /\ pull' = [pull EXCEPT ![p] = "lost"]
    /\ UNCHANGED <<pq, owner, nextOffset, table, offsetVars, consumeVars, minOffset>>

(* The broker's messages from one offset up to another, filtered again:    *)
(* those with another tag are deleted.                                     *)
processPullResult(from, to) == {o \in Matching : from <= o /\ o < to}

(* onSuccess, FOUND: what is left of the messages up to nextBeginOffset n. *)
PullFound(p) ==
    /\ pull[p] = "pulling"
    /\ minOffset <= nextOffset[p]
    /\ \E n \in (nextOffset[p] + 1) .. MaxOffset :
        LET found == processPullResult(nextOffset[p], n)
        IN  /\ nextOffset' = [nextOffset EXCEPT ![p] = n]
            /\ pq' = [pq EXCEPT ![p] = putMessage(@, found)]
            /\ requests' = requests \cup submitConsumeRequest(p, found)
    /\ pull' = [pull EXCEPT ![p] = "queued"]
    /\ UNCHANGED <<owner, table, offsetVars, retries, handled, discarded,
                   overruled, minOffset>>

(* onSuccess, NO_NEW_MSG or NO_MATCHED_MSG: correctTagsOffset moves the    *)
(* offset past filtered messages when the buffer is empty.                 *)
PullNotFound(p) ==
    /\ pull[p] = "pulling"
    /\ minOffset <= nextOffset[p]
    /\ \E n \in nextOffset[p] .. MaxOffset :
        /\ processPullResult(nextOffset[p], n) = {}
        /\ nextOffset' = [nextOffset EXCEPT ![p] = n]
        /\ store' = IF pq[p].msgCount = 0
                    THEN [store EXCEPT ![owner[p]] = updateOffset(@, n, TRUE)]
                    ELSE store
    /\ pull' = [pull EXCEPT ![p] = "queued"]
    /\ UNCHANGED <<pq, owner, table, committed, consumeVars, minOffset>>

(* onSuccess, OFFSET_ILLEGAL: the broker does not have the offset.  It is  *)
(* below the messages it still keeps, or beyond the end of its queue (a    *)
(* slave lags behind, a master was replaced), and the broker answers with  *)
(* an offset of its own choice, which may be below, inside or above what   *)
(* is buffered.  The queue is dropped, and a 10 s timer will store that    *)
(* offset.                                                                 *)
PullOffsetIllegal(p) ==
    /\ pull[p] = "pulling"
    /\ \E nextBeginOffset \in Offsets :
        nextOffset' = [nextOffset EXCEPT ![p] = nextBeginOffset]
    /\ pq' = [pq EXCEPT ![p] = setDroped(@)]
    /\ pull' = [pull EXCEPT ![p] = "correcting"]
    /\ UNCHANGED <<owner, table, offsetVars, consumeVars, minOffset>>

(* onException: timeout, send failure or broker error; tried again later.  *)
PullException(p) ==
    /\ pull[p] = "pulling"
    /\ pull' = [pull EXCEPT ![p] = "queued"]
    /\ UNCHANGED <<pq, owner, nextOffset, table, offsetVars, consumeVars, minOffset>>

(* The messages below x that nobody has dealt with.                        *)
Unsettled(x) ==
    {o \in Matching : minOffset <= o /\ o < x} \ (handled \cup discarded)

(* ExecutePullTaskLater: updateOffset and persist, then removeProcessQueue *)
(* on whatever object the table now has for the queue, which persists and  *)
(* forgets the offset once more.  Nothing keeps the PullRequest.           *)
CorrectOffset(p) ==
    LET c == owner[p]
    IN  /\ pull[p] = "correcting"
        /\ committed' \in persist(committed, nextOffset[p])
        /\ IF table[c] = NoQueue
           THEN /\ store' = [store EXCEPT ![c] = nextOffset[p]]
                /\ UNCHANGED <<pq, table>>
           ELSE /\ store' = [store EXCEPT ![c] = removeOffset(nextOffset[p])]
                /\ pq' = [pq EXCEPT ![table[c]] = setDroped(@)]
                /\ table' = [table EXCEPT ![c] = NoQueue]
        /\ pull' = [pull EXCEPT ![p] = "forgotten"]
        /\ nextOffset' = [nextOffset EXCEPT ![p] = 0]
        /\ overruled' = overruled \cup Unsettled(nextOffset[p])
        /\ UNCHANGED <<owner, requests, retries, handled, discarded,
                       minOffset>>

-----------------------------------------------------------------------------
(* Concurrent consumption: ConsumeConcurrentlyRequest::Do on pool threads. *)

(* Mutation: a dropped queue's request is deleted, its messages stay in    *)
(* the map.                                                                *)
discardMessages_Keeps(q, msgs) == q

discardMessages(q, msgs) == removeMessage(q, msgs)

(* The thread finds the queue dropped: the messages are removed unconsumed *)
(* and the returned offset is ignored.                                     *)
DiscardRequest(r) ==
    /\ r.st = "submitted"
    /\ pq[r.q].droped
    /\ pq' = [pq EXCEPT ![r.q] = discardMessages(@, r.msgs)]
    /\ requests' = requests \ {r}
    /\ discarded' = discarded \cup r.msgs
    /\ UNCHANGED <<owner, pull, nextOffset, table, offsetVars, retries, handled,
                   overruled, minOffset>>

StartListener(r) ==
    /\ r.st = "submitted"
    /\ ~pq[r.q].droped
    /\ requests' = (requests \ {r})
                   \cup {Request(r.q, r.msgs, "consuming", NoOffset)}
    /\ UNCHANGED <<queueVars, offsetVars, retries, handled, discarded, overruled,
                   minOffset>>

(* Mutation: the messages that could not be sent back stay in the request. *)
stillRequested_All(msgs, kept) == msgs

(* msgs after the failed ones are erased from the request's list.          *)
stillRequested(msgs, kept) == msgs \ kept

(* Mutation: the failed list is built and never scheduled.                 *)
submitConsumeRequestLater_Lost(p, kept) == {}

(* The 5 s timer for the messages that could not be sent back, if any.     *)
submitConsumeRequestLater(p, kept) ==
    IF kept = {} THEN {} ELSE {Retry(p, kept)}

(* The listener returns; processConsumeResult up to removeMessage.  The    *)
(* messages below ack succeeded (all, some, or none of them).  In          *)
(* CLUSTERING each other one is sent back to the broker, and those that    *)
(* cannot be sent back leave the request for a 5 s timer; in BROADCASTING  *)
(* the failed ones are given up.                                           *)
ListenerReturns(r, back) ==
    /\ r.st = "consuming"
    /\ \E ack \in Offsets :
        LET failed == {o \in r.msgs : ack <= o}
            kept == IF MessageModel = "CLUSTERING" THEN failed \ back ELSE {}
        IN  /\ handled' = handled \cup (r.msgs \ kept)
            /\ requests' = (requests \ {r})
                   \cup {Request(r.q, stillRequested(r.msgs, kept), "removing", NoOffset)}
            /\ retries' = retries \cup submitConsumeRequestLater(r.q, kept)
    /\ UNCHANGED <<queueVars, offsetVars, discarded, overruled, minOffset>>

(* removeMessage under the queue's lock; the offset it returns is stored   *)
(* after the unlock.                                                       *)
RemoveConsumed(r) ==
    LET offset == removeMessageResult(pq[r.q], r.msgs)
    IN  /\ r.st = "removing"
        /\ pq' = [pq EXCEPT ![r.q] = removeMessage(@, r.msgs)]
        /\ requests' = (requests \ {r}) \cup
               (IF offset >= 0 THEN {Request(r.q, {}, "updating", offset)} ELSE {})
        /\ UNCHANGED <<owner, pull, nextOffset, table, offsetVars, retries,
                       handled, discarded, overruled, minOffset>>

StoreOffset(r) ==
    /\ r.st = "updating"
    /\ store' = [store EXCEPT ![owner[r.q]] = updateOffset(@, r.offset, TRUE)]
    /\ requests' = requests \ {r}
    /\ UNCHANGED <<queueVars, committed, retries, handled, discarded, overruled,
                   minOffset>>

RetryTimeout(t) ==
    /\ retries' = retries \ {t}
    /\ requests' = requests \cup submitConsumeRequest(t.q, t.msgs)
    /\ UNCHANGED <<queueVars, offsetVars, handled, discarded, overruled, minOffset>>

-----------------------------------------------------------------------------
(* Environment.                                                            *)

(* The process dies; a new one starts with what load() reads: nothing from *)
(* the broker store, the file's entry from the local one.                  *)
Crash(c) ==
    LET mine == {p \in ProcessQueues : owner[p] = c}
    IN  /\ mine # {}
        /\ pq' = [p \in ProcessQueues |-> IF p \in mine THEN NewProcessQueue ELSE pq[p]]
        /\ pull' = [p \in ProcessQueues |-> IF p \in mine THEN "deleted" ELSE pull[p]]
        /\ nextOffset' = [p \in ProcessQueues |-> IF p \in mine THEN 0 ELSE nextOffset[p]]
        /\ table' = [table EXCEPT ![c] = NoQueue]
        /\ store' = [store EXCEPT ![c] =
               IF MessageModel = "BROADCASTING" THEN committed ELSE NoOffset]
        /\ requests' = {r \in requests : r.q \notin mine}
        /\ retries' = {t \in retries : t.q \notin mine}
        /\ UNCHANGED <<owner, committed, handled, discarded, overruled, minOffset>>

(* The broker deletes its oldest message (it keeps messages for a limited  *)
(* time, consumed or not).                                                 *)
BrokerExpires ==
    /\ minOffset < MaxExpired
    /\ minOffset' = minOffset + 1
    /\ UNCHANGED <<queueVars, offsetVars, consumeVars>>

Next ==
    \/ \E c \in Clients : PersistAll(c)
    \/ \E c \in Clients : AssignQueue(c)
    \/ \E c \in Clients : RemoveQueue(c)
    \/ \E c \in Clients : TruncateQueue(c)
    \/ \E c \in Clients : Crash(c)
    \/ \E p \in ProcessQueues : PullDropped(p)
    \/ \E p \in ProcessQueues : PullSend(p)
    \/ \E p \in ProcessQueues : PullNotConnected(p)
    \/ \E p \in ProcessQueues : PullFound(p)
    \/ \E p \in ProcessQueues : PullNotFound(p)
    \/ \E p \in ProcessQueues : PullOffsetIllegal(p)
    \/ \E p \in ProcessQueues : PullException(p)
    \/ \E p \in ProcessQueues : CorrectOffset(p)
    \/ \E r \in requests : DiscardRequest(r)
    \/ \E r \in requests : StartListener(r)
    \/ \E r \in requests : \E back \in SUBSET r.msgs : ListenerReturns(r, back)
    \/ \E r \in requests : RemoveConsumed(r)
    \/ \E r \in requests : StoreOffset(r)
    \/ \E t \in retries : RetryTimeout(t)
    \/ BrokerExpires

Spec == Init /\ [][Next]_vars

-----------------------------------------------------------------------------
(* Safety.                                                                 *)

(* Every message below x was dealt with, or the broker had its way.        *)
Settled(x) ==
    \A o \in Matching : minOffset <= o /\ o < x =>
        o \in handled \cup discarded \cup overruled

(* A message below the durable offset will not be pulled again by anyone:  *)
(* whatever pool threads, retry timers, late results of an earlier         *)
(* assignment, lost updates and crashes do, it was consumed, was sent back *)
(* to the broker, expired there, was removed by a request that found its   *)
(* queue dropped, precedes the start of a client that found no offset, or  *)
(* precedes an offset that the broker imposed with OFFSET_ILLEGAL          *)
(* (processConsumeResult, updateOffset, persistAll, computePullFromWhere,  *)
(* ExecutePullTaskLater).                                                  *)
CommittedIsSettled == Settled(committed)

(* Nothing that was pulled is passed over unconsumed.  The code departs    *)
(* from this: a broker that answers OFFSET_ILLEGAL because its own queue   *)
(* is shorter makes the client store an offset above buffered messages.    *)
NothingOverruled == overruled = {}

(* The 10 s before a correction are there so that "the updated offset is   *)
(* not overwritten" by requests of the dropped queue.  The code departs    *)
(* from this: a listener may run for longer.                               *)
CorrectionStands ==
    \A r \in requests : pull[r.q] = "forgotten" => r.st # "updating"

(* removeMessage returns "the smallest offset, whose message has not been  *)
(* consumed" (ProcessQueue.h): no message below the offset about to be     *)
(* stored is unconsumed. The code departs from this: a request that finds  *)
(* its queue dropped removes messages that nobody consumed.                *)
ReturnedOffsetIsConsumed ==
    \A r \in requests : r.st = "updating" =>
        \A o \in Matching : minOffset <= o /\ o < r.offset => o \in handled

(* Messages are passed over only when a group "registers for the first     *)
(* time" (queryConsumerOffset).  The code departs from this: every error   *)
(* answer to the query is taken for a first registration.                  *)
SkippedOnlyAtFirst ==
    [][discarded' # discarded /\ UNCHANGED requests => committed = NoOffset]_vars

(* Everything a request or a timer holds is buffered, and the reverse.     *)
HeldIsBuffered ==
    /\ \A r \in requests : r.msgs \subseteq pq[r.q].msgTreeMap
    /\ \A t \in retries : t.msgs \subseteq pq[t.q].msgTreeMap

BufferedIsHeld ==
    \A p \in ProcessQueues : \A o \in pq[p].msgTreeMap :
        \/ \E r \in requests : r.q = p /\ o \in r.msgs
        \/ \E t \in retries : t.q = p /\ o \in t.msgs

HoldersDisjoint ==
    /\ \A r, s \in requests : r.q = s.q /\ r # s => r.msgs \cap s.msgs = {}
    /\ \A t, u \in retries : t.q = u.q /\ t # u => t.msgs \cap u.msgs = {}
    /\ \A r \in requests, t \in retries : r.q = t.q => r.msgs \cap t.msgs = {}

(* Each buffered message belongs to exactly one request or retry timer:    *)
(* none is orphaned (its queue's offset would stop for ever), none is held *)
(* twice (the request's destructor and the retry would both free it).      *)
EachMessageHeldOnce == HeldIsBuffered /\ BufferedIsHeld /\ HoldersDisjoint

(* m_msgCount, changed apart from the map and read without its lock by     *)
(* flow control and correctTagsOffset, is the number of buffered messages. *)
CountIsExact ==
    \A p \in ProcessQueues : pq[p].msgCount = Cardinality(pq[p].msgTreeMap)

(* A client's current queue always has a PullRequest on its way            *)
(* (pullMessage retries not to lose it). The code departs from this:       *)
(* without a connection invokeAsync neither calls back nor throws.         *)
PullRequestKept ==
    \A c \in Clients : table[c] # NoQueue => pull[table[c]] # "lost"

-----------------------------------------------------------------------------
(* Why CommittedIsSettled holds: the parts of an inductive invariant.      *)

(* Not only the durable offset but every offset that may become it.        *)
OffsetsSettled ==
    /\ Settled(committed)
    /\ \A c \in Clients : Settled(store[c])
    /\ \A r \in requests : r.st = "updating" => Settled(r.offset)

(* What has become of message o, which object p pulled: still buffered,    *)
(* dealt with, or passed over at the broker's word.                        *)
Accounted(p, o) ==
    o \in pq[p].msgTreeMap \cup handled \cup discarded \cup overruled

(* The objects whose m_nextOffset is the broker's answer to an illegal     *)
(* pull and no longer the end of what they pulled.                         *)
Corrected(p) == pull[p] \in {"correcting", "forgotten"}

(* What a live object pulled is accounted for.                             *)
PulledIsAccounted ==
    \A p \in ProcessQueues, o \in Matching :
        /\ pull[p] # "deleted" /\ ~Corrected(p) /\ minOffset <= o /\ o < nextOffset[p]
              => Accounted(p, o)
        /\ pq[p].msgTreeMap # {} /\ minOffset <= o /\ o <= pq[p].queueOffsetMax
              => Accounted(p, o)

(* A buffered message was pulled, and so was the one with the largest      *)
(* offset removeMessage falls back on.                                     *)
BufferedWasPulled ==
    \A p \in ProcessQueues : pq[p].msgTreeMap # {} =>
        /\ pull[p] \notin {"unused", "deleted"}
        /\ pq[p].queueOffsetMax \in Matching
        /\ Corrected(p) \/ pq[p].queueOffsetMax < nextOffset[p]
        /\ \A o \in pq[p].msgTreeMap : o <= pq[p].queueOffsetMax

(* A request removes only messages that were handled, and then holds none. *)
RemovedWasHandled ==
    \A r \in requests :
        /\ r.st = "removing" => r.msgs \subseteq handled
        /\ r.st = "updating" => r.msgs = {}

OwnerIsClient ==
    \A p \in ProcessQueues : pull[p] # "unused" => owner[p] \in Clients

(* The induction: no step of any thread, timer or message breaks one part  *)
(* of the accounting that ties buffers, requests, timers, the in-memory    *)
(* and the durable offset together.                                        *)
AccountingInv ==
    /\ TypeOK
    /\ EachMessageHeldOnce
    /\ CountIsExact
    /\ OffsetsSettled
    /\ PulledIsAccounted
    /\ BufferedWasPulled
    /\ RemovedWasHandled
    /\ OwnerIsClient

(* The abstract specification: a message has been dealt with when it was   *)
(* handled or discarded.                                                   *)
AO == INSTANCE AtLeastOnce WITH
    Messages <- Matching,
    Positions <- Offsets \cup {NoOffset},
    settled <- handled \cup discarded,
    expired <- minOffset

(* The consumers implement it: no step of a pool thread, a timer, a pull,  *)
(* rebalance or a crash moves the durable offset (persist, persistAll, the *)
(* offset that a pull carries) past a message that is not dealt with, or   *)
(* does so while it changes anything else of the promise.                  *)
ImplementsAtLeastOnce == AO!Spec

-----------------------------------------------------------------------------
(* Liveness.                                                               *)

(* Pool threads and timers run, the listener returns, and a message is not *)
(* refused by the broker for ever; the broker answers pulls.               *)
Fairness ==
    /\ WF_vars(\E r \in requests : DiscardRequest(r))
    /\ WF_vars(\E r \in requests : StartListener(r))
    /\ SF_vars(\E r \in requests : ListenerReturns(r, r.msgs))
    /\ WF_vars(\E r \in requests : RemoveConsumed(r))
    /\ WF_vars(\E r \in requests : StoreOffset(r))
    /\ WF_vars(\E t \in retries : RetryTimeout(t))
    /\ \A p \in ProcessQueues :
        /\ WF_vars(PullDropped(p))
        /\ WF_vars(PullFound(p) \/ PullNotFound(p) \/ PullOffsetIllegal(p)
                   \/ PullException(p))

FairSpec == Spec /\ Fairness

(* No message stays buffered for ever: it is consumed, sent back, retried  *)
(* until one of these works, or discarded with its queue.                  *)
MessagesDrain ==
    \A p \in ProcessQueues, o \in Matching :
        o \in pq[p].msgTreeMap ~> o \notin pq[p].msgTreeMap

(* A dropped queue whose PullRequest is not being corrected is freed.      *)
DroppedIsFreed ==
    \A p \in ProcessQueues :
        pq[p].droped /\ pull[p] = "queued" ~> pull[p] = "deleted"
=============================================================================
