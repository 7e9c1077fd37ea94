------------------------- MODULE PushConsumerProofs -------------------------
(***************************************************************************)
(* CommittedIsSettled, EachMessageHeldOnce and CountIsExact of             *)
(* PushConsumer for any number of clients, assignments and messages, and   *)
(* that it implements AtLeastOnce.  The induction is on AccountingInv; one *)
(* lemma per action.                                                       *)
(***************************************************************************)
EXTENDS PushConsumer, OperatorProofs

(* The offsets a message can have are bounded by those of the queue.       *)
LEMMA MatchingBounded ==
    /\ MaxOffset - 1 \in Int
    /\ Matching \in SUBSET (0 .. (MaxOffset - 1))
    /\ Bounded(Matching)
    /\ \A o \in Matching : o \in Int /\ 0 <= o /\ o < MaxOffset
<1>1. MaxOffset \in Nat /\ Matching \subseteq 0 .. (MaxOffset - 1)
    BY ConstantsAssumption
<1>2. Bounded(Matching)
  <2> DEFINE n == MaxOffset - 1
  <2>1. n \in Int /\ Matching \in SUBSET (0 .. n)
    BY <1>1
  <2> HIDE DEF n
  <2> QED
    BY <2>1, Zenon DEF Bounded
<1> QED
    BY <1>1, <1>2

(* setDroped changes nothing but the flag.                                 *)
LEMMA SetDroped ==
    ASSUME NEW q \in ProcessQueueType(Matching)
    PROVE  /\ setDroped(q) \in ProcessQueueType(Matching)
           /\ setDroped(q).msgTreeMap = q.msgTreeMap
           /\ setDroped(q).msgCount = q.msgCount
           /\ setDroped(q).queueOffsetMax = q.queueOffsetMax
BY DEF setDroped, ProcessQueueType

(* A step that touches neither the buffers' contents nor their holders     *)
(* keeps the accounting of messages.                                       *)
LEMMA BuffersFrame ==
    ASSUME EachMessageHeldOnce, CountIsExact,
           UNCHANGED <<requests, retries>>,
           \A p \in ProcessQueues :
               /\ pq'[p].msgTreeMap = pq[p].msgTreeMap
               /\ pq'[p].msgCount = pq[p].msgCount,
           TypeOK
    PROVE  EachMessageHeldOnce' /\ CountIsExact'
<1>1. \A r \in requests : r.q \in ProcessQueues
    BY DEF TypeOK, RequestType
<1>2. \A t \in retries : t.q \in ProcessQueues
    BY DEF TypeOK, RetryType
<1>3. HeldIsBuffered'
    BY <1>1, <1>2 DEF EachMessageHeldOnce, HeldIsBuffered
<1>4. BufferedIsHeld'
    BY DEF EachMessageHeldOnce, BufferedIsHeld
<1>5. HoldersDisjoint'
    BY DEF EachMessageHeldOnce, HoldersDisjoint
<1>6. CountIsExact'
    BY DEF CountIsExact
<1> QED
    BY <1>3, <1>4, <1>5, <1>6 DEF EachMessageHeldOnce

(* A step that only drops objects or moves PullRequests, and leaves every  *)
(* offset, in memory and durable, at one already accounted for.            *)
LEMMA OffsetsFrame ==
    ASSUME AccountingInv, TypeOK',
           UNCHANGED <<requests, retries, handled, discarded, overruled, minOffset>>,
           \A p \in ProcessQueues :
               /\ pq'[p].msgTreeMap = pq[p].msgTreeMap
               /\ pq'[p].msgCount = pq[p].msgCount
               /\ pq'[p].queueOffsetMax = pq[p].queueOffsetMax,
           Settled(committed)', \A c \in Clients : Settled(store'[c]),
           PulledIsAccounted', BufferedWasPulled', OwnerIsClient'
    PROVE  AccountingInv'
<1>1. EachMessageHeldOnce' /\ CountIsExact'
    BY BuffersFrame DEF AccountingInv
<1>2. OffsetsSettled'
    BY DEF AccountingInv, OffsetsSettled, Settled
<1>3. RemovedWasHandled'
    BY DEF AccountingInv, RemovedWasHandled
<1> QED
    BY <1>1, <1>2, <1>3 DEF AccountingInv

-----------------------------------------------------------------------------
LEMMA InitStep == Init => AccountingInv
<1> SUFFICES ASSUME Init PROVE AccountingInv
    OBVIOUS
<1> USE DEF Init
<1>1. NewProcessQueue \in ProcessQueueType(Matching)
    BY DEF NewProcessQueue, ProcessQueueType
<1>2. 0 \in Offsets
    BY ConstantsAssumption DEF Offsets
<1>3. TypeOK
    BY <1>1, <1>2 DEF TypeOK, PullStates, NoOffset
<1>4. \A p \in ProcessQueues :
          pq[p].msgTreeMap = {} /\ pq[p].msgCount = 0 /\ nextOffset[p] = 0
    BY DEF NewProcessQueue
<1>5. EachMessageHeldOnce
    BY <1>4 DEF EachMessageHeldOnce, HeldIsBuffered, BufferedIsHeld, HoldersDisjoint
<1>6. CountIsExact
    BY <1>4, FS_EmptySet DEF CountIsExact
<1>7. OffsetsSettled
    BY MatchingBounded DEF OffsetsSettled, Settled, NoOffset
<1>8. PulledIsAccounted
    BY <1>4, MatchingBounded DEF PulledIsAccounted, Accounted, Corrected
<1>9. BufferedWasPulled /\ RemovedWasHandled /\ OwnerIsClient
    BY <1>4 DEF BufferedWasPulled, Corrected, RemovedWasHandled, OwnerIsClient
<1> QED
    BY <1>3, <1>5, <1>6, <1>7, <1>8, <1>9 DEF AccountingInv

LEMMA PersistAllStep ==
    ASSUME AccountingInv, NEW c \in Clients, PersistAll(c)
    PROVE  AccountingInv'
<1> USE DEF PersistAll, queueVars, consumeVars
<1>1. TypeOK'
    BY DEF AccountingInv, TypeOK
<1>2. Settled(committed)'
    BY MatchingBounded DEF AccountingInv, OffsetsSettled, Settled, NoOffset, TypeOK
<1>3. \A d \in Clients : Settled(store'[d])
    BY MatchingBounded DEF AccountingInv, OffsetsSettled, Settled, NoOffset, TypeOK
<1>4. PulledIsAccounted' /\ BufferedWasPulled' /\ OwnerIsClient'
    BY DEF AccountingInv, PulledIsAccounted, Accounted, Corrected, BufferedWasPulled, OwnerIsClient
<1> QED
    BY <1>1, <1>2, <1>3, <1>4, OffsetsFrame

(* computePullFromWhere gives an offset of the queue, and what it passes   *)
(* over is counted as discarded.                                           *)
LEMMA StartSettled ==
    ASSUME AccountingInv, NEW last \in readOffset(committed),
           NEW next \in computePullFromWhere(last)
    PROVE  /\ last \in Offsets \cup {NoOffset} /\ Settled(last)
           /\ next \in Offsets
           /\ Skipped(last, next) \subseteq Matching
           /\ \A o \in Matching : minOffset <= o /\ o < next =>
                 o \in handled \cup discarded \cup overruled \cup Skipped(last, next)
<1>1. 0 \in Offsets
    BY ConstantsAssumption DEF Offsets
<1>2. last \in Offsets \cup {NoOffset} /\ Settled(last)
    BY <1>1, MatchingBounded
       DEF readOffset, queryConsumerOffset, readOffsetFromLocal,
           AccountingInv, OffsetsSettled, Settled, TypeOK, NoOffset
<1>3. CASE last # NoOffset
    BY <1>2, <1>3 DEF computePullFromWhere, Skipped, Settled
<1>4. CASE last = NoOffset
  <2>1. minOffset .. MaxOffset \subseteq Offsets
      BY ConstantsAssumption DEF AccountingInv, TypeOK, Offsets
  <2>2. next \in Offsets
      BY <1>1, <1>4, <2>1, ConstantsAssumption
         DEF computePullFromWhere, maxOffset, searchOffset, QueueEnds, StartingPoints
  <2> QED
      BY <1>2, <1>4, <2>2 DEF Skipped
<1> QED
    BY <1>3, <1>4

LEMMA AssignQueueStep ==
    ASSUME AccountingInv, NEW c \in Clients, AssignQueue(c)
    PROVE  AccountingInv'
<1>1. PICK p \in ProcessQueues, last \in readOffset(committed) :
        \E next \in computePullFromWhere(last) :
            /\ pull[p] = "unused"
            /\ store' = [store EXCEPT ![c] = IF last = NoOffset THEN @ ELSE last]
            /\ nextOffset' = [nextOffset EXCEPT ![p] = next]
            /\ discarded' = discarded \cup Skipped(last, next)
            /\ owner' = [owner EXCEPT ![p] = c]
            /\ pull' = [pull EXCEPT ![p] = "queued"]
            /\ table' = [table EXCEPT ![c] = p]
    BY DEF AssignQueue
<1>2. PICK next \in computePullFromWhere(last) :
        /\ pull[p] = "unused"
        /\ store' = [store EXCEPT ![c] = IF last = NoOffset THEN @ ELSE last]
        /\ nextOffset' = [nextOffset EXCEPT ![p] = next]
        /\ discarded' = discarded \cup Skipped(last, next)
        /\ owner' = [owner EXCEPT ![p] = c]
        /\ pull' = [pull EXCEPT ![p] = "queued"]
        /\ table' = [table EXCEPT ![c] = p]
    BY <1>1
<1>3. UNCHANGED <<pq, committed, requests, retries, handled, overruled, minOffset>>
    BY DEF AssignQueue
<1>4. /\ last \in Offsets \cup {NoOffset} /\ Settled(last)
      /\ next \in Offsets
      /\ discarded \subseteq discarded' /\ discarded' \subseteq Matching
      /\ \A o \in Matching : minOffset <= o /\ o < next =>
            o \in handled \cup discarded' \cup overruled
    BY <1>2, StartSettled DEF AccountingInv, TypeOK
<1> HIDE DEF NoOffset, Offsets
<1>5. TypeOK'
    BY <1>2, <1>3, <1>4 DEF AccountingInv, TypeOK, PullStates
<1>6. OffsetsSettled'
  <2>1. \A x : Settled(x) => Settled(x)'
      BY <1>3, <1>4 DEF Settled
  <2>2. \A d \in Clients : Settled(store'[d])
      BY <1>2, <1>4 DEF AccountingInv, OffsetsSettled, TypeOK
  <2> QED
      BY <1>3, <1>4, <2>2 DEF AccountingInv, OffsetsSettled, Settled
<1>7. PulledIsAccounted'
  <2> SUFFICES ASSUME NEW u \in ProcessQueues, NEW o \in Matching, minOffset <= o
               PROVE  /\ pull'[u] # "deleted" /\ ~Corrected(u)' /\ o < nextOffset'[u]
                            => Accounted(u, o)'
                      /\ pq'[u].msgTreeMap # {} /\ o <= pq'[u].queueOffsetMax
                            => Accounted(u, o)'
    BY <1>3 DEF PulledIsAccounted
  <2>1. CASE u = p
    <3>1. pq[u].msgTreeMap = {}
      BY <2>1, <1>2 DEF AccountingInv, BufferedWasPulled
    <3> QED
      BY <2>1, <3>1, <1>2, <1>3, <1>4 DEF AccountingInv, TypeOK, Accounted
  <2>2. CASE u # p
    BY <2>2, <1>2, <1>3, <1>4 DEF AccountingInv, PulledIsAccounted, Accounted, Corrected, TypeOK
  <2> QED
    BY <2>1, <2>2
<1>8. BufferedWasPulled'
    BY <1>2, <1>3 DEF AccountingInv, BufferedWasPulled, Corrected, TypeOK
<1>9. OwnerIsClient'
    BY <1>2, <1>3 DEF AccountingInv, OwnerIsClient, TypeOK
<1>10. EachMessageHeldOnce' /\ CountIsExact'
    BY <1>3, BuffersFrame DEF AccountingInv
<1>11. RemovedWasHandled'
    BY <1>3 DEF AccountingInv, RemovedWasHandled
<1> QED
    BY <1>5, <1>6, <1>7, <1>8, <1>9, <1>10, <1>11 DEF AccountingInv

(* persist leaves the durable offset, or makes the in-memory one durable.  *)
LEMMA PersistSettled ==
    ASSUME AccountingInv, NEW entry \in Offsets \cup {NoOffset}, Settled(entry),
           NEW durable \in persist(committed, entry)
    PROVE  durable \in Offsets \cup {NoOffset} /\ Settled(durable)
BY DEF persist, AccountingInv, TypeOK, OffsetsSettled

LEMMA RemoveOffsetSettled ==
    ASSUME NEW entry \in Offsets \cup {NoOffset}, Settled(entry), TypeOK
    PROVE  removeOffset(entry) \in Offsets \cup {NoOffset} /\ Settled(removeOffset(entry))
BY MatchingBounded DEF removeOffset, Settled, NoOffset, TypeOK

(* Dropping the client's current object changes no buffer.                 *)
LEMMA DropFrame ==
    ASSUME TypeOK, NEW p \in ProcessQueues, pq' = [pq EXCEPT ![p] = setDroped(@)]
    PROVE  /\ pq' \in [ProcessQueues -> ProcessQueueType(Matching)]
           /\ \A u \in ProcessQueues :
                 /\ pq'[u].msgTreeMap = pq[u].msgTreeMap
                 /\ pq'[u].msgCount = pq[u].msgCount
                 /\ pq'[u].queueOffsetMax = pq[u].queueOffsetMax
BY SetDroped DEF TypeOK

LEMMA RemoveQueueStep ==
    ASSUME AccountingInv, NEW c \in Clients, RemoveQueue(c)
    PROVE  AccountingInv'
<1> USE DEF consumeVars
<1>1. TypeOK /\ table[c] \in ProcessQueues
    BY DEF AccountingInv, TypeOK, RemoveQueue
<1>2. /\ pq' \in [ProcessQueues -> ProcessQueueType(Matching)]
      /\ \A u \in ProcessQueues :
            /\ pq'[u].msgTreeMap = pq[u].msgTreeMap
            /\ pq'[u].msgCount = pq[u].msgCount
            /\ pq'[u].queueOffsetMax = pq[u].queueOffsetMax
    BY <1>1, DropFrame DEF RemoveQueue
<1>3. store[c] \in Offsets \cup {NoOffset} /\ Settled(store[c])
    BY DEF AccountingInv, TypeOK, OffsetsSettled
<1>4. committed' \in Offsets \cup {NoOffset} /\ Settled(committed')
    BY <1>3, PersistSettled DEF RemoveQueue
<1>5. /\ removeOffset(store[c]) \in Offsets \cup {NoOffset}
      /\ Settled(removeOffset(store[c]))
    BY <1>1, <1>3, RemoveOffsetSettled
<1>6. TypeOK'
    BY <1>1, <1>2, <1>4, <1>5 DEF TypeOK, RemoveQueue
<1>7. Settled(committed)'
    BY <1>4 DEF Settled, RemoveQueue
<1>8. \A d \in Clients : Settled(store'[d])
    BY <1>1, <1>5 DEF AccountingInv, OffsetsSettled, TypeOK, RemoveQueue
<1>9. PulledIsAccounted' /\ BufferedWasPulled' /\ OwnerIsClient'
    BY <1>2 DEF AccountingInv, PulledIsAccounted, Accounted, Corrected, BufferedWasPulled, OwnerIsClient, RemoveQueue
<1> QED
    BY <1>2, <1>6, <1>7, <1>8, <1>9, OffsetsFrame DEF RemoveQueue

LEMMA TruncateQueueStep ==
    ASSUME AccountingInv, NEW c \in Clients, TruncateQueue(c)
    PROVE  AccountingInv'
<1> USE DEF consumeVars, offsetVars
<1>1. TypeOK /\ table[c] \in ProcessQueues
    BY DEF AccountingInv, TypeOK, TruncateQueue
<1>2. /\ pq' \in [ProcessQueues -> ProcessQueueType(Matching)]
      /\ \A u \in ProcessQueues :
            /\ pq'[u].msgTreeMap = pq[u].msgTreeMap
            /\ pq'[u].msgCount = pq[u].msgCount
            /\ pq'[u].queueOffsetMax = pq[u].queueOffsetMax
    BY <1>1, DropFrame DEF TruncateQueue
<1>3. TypeOK'
    BY <1>1, <1>2 DEF TypeOK, TruncateQueue
<1>4. Settled(committed)' /\ \A d \in Clients : Settled(store'[d])
    BY DEF AccountingInv, OffsetsSettled, Settled, TruncateQueue
<1>5. PulledIsAccounted' /\ BufferedWasPulled' /\ OwnerIsClient'
    BY <1>2 DEF AccountingInv, PulledIsAccounted, Accounted, Corrected, BufferedWasPulled, OwnerIsClient, TruncateQueue
<1> QED
    BY <1>2, <1>3, <1>4, <1>5, OffsetsFrame DEF TruncateQueue

(* An object is deleted only when its buffer is empty.                     *)
LEMMA PullDroppedStep ==
    ASSUME AccountingInv, NEW p \in ProcessQueues, PullDropped(p)
    PROVE  AccountingInv'
<1>1. TypeOK /\ CountIsExact
    BY DEF AccountingInv
<1>2. /\ pull[p] = "queued" /\ pq[p].msgTreeMap = {}
      /\ pull' = [pull EXCEPT ![p] = "deleted"]
      /\ pq' = [pq EXCEPT ![p] = NewProcessQueue]
      /\ nextOffset' = [nextOffset EXCEPT ![p] = 0]
      /\ UNCHANGED <<owner, table, store, committed, requests, retries, handled,
                     discarded, overruled, minOffset>>
    BY DEF PullDropped, offsetVars, consumeVars
<1>3. /\ NewProcessQueue \in ProcessQueueType(Matching)
      /\ NewProcessQueue.msgTreeMap = {} /\ NewProcessQueue.msgCount = 0
    BY DEF NewProcessQueue, ProcessQueueType
<1>4. pq[p].msgCount = 0
    BY <1>1, <1>2, FS_EmptySet DEF CountIsExact
<1>5. \A u \in ProcessQueues :
          /\ pq'[u].msgTreeMap = pq[u].msgTreeMap
          /\ pq'[u].msgCount = pq[u].msgCount
          /\ u # p => pq'[u] = pq[u]
    BY <1>1, <1>2, <1>3, <1>4 DEF TypeOK
<1>6. TypeOK'
  <2>1. 0 \in Offsets
    BY ConstantsAssumption DEF Offsets
  <2> QED
    BY <1>1, <1>2, <1>3, <2>1 DEF TypeOK, PullStates
<1>7. EachMessageHeldOnce' /\ CountIsExact'
    BY <1>2, <1>5, BuffersFrame DEF AccountingInv
<1>8. OffsetsSettled' /\ RemovedWasHandled'
    BY <1>2 DEF AccountingInv, OffsetsSettled, Settled, RemovedWasHandled
<1>9. PulledIsAccounted'
    BY <1>1, <1>2, <1>5 DEF AccountingInv, PulledIsAccounted, Accounted, Corrected, TypeOK
<1>10. BufferedWasPulled'
    BY <1>1, <1>2, <1>5 DEF AccountingInv, BufferedWasPulled, Corrected, TypeOK
<1>11. OwnerIsClient'
    BY <1>1, <1>2 DEF AccountingInv, OwnerIsClient, TypeOK
<1> QED
    BY <1>6, <1>7, <1>8, <1>9, <1>10, <1>11 DEF AccountingInv

(* Sending or losing a pull, and a pull that fails.                        *)
LEMMA PullMovesStep ==
    ASSUME AccountingInv, NEW p \in ProcessQueues,
           PullSend(p) \/ PullNotConnected(p) \/ PullException(p)
    PROVE  AccountingInv'
<1> USE DEF consumeVars, offsetVars
<1>1. TypeOK
    BY DEF AccountingInv
<1>2. PICK st \in PullStates :
          /\ pull' = [pull EXCEPT ![p] = st]
          /\ st \notin {"unused", "deleted"} /\ pull[p] \in {"queued", "pulling"}
          /\ UNCHANGED <<pq, owner, nextOffset, table, store>>
          /\ UNCHANGED <<requests, retries, handled, discarded, overruled, minOffset>>
    BY DEF PullSend, PullNotConnected, PullException, PullAllowed, PullStates
<1>3. committed' \in Offsets \cup {NoOffset} /\ Settled(committed')
  <2>1. CASE PullSend(p)
    <3>1. owner[p] \in Clients
      BY <1>2 DEF AccountingInv, OwnerIsClient
    <3>2. store[owner[p]] \in Offsets \cup {NoOffset} /\ Settled(store[owner[p]])
      BY <3>1 DEF AccountingInv, TypeOK, OffsetsSettled
    <3>3. committed' = committed \/ committed' \in persist(committed, store[owner[p]])
      BY <2>1 DEF PullSend, pullKernelImpl
    <3> QED
      BY <3>2, <3>3, PersistSettled DEF AccountingInv, TypeOK, OffsetsSettled
  <2>2. CASE ~PullSend(p)
    <3>1. committed' = committed
      BY <2>2 DEF PullNotConnected, PullException
    <3> QED
      BY <3>1 DEF AccountingInv, TypeOK, OffsetsSettled
  <2> QED
    BY <2>1, <2>2
<1>4. TypeOK'
    BY <1>1, <1>2, <1>3 DEF TypeOK
<1>5. Settled(committed)' /\ \A d \in Clients : Settled(store'[d])
    BY <1>2, <1>3 DEF AccountingInv, OffsetsSettled, Settled
<1>6. PulledIsAccounted'
    BY <1>2 DEF AccountingInv, PulledIsAccounted, Accounted, Corrected, TypeOK
<1>7. BufferedWasPulled'
    BY <1>2 DEF AccountingInv, BufferedWasPulled, Corrected, TypeOK
<1>8. OwnerIsClient'
    BY <1>2 DEF AccountingInv, OwnerIsClient, TypeOK
<1> QED
    BY <1>2, <1>4, <1>5, <1>6, <1>7, <1>8, OffsetsFrame

-----------------------------------------------------------------------------
(* submitConsumeRequest cuts a list in disjoint batches that cover it.     *)
LEMMA SubmitPartition ==
    ASSUME NEW p \in ProcessQueues, NEW msgs \in SUBSET Matching
    PROVE  /\ submitConsumeRequest(p, msgs) \subseteq RequestType
           /\ \A r \in submitConsumeRequest(p, msgs) :
                 r.q = p /\ r.msgs \subseteq msgs /\ r.st = "submitted"
           /\ \A o \in msgs : \E r \in submitConsumeRequest(p, msgs) : o \in r.msgs
           /\ \A r, s \in submitConsumeRequest(p, msgs) :
                 r # s => r.msgs \cap s.msgs = {}
<1> DEFINE f(o) == Rank(msgs, o) \div BatchSize
           class(x) == {o \in msgs : f(o) = f(x)}
           req(x) == Request(p, class(x), "submitted", NoOffset)
<1>1. ASSUME NEW r
      PROVE  r \in submitConsumeRequest(p, msgs) <=> \E x \in msgs : r = req(x)
    BY DEF submitConsumeRequest, Batches
<1> HIDE DEF f
<1>2. \A x \in msgs : x \in class(x) /\ class(x) \subseteq msgs
    OBVIOUS
<1>3. \A x, y \in msgs : class(x) \cap class(y) # {} => class(x) = class(y)
    OBVIOUS
<1> HIDE DEF class
<1>4. \A x \in msgs : /\ req(x) \in RequestType
                      /\ req(x).q = p
                      /\ req(x).msgs = class(x)
                      /\ req(x).st = "submitted"
    BY <1>2 DEF Request, RequestType, RequestStates
<1>5. \A x, y \in msgs : class(x) = class(y) => req(x) = req(y)
    OBVIOUS
<1> HIDE DEF req
<1>6. submitConsumeRequest(p, msgs) \subseteq RequestType
    BY <1>1, <1>4
<1>7. \A r \in submitConsumeRequest(p, msgs) :
          r.q = p /\ r.msgs \subseteq msgs /\ r.st = "submitted"
    BY <1>1, <1>2, <1>4
<1>8. \A o \in msgs : req(o) \in submitConsumeRequest(p, msgs) /\ o \in req(o).msgs
    BY <1>1, <1>2, <1>4
<1>9. \A r, s \in submitConsumeRequest(p, msgs) : r # s => r.msgs \cap s.msgs = {}
  <2> SUFFICES ASSUME NEW r \in submitConsumeRequest(p, msgs),
                      NEW s \in submitConsumeRequest(p, msgs),
                      r.msgs \cap s.msgs # {}
               PROVE  r = s
    OBVIOUS
  <2>1. PICK x \in msgs : r = req(x)
    BY <1>1
  <2>2. PICK y \in msgs : s = req(y)
    BY <1>1
  <2> QED
    BY <2>1, <2>2, <1>3, <1>4, <1>5
<1> QED
    BY <1>6, <1>7, <1>8, <1>9

(* Handing messages nobody holds to new requests of the same object.       *)
LEMMA SubmitFrame ==
    ASSUME TypeOK, EachMessageHeldOnce,
           NEW p \in ProcessQueues, NEW msgs \in SUBSET Matching,
           NEW new, new = submitConsumeRequest(p, msgs),
           NEW gone \in SUBSET retries,
           requests' = requests \cup new, retries' = retries \ gone,
           \A t \in gone : t.q = p /\ t.msgs \subseteq msgs,
           \A r \in requests : r.q = p => r.msgs \cap msgs = {},
           \A t \in retries \ gone : t.q = p => t.msgs \cap msgs = {},
           \A u \in ProcessQueues :
               pq'[u].msgTreeMap = IF u = p THEN pq[u].msgTreeMap \cup msgs
                                   ELSE pq[u].msgTreeMap
    PROVE  EachMessageHeldOnce'
<1>1. /\ \A r \in new : r.q = p /\ r.msgs \subseteq msgs
      /\ \A o \in msgs : \E r \in new : o \in r.msgs
      /\ \A r, s \in new : r # s => r.msgs \cap s.msgs = {}
    BY SubmitPartition
<1>2. (\A r \in requests : r.q \in ProcessQueues) /\ (\A t \in retries : t.q \in ProcessQueues)
    BY DEF TypeOK, RequestType, RetryType
<1>3. HeldIsBuffered'
  <2>1. \A r \in requests : r.msgs \subseteq pq[r.q].msgTreeMap
    BY DEF EachMessageHeldOnce, HeldIsBuffered
  <2>2. \A t \in retries : t.msgs \subseteq pq[t.q].msgTreeMap
    BY DEF EachMessageHeldOnce, HeldIsBuffered
  <2>3. \A u \in ProcessQueues : pq[u].msgTreeMap \subseteq pq'[u].msgTreeMap
    OBVIOUS
  <2>4. \A r \in requests : r.msgs \subseteq pq'[r.q].msgTreeMap
    BY <2>1, <2>3, <1>2
  <2>5. \A t \in retries : t.msgs \subseteq pq'[t.q].msgTreeMap
    BY <2>2, <2>3, <1>2
  <2>6. msgs \subseteq pq'[p].msgTreeMap
    OBVIOUS
  <2>7. \A r \in new : r.msgs \subseteq pq'[r.q].msgTreeMap
    BY <2>6, <1>1
  <2> QED
    BY <2>4, <2>5, <2>7 DEF HeldIsBuffered
<1>4. BufferedIsHeld'
  <2> SUFFICES ASSUME NEW u \in ProcessQueues, NEW o \in pq'[u].msgTreeMap
               PROVE  \/ \E r \in requests' : r.q = u /\ o \in r.msgs
                      \/ \E t \in retries' : t.q = u /\ o \in t.msgs
    BY DEF BufferedIsHeld
  <2>1. CASE u = p /\ o \in msgs
    BY <2>1, <1>1
  <2>2. CASE ~(u = p /\ o \in msgs)
    <3>1. o \in pq[u].msgTreeMap
      BY <2>2
    <3>2. \/ \E r \in requests : r.q = u /\ o \in r.msgs
          \/ \E t \in retries : t.q = u /\ o \in t.msgs
      BY <3>1 DEF EachMessageHeldOnce, BufferedIsHeld
    <3>3. \A t \in gone : ~(t.q = u /\ o \in t.msgs)
      BY <2>2
    <3> QED
      BY <3>2, <3>3
  <2> QED
    BY <2>1, <2>2
<1>5. HoldersDisjoint'
  <2>1. \A r, s \in requests' : r.q = s.q /\ r # s => r.msgs \cap s.msgs = {}
    <3> SUFFICES ASSUME NEW r \in requests', NEW s \in requests', r.q = s.q, r # s
                 PROVE  r.msgs \cap s.msgs = {}
      OBVIOUS
    <3>1. CASE r \in requests /\ s \in requests
      BY <3>1 DEF EachMessageHeldOnce, HoldersDisjoint
    <3>2. CASE r \in requests /\ s \in new
      BY <3>2, <1>1
    <3>3. CASE r \in new /\ s \in requests
      BY <3>3, <1>1
    <3>4. CASE r \in new /\ s \in new
      BY <3>4, <1>1
    <3> QED
      BY <3>1, <3>2, <3>3, <3>4
  <2>2. \A t, u \in retries' : t.q = u.q /\ t # u => t.msgs \cap u.msgs = {}
    BY DEF EachMessageHeldOnce, HoldersDisjoint
  <2>3. \A r \in requests', t \in retries' : r.q = t.q => r.msgs \cap t.msgs = {}
    BY <1>1 DEF EachMessageHeldOnce, HoldersDisjoint
  <2> QED
    BY <2>1, <2>2, <2>3 DEF HoldersDisjoint
<1> QED
    BY <1>3, <1>4, <1>5 DEF EachMessageHeldOnce

LEMMA PullFoundStep ==
    ASSUME AccountingInv, NEW p \in ProcessQueues, PullFound(p)
    PROVE  AccountingInv'
<1> USE DEF offsetVars
<1>1. PICK n \in (nextOffset[p] + 1) .. MaxOffset :
        /\ nextOffset' = [nextOffset EXCEPT ![p] = n]
        /\ pq' = [pq EXCEPT ![p] = putMessage(@, {o \in Matching : nextOffset[p] <= o /\ o < n})]
        /\ requests' = requests \cup
              submitConsumeRequest(p, {o \in Matching : nextOffset[p] <= o /\ o < n})
    BY DEF PullFound, processPullResult
<1>2. /\ pull[p] = "pulling" /\ pull' = [pull EXCEPT ![p] = "queued"]
      /\ UNCHANGED <<owner, table, store, committed, retries, handled, discarded, overruled, minOffset>>
    BY DEF PullFound
<1> DEFINE found == {o \in Matching : nextOffset[p] <= o /\ o < n}
<1>3. nextOffset[p] \in Int /\ n \in Offsets /\ n \in Int /\ nextOffset[p] < n
    BY <1>1, ConstantsAssumption DEF AccountingInv, TypeOK, Offsets
<1>4. found \in SUBSET Matching /\ \A o \in found : o < n /\ nextOffset[p] <= o /\ o \in Int
    BY MatchingBounded
<1>5. /\ pq[p] \in ProcessQueueType(Matching)
      /\ pq[p].msgCount = Cardinality(pq[p].msgTreeMap)
    BY DEF AccountingInv, TypeOK, CountIsExact
<1>6. /\ pq[p].msgTreeMap # {} => /\ pq[p].queueOffsetMax \in Int
                                   /\ pq[p].queueOffsetMax < nextOffset[p]
      /\ \A o \in pq[p].msgTreeMap : /\ o \in Matching /\ o \in Int
                                       /\ o <= pq[p].queueOffsetMax
                                       /\ o < nextOffset[p]
  <2>1. pq[p].queueOffsetMax \in Int /\ \A o \in pq[p].msgTreeMap : o \in Matching /\ o \in Int
    BY <1>5, MatchingBounded DEF ProcessQueueType
  <2>2. pq[p].msgTreeMap # {} => /\ pq[p].queueOffsetMax < nextOffset[p]
                                 /\ \A o \in pq[p].msgTreeMap : o <= pq[p].queueOffsetMax
    BY <1>2 DEF AccountingInv, BufferedWasPulled, Corrected
  <2> QED
    BY <2>1, <2>2, <1>3
<1>7. pq[p].msgTreeMap \cap found = {}
    BY <1>3, <1>4, <1>6
<1>8. /\ putMessage(pq[p], found) \in ProcessQueueType(Matching)
      /\ putMessage(pq[p], found).msgTreeMap = pq[p].msgTreeMap \cup found
      /\ putMessage(pq[p], found).msgCount = Cardinality(pq[p].msgTreeMap \cup found)
      /\ found = {} => putMessage(pq[p], found).queueOffsetMax = pq[p].queueOffsetMax
      /\ found # {} => /\ putMessage(pq[p], found).queueOffsetMax \in found
                       /\ \A o \in found : o <= putMessage(pq[p], found).queueOffsetMax
  <2> HIDE DEF found
  <2> QED
    <3>1. found \in SUBSET Matching
      BY <1>4
    <3> DEFINE q == pq[p]
    <3>2. Bounded(Matching)
      BY MatchingBounded
    <3>3. q \in ProcessQueueType(Matching) /\ q.msgCount = Cardinality(q.msgTreeMap)
      BY <1>5
    <3>4. q.msgTreeMap \cap found = {}
      BY <1>7
    <3> HIDE DEF q
    <3>5. /\ putMessage(q, found) \in ProcessQueueType(Matching)
          /\ putMessage(q, found).msgTreeMap = q.msgTreeMap \cup found
          /\ putMessage(q, found).msgCount = Cardinality(q.msgTreeMap \cup found)
          /\ found = {} => putMessage(q, found).queueOffsetMax = q.queueOffsetMax
          /\ found # {} => /\ putMessage(q, found).queueOffsetMax \in found
                           /\ \A o \in found : o <= putMessage(q, found).queueOffsetMax
      BY <3>1, <3>2, <3>3, <3>4, PutMessage
    <3> QED
      BY <3>5 DEF q
<1> DEFINE new == submitConsumeRequest(p, found)
<1>9. pq' = [pq EXCEPT ![p] = putMessage(pq[p], found)] /\ requests' = requests \cup new
    BY <1>1
<1>10. new \subseteq RequestType /\ \A r \in new : r.st = "submitted"
  <2> HIDE DEF found
  <2> QED
    BY <1>4, SubmitPartition
<1> HIDE DEF found, new
<1>11. TypeOK'
    BY <1>1, <1>2, <1>3, <1>8, <1>9, <1>10 DEF AccountingInv, TypeOK, PullStates
<1>12. EachMessageHeldOnce'
  <2>1. TypeOK /\ EachMessageHeldOnce
    BY DEF AccountingInv
  <2>2. \A r \in requests : r.q = p => r.msgs \cap found = {}
    BY <2>1, <1>7 DEF EachMessageHeldOnce, HeldIsBuffered
  <2>3. \A t \in retries : t.q = p => t.msgs \cap found = {}
    BY <2>1, <1>7 DEF EachMessageHeldOnce, HeldIsBuffered
  <2>4. \A u \in ProcessQueues :
            pq'[u].msgTreeMap = IF u = p THEN pq[u].msgTreeMap \cup found
                                ELSE pq[u].msgTreeMap
    BY <1>8, <1>9, <2>1 DEF TypeOK
  <2>5. {} \in SUBSET retries /\ retries' = retries \ {} /\ new = submitConsumeRequest(p, found)
    BY <1>2 DEF new
  <2> QED
    BY <1>4, <1>9, <2>1, <2>2, <2>3, <2>4, <2>5, SubmitFrame
<1>13. CountIsExact'
    BY <1>8, <1>9 DEF AccountingInv, TypeOK, CountIsExact
<1>14. OffsetsSettled'
    BY <1>2, <1>9, <1>10 DEF AccountingInv, OffsetsSettled, Settled
<1>15. PulledIsAccounted'
  <2> SUFFICES ASSUME NEW u \in ProcessQueues, NEW o \in Matching, minOffset <= o
               PROVE  /\ pull'[u] # "deleted" /\ ~Corrected(u)' /\ o < nextOffset'[u]
                            => Accounted(u, o)'
                      /\ pq'[u].msgTreeMap # {} /\ o <= pq'[u].queueOffsetMax
                            => Accounted(u, o)'
    BY <1>2 DEF PulledIsAccounted
  <2>1. CASE u = p
    <3>1. nextOffset'[u] = n /\ pq'[u] = putMessage(pq[p], found)
      BY <2>1, <1>1, <1>9 DEF AccountingInv, TypeOK
    <3>2. o < n => Accounted(u, o)'
      <4>1. CASE o < nextOffset[p]
        <5>1. Accounted(p, o)
          BY <4>1, <1>2 DEF AccountingInv, PulledIsAccounted, Corrected
        <5> QED
          BY <5>1, <3>1, <2>1, <1>2, <1>8 DEF Accounted
      <4>2. CASE ~(o < nextOffset[p])
        <5>1. o < n => o \in found
          BY <4>2, <1>3, MatchingBounded DEF found
        <5> QED
          BY <5>1, <3>1, <1>8 DEF Accounted
      <4> QED
        BY <4>1, <4>2
    <3>3. pq'[u].msgTreeMap # {} => pq'[u].queueOffsetMax \in Int /\ pq'[u].queueOffsetMax < n
      BY <3>1, <1>3, <1>4, <1>6, <1>8
    <3> QED
      BY <3>1, <3>2, <3>3, <1>3, MatchingBounded
  <2>2. CASE u # p
    <3>1. nextOffset'[u] = nextOffset[u] /\ pq'[u] = pq[u] /\ pull'[u] = pull[u]
      BY <2>2, <1>1, <1>2, <1>9 DEF AccountingInv, TypeOK
    <3> QED
      BY <3>1, <1>2 DEF AccountingInv, PulledIsAccounted, Accounted, Corrected
  <2> QED
    BY <2>1, <2>2
<1>16. BufferedWasPulled'
  <2> SUFFICES ASSUME NEW u \in ProcessQueues, pq'[u].msgTreeMap # {}
               PROVE  /\ pull'[u] \notin {"unused", "deleted"}
                      /\ pq'[u].queueOffsetMax \in Matching
                      /\ Corrected(u)' \/ pq'[u].queueOffsetMax < nextOffset'[u]
                      /\ \A o \in pq'[u].msgTreeMap : o <= pq'[u].queueOffsetMax
    BY DEF BufferedWasPulled
  <2>1. CASE u = p
    <3>1. /\ nextOffset'[u] = n /\ pull'[u] = "queued"
          /\ pq'[u] = putMessage(pq[p], found)
      BY <2>1, <1>1, <1>2, <1>9 DEF AccountingInv, TypeOK
    <3>2. CASE found # {}
      <4>1. pq'[u].queueOffsetMax \in found /\ \A o \in found : o <= pq'[u].queueOffsetMax
        BY <3>1, <3>2, <1>8
      <4>2. \A o \in pq[p].msgTreeMap : o <= pq'[u].queueOffsetMax
        BY <4>1, <1>3, <1>4, <1>6
      <4> QED
        BY <4>1, <4>2, <3>1, <1>4, <1>8
    <3>3. CASE found = {}
      <4>1. pq'[u].queueOffsetMax = pq[p].queueOffsetMax /\ pq'[u].msgTreeMap = pq[p].msgTreeMap
        BY <3>1, <3>3, <1>8
      <4>2. pq[p].queueOffsetMax \in Matching
        BY <4>1 DEF AccountingInv, BufferedWasPulled
      <4> QED
        BY <4>1, <4>2, <3>1, <1>3, <1>6
    <3> QED
      BY <3>2, <3>3
  <2>2. CASE u # p
    <3>1. nextOffset'[u] = nextOffset[u] /\ pq'[u] = pq[u] /\ pull'[u] = pull[u]
      BY <2>2, <1>1, <1>2, <1>9 DEF AccountingInv, TypeOK
    <3> QED
      BY <3>1 DEF AccountingInv, BufferedWasPulled, Corrected
  <2> QED
    BY <2>1, <2>2
<1>17. RemovedWasHandled'
    BY <1>2, <1>9, <1>10 DEF AccountingInv, RemovedWasHandled
<1>18. OwnerIsClient'
    BY <1>1, <1>2 DEF AccountingInv, OwnerIsClient, TypeOK
<1> QED
    BY <1>11, <1>12, <1>13, <1>14, <1>15, <1>16, <1>17, <1>18 DEF AccountingInv

LEMMA PullNotFoundStep ==
    ASSUME AccountingInv, NEW p \in ProcessQueues, PullNotFound(p)
    PROVE  AccountingInv'
<1> USE DEF consumeVars
<1>1. PICK n \in nextOffset[p] .. MaxOffset :
        /\ \A o \in Matching : ~(nextOffset[p] <= o /\ o < n)
        /\ nextOffset' = [nextOffset EXCEPT ![p] = n]
        /\ store' = IF pq[p].msgCount = 0
                    THEN [store EXCEPT ![owner[p]] = updateOffset(@, n, TRUE)]
                    ELSE store
    BY DEF PullNotFound, processPullResult
<1>2. /\ pull[p] = "pulling" /\ pull' = [pull EXCEPT ![p] = "queued"]
      /\ UNCHANGED <<pq, owner, table, committed, requests, retries, handled,
                     discarded, overruled, minOffset>>
    BY DEF PullNotFound
<1>3. TypeOK /\ owner[p] \in Clients
    BY <1>2 DEF AccountingInv, OwnerIsClient
<1>4. nextOffset[p] \in Int /\ n \in Offsets /\ n \in Int /\ nextOffset[p] <= n
    BY <1>1, <1>3, ConstantsAssumption DEF TypeOK, Offsets
<1>5. ASSUME NEW o \in Matching, minOffset <= o, o < n
      PROVE  Accounted(p, o)
  <2>1. o < nextOffset[p]
    BY <1>1, <1>4, <1>5, MatchingBounded
  <2> QED
    BY <2>1, <1>2, <1>5 DEF AccountingInv, PulledIsAccounted, Accounted, Corrected
<1>6. pq[p].msgCount = 0 => Settled(n)
  <2> SUFFICES ASSUME pq[p].msgCount = 0 PROVE pq[p].msgTreeMap = {}
    BY <1>5 DEF Settled, Accounted
  <2>1. pq[p].msgTreeMap \in SUBSET (0 .. (MaxOffset - 1))
    BY <1>3, MatchingBounded DEF TypeOK, ProcessQueueType
  <2>2. IsFiniteSet(pq[p].msgTreeMap)
    BY <2>1, MatchingBounded, BoundedIsFinite
  <2>3. Cardinality(pq[p].msgTreeMap) = 0
    BY DEF AccountingInv, CountIsExact
  <2> QED
    BY <2>2, <2>3, FS_EmptySet
<1>7. /\ store' \in [Clients -> Offsets \cup {NoOffset}]
      /\ \A d \in Clients : Settled(store'[d])
  <2>1. CASE pq[p].msgCount = 0
    <3>1. updateOffset(store[owner[p]], n, TRUE) \in {n, store[owner[p]]}
      BY DEF updateOffset
    <3>2. store' = [store EXCEPT ![owner[p]] = updateOffset(store[owner[p]], n, TRUE)]
      BY <2>1, <1>1
    <3> QED
      BY <3>1, <3>2, <2>1, <1>3, <1>4, <1>6 DEF AccountingInv, OffsetsSettled, TypeOK
  <2>2. CASE pq[p].msgCount # 0
    BY <2>2, <1>1, <1>3 DEF AccountingInv, OffsetsSettled, TypeOK
  <2> QED
    BY <2>1, <2>2
<1>8. TypeOK'
    BY <1>1, <1>2, <1>3, <1>4, <1>7 DEF TypeOK, PullStates
<1>9. Settled(committed)'
    BY <1>2 DEF AccountingInv, OffsetsSettled, Settled
<1>10. PulledIsAccounted'
  <2> SUFFICES ASSUME NEW u \in ProcessQueues, NEW o \in Matching, minOffset <= o
               PROVE  /\ pull'[u] # "deleted" /\ ~Corrected(u)' /\ o < nextOffset'[u]
                            => Accounted(u, o)'
                      /\ pq'[u].msgTreeMap # {} /\ o <= pq'[u].queueOffsetMax
                            => Accounted(u, o)'
    BY <1>2 DEF PulledIsAccounted
  <2>1. Accounted(u, o)' <=> Accounted(u, o)
    BY <1>2 DEF Accounted
  <2>2. pq[u].msgTreeMap # {} /\ o <= pq[u].queueOffsetMax => Accounted(u, o)
    BY DEF AccountingInv, PulledIsAccounted
  <2>3. CASE u = p
    BY <2>1, <2>2, <2>3, <1>1, <1>2, <1>3, <1>5 DEF TypeOK
  <2>4. CASE u # p
    <3>1. nextOffset'[u] = nextOffset[u] /\ pull'[u] = pull[u]
      BY <2>4, <1>1, <1>2, <1>3 DEF TypeOK
    <3> QED
      BY <3>1, <2>1, <2>2, <1>2 DEF AccountingInv, PulledIsAccounted, Corrected
  <2> QED
    BY <2>3, <2>4
<1>11. BufferedWasPulled'
  <2>1. \A u \in ProcessQueues : /\ nextOffset'[u] \in Int /\ nextOffset[u] \in Int
                                 /\ nextOffset[u] <= nextOffset'[u]
                                 /\ pq[u].queueOffsetMax \in Int
    BY <1>1, <1>3, <1>4, ConstantsAssumption DEF TypeOK, Offsets, ProcessQueueType
  <2>2. \A u \in ProcessQueues :
            /\ pull[u] \notin {"unused", "deleted"} => pull'[u] \notin {"unused", "deleted"}
            /\ Corrected(u) => Corrected(u)'
    BY <1>2, <1>3 DEF TypeOK, Corrected
  <2> QED
    BY <1>2, <2>1, <2>2 DEF AccountingInv, BufferedWasPulled
<1>12. OwnerIsClient'
    BY <1>1, <1>2, <1>3 DEF AccountingInv, OwnerIsClient, TypeOK
<1> QED
    BY <1>2, <1>7, <1>8, <1>9, <1>10, <1>11, <1>12, OffsetsFrame

LEMMA PullOffsetIllegalStep ==
    ASSUME AccountingInv, NEW p \in ProcessQueues, PullOffsetIllegal(p)
    PROVE  AccountingInv'
<1> USE DEF consumeVars, offsetVars
<1>1. TypeOK
    BY DEF AccountingInv
<1>2. PICK x \in Offsets :
          nextOffset' = [nextOffset EXCEPT ![p] = x]
    BY DEF PullOffsetIllegal
<1>3. /\ pull[p] = "pulling"
      /\ pull' = [pull EXCEPT ![p] = "correcting"]
      /\ pq' = [pq EXCEPT ![p] = setDroped(@)]
      /\ UNCHANGED <<owner, table, store, committed, requests, retries, handled,
                     discarded, overruled, minOffset>>
    BY DEF PullOffsetIllegal
<1>4. /\ pq' \in [ProcessQueues -> ProcessQueueType(Matching)]
      /\ \A u \in ProcessQueues :
            /\ pq'[u].msgTreeMap = pq[u].msgTreeMap
            /\ pq'[u].msgCount = pq[u].msgCount
            /\ pq'[u].queueOffsetMax = pq[u].queueOffsetMax
    BY <1>1, <1>3, DropFrame
<1>5. TypeOK'
    BY <1>1, <1>2, <1>3, <1>4 DEF TypeOK, PullStates
<1>6. Settled(committed)' /\ \A d \in Clients : Settled(store'[d])
    BY <1>3 DEF AccountingInv, OffsetsSettled, Settled
<1>7. PulledIsAccounted'
    BY <1>1, <1>2, <1>3, <1>4 DEF AccountingInv, PulledIsAccounted, Accounted, Corrected, TypeOK
<1>8. BufferedWasPulled'
    BY <1>1, <1>2, <1>3, <1>4 DEF AccountingInv, BufferedWasPulled, Corrected, TypeOK
<1>9. OwnerIsClient'
    BY <1>1, <1>3 DEF AccountingInv, OwnerIsClient, TypeOK
<1> QED
    BY <1>3, <1>4, <1>5, <1>6, <1>7, <1>8, <1>9, OffsetsFrame

LEMMA CorrectOffsetStep ==
    ASSUME AccountingInv, NEW p \in ProcessQueues, CorrectOffset(p)
    PROVE  AccountingInv'
<1> DEFINE c == owner[p]
<1>1. TypeOK /\ pull[p] = "correcting" /\ c \in Clients
    BY DEF AccountingInv, OwnerIsClient, CorrectOffset
<1>2. /\ pull' = [pull EXCEPT ![p] = "forgotten"]
      /\ nextOffset' = [nextOffset EXCEPT ![p] = 0]
      /\ overruled' = overruled \cup Unsettled(nextOffset[p])
      /\ UNCHANGED <<owner, requests, retries, handled, discarded, minOffset>>
    BY DEF CorrectOffset
<1> DEFINE SettledNow(x) == \A o \in Matching : minOffset' <= o /\ o < x =>
                                o \in handled' \cup discarded' \cup overruled'
<1>3. \A x : Settled(x) => SettledNow(x)
    BY <1>2 DEF Settled
<1>4. nextOffset[p] \in Offsets \cup {NoOffset} /\ SettledNow(nextOffset[p])
    BY <1>1, <1>2 DEF TypeOK, Unsettled
<1>5. NoOffset \in Offsets \cup {NoOffset} /\ SettledNow(NoOffset)
    BY <1>1, <1>2, MatchingBounded, ConstantsAssumption DEF NoOffset, TypeOK, Offsets
<1>6. committed' \in Offsets \cup {NoOffset} /\ SettledNow(committed')
  <2>1. committed' \in {committed, nextOffset[p]}
    BY DEF CorrectOffset, persist
  <2> HIDE DEF SettledNow
  <2> QED
    BY <2>1, <1>3, <1>4 DEF AccountingInv, OffsetsSettled, TypeOK
<1>7. /\ store' \in [Clients -> Offsets \cup {NoOffset}]
      /\ \A d \in Clients : SettledNow(store'[d])
  <2>1. PICK x \in {nextOffset[p], NoOffset} : store' = [store EXCEPT ![c] = x]
    BY DEF CorrectOffset, removeOffset
  <2> HIDE DEF SettledNow
  <2> QED
    BY <2>1, <1>1, <1>3, <1>4, <1>5 DEF AccountingInv, OffsetsSettled, TypeOK
<1>8. /\ pq' \in [ProcessQueues -> ProcessQueueType(Matching)]
      /\ table' \in [Clients -> ProcessQueues \cup {NoQueue}]
      /\ \A u \in ProcessQueues :
            /\ pq'[u].msgTreeMap = pq[u].msgTreeMap
            /\ pq'[u].msgCount = pq[u].msgCount
            /\ pq'[u].queueOffsetMax = pq[u].queueOffsetMax
  <2>1. CASE table[c] = NoQueue
    BY <2>1, <1>1 DEF TypeOK, CorrectOffset
  <2>2. CASE table[c] # NoQueue
    <3>1. table[c] \in ProcessQueues /\ pq' = [pq EXCEPT ![table[c]] = setDroped(@)]
      BY <2>2, <1>1 DEF TypeOK, CorrectOffset
    <3>2. table' = [table EXCEPT ![c] = NoQueue]
      BY <2>2 DEF CorrectOffset
    <3> QED
      BY <1>1, <3>1, <3>2, DropFrame DEF TypeOK
  <2> QED
    BY <2>1, <2>2
<1>9. TypeOK'
  <2>1. 0 \in Offsets /\ Unsettled(nextOffset[p]) \subseteq Matching
    BY ConstantsAssumption DEF Offsets, Unsettled
  <2> QED
    BY <1>1, <1>2, <1>6, <1>7, <1>8, <2>1 DEF TypeOK, PullStates
<1>10. EachMessageHeldOnce' /\ CountIsExact'
    BY <1>2, <1>8, BuffersFrame DEF AccountingInv
<1>11. OffsetsSettled'
  <2>1. \A r \in requests : r.st = "updating" => SettledNow(r.offset)
    <3> HIDE DEF SettledNow
    <3> QED
      BY <1>3 DEF AccountingInv, OffsetsSettled
  <2> QED
    BY <1>2, <1>6, <1>7, <2>1 DEF OffsetsSettled, Settled
<1>12. PulledIsAccounted'
    BY <1>1, <1>2, <1>8 DEF AccountingInv, PulledIsAccounted, Accounted, Corrected, TypeOK
<1>13. BufferedWasPulled'
    BY <1>1, <1>2, <1>8 DEF AccountingInv, BufferedWasPulled, Corrected, TypeOK
<1>14. RemovedWasHandled' /\ OwnerIsClient'
    BY <1>1, <1>2 DEF AccountingInv, RemovedWasHandled, OwnerIsClient, TypeOK
<1> QED
    BY <1>9, <1>10, <1>11, <1>12, <1>13, <1>14 DEF AccountingInv

-----------------------------------------------------------------------------
(* The set of requests when r gives way to others.                         *)
Replaced(r, others) == (requests \ {r}) \cup others

(* A request takes its messages out of the buffer and goes, perhaps        *)
(* leaving one that holds no message.                                      *)
LEMMA RemoveHeldFrame ==
    ASSUME AccountingInv, NEW r \in requests, NEW extra,
           \A e \in extra : e.msgs = {},
           pq' = [pq EXCEPT ![r.q] = removeMessage(@, r.msgs)],
           requests' = Replaced(r, extra),
           retries' = retries
    PROVE  /\ pq' \in [ProcessQueues -> ProcessQueueType(Matching)]
           /\ EachMessageHeldOnce' /\ CountIsExact'
           /\ \A u \in ProcessQueues :
                 /\ pq'[u].queueOffsetMax = pq[u].queueOffsetMax
                 /\ u = r.q => pq'[u].msgTreeMap = pq[u].msgTreeMap \ r.msgs
                 /\ u # r.q => pq'[u].msgTreeMap = pq[u].msgTreeMap
<1> USE DEF Replaced
<1>1. TypeOK /\ EachMessageHeldOnce /\ CountIsExact
    BY DEF AccountingInv
<1>2. r.q \in ProcessQueues /\ \A s \in requests : s.q \in ProcessQueues
    BY <1>1 DEF TypeOK, RequestType
<1>3. \A t \in retries : t.q \in ProcessQueues
    BY <1>1 DEF TypeOK, RetryType
<1> DEFINE q == pq[r.q]
           new == removeMessage(q, r.msgs)
<1>4. /\ q \in ProcessQueueType(Matching)
      /\ q.msgCount = Cardinality(q.msgTreeMap)
      /\ r.msgs \in SUBSET q.msgTreeMap
    BY <1>1, <1>2 DEF TypeOK, CountIsExact, EachMessageHeldOnce, HeldIsBuffered
<1>5. pq' = [pq EXCEPT ![r.q] = new]
    OBVIOUS
<1>6. /\ new \in ProcessQueueType(Matching)
      /\ new.msgTreeMap = q.msgTreeMap \ r.msgs
      /\ new.msgCount = Cardinality(q.msgTreeMap \ r.msgs)
      /\ new.queueOffsetMax = q.queueOffsetMax
  <2>1. Bounded(Matching)
    BY MatchingBounded
  <2> HIDE DEF q
  <2> QED
    BY <1>4, <2>1, RemoveMessage
<1> HIDE DEF new
<1>7. pq' \in [ProcessQueues -> ProcessQueueType(Matching)]
    BY <1>1, <1>2, <1>5, <1>6 DEF TypeOK
<1>8. ASSUME NEW u \in ProcessQueues
      PROVE  /\ pq'[u].queueOffsetMax = pq[u].queueOffsetMax
             /\ u = r.q => pq'[u].msgTreeMap = pq[u].msgTreeMap \ r.msgs
             /\ u # r.q => pq'[u].msgTreeMap = pq[u].msgTreeMap
             /\ pq'[u].msgCount = Cardinality(pq'[u].msgTreeMap)
  <2>1. CASE u = r.q
    BY <2>1, <1>1, <1>5, <1>6 DEF TypeOK
  <2>2. CASE u # r.q
    <3>1. pq'[u] = pq[u]
      BY <2>2, <1>1, <1>5 DEF TypeOK
    <3> QED
      BY <3>1, <2>2, <1>1 DEF CountIsExact
  <2> QED
    BY <2>1, <2>2
<1>9. CountIsExact'
    BY <1>8 DEF CountIsExact
<1>10. HeldIsBuffered'
  <2>1. ASSUME NEW s \in requests' PROVE s.msgs \subseteq pq'[s.q].msgTreeMap
    <3>1. CASE s \in extra
      BY <3>1
    <3>2. CASE s \in requests /\ s # r
      <4>1. s.msgs \subseteq pq[s.q].msgTreeMap /\ (s.q = r.q => s.msgs \cap r.msgs = {})
        BY <3>2, <1>1 DEF EachMessageHeldOnce, HeldIsBuffered, HoldersDisjoint
      <4>2. s.q \in ProcessQueues
        BY <3>2, <1>2
      <4>3. CASE s.q = r.q
        <5>1. pq'[s.q].msgTreeMap = pq[s.q].msgTreeMap \ r.msgs
          BY <4>2, <4>3, <1>8
        <5> QED
          BY <4>1, <4>3, <5>1
      <4>4. CASE s.q # r.q
        BY <4>1, <4>2, <4>4, <1>8
      <4> QED
        BY <4>3, <4>4
    <3> QED
      BY <3>1, <3>2
  <2>2. ASSUME NEW t \in retries PROVE t.msgs \subseteq pq'[t.q].msgTreeMap
    <3>1. t.msgs \subseteq pq[t.q].msgTreeMap /\ (r.q = t.q => r.msgs \cap t.msgs = {})
      BY <1>1 DEF EachMessageHeldOnce, HeldIsBuffered, HoldersDisjoint
    <3>2. t.q \in ProcessQueues
      BY <1>3
    <3>3. CASE t.q = r.q
      <4>1. pq'[t.q].msgTreeMap = pq[t.q].msgTreeMap \ r.msgs
        BY <3>2, <3>3, <1>8
      <4> QED
        BY <3>1, <3>3, <4>1
    <3>4. CASE t.q # r.q
      BY <3>1, <3>2, <3>4, <1>8
    <3> QED
      BY <3>3, <3>4
  <2> QED
    BY <2>1, <2>2 DEF HeldIsBuffered
<1>11. BufferedIsHeld'
  <2> SUFFICES ASSUME NEW u \in ProcessQueues, NEW o \in pq'[u].msgTreeMap
               PROVE  \/ \E s \in requests' : s.q = u /\ o \in s.msgs
                      \/ \E t \in retries' : t.q = u /\ o \in t.msgs
    BY DEF BufferedIsHeld
  <2>1. o \in pq[u].msgTreeMap /\ (u = r.q => o \notin r.msgs)
    <3>1. CASE u = r.q
      BY <3>1, <1>8
    <3>2. CASE u # r.q
      BY <3>2, <1>8
    <3> QED
      BY <3>1, <3>2
  <2>2. \/ \E s \in requests : s.q = u /\ o \in s.msgs
        \/ \E t \in retries : t.q = u /\ o \in t.msgs
    BY <2>1, <1>1 DEF EachMessageHeldOnce, BufferedIsHeld
  <2> QED
    BY <2>1, <2>2
<1>12. HoldersDisjoint'
    BY <1>1 DEF EachMessageHeldOnce, HoldersDisjoint
<1> QED
    BY <1>7, <1>8, <1>9, <1>10, <1>11, <1>12 DEF EachMessageHeldOnce

LEMMA DiscardRequestStep ==
    ASSUME AccountingInv, NEW r \in requests, DiscardRequest(r)
    PROVE  AccountingInv'
<1> USE DEF offsetVars
<1>1. /\ r.st = "submitted"
      /\ pq' = [pq EXCEPT ![r.q] = removeMessage(@, r.msgs)]
      /\ requests' = (requests \ {r}) \cup {}
      /\ discarded' = discarded \cup r.msgs
      /\ UNCHANGED <<owner, pull, nextOffset, table, store, committed, retries,
                     handled, overruled, minOffset>>
    BY DEF DiscardRequest, discardMessages
<1>2. TypeOK /\ r.q \in ProcessQueues /\ r.msgs \subseteq Matching
    BY DEF AccountingInv, TypeOK, RequestType
<1>3. /\ pq' \in [ProcessQueues -> ProcessQueueType(Matching)]
      /\ EachMessageHeldOnce' /\ CountIsExact'
      /\ \A u \in ProcessQueues :
            /\ pq'[u].queueOffsetMax = pq[u].queueOffsetMax
            /\ u = r.q => pq'[u].msgTreeMap = pq[u].msgTreeMap \ r.msgs
            /\ u # r.q => pq'[u].msgTreeMap = pq[u].msgTreeMap
  <2> DEFINE extra == {}
  <2>1. \A e \in extra : e.msgs = {}
    OBVIOUS
  <2>2. requests' = Replaced(r, extra) /\ retries' = retries
    BY <1>1 DEF Replaced
  <2> HIDE DEF extra
  <2> QED
    BY <1>1, <2>1, <2>2, RemoveHeldFrame
<1>4. TypeOK'
    BY <1>1, <1>2, <1>3 DEF TypeOK
<1>5. OffsetsSettled'
    BY <1>1 DEF AccountingInv, OffsetsSettled, Settled
<1>6. PulledIsAccounted'
    BY <1>1, <1>3 DEF AccountingInv, PulledIsAccounted, Accounted, Corrected
<1>7. BufferedWasPulled'
    BY <1>1, <1>3 DEF AccountingInv, BufferedWasPulled, Corrected
<1>8. RemovedWasHandled' /\ OwnerIsClient'
    BY <1>1 DEF AccountingInv, RemovedWasHandled, OwnerIsClient
<1> QED
    BY <1>3, <1>4, <1>5, <1>6, <1>7, <1>8 DEF AccountingInv

(* The offset removeMessage returns is settled: what it does not count as  *)
(* handled is still in the buffer, at or above it.                         *)
LEMMA RemoveConsumedStep ==
    ASSUME AccountingInv, NEW r \in requests, RemoveConsumed(r)
    PROVE  AccountingInv'
<1> USE DEF offsetVars
<1> DEFINE q == pq[r.q]
           offset == removeMessageResult(q, r.msgs)
           extra == IF offset >= 0 THEN {Request(r.q, {}, "updating", offset)} ELSE {}
<1>1. /\ r.st = "removing"
      /\ pq' = [pq EXCEPT ![r.q] = removeMessage(@, r.msgs)]
      /\ requests' = (requests \ {r}) \cup extra
      /\ UNCHANGED <<owner, pull, nextOffset, table, store, committed, retries,
                     handled, discarded, overruled, minOffset>>
    BY DEF RemoveConsumed
<1>2. TypeOK /\ r.q \in ProcessQueues /\ r.msgs \subseteq handled
    BY <1>1 DEF AccountingInv, TypeOK, RequestType, RemovedWasHandled
<1>3. q \in ProcessQueueType(Matching)
    BY <1>2 DEF TypeOK
<1>4. offset >= 0 => /\ q.msgTreeMap # {} /\ offset \in Int
                     /\ offset \in q.msgTreeMap \/ offset = q.queueOffsetMax + 1
                     /\ \A o \in q.msgTreeMap \ r.msgs : offset <= o
  <2>1. Bounded(Matching)
    BY MatchingBounded
  <2> HIDE DEF q
  <2> QED
    BY <1>3, <2>1, RemoveMessageResult
<1> HIDE DEF offset
<1>5. offset >= 0 => /\ offset \in Offsets /\ q.queueOffsetMax \in Int
                     /\ offset <= q.queueOffsetMax + 1
  <2> SUFFICES ASSUME offset >= 0
               PROVE  /\ offset \in Offsets /\ q.queueOffsetMax \in Int
                      /\ offset <= q.queueOffsetMax + 1
    OBVIOUS
  <2>1. /\ q.queueOffsetMax \in Matching
        /\ \A o \in q.msgTreeMap : o <= q.queueOffsetMax
    BY <1>2, <1>4 DEF AccountingInv, BufferedWasPulled
  <2>2. q.queueOffsetMax \in Int /\ q.queueOffsetMax < MaxOffset /\ MaxOffset \in Nat
    BY <2>1, MatchingBounded, ConstantsAssumption
  <2>3. offset <= q.queueOffsetMax + 1
    BY <1>4, <2>1, <2>2
  <2> QED
    BY <1>4, <2>2, <2>3 DEF Offsets
<1>6. offset >= 0 => Settled(offset)
  <2> SUFFICES ASSUME offset >= 0, NEW o \in Matching, minOffset <= o, o < offset
               PROVE  o \in handled \cup discarded \cup overruled
    BY DEF Settled
  <2>1. o <= q.queueOffsetMax
    BY <1>4, <1>5, MatchingBounded
  <2>2. Accounted(r.q, o)
    BY <2>1, <1>2, <1>4 DEF AccountingInv, PulledIsAccounted
  <2>3. o \notin q.msgTreeMap \ r.msgs
    BY <1>4, MatchingBounded
  <2> QED
    BY <2>2, <2>3, <1>2 DEF Accounted
<1>7. \A e \in extra : /\ e \in RequestType /\ e.msgs = {} /\ e.st = "updating"
                       /\ Settled(e.offset)
  <2>1. CASE offset >= 0
    BY <2>1, <1>2, <1>5, <1>6 DEF Request, RequestType, RequestStates
  <2>2. CASE ~(offset >= 0)
    BY <2>2
  <2> QED
    BY <2>1, <2>2
<1> HIDE DEF extra
<1>8. /\ pq' \in [ProcessQueues -> ProcessQueueType(Matching)]
      /\ EachMessageHeldOnce' /\ CountIsExact'
      /\ \A u \in ProcessQueues :
            /\ pq'[u].queueOffsetMax = pq[u].queueOffsetMax
            /\ u = r.q => pq'[u].msgTreeMap = pq[u].msgTreeMap \ r.msgs
            /\ u # r.q => pq'[u].msgTreeMap = pq[u].msgTreeMap
  <2>1. requests' = Replaced(r, extra) /\ retries' = retries
    BY <1>1 DEF Replaced
  <2>2. \A e \in extra : e.msgs = {}
    BY <1>7
  <2> QED
    BY <1>1, <2>1, <2>2, RemoveHeldFrame
<1>9. TypeOK'
    BY <1>1, <1>2, <1>7, <1>8 DEF TypeOK
<1>10. OffsetsSettled'
  <2>1. \A s \in requests' : s.st = "updating" => Settled(s.offset)
    BY <1>1, <1>7 DEF AccountingInv, OffsetsSettled
  <2> QED
    BY <1>1, <2>1 DEF AccountingInv, OffsetsSettled, Settled
<1>11. PulledIsAccounted'
    BY <1>1, <1>2, <1>8 DEF AccountingInv, PulledIsAccounted, Accounted, Corrected
<1>12. BufferedWasPulled'
    BY <1>1, <1>8 DEF AccountingInv, BufferedWasPulled, Corrected
<1>13. RemovedWasHandled' /\ OwnerIsClient'
    BY <1>1, <1>7 DEF AccountingInv, RemovedWasHandled, OwnerIsClient
<1> QED
    BY <1>8, <1>9, <1>10, <1>11, <1>12, <1>13 DEF AccountingInv

-----------------------------------------------------------------------------
(* A request's messages are divided between its next state and at most one *)
(* timer of the same object.                                               *)
LEMMA HandOverFrame ==
    ASSUME TypeOK, EachMessageHeldOnce, CountIsExact, NEW r \in requests,
           NEW e, NEW kept, NEW timers,
           e.q = r.q, e.msgs \cup kept = r.msgs, e.msgs \cap kept = {},
           \A t \in timers : t.q = r.q /\ t.msgs = kept,
           \A t, u \in timers : t = u,
           kept # {} => timers # {},
           requests' = Replaced(r, {e}), retries' = retries \cup timers, pq' = pq
    PROVE  EachMessageHeldOnce' /\ CountIsExact'
<1> USE DEF Replaced
<1>1. e.msgs \subseteq r.msgs /\ kept \subseteq r.msgs
    OBVIOUS
<1>2. HeldIsBuffered'
  <2>1. \A s \in requests : s.msgs \subseteq pq[s.q].msgTreeMap
    BY DEF EachMessageHeldOnce, HeldIsBuffered
  <2>2. \A t \in retries : t.msgs \subseteq pq[t.q].msgTreeMap
    BY DEF EachMessageHeldOnce, HeldIsBuffered
  <2>3. e.msgs \subseteq pq[e.q].msgTreeMap
    BY <1>1, <2>1
  <2>4. \A t \in timers : t.msgs \subseteq pq[t.q].msgTreeMap
    BY <1>1, <2>1
  <2> QED
    BY <2>1, <2>2, <2>3, <2>4 DEF HeldIsBuffered
<1>3. BufferedIsHeld'
  <2> SUFFICES ASSUME NEW p \in ProcessQueues, NEW o \in pq[p].msgTreeMap
               PROVE  \/ \E s \in requests' : s.q = p /\ o \in s.msgs
                      \/ \E t \in retries' : t.q = p /\ o \in t.msgs
    BY DEF BufferedIsHeld
  <2>1. \/ \E s \in requests : s.q = p /\ o \in s.msgs
        \/ \E t \in retries : t.q = p /\ o \in t.msgs
    BY DEF EachMessageHeldOnce, BufferedIsHeld
  <2>2. CASE p = r.q /\ o \in r.msgs
    BY <2>2
  <2>3. CASE ~(p = r.q /\ o \in r.msgs)
    BY <2>1, <2>3
  <2> QED
    BY <2>2, <2>3
<1>4. HoldersDisjoint'
  <2>1. \A s \in requests : s.q = r.q /\ s # r => s.msgs \cap r.msgs = {}
    BY DEF EachMessageHeldOnce, HoldersDisjoint
  <2>2. \A t \in retries : t.q = r.q => t.msgs \cap r.msgs = {}
    BY DEF EachMessageHeldOnce, HoldersDisjoint
  <2>3. \A s, v \in requests' : s.q = v.q /\ s # v => s.msgs \cap v.msgs = {}
    BY <1>1, <2>1 DEF EachMessageHeldOnce, HoldersDisjoint
  <2>4. \A t, u \in retries' : t.q = u.q /\ t # u => t.msgs \cap u.msgs = {}
    BY <1>1, <2>2 DEF EachMessageHeldOnce, HoldersDisjoint
  <2>5. \A s \in requests', t \in retries' : s.q = t.q => s.msgs \cap t.msgs = {}
    BY <1>1, <2>1, <2>2 DEF EachMessageHeldOnce, HoldersDisjoint
  <2> QED
    BY <2>3, <2>4, <2>5 DEF HoldersDisjoint
<1>5. CountIsExact'
    BY DEF CountIsExact
<1> QED
    BY <1>2, <1>3, <1>4, <1>5 DEF EachMessageHeldOnce

LEMMA StartListenerStep ==
    ASSUME AccountingInv, NEW r \in requests, StartListener(r)
    PROVE  AccountingInv'
<1> USE DEF queueVars, offsetVars
<1> DEFINE e == Request(r.q, r.msgs, "consuming", NoOffset)
<1>1. /\ requests' = Replaced(r, {e})
      /\ UNCHANGED <<pq, owner, pull, nextOffset, table, store, committed, retries,
                     handled, discarded, overruled, minOffset>>
    BY DEF StartListener, Replaced
<1>2. e \in RequestType /\ e.q = r.q /\ e.msgs = r.msgs /\ e.st = "consuming"
    BY DEF AccountingInv, TypeOK, RequestType, Request, RequestStates
<1> HIDE DEF e
<1>3. TypeOK /\ EachMessageHeldOnce /\ CountIsExact
    BY DEF AccountingInv
<1>4. EachMessageHeldOnce' /\ CountIsExact'
  <2> DEFINE kept == {}
             timers == {}
  <2>1. /\ e.msgs \cup kept = r.msgs /\ e.msgs \cap kept = {}
        /\ (\A t \in timers : t.q = r.q /\ t.msgs = kept)
        /\ (\A t, u \in timers : t = u)
        /\ kept # {} => timers # {}
        /\ retries' = retries \cup timers /\ pq' = pq
    BY <1>1, <1>2
  <2> HIDE DEF kept, timers
  <2> QED
    BY <1>1, <1>2, <1>3, <2>1, HandOverFrame
<1>5. TypeOK'
    BY <1>1, <1>2, <1>3 DEF TypeOK, Replaced
<1>6. OffsetsSettled'
    BY <1>1, <1>2 DEF AccountingInv, OffsetsSettled, Settled, Replaced
<1>7. PulledIsAccounted' /\ BufferedWasPulled'
    BY <1>1 DEF AccountingInv, PulledIsAccounted, Accounted, Corrected, BufferedWasPulled
<1>8. RemovedWasHandled'
    BY <1>1, <1>2 DEF AccountingInv, RemovedWasHandled, Replaced
<1>9. OwnerIsClient'
    BY <1>1 DEF AccountingInv, OwnerIsClient
<1> QED
    BY <1>4, <1>5, <1>6, <1>7, <1>8, <1>9 DEF AccountingInv

LEMMA ListenerReturnsStep ==
    ASSUME AccountingInv, NEW r \in requests, NEW back \in SUBSET r.msgs,
           ListenerReturns(r, back)
    PROVE  AccountingInv'
<1> USE DEF queueVars, offsetVars
<1>1. PICK ack \in Offsets :
        LET failed == {o \in r.msgs : ack <= o}
            kept == IF MessageModel = "CLUSTERING" THEN failed \ back ELSE {}
        IN  /\ handled' = handled \cup (r.msgs \ kept)
            /\ requests' = (requests \ {r})
                   \cup {Request(r.q, stillRequested(r.msgs, kept), "removing", NoOffset)}
            /\ retries' = retries \cup submitConsumeRequestLater(r.q, kept)
    BY DEF ListenerReturns
<1> DEFINE failed == {o \in r.msgs : ack <= o}
           kept == IF MessageModel = "CLUSTERING" THEN failed \ back ELSE {}
           e == Request(r.q, r.msgs \ kept, "removing", NoOffset)
           timers == submitConsumeRequestLater(r.q, kept)
<1>2. /\ handled' = handled \cup (r.msgs \ kept)
      /\ requests' = Replaced(r, {e})
      /\ retries' = retries \cup timers
      /\ UNCHANGED <<pq, owner, pull, nextOffset, table, store, committed,
                     discarded, overruled, minOffset>>
    BY <1>1 DEF ListenerReturns, Replaced, stillRequested
<1>3. TypeOK /\ r \in RequestType /\ EachMessageHeldOnce /\ CountIsExact
    BY DEF AccountingInv, TypeOK
<1>4. kept \subseteq r.msgs
    OBVIOUS
<1> HIDE DEF kept
<1>5. /\ e \in RequestType /\ e.q = r.q /\ e.st = "removing"
      /\ e.msgs = r.msgs \ kept
    BY <1>3 DEF RequestType, Request, RequestStates
<1>6. /\ \A t \in timers : t.q = r.q /\ t.msgs = kept
      /\ \A t, u \in timers : t = u
      /\ kept # {} => timers # {}
      /\ timers \subseteq RetryType
  <2>1. CASE kept = {}
    BY <2>1 DEF submitConsumeRequestLater
  <2>2. CASE kept # {}
    <3>1. timers = {Retry(r.q, kept)}
      BY <2>2 DEF submitConsumeRequestLater
    <3>2. /\ Retry(r.q, kept) \in RetryType
          /\ Retry(r.q, kept).q = r.q /\ Retry(r.q, kept).msgs = kept
      BY <1>3, <1>4 DEF Retry, RetryType, RequestType
    <3> HIDE DEF timers
    <3> QED
      BY <3>1, <3>2
  <2> QED
    BY <2>1, <2>2
<1> HIDE DEF e, timers
<1>7. EachMessageHeldOnce' /\ CountIsExact'
  <2>1. e.msgs \cup kept = r.msgs /\ e.msgs \cap kept = {} /\ pq' = pq
    BY <1>2, <1>4, <1>5
  <2> QED
    BY <1>2, <1>3, <1>5, <1>6, <2>1, HandOverFrame
<1>8. TypeOK'
    BY <1>2, <1>3, <1>5, <1>6 DEF TypeOK, RequestType, Replaced
<1>9. handled \subseteq handled' /\ r.msgs \ kept \subseteq handled'
    BY <1>2
<1>10. OffsetsSettled'
    BY <1>2, <1>5, <1>9 DEF AccountingInv, OffsetsSettled, Settled, Replaced
<1>11. PulledIsAccounted' /\ BufferedWasPulled'
    BY <1>2, <1>9 DEF AccountingInv, PulledIsAccounted, Accounted, Corrected, BufferedWasPulled
<1>12. RemovedWasHandled'
    BY <1>2, <1>5, <1>9 DEF AccountingInv, RemovedWasHandled, Replaced
<1>13. OwnerIsClient'
    BY <1>2 DEF AccountingInv, OwnerIsClient
<1> QED
    BY <1>7, <1>8, <1>10, <1>11, <1>12, <1>13 DEF AccountingInv

LEMMA StoreOffsetStep ==
    ASSUME AccountingInv, NEW r \in requests, StoreOffset(r)
    PROVE  AccountingInv'
<1> USE DEF queueVars
<1>1. /\ r.st = "updating"
      /\ store' = [store EXCEPT ![owner[r.q]] = updateOffset(@, r.offset, TRUE)]
      /\ requests' = requests \ {r}
      /\ UNCHANGED <<pq, owner, pull, nextOffset, table, committed, retries, handled,
                     discarded, overruled, minOffset>>
    BY DEF StoreOffset
<1>2. /\ TypeOK /\ EachMessageHeldOnce /\ CountIsExact
      /\ r.offset \in Offsets \cup {NoOffset} /\ Settled(r.offset) /\ r.msgs = {}
    BY <1>1 DEF AccountingInv, TypeOK, RequestType, OffsetsSettled, RemovedWasHandled
<1>3. updateOffset(store[owner[r.q]], r.offset, TRUE) \in {r.offset, store[owner[r.q]]}
    BY DEF updateOffset
<1>4. /\ store' \in [Clients -> Offsets \cup {NoOffset}]
      /\ \A d \in Clients : Settled(store'[d])
  <2>1. store' = [store EXCEPT ![owner[r.q]] = updateOffset(store[owner[r.q]], r.offset, TRUE)]
    BY <1>1
  <2> QED
    BY <2>1, <1>2, <1>3 DEF AccountingInv, OffsetsSettled, TypeOK
<1>5. TypeOK'
    BY <1>1, <1>2, <1>4 DEF TypeOK
<1>6. HeldIsBuffered' /\ HoldersDisjoint' /\ CountIsExact'
    BY <1>1, <1>2 DEF EachMessageHeldOnce, HeldIsBuffered, HoldersDisjoint, CountIsExact
<1>7. BufferedIsHeld'
    BY <1>1, <1>2 DEF EachMessageHeldOnce, BufferedIsHeld
<1>8. OffsetsSettled'
    BY <1>1, <1>4 DEF AccountingInv, OffsetsSettled, Settled
<1>9. PulledIsAccounted' /\ BufferedWasPulled' /\ RemovedWasHandled'
    BY <1>1 DEF AccountingInv, PulledIsAccounted, Accounted, Corrected, BufferedWasPulled, RemovedWasHandled
<1>10. OwnerIsClient'
    BY <1>1 DEF AccountingInv, OwnerIsClient
<1> QED
    BY <1>5, <1>6, <1>7, <1>8, <1>9, <1>10 DEF AccountingInv, EachMessageHeldOnce

LEMMA RetryTimeoutStep ==
    ASSUME AccountingInv, NEW t \in retries, RetryTimeout(t)
    PROVE  AccountingInv'
<1> USE DEF queueVars, offsetVars
<1> DEFINE new == submitConsumeRequest(t.q, t.msgs)
<1>1. /\ retries' = retries \ {t}
      /\ requests' = requests \cup new
      /\ UNCHANGED <<pq, owner, pull, nextOffset, table, store, committed, handled,
                     discarded, overruled, minOffset>>
    BY DEF RetryTimeout
<1>2. /\ TypeOK /\ EachMessageHeldOnce /\ CountIsExact
      /\ t.q \in ProcessQueues /\ t.msgs \in SUBSET Matching
    BY DEF AccountingInv, TypeOK, RetryType
<1>3. new \subseteq RequestType /\ \A r \in new : r.st = "submitted"
    BY <1>2, SubmitPartition
<1> HIDE DEF new
<1>4. EachMessageHeldOnce'
  <2>1. \A u \in ProcessQueues :
            pq'[u].msgTreeMap = IF u = t.q THEN pq[u].msgTreeMap \cup t.msgs
                                ELSE pq[u].msgTreeMap
    <3>1. t.msgs \subseteq pq[t.q].msgTreeMap
      BY <1>2 DEF EachMessageHeldOnce, HeldIsBuffered
    <3> QED
      BY <3>1, <1>1
  <2>2. \A r \in requests : r.q = t.q => r.msgs \cap t.msgs = {}
    BY <1>2 DEF EachMessageHeldOnce, HoldersDisjoint
  <2> DEFINE gone == {t}
  <2>3. \A u \in retries \ gone : u.q = t.q => u.msgs \cap t.msgs = {}
    BY <1>2 DEF EachMessageHeldOnce, HoldersDisjoint
  <2>4. /\ gone \in SUBSET retries
        /\ \A u \in gone : u.q = t.q /\ u.msgs \subseteq t.msgs
        /\ retries' = retries \ gone
        /\ new = submitConsumeRequest(t.q, t.msgs)
    BY <1>1 DEF new
  <2> HIDE DEF gone
  <2> QED
    BY <1>1, <1>2, <2>1, <2>2, <2>3, <2>4, SubmitFrame
<1>5. CountIsExact'
    BY <1>1, <1>2 DEF CountIsExact
<1>6. TypeOK'
    BY <1>1, <1>2, <1>3 DEF TypeOK
<1>7. OffsetsSettled'
    BY <1>1, <1>3 DEF AccountingInv, OffsetsSettled, Settled
<1>8. PulledIsAccounted' /\ BufferedWasPulled'
    BY <1>1 DEF AccountingInv, PulledIsAccounted, Accounted, Corrected, BufferedWasPulled
<1>9. RemovedWasHandled'
    BY <1>1, <1>3 DEF AccountingInv, RemovedWasHandled
<1>10. OwnerIsClient'
    BY <1>1 DEF AccountingInv, OwnerIsClient
<1> QED
    BY <1>4, <1>5, <1>6, <1>7, <1>8, <1>9, <1>10 DEF AccountingInv

LEMMA CrashStep ==
    ASSUME AccountingInv, NEW c \in Clients, Crash(c)
    PROVE  AccountingInv'
<1> DEFINE mine == {p \in ProcessQueues : owner[p] = c}
<1>1. /\ pq' = [p \in ProcessQueues |-> IF p \in mine THEN NewProcessQueue ELSE pq[p]]
      /\ pull' = [p \in ProcessQueues |-> IF p \in mine THEN "deleted" ELSE pull[p]]
      /\ nextOffset' = [p \in ProcessQueues |-> IF p \in mine THEN 0 ELSE nextOffset[p]]
      /\ table' = [table EXCEPT ![c] = NoQueue]
      /\ store' = [store EXCEPT ![c] =
             IF MessageModel = "BROADCASTING" THEN committed ELSE NoOffset]
      /\ requests' = {r \in requests : r.q \notin mine}
      /\ retries' = {t \in retries : t.q \notin mine}
      /\ UNCHANGED <<owner, committed, handled, discarded, overruled, minOffset>>
    BY DEF Crash
<1>2. \A p \in mine : owner[p] = c
    OBVIOUS
<1> HIDE DEF mine
<1>3. TypeOK /\ EachMessageHeldOnce /\ CountIsExact
    BY DEF AccountingInv
<1>4. /\ NewProcessQueue \in ProcessQueueType(Matching)
      /\ NewProcessQueue.msgTreeMap = {} /\ NewProcessQueue.msgCount = 0
    BY DEF NewProcessQueue, ProcessQueueType
<1>5. /\ \A p \in ProcessQueues : p \in mine => pq'[p] = NewProcessQueue /\ pull'[p] = "deleted"
      /\ \A p \in ProcessQueues : p \notin mine =>
            pq'[p] = pq[p] /\ pull'[p] = pull[p] /\ nextOffset'[p] = nextOffset[p]
    BY <1>1
<1>6. Settled(NoOffset)
    BY <1>3, MatchingBounded, ConstantsAssumption DEF Settled, NoOffset, TypeOK, Offsets
<1>7. /\ store' \in [Clients -> Offsets \cup {NoOffset}]
      /\ \A d \in Clients : Settled(store'[d])
    BY <1>1, <1>3, <1>6 DEF AccountingInv, OffsetsSettled, TypeOK
<1>8. TypeOK'
  <2>1. /\ pq' \in [ProcessQueues -> ProcessQueueType(Matching)]
        /\ pull' \in [ProcessQueues -> PullStates]
        /\ nextOffset' \in [ProcessQueues -> Offsets]
    BY <1>1, <1>3, <1>4, ConstantsAssumption DEF TypeOK, PullStates, Offsets
  <2> QED
    BY <2>1, <1>1, <1>3, <1>7 DEF TypeOK
<1>9. HeldIsBuffered'
  <2>1. \A r \in requests : r.q \in ProcessQueues
    BY <1>3 DEF TypeOK, RequestType
  <2>2. \A t \in retries : t.q \in ProcessQueues
    BY <1>3 DEF TypeOK, RetryType
  <2> QED
    BY <2>1, <2>2, <1>1, <1>3, <1>5 DEF EachMessageHeldOnce, HeldIsBuffered
<1>10. BufferedIsHeld'
  <2> SUFFICES ASSUME NEW p \in ProcessQueues, NEW o \in pq'[p].msgTreeMap
               PROVE  \/ \E r \in requests' : r.q = p /\ o \in r.msgs
                      \/ \E t \in retries' : t.q = p /\ o \in t.msgs
    BY DEF BufferedIsHeld
  <2>1. p \notin mine /\ o \in pq[p].msgTreeMap
    BY <1>4, <1>5
  <2>2. \/ \E r \in requests : r.q = p /\ o \in r.msgs
        \/ \E t \in retries : t.q = p /\ o \in t.msgs
    BY <2>1, <1>3 DEF EachMessageHeldOnce, BufferedIsHeld
  <2> QED
    BY <2>1, <2>2, <1>1
<1>11. HoldersDisjoint'
    BY <1>1, <1>3 DEF EachMessageHeldOnce, HoldersDisjoint
<1>12. CountIsExact'
    BY <1>3, <1>4, <1>5, FS_EmptySet DEF CountIsExact
<1>13. OffsetsSettled'
    BY <1>1, <1>7 DEF AccountingInv, OffsetsSettled, Settled
<1>14. PulledIsAccounted'
    BY <1>1, <1>4, <1>5 DEF AccountingInv, PulledIsAccounted, Accounted, Corrected
<1>15. BufferedWasPulled'
    BY <1>1, <1>4, <1>5 DEF AccountingInv, BufferedWasPulled, Corrected
<1>16. RemovedWasHandled'
    BY <1>1 DEF AccountingInv, RemovedWasHandled
<1>17. OwnerIsClient'
    BY <1>1, <1>2, <1>5 DEF AccountingInv, OwnerIsClient
<1> QED
    BY <1>8, <1>9, <1>10, <1>11, <1>12, <1>13, <1>14, <1>15, <1>16, <1>17
       DEF AccountingInv, EachMessageHeldOnce

(* Expiry only weakens what the offsets owe.                               *)
LEMMA BrokerExpiresStep ==
    ASSUME AccountingInv, BrokerExpires
    PROVE  AccountingInv'
<1> USE DEF queueVars, offsetVars, consumeVars
<1>1. /\ minOffset' = minOffset + 1 /\ minOffset < MaxExpired
      /\ UNCHANGED <<pq, owner, pull, nextOffset, table, store, committed, requests,
                     retries, handled, discarded, overruled>>
    BY DEF BrokerExpires
<1>2. TypeOK /\ minOffset \in Int /\ minOffset' \in Offsets
  <2>1. MaxExpired \in 0 .. MaxOffset /\ MaxOffset \in Nat /\ minOffset \in 0 .. MaxOffset
    BY ConstantsAssumption DEF AccountingInv, TypeOK, Offsets
  <2> QED
    BY <1>1, <2>1 DEF AccountingInv, Offsets
<1>3. \A o \in Matching : minOffset' <= o => minOffset <= o
    BY <1>1, <1>2, MatchingBounded
<1>4. TypeOK'
    BY <1>1, <1>2 DEF TypeOK
<1>5. EachMessageHeldOnce' /\ CountIsExact'
    BY <1>1, <1>2, BuffersFrame DEF AccountingInv
<1>6. OffsetsSettled'
    BY <1>1, <1>3 DEF AccountingInv, OffsetsSettled, Settled
<1>7. PulledIsAccounted' /\ BufferedWasPulled' /\ RemovedWasHandled' /\ OwnerIsClient'
    BY <1>1, <1>3 DEF AccountingInv, PulledIsAccounted, Accounted, Corrected, BufferedWasPulled,
                      RemovedWasHandled, OwnerIsClient
<1> QED
    BY <1>4, <1>5, <1>6, <1>7 DEF AccountingInv

LEMMA StutterStep ==
    ASSUME AccountingInv, UNCHANGED vars
    PROVE  AccountingInv'
<1>1. UNCHANGED <<pq, owner, pull, nextOffset, table, store, committed, requests,
                  retries, handled, discarded, overruled, minOffset>>
    BY DEF vars, queueVars, offsetVars, consumeVars
<1>2. TypeOK' /\ EachMessageHeldOnce' /\ CountIsExact'
    BY <1>1 DEF AccountingInv, TypeOK, EachMessageHeldOnce, HeldIsBuffered,
                BufferedIsHeld, HoldersDisjoint, CountIsExact
<1>3. OffsetsSettled' /\ PulledIsAccounted' /\ BufferedWasPulled'
    BY <1>1 DEF AccountingInv, OffsetsSettled, Settled, PulledIsAccounted, Accounted, Corrected, BufferedWasPulled
<1>4. RemovedWasHandled' /\ OwnerIsClient'
    BY <1>1 DEF AccountingInv, RemovedWasHandled, OwnerIsClient
<1> QED
    BY <1>2, <1>3, <1>4 DEF AccountingInv

-----------------------------------------------------------------------------
(* The accounting of AccountingInv is an invariant of every instance: no   *)
(* interleaving of pulls, pool threads, retry timers, rebalance and crash  *)
(* of any number of clients breaks it.                                     *)
THEOREM AccountingHolds == Spec => []AccountingInv
<1>1. Init => AccountingInv
    BY InitStep
<1>2. AccountingInv /\ [Next]_vars => AccountingInv'
  <2> SUFFICES ASSUME AccountingInv, [Next]_vars
               PROVE  AccountingInv'
    OBVIOUS
  <2>1. CASE \E c \in Clients : \/ PersistAll(c) \/ AssignQueue(c) \/ RemoveQueue(c)
                                \/ TruncateQueue(c) \/ Crash(c)
    BY <2>1, PersistAllStep, AssignQueueStep, RemoveQueueStep, TruncateQueueStep, CrashStep
  <2>2. CASE \E p \in ProcessQueues : \/ PullDropped(p) \/ PullSend(p)
                                      \/ PullNotConnected(p) \/ PullException(p)
    BY <2>2, PullDroppedStep, PullMovesStep
  <2>3. CASE \E p \in ProcessQueues : \/ PullFound(p) \/ PullNotFound(p)
                                      \/ PullOffsetIllegal(p) \/ CorrectOffset(p)
    BY <2>3, PullFoundStep, PullNotFoundStep, PullOffsetIllegalStep, CorrectOffsetStep
  <2>4. CASE \E r \in requests : \/ DiscardRequest(r) \/ StartListener(r)
                                 \/ RemoveConsumed(r) \/ StoreOffset(r)
    BY <2>4, DiscardRequestStep, StartListenerStep, RemoveConsumedStep, StoreOffsetStep
  <2>5. CASE \E r \in requests : \E back \in SUBSET r.msgs : ListenerReturns(r, back)
    BY <2>5, ListenerReturnsStep
  <2>6. CASE \E t \in retries : RetryTimeout(t)
    BY <2>6, RetryTimeoutStep
  <2>7. CASE BrokerExpires
    BY <2>7, BrokerExpiresStep
  <2>8. CASE UNCHANGED vars
    BY <2>8, StutterStep
  <2> QED
    BY <2>1, <2>2, <2>3, <2>4, <2>5, <2>6, <2>7, <2>8 DEF Next
<1> QED
    BY <1>1, <1>2, PTL DEF Spec

(* The objects, tables, requests and offsets keep their types.             *)
THEOREM TypeCorrect == Spec => []TypeOK
<1>1. AccountingInv => TypeOK
    BY DEF AccountingInv
<1> QED
    BY <1>1, AccountingHolds, PTL

(* At least once: for any number of clients, assignments and messages, the *)
(* durable offset of the queue (updateOffset, persist, persistAll, the     *)
(* commit offset of a pull) never passes a message that was not consumed,  *)
(* sent back, expired, or discarded with a dropped queue.                  *)
THEOREM CommittedSettled == Spec => []CommittedIsSettled
<1>1. AccountingInv => CommittedIsSettled
    BY DEF AccountingInv, OffsetsSettled, CommittedIsSettled
<1> QED
    BY <1>1, AccountingHolds, PTL

(* Every buffered message has one holder, a pool request or a retry timer  *)
(* (submitConsumeRequest, processConsumeResult, submitConsumeRequestLater).*)
THEOREM HeldOnce == Spec => []EachMessageHeldOnce
<1>1. AccountingInv => EachMessageHeldOnce
    BY DEF AccountingInv
<1> QED
    BY <1>1, AccountingHolds, PTL

(* m_msgCount never drifts from the number of buffered messages, so flow   *)
(* control and correctTagsOffset read the right number.                    *)
THEOREM CountExact == Spec => []CountIsExact
<1>1. AccountingInv => CountIsExact
    BY DEF AccountingInv
<1> QED
    BY <1>1, AccountingHolds, PTL

-----------------------------------------------------------------------------
(* The three kinds of steps of the abstract specification.                 *)

LEMMA CommitStep ==
    ASSUME AccountingInv', UNCHANGED <<handled, discarded, overruled, minOffset>>
    PROVE  AO!Next
<1>1. committed' \in Offsets \cup {NoOffset}
    BY DEF AccountingInv, TypeOK
<1>2. \A o \in Matching : minOffset <= o /\ o < committed' =>
          o \in (handled \cup discarded) \cup overruled
    BY DEF AccountingInv, OffsetsSettled, Settled
<1> QED
    BY <1>1, <1>2 DEF AO!Next, AO!Commit

LEMMA SettleStep ==
    ASSUME AccountingInv',
           handled \subseteq handled', discarded \subseteq discarded',
           UNCHANGED <<committed, overruled, minOffset>>
    PROVE  AO!Next
<1>1. handled' \cup discarded' \in SUBSET Matching
    BY DEF AccountingInv, TypeOK
<1>2. handled' \cup discarded' = (handled \cup discarded) \cup (handled' \cup discarded')
    OBVIOUS
<1> QED
    BY <1>1, <1>2 DEF AO!Next, AO!Settle

LEMMA OverruleStep ==
    ASSUME AccountingInv, NEW p \in ProcessQueues, CorrectOffset(p)
    PROVE  AO!Next
<1>1. /\ nextOffset[p] \in Offsets \cup {NoOffset}
      /\ committed' \in {committed, nextOffset[p]}
      /\ UNCHANGED <<handled, discarded, minOffset>>
    BY DEF AccountingInv, TypeOK, CorrectOffset, persist
<1>2. overruled' = overruled \cup {o \in Matching \ (handled \cup discarded) :
                                   minOffset <= o /\ o < nextOffset[p]}
    BY DEF CorrectOffset, Unsettled
<1> QED
    BY <1>1, <1>2 DEF AO!Next, AO!Overrule

LEMMA ExpireStep ==
    ASSUME BrokerExpires
    PROVE  AO!Next
BY DEF BrokerExpires, offsetVars, consumeVars, AO!Next, AO!Expire

(* The consumers of a group, however many, implement the promise of        *)
(* AtLeastOnce: each step of a pull, a pool thread, a timer, rebalance, a  *)
(* crash or the broker is a step of it or changes nothing of it.           *)
THEOREM Refinement == Spec => ImplementsAtLeastOnce
<1>1. Init => AO!Init
    BY ConstantsAssumption DEF Init, AO!Init, Offsets, NoOffset
<1>2. AccountingInv /\ AccountingInv' /\ [Next]_vars => [AO!Next]_AO!vars
  <2> SUFFICES ASSUME AccountingInv, AccountingInv', [Next]_vars
               PROVE  AO!Next \/ UNCHANGED AO!vars
    OBVIOUS
  <2>1. CASE \E c \in Clients : \/ PersistAll(c) \/ RemoveQueue(c)
                                \/ TruncateQueue(c) \/ Crash(c)
    <3>1. UNCHANGED <<handled, discarded, overruled, minOffset>>
      BY <2>1 DEF PersistAll, RemoveQueue, TruncateQueue, Crash, consumeVars
    <3> QED
      BY <3>1, CommitStep
  <2>9. CASE \E c \in Clients : AssignQueue(c)
    <3>1. /\ handled \subseteq handled' /\ discarded \subseteq discarded'
          /\ UNCHANGED <<committed, overruled, minOffset>>
      BY <2>9 DEF AssignQueue
    <3> QED
      BY <3>1, SettleStep
  <2>2. CASE \E p \in ProcessQueues : \/ PullDropped(p) \/ PullSend(p)
                                      \/ PullNotConnected(p) \/ PullException(p)
    <3>1. UNCHANGED <<handled, discarded, overruled, minOffset>>
      BY <2>2 DEF PullDropped, PullSend, PullNotConnected, PullException, consumeVars
    <3> QED
      BY <3>1, CommitStep
  <2>10. CASE \E p \in ProcessQueues : CorrectOffset(p)
    BY <2>10, OverruleStep
  <2>3. CASE \E p \in ProcessQueues : \/ PullFound(p) \/ PullNotFound(p)
                                      \/ PullOffsetIllegal(p)
    <3>1. UNCHANGED <<handled, discarded, overruled, minOffset>>
      BY <2>3 DEF PullFound, PullNotFound, PullOffsetIllegal, consumeVars
    <3> QED
      BY <3>1, CommitStep
  <2>4. CASE \E r \in requests : \/ DiscardRequest(r) \/ StartListener(r)
                                 \/ RemoveConsumed(r) \/ StoreOffset(r)
    <3>1. /\ handled \subseteq handled' /\ discarded \subseteq discarded'
          /\ UNCHANGED <<committed, overruled, minOffset>>
      BY <2>4 DEF DiscardRequest, StartListener, RemoveConsumed, StoreOffset, offsetVars
    <3> QED
      BY <3>1, SettleStep
  <2>5. CASE \E r \in requests : \E back \in SUBSET r.msgs : ListenerReturns(r, back)
    <3>1. /\ handled \subseteq handled' /\ discarded \subseteq discarded'
          /\ UNCHANGED <<committed, overruled, minOffset>>
      BY <2>5 DEF ListenerReturns, offsetVars
    <3> QED
      BY <3>1, SettleStep
  <2>6. CASE \E t \in retries : RetryTimeout(t)
    <3>1. UNCHANGED <<handled, discarded, overruled, minOffset>>
      BY <2>6 DEF RetryTimeout
    <3> QED
      BY <3>1, CommitStep
  <2>7. CASE BrokerExpires
    BY <2>7, ExpireStep
  <2>8. CASE UNCHANGED vars
    BY <2>8 DEF vars, offsetVars, consumeVars, AO!vars
  <2> QED
    BY <2>1, <2>2, <2>3, <2>4, <2>5, <2>6, <2>7, <2>8, <2>9, <2>10 DEF Next
<1> QED
    BY <1>1, <1>2, AccountingHolds, PTL DEF Spec, ImplementsAtLeastOnce, AO!Spec
=============================================================================
