------------------------ MODULE OrderlyConsumeProofs ------------------------
(***************************************************************************)
(* What ConsumeMessageOrderlyService keeps for any number of clients,      *)
(* objects and messages: one request per object, an exact message count,   *)
(* delivery in order, commits that pass only what a listener accepted, and *)
(* an exclusive queue lock.  OrderInv is the inductive invariant.          *)
(***************************************************************************)
EXTENDS OrderlyConsume, OperatorProofs

Count(b) == IF b THEN 1 ELSE 0

(* An object nobody allocated is as new; tables, threads and lock calls    *)
(* only name objects of their own client.                                  *)
OwnerInv ==
    /\ \A p \in ProcessQueues :
        /\ owner[p] = NoClient <=> pull[p] = "unused"
        /\ owner[p] = NoClient =>
            /\ pq[p] = NewProcessQueue
            /\ accepted[p] = {}
            /\ submitted[p] = 0 /\ later[p] = 0 /\ lockLater[p] = 0
    /\ \A c \in Clients :
        /\ table[c] # NoQueue => owner[table[c]] = c
        /\ running[c].q # NoQueue => owner[running[c].q] = c
        /\ running[c].q = NoQueue => running[c].st = "loop"
        /\ lockCall[c].by # NoQueue => owner[lockCall[c].by] = c

(* The requests and timers of an allocated object, each thread and call    *)
(* counted with its own client.                                            *)
Tokens(p) ==
    submitted[p] + later[p] + lockLater[p]
    + Count(running[owner[p]].q = p) + Count(lockCall[owner[p]].by = p)

(* An object with a request is marked as being consumed, and has no second *)
(* one.                                                                    *)
RequestInv ==
    \A p \in ProcessQueues : owner[p] \in Clients =>
        /\ Tokens(p) <= 1
        /\ ~pq[p].consuming => Tokens(p) = 0

(* The batch that is with the listener.                                    *)
Pending(p) ==
    IF /\ owner[p] \in Clients
       /\ running[owner[p]].q = p
       /\ running[owner[p]].st = "listening"
    THEN running[owner[p]].msgs ELSE {}

(* A buffer q filled with the offsets from .. next - 1, of which acc are   *)
(* accepted: every offset is waiting, handed out or accepted; what was     *)
(* handed out precedes what waits, and of that the accepted part precedes  *)
(* the batch that is with the listener.                                    *)
Orderly(q, from, next, acc, batch) ==
    /\ q.msgTreeMap \cap q.msgTreeMapTemp = {}
    /\ q.msgTreeMap \cap acc = {}
    /\ q.msgCount = Cardinality(q.msgTreeMap) + Cardinality(q.msgTreeMapTemp)
    /\ \A o \in q.msgTreeMap \cup q.msgTreeMapTemp \cup acc : o < next
    /\ \A o \in Messages : from <= o /\ o < next =>
           o \in q.msgTreeMap \cup q.msgTreeMapTemp \cup acc
    /\ \A t \in q.msgTreeMapTemp, m \in q.msgTreeMap : t < m
    /\ \A t \in q.msgTreeMapTemp \cap acc, m \in q.msgTreeMapTemp \ acc : t < m
    /\ batch = q.msgTreeMapTemp \ acc

BufferInv ==
    \A p \in ProcessQueues :
        Orderly(pq[p], start[p], nextOffset[p], accepted[p], Pending(p))

Below(S, x) ==
    \A o \in Messages : o < x => \E p \in ProcessQueues : o \in S[p]

(* Every offset the clients work with passes only what is accepted for     *)
(* good.                                                                   *)
FirmInv ==
    /\ Below(Firm, committed)
    /\ \A c \in Clients : Below(Firm, store[c]) /\ Below(Firm, running[c].offset)
    /\ \A p \in ProcessQueues : Below(Firm, start[p])

(* The client never lost the queue.                                        *)
Untouched(c) == \A r \in ProcessQueues : owner[r] = c => ~pq[r].droped

(* A client that never lost the queue believes in a lock only while the    *)
(* broker has it locked for this client.                                   *)
LockInv ==
    \A c \in Clients : Untouched(c) =>
        /\ lockCall[c].answer = "granted" => brokerLock = c
        /\ \A p \in ProcessQueues :
              owner[p] = c /\ HoldsLock(pq[p]) => brokerLock = c

OrderInv ==
    /\ TypeOK
    /\ OwnerInv
    /\ RequestInv
    /\ BufferInv
    /\ FirmInv
    /\ LockInv

-----------------------------------------------------------------------------
(* The methods of ProcessQueue that orderly consumption uses.              *)

Buffers == ProcessQueueType(Messages)

LEMMA MessageCount ==
    ASSUME NEW S \in SUBSET Messages
    PROVE  /\ MaxOffset - 1 \in Int
           /\ S \in SUBSET (0 .. (MaxOffset - 1))
           /\ IsFiniteSet(S)
           /\ Cardinality(S) \in Nat
  <1>1. MaxOffset - 1 \in Int /\ S \in SUBSET (0 .. (MaxOffset - 1))
    BY ConstantsAssumption DEF Messages
  <1> QED
    BY <1>1, BoundedIsFinite

LEMMA MessageUnion ==
    ASSUME NEW S \in SUBSET Messages, NEW T \in SUBSET Messages, S \cap T = {}
    PROVE  Cardinality(S \cup T) = Cardinality(S) + Cardinality(T)
  <1>1. /\ MaxOffset - 1 \in Int
        /\ S \in SUBSET (0 .. (MaxOffset - 1))
        /\ T \in SUBSET (0 .. (MaxOffset - 1))
    BY MessageCount
  <1> QED
    BY ONLY <1>1, S \cap T = {}, DisjointUnionCount

LEMMA MessageIsInt ==
    \A o \in Messages : o \in Int
  BY ConstantsAssumption DEF Messages

LEMMA BufferType ==
    ASSUME NEW q \in Buffers
    PROVE  /\ q.msgTreeMap \in SUBSET Messages
           /\ q.msgTreeMapTemp \in SUBSET Messages
           /\ q.msgCount \in Int
           /\ \A o \in q.msgTreeMap \cup q.msgTreeMapTemp : o \in Int
           /\ Cardinality(q.msgTreeMap) \in Nat
           /\ Cardinality(q.msgTreeMapTemp) \in Nat
  <1>1. /\ q.msgTreeMap \in SUBSET Messages
        /\ q.msgTreeMapTemp \in SUBSET Messages
        /\ q.msgCount \in Int
    BY DEF Buffers, ProcessQueueType
  <1>2. \A o \in q.msgTreeMap \cup q.msgTreeMapTemp : o \in Int
    BY <1>1, MessageIsInt
  <1> QED
    BY <1>1, <1>2, MessageCount

(* takeMessags hands out the smallest offsets.                             *)
LEMMA BatchIsFirst ==
    ASSUME NEW q \in Buffers,
           NEW o \in takeBatch(q, BatchSize),
           NEW x \in q.msgTreeMap \ takeBatch(q, BatchSize)
    PROVE  o < x
  <1> DEFINE Less(y) == {z \in q.msgTreeMap : z < y}
  <1>1. q.msgTreeMap \in SUBSET Messages /\ \A y \in q.msgTreeMap : y \in Int
    BY BufferType
  <1>2. /\ o \in q.msgTreeMap /\ Cardinality(Less(o)) < BatchSize
        /\ x \in q.msgTreeMap /\ ~(Cardinality(Less(x)) < BatchSize)
    BY DEF takeBatch
  <1>3. SUFFICES ASSUME x <= o PROVE FALSE
    BY <1>1, <1>2
  <1>4. Less(x) \subseteq Less(o)
    BY <1>1, <1>2, <1>3
  <1>5. Less(o) \in SUBSET Messages /\ Less(x) \in SUBSET Messages
    BY <1>1
  <1> HIDE DEF Less
  <1>6. Cardinality(Less(x)) <= Cardinality(Less(o))
    BY <1>4, <1>5, MessageCount, FS_Subset
  <1> QED
    BY <1>2, <1>5, <1>6, MessageCount, ConstantsAssumption

LEMMA TakeFields ==
    ASSUME NEW q \in Buffers
    PROVE  LET r == takeMessags(q, BatchSize)
               batch == takeBatch(q, BatchSize)
           IN  /\ r \in Buffers
               /\ batch \in SUBSET q.msgTreeMap
               /\ r.msgTreeMap = q.msgTreeMap \ batch
               /\ r.msgTreeMapTemp = q.msgTreeMapTemp \cup batch
               /\ r.msgCount = q.msgCount
               /\ r.droped = q.droped /\ r.locked = q.locked
               /\ r.lockExpired = q.lockExpired /\ r.consuming = q.consuming
  <1>1. takeBatch(q, BatchSize) \in SUBSET q.msgTreeMap
    BY DEF takeBatch
  <1> QED
    BY <1>1 DEF takeMessags, Buffers, ProcessQueueType

LEMMA CommitFields ==
    ASSUME NEW q \in Buffers
    PROVE  LET r == commit(q)
           IN  /\ r \in Buffers
               /\ r.msgTreeMap = q.msgTreeMap
               /\ r.msgTreeMapTemp = {}
               /\ r.msgCount = q.msgCount - Cardinality(q.msgTreeMapTemp)
               /\ r.droped = q.droped /\ r.locked = q.locked
               /\ r.lockExpired = q.lockExpired /\ r.consuming = q.consuming
  <1>1. q.msgCount - Cardinality(q.msgTreeMapTemp) \in Int
    BY BufferType
  <1> QED
    BY <1>1 DEF commit, Buffers, ProcessQueueType

LEMMA RollbackFields ==
    ASSUME NEW q \in Buffers
    PROVE  LET r == rollback(q)
           IN  /\ r \in Buffers
               /\ r.msgTreeMap = q.msgTreeMap \cup q.msgTreeMapTemp
               /\ r.msgTreeMapTemp = {}
               /\ r.msgCount = q.msgCount
               /\ r.droped = q.droped /\ r.locked = q.locked
               /\ r.lockExpired = q.lockExpired /\ r.consuming = q.consuming
  BY DEF rollback, Buffers, ProcessQueueType

LEMMA AgainFields ==
    ASSUME NEW q \in Buffers, NEW msgs \in SUBSET Messages
    PROVE  LET r == makeMessageToCosumeAgain(q, msgs)
           IN  /\ r \in Buffers
               /\ r.msgTreeMap = q.msgTreeMap \cup msgs
               /\ r.msgTreeMapTemp = q.msgTreeMapTemp \ msgs
               /\ r.msgCount = q.msgCount
               /\ r.droped = q.droped /\ r.locked = q.locked
               /\ r.lockExpired = q.lockExpired /\ r.consuming = q.consuming
  BY DEF makeMessageToCosumeAgain, Buffers, ProcessQueueType

LEMMA PutFields ==
    ASSUME NEW q \in Buffers, NEW msgs \in SUBSET Messages, msgs # {}
    PROVE  LET r == putMessage(q, msgs)
           IN  /\ r \in Buffers
               /\ r.msgTreeMap = q.msgTreeMap \cup msgs
               /\ r.msgTreeMapTemp = q.msgTreeMapTemp
               /\ r.msgCount = q.msgCount + Cardinality(msgs)
               /\ r.droped = q.droped /\ r.locked = q.locked
               /\ r.lockExpired = q.lockExpired /\ r.consuming
               /\ dispathToConsume(q, msgs) <=> ~q.consuming
  <1>1. Cardinality(msgs) \in Nat /\ msgs \in SUBSET (0 .. (MaxOffset - 1))
        /\ MaxOffset - 1 \in Int
    BY MessageCount
  <1>2. Last(msgs) \in msgs
    BY <1>1, LastIsGreatest
  <1>3. Last(msgs) \in Int /\ q.msgCount + Cardinality(msgs) \in Int
    <2>1. Last(msgs) \in Messages /\ q.msgCount \in Int
      BY <1>2, BufferType
    <2>2. Last(msgs) \in Int
      BY <2>1, MessageIsInt
    <2> QED
      BY <1>1, <2>1, <2>2
  <1>4. q.msgTreeMap \cup msgs # {}
    OBVIOUS
  <1> QED
    BY <1>1, <1>3, <1>4 DEF putMessage, dispathToConsume, Buffers, ProcessQueueType

LEMMA FlagFields ==
    ASSUME NEW q \in Buffers, NEW b \in BOOLEAN
    PROVE  /\ setDroped(q) = [q EXCEPT !.droped = TRUE]
           /\ setDroped(q) \in Buffers
           /\ stopConsuming(q) = [q EXCEPT !.consuming = FALSE]
           /\ stopConsuming(q) \in Buffers
           /\ setLocked(q, b) = [q EXCEPT !.locked = b]
           /\ setLocked(q, b) \in Buffers
           /\ [q EXCEPT !.lockExpired = b] \in Buffers
  BY DEF setDroped, stopConsuming, setLocked, Buffers, ProcessQueueType

LEMMA NewFields ==
    /\ NewProcessQueue \in Buffers
    /\ NewProcessQueue.msgTreeMap = {}
    /\ NewProcessQueue.msgTreeMapTemp = {}
    /\ NewProcessQueue.msgCount = 0
    /\ ~NewProcessQueue.droped
    /\ ~NewProcessQueue.locked
    /\ ~NewProcessQueue.consuming
  BY DEF NewProcessQueue, Buffers, ProcessQueueType

-----------------------------------------------------------------------------
(* What each of them does to an orderly buffer.                            *)

LEMMA OrderlySame ==
    ASSUME NEW q, NEW r, NEW from, NEW next, NEW acc, NEW batch,
           Orderly(q, from, next, acc, batch),
           r.msgTreeMap = q.msgTreeMap,
           r.msgTreeMapTemp = q.msgTreeMapTemp,
           r.msgCount = q.msgCount
    PROVE  Orderly(r, from, next, acc, batch)
  BY DEF Orderly

LEMMA OrderlyPut ==
    ASSUME NEW q \in Buffers, NEW from \in Offsets, NEW next \in Offsets,
           NEW n \in (next + 1) .. MaxOffset,
           NEW acc \in SUBSET Messages, NEW batch,
           Orderly(q, from, next, acc, batch)
    PROVE  Orderly(putMessage(q, next .. (n - 1)), from, n, acc, batch)
  <1> DEFINE found == next .. (n - 1)
             r == putMessage(q, found)
  <1>1. next \in Nat /\ n \in Nat /\ next < n /\ from \in Nat
    BY ConstantsAssumption DEF Offsets
  <1>2. found \in SUBSET Messages /\ found # {}
    <2>1. \A o \in found : o \in Messages
      BY <1>1, ConstantsAssumption DEF Messages
    <2>2. next \in found
      BY <1>1
    <2> QED
      BY <2>1, <2>2
  <1>3. /\ q.msgTreeMap \in SUBSET Messages /\ q.msgTreeMapTemp \in SUBSET Messages
        /\ q.msgCount \in Int
        /\ \A o \in q.msgTreeMap \cup q.msgTreeMapTemp : o \in Int
        /\ \A o \in acc : o \in Int
    BY BufferType, MessageIsInt
  <1>4. \A o \in found : o \in Int /\ next <= o /\ o < n
    BY <1>1
  <1>5. \A o \in Messages : o \in Int /\ (next <= o /\ o < n => o \in found)
    BY <1>1, MessageIsInt
  <1> HIDE DEF found
  <1>6. /\ r.msgTreeMap = q.msgTreeMap \cup found
        /\ r.msgTreeMapTemp = q.msgTreeMapTemp
        /\ r.msgCount = q.msgCount + Cardinality(found)
    BY <1>2, PutFields
  <1> HIDE DEF r
  <1>7. q.msgTreeMap \cap found = {}
    BY <1>1, <1>2, <1>3, <1>4 DEF Orderly
  <1>8. Cardinality(r.msgTreeMap) = Cardinality(q.msgTreeMap) + Cardinality(found)
    BY <1>2, <1>3, <1>6, <1>7, MessageUnion
  <1>9. Cardinality(q.msgTreeMap) \in Nat /\ Cardinality(q.msgTreeMapTemp) \in Nat
        /\ Cardinality(found) \in Nat
    BY <1>2, <1>3, MessageCount
  <1>10. r.msgCount = Cardinality(r.msgTreeMap) + Cardinality(r.msgTreeMapTemp)
    BY <1>3, <1>6, <1>8, <1>9 DEF Orderly
  <1>11. /\ r.msgTreeMap \cap r.msgTreeMapTemp = {}
         /\ r.msgTreeMap \cap acc = {}
    BY <1>1, <1>2, <1>3, <1>4, <1>6 DEF Orderly
  <1>12. \A o \in r.msgTreeMap \cup r.msgTreeMapTemp \cup acc : o < n
    BY <1>1, <1>2, <1>3, <1>4, <1>6 DEF Orderly
  <1>13. \A o \in Messages : from <= o /\ o < n =>
             o \in r.msgTreeMap \cup r.msgTreeMapTemp \cup acc
    BY <1>1, <1>2, <1>3, <1>5, <1>6 DEF Orderly
  <1>14. \A t \in r.msgTreeMapTemp, m \in r.msgTreeMap : t < m
    BY <1>1, <1>2, <1>3, <1>4, <1>6 DEF Orderly
  <1> QED
    BY <1>6, <1>10, <1>11, <1>12, <1>13, <1>14 DEF Orderly, r, found

LEMMA OrderlyTake ==
    ASSUME NEW q \in Buffers, NEW from, NEW next, NEW acc \in SUBSET Messages,
           Orderly(q, from, next, acc, {})
    PROVE  Orderly(takeMessags(q, BatchSize), from, next, acc,
                   takeBatch(q, BatchSize))
  <1> DEFINE batch == takeBatch(q, BatchSize)
             r == takeMessags(q, BatchSize)
  <1>1. /\ q.msgTreeMap \in SUBSET Messages /\ q.msgTreeMapTemp \in SUBSET Messages
        /\ q.msgCount \in Int
        /\ \A o \in q.msgTreeMap \cup q.msgTreeMapTemp : o \in Int
    BY BufferType
  <1>2. \A o \in batch, x \in q.msgTreeMap \ batch : o < x
    BY BatchIsFirst
  <1>3. /\ batch \in SUBSET q.msgTreeMap
        /\ r.msgTreeMap = q.msgTreeMap \ batch
        /\ r.msgTreeMapTemp = q.msgTreeMapTemp \cup batch
        /\ r.msgCount = q.msgCount
    BY TakeFields
  <1> HIDE DEF batch, r
  <1>4. q.msgTreeMapTemp \cap batch = {}
    BY <1>3 DEF Orderly
  <1>5. Cardinality(r.msgTreeMap) = Cardinality(q.msgTreeMap) - Cardinality(batch)
    BY <1>1, <1>3, MessageCount, DifferenceCount
  <1>6. Cardinality(r.msgTreeMapTemp)
            = Cardinality(q.msgTreeMapTemp) + Cardinality(batch)
    <2>1. batch \in SUBSET Messages
      BY <1>1, <1>3
    <2> QED
      BY <1>1, <1>3, <1>4, <2>1, MessageUnion
  <1>7. Cardinality(q.msgTreeMap) \in Nat /\ Cardinality(q.msgTreeMapTemp) \in Nat
        /\ Cardinality(batch) \in Nat
    BY <1>1, <1>3, MessageCount
  <1>8. r.msgCount = Cardinality(r.msgTreeMap) + Cardinality(r.msgTreeMapTemp)
    BY <1>1, <1>3, <1>5, <1>6, <1>7 DEF Orderly
  <1>9. /\ r.msgTreeMap \cap r.msgTreeMapTemp = {}
        /\ r.msgTreeMap \cap acc = {}
        /\ r.msgTreeMap \cup r.msgTreeMapTemp = q.msgTreeMap \cup q.msgTreeMapTemp
        /\ batch = r.msgTreeMapTemp \ acc
        /\ r.msgTreeMapTemp \cap acc = q.msgTreeMapTemp
    BY <1>3 DEF Orderly
  <1>10. /\ \A t \in r.msgTreeMapTemp, m \in r.msgTreeMap : t < m
         /\ \A t \in r.msgTreeMapTemp \cap acc, m \in r.msgTreeMapTemp \ acc : t < m
    BY <1>2, <1>3, <1>9 DEF Orderly
  <1> QED
    BY <1>3, <1>8, <1>9, <1>10 DEF Orderly, batch, r

LEMMA OrderlyCommit ==
    ASSUME NEW q \in Buffers, NEW from, NEW next, NEW acc \in SUBSET Messages,
           NEW batch, Orderly(q, from, next, acc, batch)
    PROVE  Orderly(commit(q), from, next, acc \cup batch, {})
  <1>1. /\ q.msgTreeMap \in SUBSET Messages /\ q.msgTreeMapTemp \in SUBSET Messages
        /\ q.msgCount \in Int
        /\ \A o \in q.msgTreeMap \cup q.msgTreeMapTemp : o \in Int
    BY BufferType
  <1>2. Cardinality(q.msgTreeMap) \in Nat /\ Cardinality(q.msgTreeMapTemp) \in Nat
    BY <1>1, MessageCount
  <1>3. Cardinality({}) = 0
    BY FS_EmptySet
  <1>4. batch = q.msgTreeMapTemp \ acc
    BY DEF Orderly
  <1> DEFINE r == commit(q)
  <1>5. /\ r.msgTreeMap = q.msgTreeMap
        /\ r.msgTreeMapTemp = {}
        /\ r.msgCount = q.msgCount - Cardinality(q.msgTreeMapTemp)
    BY CommitFields
  <1> HIDE DEF r
  <1>6. r.msgCount = Cardinality(r.msgTreeMap) + Cardinality(r.msgTreeMapTemp)
    BY <1>1, <1>2, <1>3, <1>5 DEF Orderly
  <1> QED
    BY <1>4, <1>5, <1>6 DEF Orderly, r

LEMMA OrderlySucceed ==
    ASSUME NEW q, NEW from, NEW next, NEW acc, NEW batch,
           Orderly(q, from, next, acc, batch)
    PROVE  Orderly(q, from, next, acc \cup batch, {})
  BY DEF Orderly

LEMMA OrderlyRollback ==
    ASSUME NEW q \in Buffers, NEW from, NEW next, NEW acc \in SUBSET Messages,
           NEW batch, Orderly(q, from, next, acc, batch)
    PROVE  Orderly(rollback(q), from, next, acc \ q.msgTreeMapTemp, {})
  <1>1. /\ q.msgTreeMap \in SUBSET Messages /\ q.msgTreeMapTemp \in SUBSET Messages
        /\ q.msgCount \in Int
        /\ \A o \in q.msgTreeMap \cup q.msgTreeMapTemp : o \in Int
    BY BufferType
  <1>2. Cardinality(q.msgTreeMap \cup q.msgTreeMapTemp)
            = Cardinality(q.msgTreeMap) + Cardinality(q.msgTreeMapTemp)
    <2>1. q.msgTreeMap \cap q.msgTreeMapTemp = {}
      BY DEF Orderly
    <2> QED
      BY <1>1, <2>1, MessageUnion
  <1>3. Cardinality(q.msgTreeMap) \in Nat /\ Cardinality(q.msgTreeMapTemp) \in Nat
    BY <1>1, MessageCount
  <1>4. Cardinality({}) = 0
    BY FS_EmptySet
  <1> QED
    <2> DEFINE r == rollback(q)
    <2>1. /\ r.msgTreeMap = q.msgTreeMap \cup q.msgTreeMapTemp
          /\ r.msgTreeMapTemp = {}
          /\ r.msgCount = q.msgCount
      BY RollbackFields
    <2> HIDE DEF r
    <2>2. r.msgCount = Cardinality(r.msgTreeMap) + Cardinality(r.msgTreeMapTemp)
      BY <1>2, <1>3, <1>4, <2>1 DEF Orderly
    <2> QED
      BY <2>1, <2>2 DEF Orderly, r

LEMMA OrderlyAgain ==
    ASSUME NEW q \in Buffers, NEW from, NEW next, NEW acc \in SUBSET Messages,
           NEW batch, Orderly(q, from, next, acc, batch)
    PROVE  Orderly(makeMessageToCosumeAgain(q, batch), from, next, acc, {})
  <1> DEFINE r == makeMessageToCosumeAgain(q, batch)
  <1>1. /\ q.msgTreeMap \in SUBSET Messages /\ q.msgTreeMapTemp \in SUBSET Messages
        /\ q.msgCount \in Int
        /\ \A o \in q.msgTreeMap \cup q.msgTreeMapTemp : o \in Int
    BY BufferType
  <1>2. batch = q.msgTreeMapTemp \ acc
    BY DEF Orderly
  <1>3. /\ r.msgTreeMap = q.msgTreeMap \cup batch
        /\ r.msgTreeMapTemp = q.msgTreeMapTemp \ batch
        /\ r.msgCount = q.msgCount
    BY <1>1, <1>2, AgainFields
  <1> HIDE DEF r
  <1>4. Cardinality(r.msgTreeMap) = Cardinality(q.msgTreeMap) + Cardinality(batch)
    <2>1. q.msgTreeMap \cap batch = {} /\ batch \in SUBSET Messages
      BY <1>1, <1>2 DEF Orderly
    <2> QED
      BY <1>1, <1>3, <2>1, MessageUnion
  <1>5. Cardinality(r.msgTreeMapTemp)
            = Cardinality(q.msgTreeMapTemp) - Cardinality(batch)
    BY <1>1, <1>2, <1>3, MessageCount, DifferenceCount
  <1>6. Cardinality(q.msgTreeMap) \in Nat /\ Cardinality(q.msgTreeMapTemp) \in Nat
        /\ Cardinality(batch) \in Nat
    BY <1>1, <1>2, MessageCount
  <1>7. r.msgCount = Cardinality(r.msgTreeMap) + Cardinality(r.msgTreeMapTemp)
    BY <1>1, <1>3, <1>4, <1>5, <1>6 DEF Orderly
  <1>8. /\ r.msgTreeMap \cap r.msgTreeMapTemp = {}
        /\ r.msgTreeMap \cap acc = {}
        /\ r.msgTreeMap \cup r.msgTreeMapTemp = q.msgTreeMap \cup q.msgTreeMapTemp
        /\ r.msgTreeMapTemp \ acc = {}
    BY <1>2, <1>3 DEF Orderly
  <1>9. \A t \in r.msgTreeMapTemp, m \in r.msgTreeMap : t < m
    BY <1>2, <1>3 DEF Orderly
  <1> QED
    BY <1>3, <1>7, <1>8, <1>9 DEF Orderly, r

-----------------------------------------------------------------------------
(* What a step leaves alone.                                               *)

LEMMA SameRequests ==
    ASSUME RequestInv,
           UNCHANGED <<owner, submitted, later, lockLater>>,
           \A c \in Clients : /\ running'[c].q = running[c].q
                              /\ lockCall'[c].by = lockCall[c].by,
           \A p \in ProcessQueues : pq'[p].consuming = pq[p].consuming
    PROVE  RequestInv'
  BY DEF RequestInv, Tokens, Count

LEMMA SameBuffer ==
    ASSUME BufferInv,
           UNCHANGED <<owner, nextOffset, start, accepted>>,
           \A c \in Clients : running'[c] = running[c],
           \A p \in ProcessQueues :
               /\ pq'[p].msgTreeMap = pq[p].msgTreeMap
               /\ pq'[p].msgTreeMapTemp = pq[p].msgTreeMapTemp
               /\ pq'[p].msgCount = pq[p].msgCount
    PROVE  BufferInv'
  <1> SUFFICES ASSUME NEW p \in ProcessQueues
               PROVE  Orderly(pq[p], start[p], nextOffset[p], accepted[p], Pending(p))'
    BY DEF BufferInv
  <1>1. Orderly(pq[p], start[p], nextOffset[p], accepted[p], Pending(p))
    BY DEF BufferInv
  <1>2. Pending(p)' = Pending(p)
    BY DEF Pending
  <1>3. Orderly(pq'[p], start[p], nextOffset[p], accepted[p], Pending(p))
    BY <1>1, OrderlySame
  <1> QED
    BY <1>2, <1>3

LEMMA BelowGrows ==
    ASSUME NEW S, NEW T, \A p \in ProcessQueues : S[p] \subseteq T[p],
           NEW x, Below(S, x)
    PROVE  Below(T, x)
  BY DEF Below

LEMMA FirmSteps ==
    ASSUME \A p \in ProcessQueues : Firm[p] \subseteq Firm'[p],
           Below(Firm, committed'),
           \A c \in Clients : Below(Firm, store'[c]) /\ Below(Firm', running'[c].offset),
           \A p \in ProcessQueues : Below(Firm, start'[p])
    PROVE  FirmInv'
  <1>1. \A x : Below(Firm, x) => Below(Firm', x)
    BY BelowGrows
  <1> QED
    BY <1>1 DEF FirmInv

LEMMA SameFirm ==
    ASSUME FirmInv,
           accepted' = accepted,
           \A p \in ProcessQueues : pq'[p].msgTreeMapTemp = pq[p].msgTreeMapTemp
    PROVE  Firm' = Firm
  BY DEF Firm

LEMMA BelowNothing ==
    ASSUME NEW S
    PROVE  Below(S, NoOffset) /\ Below(S, 0)
  BY ConstantsAssumption DEF Below, NoOffset, Messages

LEMMA SameLock ==
    ASSUME LockInv,
           UNCHANGED <<owner, brokerLock>>,
           \A c \in Clients : lockCall'[c].answer = "granted"
                                => lockCall[c].answer = "granted",
           \A p \in ProcessQueues :
               /\ pq[p].droped => pq'[p].droped
               /\ HoldsLock(pq'[p]) => HoldsLock(pq[p])
    PROVE  LockInv'
  BY DEF LockInv, Untouched

-----------------------------------------------------------------------------
(* The offset store and rebalance.                                         *)

LEMMA PersistAllPreserves ==
    ASSUME OrderInv, NEW c \in Clients, PersistAll(c)
    PROVE  OrderInv'
  <1>1. TypeOK /\ OwnerInv /\ RequestInv /\ BufferInv /\ FirmInv /\ LockInv
    BY DEF OrderInv
  <1>2. /\ committed' = store[c] /\ store[c] # NoOffset
        /\ UNCHANGED <<queueVars, store, requestVars, running, lockVars, historyVars>>
    BY DEF PersistAll
  <1>3. TypeOK'
    BY <1>1, <1>2 DEF TypeOK, queueVars, requestVars, lockVars, historyVars
  <1>4. OwnerInv'
    BY <1>1, <1>2 DEF OwnerInv, queueVars, requestVars, lockVars, historyVars
  <1>5. RequestInv' /\ BufferInv' /\ LockInv'
    BY <1>1, <1>2, SameRequests, SameBuffer, SameLock
       DEF queueVars, requestVars, lockVars, historyVars
  <1>6. FirmInv'
    BY <1>1, <1>2, SameFirm DEF FirmInv, queueVars, historyVars
  <1> QED
    BY <1>3, <1>4, <1>5, <1>6 DEF OrderInv

LEMMA AssignQueuePreserves ==
    ASSUME OrderInv, NEW c \in Clients, AssignQueue(c)
    PROVE  OrderInv'
  <1>1. TypeOK /\ OwnerInv /\ RequestInv /\ BufferInv /\ FirmInv /\ LockInv
    BY DEF OrderInv
  <1> DEFINE from == IF committed = NoOffset THEN 0 ELSE committed
  <1>2. PICK p \in ProcessQueues :
            /\ pull[p] = "unused"
            /\ store' = [store EXCEPT ![c] =
                             IF committed = NoOffset THEN @ ELSE committed]
            /\ nextOffset' = [nextOffset EXCEPT ![p] = from]
            /\ start' = [start EXCEPT ![p] = from]
            /\ owner' = [owner EXCEPT ![p] = c]
            /\ pull' = [pull EXCEPT ![p] = "queued"]
            /\ table' = [table EXCEPT ![c] = p]
    BY DEF AssignQueue
  <1>3. /\ table[c] = NoQueue
        /\ UNCHANGED <<pq, committed, requestVars, running, lockVars, historyVars>>
    BY DEF AssignQueue
  <1>4. from \in Offsets
    BY <1>1, ConstantsAssumption DEF TypeOK, Offsets
  <1>5. /\ owner[p] = NoClient /\ pq[p] = NewProcessQueue /\ accepted[p] = {}
        /\ submitted[p] = 0 /\ later[p] = 0 /\ lockLater[p] = 0
    BY <1>1, <1>2 DEF OwnerInv
  <1>6. TypeOK'
    BY <1>1, <1>2, <1>3, <1>4
       DEF TypeOK, PullStates, requestVars, lockVars, historyVars
  <1>7. \A d \in Clients : running[d].q # p /\ lockCall[d].by # p /\ table[d] # p
    BY <1>1, <1>5, ConstantsAssumption DEF OwnerInv, TypeOK
  <1>8. OwnerInv'
    <2>1. \A r \in ProcessQueues : r # p => owner'[r] = owner[r] /\ pull'[r] = pull[r]
      BY <1>1, <1>2 DEF TypeOK
    <2>2. owner'[p] = c /\ pull'[p] = "queued" /\ table'[c] = p
      BY <1>1, <1>2 DEF TypeOK
    <2>3. \A d \in Clients : d # c => table'[d] = table[d]
      BY <1>1, <1>2 DEF TypeOK
    <2>4. \A d \in Clients : /\ running[d].q \in ProcessQueues \cup {NoQueue}
                             /\ lockCall[d].by \in ProcessQueues \cup {NoQueue}
                             /\ table[d] \in ProcessQueues \cup {NoQueue}
      BY <1>1 DEF TypeOK, RunningType, LockCallType
    <2>5. c # NoClient
      BY ConstantsAssumption
    <2> QED
      BY <1>1, <1>3, <1>7, <2>1, <2>2, <2>3, <2>4, <2>5
         DEF OwnerInv, requestVars, lockVars, historyVars
  <1>9. RequestInv'
    <2>1. \A r \in ProcessQueues : r # p => owner'[r] = owner[r]
      BY <1>1, <1>2 DEF TypeOK
    <2>2. owner'[p] = c
      BY <1>1, <1>2 DEF TypeOK
    <2>3. SUFFICES ASSUME NEW r \in ProcessQueues, owner'[r] \in Clients
                   PROVE  Tokens(r)' <= 1 /\ (~pq'[r].consuming => Tokens(r)' = 0)
      BY DEF RequestInv
    <2>4. CASE r = p
      BY <1>3, <1>5, <1>7, <2>2, <2>4 DEF Tokens, Count, requestVars, lockVars
    <2>5. CASE r # p
      BY <1>1, <1>3, <2>1, <2>3, <2>5 DEF RequestInv, Tokens, Count, requestVars, lockVars
    <2> QED
      BY <2>4, <2>5
  <1>10. BufferInv'
    <2> SUFFICES ASSUME NEW r \in ProcessQueues
                 PROVE  Orderly(pq[r], start[r], nextOffset[r], accepted[r], Pending(r))'
      BY DEF BufferInv
    <2>1. CASE r = p
      <3>1. Pending(r)' = {}
        BY <1>3, <1>7, <2>1 DEF Pending
      <3>2. start'[p] = from /\ nextOffset'[p] = from
        BY <1>1, <1>2 DEF TypeOK
      <3>3. from \in Int /\ Cardinality({}) = 0
        BY <1>4, ConstantsAssumption, FS_EmptySet DEF Offsets
      <3>4. Orderly(NewProcessQueue, from, from, {}, {})
        BY <3>3, NewFields, MessageIsInt DEF Orderly
      <3> QED
        BY <1>3, <1>5, <2>1, <3>1, <3>2, <3>4 DEF historyVars
    <2>2. CASE r # p
      <3>1. /\ owner'[r] = owner[r] /\ start'[r] = start[r]
            /\ nextOffset'[r] = nextOffset[r]
        BY <1>1, <1>2, <2>2 DEF TypeOK
      <3>2. Pending(r)' = Pending(r)
        BY <1>3, <3>1 DEF Pending
      <3> QED
        BY <1>1, <1>3, <3>1, <3>2 DEF BufferInv, historyVars
    <2> QED
      BY <2>1, <2>2
  <1>11. FirmInv'
    <2>1. Firm' = Firm
      BY <1>1, <1>3, SameFirm DEF historyVars
    <2>2. Below(Firm, committed) /\ Below(Firm, from)
      BY <1>1, BelowNothing DEF FirmInv
    <2> HIDE DEF from
    <2>3. \A d \in Clients : Below(Firm, store'[d])
      BY <1>1, <1>2, <2>2 DEF FirmInv, TypeOK
    <2>4. \A r \in ProcessQueues : Below(Firm, start'[r])
      BY <1>1, <1>2, <2>2 DEF FirmInv, TypeOK
    <2> QED
      BY <1>1, <1>3, <2>1, <2>2, <2>3, <2>4 DEF FirmInv
  <1>12. LockInv'
    <2>1. \A r \in ProcessQueues : r # p => owner'[r] = owner[r]
      BY <1>1, <1>2 DEF TypeOK
    <2>2. owner'[p] = c /\ ~HoldsLock(pq[p]) /\ ~pq[p].droped
      BY <1>1, <1>2, <1>5, NewFields DEF TypeOK, HoldsLock
    <2>3. SUFFICES ASSUME NEW d \in Clients, Untouched(d)'
                   PROVE  /\ lockCall[d].answer = "granted" => brokerLock = d
                          /\ \A r \in ProcessQueues :
                                owner'[r] = d /\ HoldsLock(pq[r]) => brokerLock = d
      BY <1>3 DEF LockInv, lockVars, HoldsLock
    <2>4. Untouched(d)
      BY <1>3, <2>1, <2>2, <2>3 DEF Untouched
    <2> QED
      BY <1>1, <2>1, <2>2, <2>4 DEF LockInv
  <1> QED
    BY <1>6, <1>8, <1>9, <1>10, <1>11, <1>12 DEF OrderInv

LEMMA RemoveQueuePreserves ==
    ASSUME OrderInv, NEW c \in Clients, RemoveQueue(c)
    PROVE  OrderInv'
  <1>1. TypeOK /\ OwnerInv /\ RequestInv /\ BufferInv /\ FirmInv /\ LockInv
    BY DEF OrderInv
  <1> DEFINE p == table[c]
  <1>2. /\ p # NoQueue
        /\ pq' = [pq EXCEPT ![p] = setDroped(@)]
        /\ committed' \in {committed, store[c]}
        /\ store[c] = NoOffset => committed' = committed
        /\ store' = [store EXCEPT ![c] = removeOffset(@)]
        /\ brokerLock' \in unlock(c)
        /\ table' = [table EXCEPT ![c] = NoQueue]
        /\ UNCHANGED <<owner, pull, nextOffset, start, requestVars, running, lockCall,
                       historyVars>>
    BY DEF RemoveQueue, persist
  <1>3. p \in ProcessQueues /\ owner[p] = c
    BY <1>1, <1>2 DEF TypeOK, OwnerInv
  <1> HIDE DEF p
  <1>4. /\ pq[p] \in Buffers
        /\ setDroped(pq[p]) \in Buffers
        /\ setDroped(pq[p]) = [pq[p] EXCEPT !.droped = TRUE]
    BY <1>1, <1>3, FlagFields DEF TypeOK, Buffers
  <1>5. /\ pq' \in [ProcessQueues -> Buffers]
        /\ pq'[p] = [pq[p] EXCEPT !.droped = TRUE]
        /\ \A r \in ProcessQueues : r # p => pq'[r] = pq[r]
    BY <1>1, <1>2, <1>3, <1>4 DEF TypeOK, Buffers
  <1>6. \A r \in ProcessQueues :
            /\ pq'[r].msgTreeMap = pq[r].msgTreeMap
            /\ pq'[r].msgTreeMapTemp = pq[r].msgTreeMapTemp
            /\ pq'[r].msgCount = pq[r].msgCount
            /\ pq'[r].consuming = pq[r].consuming
            /\ pq'[r].locked = pq[r].locked
            /\ pq'[r].lockExpired = pq[r].lockExpired
    BY <1>4, <1>5 DEF Buffers, ProcessQueueType
  <1>7. pq'[p].droped /\ \A r \in ProcessQueues : r # p => pq'[r].droped = pq[r].droped
    BY <1>4, <1>5 DEF Buffers, ProcessQueueType
  <1>8. TypeOK'
    BY <1>1, <1>2, <1>5
       DEF TypeOK, Buffers, removeOffset, unlock, requestVars, historyVars
  <1>9. OwnerInv'
    BY <1>1, <1>2, <1>3, <1>5, ConstantsAssumption
       DEF OwnerInv, TypeOK, requestVars, historyVars
  <1>10. RequestInv' /\ BufferInv'
    BY <1>1, <1>2, <1>6, SameRequests, SameBuffer DEF requestVars, historyVars
  <1>11. FirmInv'
    <2>1. Firm' = Firm
      BY <1>1, <1>2, <1>6, SameFirm DEF historyVars
    <2>2. Below(Firm, committed')
      BY <1>1, <1>2 DEF FirmInv
    <2>3. \A d \in Clients : Below(Firm, store'[d])
      BY <1>1, <1>2, BelowNothing DEF FirmInv, removeOffset, TypeOK
    <2> QED
      BY <1>1, <1>2, <2>1, <2>2, <2>3 DEF FirmInv
  <1>12. LockInv'
    <2> SUFFICES ASSUME NEW d \in Clients, Untouched(d)'
                 PROVE  /\ lockCall'[d].answer = "granted" => brokerLock' = d
                        /\ \A r \in ProcessQueues :
                              owner'[r] = d /\ HoldsLock(pq'[r]) => brokerLock' = d
      BY DEF LockInv, HoldsLock
    <2>1. d # c
      BY <1>2, <1>3, <1>7 DEF Untouched
    <2>2. Untouched(d)
      BY <1>2, <1>3, <1>7, <2>1 DEF Untouched
    <2>3. brokerLock = d => brokerLock' = d
      BY <1>2, <2>1 DEF unlock
    <2> QED
      BY <1>1, <1>2, <1>6, <2>2, <2>3 DEF LockInv, HoldsLock
  <1> QED
    BY <1>8, <1>9, <1>10, <1>11, <1>12 DEF OrderInv

-----------------------------------------------------------------------------
(* The pull cycle.                                                         *)

LEMMA PulledHasOwner ==
    ASSUME TypeOK, OwnerInv, NEW p \in ProcessQueues, pull[p] # "unused"
    PROVE  owner[p] \in Clients
  BY DEF TypeOK, OwnerInv

LEMMA PullSendPreserves ==
    ASSUME OrderInv, NEW p \in ProcessQueues, PullSend(p)
    PROVE  OrderInv'
  <1>1. TypeOK /\ OwnerInv /\ RequestInv /\ BufferInv /\ FirmInv /\ LockInv
    BY DEF OrderInv
  <1>2. /\ pull[p] = "queued"
        /\ pull' = [pull EXCEPT ![p] = "pulling"]
        /\ committed' \in {committed, store[owner[p]]}
        /\ store[owner[p]] = NoOffset => committed' = committed
        /\ UNCHANGED <<pq, owner, nextOffset, table, start, store, requestVars, running,
                       lockVars, historyVars>>
    BY DEF PullSend, persist
  <1>3. owner[p] \in Clients
    BY <1>1, <1>2, PulledHasOwner
  <1>4. TypeOK'
    BY <1>1, <1>2, <1>3 DEF TypeOK, PullStates, requestVars, lockVars, historyVars
  <1>5. OwnerInv'
    <2>1. \A r \in ProcessQueues : pull'[r] = "unused" <=> pull[r] = "unused"
      BY <1>1, <1>2 DEF TypeOK
    <2> QED
      BY <1>1, <1>2, <2>1 DEF OwnerInv, requestVars, lockVars, historyVars
  <1>6. RequestInv' /\ BufferInv' /\ LockInv'
    BY <1>1, <1>2, SameRequests, SameBuffer, SameLock
       DEF requestVars, lockVars, historyVars
  <1>7. FirmInv'
    BY <1>1, <1>2, <1>3, SameFirm DEF FirmInv, historyVars
  <1> QED
    BY <1>4, <1>5, <1>6, <1>7 DEF OrderInv

LEMMA PullFoundPreserves ==
    ASSUME OrderInv, NEW p \in ProcessQueues, PullFound(p)
    PROVE  OrderInv'
  <1>1. TypeOK /\ OwnerInv /\ RequestInv /\ BufferInv /\ FirmInv /\ LockInv
    BY DEF OrderInv
  <1>2. PICK n \in (nextOffset[p] + 1) .. MaxOffset :
            /\ nextOffset' = [nextOffset EXCEPT ![p] = n]
            /\ pq' = [pq EXCEPT ![p] = putMessage(@, nextOffset[p] .. (n - 1))]
            /\ submitted' = IF dispathToConsume(pq[p], nextOffset[p] .. (n - 1))
                            THEN Add(submitted, p) ELSE submitted
    BY DEF PullFound
  <1>3. /\ pull[p] = "pulling"
        /\ pull' = [pull EXCEPT ![p] = "queued"]
        /\ UNCHANGED <<owner, table, start, offsetVars, later, lockLater, running,
                       lockVars, historyVars>>
    BY DEF PullFound
  <1> DEFINE found == nextOffset[p] .. (n - 1)
             old == pq[p]
             new == putMessage(old, found)
  <1>4. /\ owner[p] \in Clients /\ old \in Buffers
        /\ nextOffset[p] \in Offsets /\ start[p] \in Offsets
        /\ accepted[p] \in SUBSET Messages
    BY <1>1, <1>3, PulledHasOwner DEF TypeOK, Buffers
  <1>5. n \in Offsets /\ found \in SUBSET Messages /\ found # {}
    <2>1. nextOffset[p] \in Nat /\ n \in Nat /\ nextOffset[p] < n /\ n <= MaxOffset
      BY <1>2, <1>4, ConstantsAssumption DEF Offsets
    <2>2. \A o \in found : o \in Messages
      BY <2>1, ConstantsAssumption DEF Messages
    <2>3. nextOffset[p] \in found
      BY <2>1
    <2> QED
      BY <2>1, <2>2, <2>3, ConstantsAssumption DEF Offsets
  <1> HIDE DEF found
  <1>6. /\ new \in Buffers
        /\ new.msgTreeMapTemp = old.msgTreeMapTemp
        /\ new.droped = old.droped /\ new.locked = old.locked
        /\ new.lockExpired = old.lockExpired /\ new.consuming
        /\ dispathToConsume(old, found) <=> ~old.consuming
    BY <1>4, <1>5, PutFields
  <1>7. Orderly(old, start[p], nextOffset[p], accepted[p], Pending(p))
    BY <1>1 DEF BufferInv
  <1>8. Orderly(new, start[p], n, accepted[p], Pending(p))
    BY <1>2, <1>4, <1>7, OrderlyPut DEF found
  <1>9. /\ pq' \in [ProcessQueues -> Buffers] /\ pq'[p] = new
        /\ \A r \in ProcessQueues : r # p => pq'[r] = pq[r]
    BY <1>1, <1>2, <1>6 DEF TypeOK, Buffers, found
  <1>10. submitted' = IF old.consuming THEN submitted ELSE Add(submitted, p)
    BY <1>2, <1>6 DEF found
  <1> HIDE DEF new, old
  <1>11. TypeOK'
    <2>1. submitted' \in [ProcessQueues -> Nat]
      BY <1>1, <1>10 DEF TypeOK, Add
    <2> QED
      BY <1>1, <1>2, <1>3, <1>5, <1>9, <2>1
         DEF TypeOK, Buffers, PullStates, offsetVars, lockVars, historyVars
  <1>12. /\ \A r \in ProcessQueues : r # p =>
                 /\ submitted'[r] = submitted[r] /\ pull'[r] = pull[r]
                 /\ nextOffset'[r] = nextOffset[r]
         /\ submitted'[p] = submitted[p] + Count(~old.consuming)
         /\ pull'[p] = "queued" /\ nextOffset'[p] = n
    BY <1>1, <1>2, <1>3, <1>10 DEF TypeOK, Add, Count
  <1>13. OwnerInv'
    BY <1>1, <1>3, <1>4, <1>9, <1>12, ConstantsAssumption
       DEF OwnerInv, lockVars, historyVars
  <1>14. RequestInv'
    <2> SUFFICES ASSUME NEW r \in ProcessQueues, owner'[r] \in Clients
                 PROVE  Tokens(r)' <= 1 /\ (~pq'[r].consuming => Tokens(r)' = 0)
      BY DEF RequestInv
    <2>1. CASE r = p
      <3>1. Tokens(p)' = Tokens(p) + Count(~old.consuming) /\ Tokens(p) \in Int
        BY <1>1, <1>3, <1>12 DEF Tokens, Count, TypeOK, lockVars
      <3>2. Tokens(p) <= 1 /\ (~old.consuming => Tokens(p) = 0)
        BY <1>1, <1>4 DEF RequestInv, old
      <3> QED
        BY <1>6, <1>9, <2>1, <3>1, <3>2 DEF Count
    <2>2. CASE r # p
      BY <1>1, <1>3, <1>9, <1>12, <2>2 DEF RequestInv, Tokens, lockVars
    <2> QED
      BY <2>1, <2>2
  <1>15. BufferInv'
    <2>1. \A r \in ProcessQueues : Pending(r)' = Pending(r)
      BY <1>3 DEF Pending
    <2> SUFFICES ASSUME NEW r \in ProcessQueues
                 PROVE  Orderly(pq'[r], start'[r], nextOffset'[r], accepted'[r],
                                Pending(r)')
      BY DEF BufferInv
    <2> QED
      BY <1>1, <1>3, <1>8, <1>9, <1>12, <2>1 DEF BufferInv, historyVars
  <1>16. \A r \in ProcessQueues :
             /\ pq'[r].msgTreeMapTemp = pq[r].msgTreeMapTemp
             /\ pq[r].droped => pq'[r].droped
             /\ HoldsLock(pq'[r]) => HoldsLock(pq[r])
    BY <1>6, <1>9 DEF HoldsLock, old
  <1>17. FirmInv' /\ LockInv'
    BY <1>1, <1>3, <1>16, SameFirm, SameLock
       DEF FirmInv, offsetVars, lockVars, historyVars
  <1> QED
    BY <1>11, <1>13, <1>14, <1>15, <1>17 DEF OrderInv

LEMMA PullNotFoundPreserves ==
    ASSUME OrderInv, NEW p \in ProcessQueues, PullNotFound(p)
    PROVE  OrderInv'
  <1>1. TypeOK /\ OwnerInv /\ RequestInv /\ BufferInv /\ FirmInv /\ LockInv
    BY DEF OrderInv
  <1>2. /\ pull[p] = "pulling"
        /\ pull' = [pull EXCEPT ![p] = "queued"]
        /\ UNCHANGED <<pq, owner, nextOffset, table, start, committed, requestVars,
                       running, lockVars, historyVars>>
    BY DEF PullNotFound
  <1>3. owner[p] \in Clients /\ nextOffset[p] \in Offsets /\ start[p] \in Offsets
        /\ pq[p] \in Buffers
    BY <1>1, <1>2, PulledHasOwner DEF TypeOK, Buffers
  <1>4. \/ store' = store
        \/ /\ pq[p].msgCount = 0
           /\ store' \in {store, [store EXCEPT ![owner[p]] = nextOffset[p]]}
    <2>1. updateOffset(store[owner[p]], nextOffset[p], TRUE)
              \in {store[owner[p]], nextOffset[p]}
      BY DEF updateOffset
    <2>2. store = [store EXCEPT ![owner[p]] = store[owner[p]]]
      BY <1>1, <1>3 DEF TypeOK
    <2> QED
      BY <2>1, <2>2 DEF PullNotFound
  <1>5. TypeOK'
    BY <1>1, <1>2, <1>3, <1>4 DEF TypeOK, PullStates, requestVars, lockVars, historyVars
  <1>6. OwnerInv'
    <2>1. \A r \in ProcessQueues : pull'[r] = "unused" <=> pull[r] = "unused"
      BY <1>1, <1>2 DEF TypeOK
    <2> QED
      BY <1>1, <1>2, <2>1 DEF OwnerInv, requestVars, lockVars, historyVars
  <1>7. RequestInv' /\ BufferInv' /\ LockInv'
    BY <1>1, <1>2, SameRequests, SameBuffer, SameLock
       DEF requestVars, lockVars, historyVars
  <1>8. ASSUME pq[p].msgCount = 0 PROVE Below(Firm, nextOffset[p])
    <2>1. Orderly(pq[p], start[p], nextOffset[p], accepted[p], Pending(p))
      BY <1>1 DEF BufferInv
    <2>2. /\ Cardinality(pq[p].msgTreeMap) = 0
          /\ Cardinality(pq[p].msgTreeMapTemp) = 0
      BY <1>3, <1>8, <2>1, BufferType DEF Orderly
    <2>3. pq[p].msgTreeMap = {} /\ pq[p].msgTreeMapTemp = {}
      BY <1>3, <2>2, BufferType, MessageCount, FS_EmptySet
    <2>4. Below(Firm, start[p])
      BY <1>1 DEF FirmInv
    <2> SUFFICES ASSUME NEW o \in Messages, o < nextOffset[p]
                 PROVE  \E r \in ProcessQueues : o \in Firm[r]
      BY DEF Below
    <2>5. o \in Int /\ start[p] \in Int
      BY <1>3, MessageIsInt, ConstantsAssumption DEF Offsets
    <2>6. CASE o < start[p]
      BY <2>4, <2>6 DEF Below
    <2>7. CASE start[p] <= o
      BY <2>1, <2>3, <2>7 DEF Orderly, Firm
    <2> QED
      BY <2>5, <2>6, <2>7
  <1>9. FirmInv'
    <2>1. Firm' = Firm
      BY <1>1, <1>2, SameFirm DEF historyVars
    <2>2. \A d \in Clients : Below(Firm, store'[d])
      BY <1>1, <1>3, <1>4, <1>8 DEF FirmInv, TypeOK
    <2> QED
      BY <1>1, <1>2, <2>1, <2>2 DEF FirmInv
  <1> QED
    BY <1>5, <1>6, <1>7, <1>9 DEF OrderInv

LEMMA PullDroppedPreserves ==
    ASSUME OrderInv, NEW p \in ProcessQueues, PullDropped(p)
    PROVE  OrderInv'
  <1>1. TypeOK /\ OwnerInv /\ RequestInv /\ BufferInv /\ FirmInv /\ LockInv
    BY DEF OrderInv
  <1>2. /\ pull[p] = "queued"
        /\ pull' = [pull EXCEPT ![p] = "deleted"]
        /\ UNCHANGED <<pq, owner, nextOffset, table, start, offsetVars, requestVars,
                       running, lockVars, historyVars>>
    BY DEF PullDropped
  <1>3. TypeOK'
    BY <1>1, <1>2
       DEF TypeOK, PullStates, offsetVars, requestVars, lockVars, historyVars
  <1>4. OwnerInv'
    <2>1. \A r \in ProcessQueues : pull'[r] = "unused" <=> pull[r] = "unused"
      BY <1>1, <1>2 DEF TypeOK
    <2> QED
      BY <1>1, <1>2, <2>1 DEF OwnerInv, requestVars, lockVars, historyVars
  <1>5. RequestInv' /\ BufferInv' /\ LockInv'
    BY <1>1, <1>2, SameRequests, SameBuffer, SameLock
       DEF requestVars, lockVars, historyVars
  <1>6. FirmInv'
    BY <1>1, <1>2, SameFirm DEF FirmInv, offsetVars, historyVars
  <1> QED
    BY <1>3, <1>4, <1>5, <1>6 DEF OrderInv

-----------------------------------------------------------------------------
(* Queue locks.                                                            *)

(* The broker's answer changes only this client's lock and its call.       *)
LEMMA AnswerStep ==
    ASSUME TypeOK, LockInv, NEW c \in Clients, NEW by \in ProcessQueues \cup {NoQueue},
           BrokerAnswers(c, by), UNCHANGED <<pq, owner>>
    PROVE  /\ lockCall' \in [Clients -> LockCallType]
           /\ brokerLock' \in Clients \cup {NoClient}
           /\ lockCall'[c].by = by
           /\ \A d \in Clients : d # c => lockCall'[d] = lockCall[d]
           /\ LockInv'
  <1>1. PICK answer \in {"granted", "refused", "failed"} :
            /\ lockCall' = [lockCall EXCEPT ![c] = [by |-> by, answer |-> answer]]
            /\ answer = "granted" => brokerLock' = c
            /\ \/ brokerLock' = brokerLock
               \/ brokerLock' = c /\ brokerLock \in {c, NoClient}
    BY DEF BrokerAnswers
  <1>2. /\ lockCall' \in [Clients -> LockCallType]
        /\ lockCall'[c].by = by /\ lockCall'[c].answer = answer
        /\ \A d \in Clients : d # c => lockCall'[d] = lockCall[d]
    BY <1>1 DEF TypeOK, LockCallType
  <1>3. brokerLock' \in Clients \cup {NoClient}
    BY <1>1 DEF TypeOK
  <1>4. \A d \in Clients : brokerLock = d => brokerLock' = d
    BY <1>1, ConstantsAssumption
  <1>5. \A d \in Clients : Untouched(d)' => Untouched(d)
    BY DEF Untouched
  <1>6. LockInv'
    BY <1>1, <1>2, <1>4, <1>5 DEF LockInv, HoldsLock
  <1> QED
    BY <1>2, <1>3, <1>6

LEMMA LockAllPreserves ==
    ASSUME OrderInv, NEW c \in Clients, LockAll(c)
    PROVE  OrderInv'
  <1>1. TypeOK /\ OwnerInv /\ RequestInv /\ BufferInv /\ FirmInv /\ LockInv
    BY DEF OrderInv
  <1>2. /\ lockCall[c] = NoCall
        /\ BrokerAnswers(c, NoQueue)
        /\ UNCHANGED <<queueVars, offsetVars, requestVars, running, historyVars>>
    BY DEF LockAll
  <1>3. /\ lockCall' \in [Clients -> LockCallType]
        /\ brokerLock' \in Clients \cup {NoClient}
        /\ \A d \in Clients : lockCall'[d].by = lockCall[d].by
        /\ LockInv'
    <2>1. UNCHANGED <<pq, owner>> /\ NoQueue \in ProcessQueues \cup {NoQueue}
      BY <1>2 DEF queueVars
    <2>2. lockCall[c].by = NoQueue
      BY <1>2 DEF NoCall
    <2> QED
      BY <1>1, <1>2, <2>1, <2>2, AnswerStep
  <1>4. TypeOK'
    BY <1>1, <1>2, <1>3 DEF TypeOK, queueVars, offsetVars, requestVars, historyVars
  <1>5. OwnerInv'
    BY <1>1, <1>2, <1>3 DEF OwnerInv, queueVars, requestVars, historyVars
  <1>6. RequestInv' /\ BufferInv'
    BY <1>1, <1>2, <1>3, SameRequests, SameBuffer
       DEF queueVars, requestVars, historyVars
  <1>7. FirmInv'
    BY <1>1, <1>2, SameFirm DEF FirmInv, queueVars, offsetVars, historyVars
  <1> QED
    BY <1>3, <1>4, <1>5, <1>6, <1>7 DEF OrderInv

LEMMA LockOnePreserves ==
    ASSUME OrderInv, NEW c \in Clients, NEW p \in ProcessQueues, LockOne(c, p)
    PROVE  OrderInv'
  <1>1. TypeOK /\ OwnerInv /\ RequestInv /\ BufferInv /\ FirmInv /\ LockInv
    BY DEF OrderInv
  <1>2. /\ lockCall[c] = NoCall /\ owner[p] = c /\ lockLater[p] > 0
        /\ lockLater' = Take(lockLater, p)
        /\ BrokerAnswers(c, p)
        /\ UNCHANGED <<queueVars, offsetVars, submitted, later, running, historyVars>>
    BY DEF LockOne
  <1>3. /\ lockCall' \in [Clients -> LockCallType]
        /\ brokerLock' \in Clients \cup {NoClient}
        /\ lockCall'[c].by = p /\ lockCall[c].by = NoQueue
        /\ \A d \in Clients : d # c => lockCall'[d] = lockCall[d]
        /\ LockInv'
    <2>1. UNCHANGED <<pq, owner>>
      BY <1>2 DEF queueVars
    <2>2. lockCall[c].by = NoQueue
      BY <1>2 DEF NoCall
    <2> QED
      BY <1>1, <1>2, <2>1, <2>2, AnswerStep
  <1>4. /\ lockLater' \in [ProcessQueues -> Nat]
        /\ lockLater'[p] = lockLater[p] - 1
        /\ \A r \in ProcessQueues : r # p => lockLater'[r] = lockLater[r]
    BY <1>1, <1>2 DEF TypeOK, Take
  <1>5. TypeOK'
    BY <1>1, <1>2, <1>3, <1>4 DEF TypeOK, queueVars, offsetVars, historyVars
  <1>6. OwnerInv'
    BY <1>1, <1>2, <1>3, <1>4, ConstantsAssumption DEF OwnerInv, queueVars, historyVars
  <1>7. RequestInv'
    <2> SUFFICES ASSUME NEW r \in ProcessQueues, owner[r] \in Clients
                 PROVE  Tokens(r)' <= 1 /\ (~pq[r].consuming => Tokens(r)' = 0)
      BY <1>2 DEF RequestInv, queueVars
    <2>1. Tokens(r) <= 1 /\ (~pq[r].consuming => Tokens(r) = 0)
      BY <1>1 DEF RequestInv
    <2>2. CASE r = p
      <3>1. Tokens(r)' = Tokens(r)
        BY <1>1, <1>2, <1>3, <1>4, <2>2, ConstantsAssumption
           DEF Tokens, Count, TypeOK, queueVars
      <3> QED
        BY <2>1, <3>1
    <2>3. CASE r # p
      <3>1. (lockCall'[owner[r]].by = r) = (lockCall[owner[r]].by = r)
        BY <1>3, <2>3, ConstantsAssumption
      <3>2. Tokens(r)' = Tokens(r)
        BY <1>2, <1>4, <2>3, <3>1 DEF Tokens, Count, queueVars
      <3> QED
        BY <2>1, <3>2
    <2> QED
      BY <2>2, <2>3
  <1>8. BufferInv'
    BY <1>1, <1>2, SameBuffer DEF queueVars, historyVars
  <1>9. FirmInv'
    BY <1>1, <1>2, SameFirm DEF FirmInv, queueVars, offsetVars, historyVars
  <1> QED
    BY <1>3, <1>5, <1>6, <1>7, <1>8, <1>9 DEF OrderInv

LEMMA LockAnswerPreserves ==
    ASSUME OrderInv, NEW c \in Clients, LockAnswer(c)
    PROVE  OrderInv'
  <1>1. TypeOK /\ OwnerInv /\ RequestInv /\ BufferInv /\ FirmInv /\ LockInv
    BY DEF OrderInv
  <1> DEFINE call == lockCall[c]
             p == table[c]
  <1>2. /\ pq' = IF p = NoQueue THEN pq ELSE [pq EXCEPT ![p] = applyAnswer(call, @)]
        /\ later' = reconsumeLater(call)
        /\ lockCall' = [lockCall EXCEPT ![c] = NoCall]
        /\ UNCHANGED <<owner, pull, nextOffset, table, start, offsetVars, submitted,
                       lockLater, running, brokerLock, historyVars>>
    BY DEF LockAnswer
  <1>3. /\ call \in LockCallType
        /\ p # NoQueue => p \in ProcessQueues /\ owner[p] = c
        /\ call.by # NoQueue => call.by \in ProcessQueues /\ owner[call.by] = c
    BY <1>1 DEF TypeOK, OwnerInv, LockCallType
  <1> HIDE DEF call, p
  <1>4. ASSUME NEW r \in ProcessQueues
        PROVE  LET q == pq[r]
                   a == applyAnswer(call, q)
               IN  /\ a \in Buffers
                   /\ a.msgTreeMap = q.msgTreeMap
                   /\ a.msgTreeMapTemp = q.msgTreeMapTemp
                   /\ a.msgCount = q.msgCount
                   /\ a.consuming = q.consuming
                   /\ a.droped = q.droped
                   /\ HoldsLock(a) => HoldsLock(q) \/ call.answer = "granted"
    <2>1. pq[r] \in Buffers
      BY <1>1 DEF TypeOK, Buffers
    <2> QED
      BY <2>1 DEF applyAnswer, setLocked, HoldsLock, Buffers, ProcessQueueType
  <1>5. \A r \in ProcessQueues :
            \/ pq'[r] = pq[r]
            \/ r = p /\ p # NoQueue /\ pq'[r] = applyAnswer(call, pq[r])
    BY <1>1, <1>2, <1>3 DEF TypeOK
  <1>6. pq' \in [ProcessQueues -> Buffers]
    BY <1>1, <1>2, <1>3, <1>4 DEF TypeOK, Buffers
  <1>7. \A r \in ProcessQueues :
            /\ pq'[r].msgTreeMap = pq[r].msgTreeMap
            /\ pq'[r].msgTreeMapTemp = pq[r].msgTreeMapTemp
            /\ pq'[r].msgCount = pq[r].msgCount
            /\ pq'[r].consuming = pq[r].consuming
            /\ pq'[r].droped = pq[r].droped
            /\ HoldsLock(pq'[r]) => \/ HoldsLock(pq[r])
                                    \/ call.answer = "granted" /\ owner[r] = c
    BY <1>3, <1>4, <1>5
  <1>8. /\ later' \in [ProcessQueues -> Nat]
        /\ \A r \in ProcessQueues : later'[r] = later[r] + Count(r = call.by)
    BY <1>1, <1>2, <1>3, ConstantsAssumption DEF TypeOK, reconsumeLater, Add, Count
  <1>9. /\ lockCall' \in [Clients -> LockCallType]
        /\ lockCall'[c].by = NoQueue /\ lockCall'[c].answer = "none"
        /\ \A d \in Clients : d # c => lockCall'[d] = lockCall[d]
    BY <1>1, <1>2 DEF TypeOK, LockCallType, NoCall
  <1>10. TypeOK'
    BY <1>1, <1>2, <1>6, <1>8, <1>9 DEF TypeOK, Buffers, offsetVars, historyVars
  <1>11. OwnerInv'
    <2>1. \A r \in ProcessQueues : owner[r] = NoClient => pq'[r] = pq[r] /\ later'[r] = later[r]
      <3> SUFFICES ASSUME NEW r \in ProcessQueues, owner[r] = NoClient
                   PROVE  pq'[r] = pq[r] /\ later'[r] = later[r]
        OBVIOUS
      <3>1. r # p \/ p = NoQueue
        BY <1>3, ConstantsAssumption
      <3>2. r # call.by
        BY <1>3, ConstantsAssumption
      <3> QED
        BY <1>1, <1>5, <1>8, <3>1, <3>2 DEF Count, TypeOK
    <2> QED
      BY <1>1, <1>2, <1>9, <2>1 DEF OwnerInv, historyVars
  <1>12. RequestInv'
    <2> SUFFICES ASSUME NEW r \in ProcessQueues, owner[r] \in Clients
                 PROVE  Tokens(r)' <= 1 /\ (~pq'[r].consuming => Tokens(r)' = 0)
      BY <1>2 DEF RequestInv
    <2>1. Tokens(r) <= 1 /\ (~pq[r].consuming => Tokens(r) = 0)
      BY <1>1 DEF RequestInv
    <2>2. Count(lockCall'[owner[r]].by = r) + Count(r = call.by)
              = Count(lockCall[owner[r]].by = r)
      <3>1. CASE owner[r] = c
        BY <1>9, <3>1, ConstantsAssumption DEF Count, call
      <3>2. CASE owner[r] # c
        BY <1>3, <1>9, <3>2, ConstantsAssumption DEF Count
      <3> QED
        BY <3>1, <3>2
    <2>3. Tokens(r)' = Tokens(r)
      <3>1. submitted[r] \in Nat /\ later[r] \in Nat /\ lockLater[r] \in Nat
        BY <1>1 DEF TypeOK
      <3>2. Tokens(r)' = submitted[r] + (later[r] + Count(r = call.by)) + lockLater[r]
                         + Count(running[owner[r]].q = r)
                         + Count(lockCall'[owner[r]].by = r)
        BY <1>2, <1>8 DEF Tokens
      <3> QED
        BY <2>2, <3>1, <3>2 DEF Tokens, Count
    <2> QED
      BY <1>7, <2>1, <2>3
  <1>13. BufferInv'
    BY <1>1, <1>2, <1>7, SameBuffer DEF historyVars
  <1>14. FirmInv'
    BY <1>1, <1>2, <1>7, SameFirm DEF FirmInv, offsetVars, historyVars
  <1>15. LockInv'
    <2> SUFFICES ASSUME NEW d \in Clients, Untouched(d)'
                 PROVE  /\ lockCall'[d].answer = "granted" => brokerLock' = d
                        /\ \A r \in ProcessQueues :
                              owner'[r] = d /\ HoldsLock(pq'[r]) => brokerLock' = d
      BY DEF LockInv, HoldsLock
    <2>1. Untouched(d)
      BY <1>2, <1>7 DEF Untouched
    <2>2. /\ lockCall[d].answer = "granted" => brokerLock = d
          /\ \A r \in ProcessQueues : owner[r] = d /\ HoldsLock(pq[r]) => brokerLock = d
      BY <1>1, <2>1 DEF LockInv
    <2> QED
      BY <1>2, <1>7, <1>9, <2>2 DEF call
  <1> QED
    BY <1>10, <1>11, <1>12, <1>13, <1>14, <1>15 DEF OrderInv

LEMMA LockExpiresPreserves ==
    ASSUME OrderInv, NEW p \in ProcessQueues, LockExpires(p)
    PROVE  OrderInv'
  <1>1. TypeOK /\ OwnerInv /\ RequestInv /\ BufferInv /\ FirmInv /\ LockInv
    BY DEF OrderInv
  <1>2. /\ pq[p].locked
        /\ pq' = [pq EXCEPT ![p] = [pq[p] EXCEPT !.lockExpired = TRUE]]
        /\ UNCHANGED <<owner, pull, nextOffset, table, start, offsetVars, requestVars,
                       running, lockVars, historyVars>>
    BY DEF LockExpires
  <1>3. pq[p] \in Buffers /\ [pq[p] EXCEPT !.lockExpired = TRUE] \in Buffers
    BY <1>1, FlagFields DEF TypeOK, Buffers
  <1>4. /\ pq' \in [ProcessQueues -> Buffers]
        /\ pq'[p] = [pq[p] EXCEPT !.lockExpired = TRUE]
        /\ \A r \in ProcessQueues : r # p => pq'[r] = pq[r]
    BY <1>1, <1>2, <1>3 DEF TypeOK, Buffers
  <1>5. \A r \in ProcessQueues :
            /\ pq'[r].msgTreeMap = pq[r].msgTreeMap
            /\ pq'[r].msgTreeMapTemp = pq[r].msgTreeMapTemp
            /\ pq'[r].msgCount = pq[r].msgCount
            /\ pq'[r].consuming = pq[r].consuming
            /\ pq'[r].droped = pq[r].droped
            /\ HoldsLock(pq'[r]) => HoldsLock(pq[r])
    BY <1>3, <1>4 DEF HoldsLock, Buffers, ProcessQueueType
  <1>6. owner[p] # NoClient
    BY <1>1, <1>2, NewFields DEF OwnerInv
  <1>7. TypeOK'
    BY <1>1, <1>2, <1>4
       DEF TypeOK, Buffers, offsetVars, requestVars, lockVars, historyVars
  <1>8. OwnerInv'
    BY <1>1, <1>2, <1>4, <1>6 DEF OwnerInv, requestVars, lockVars, historyVars
  <1>9. RequestInv' /\ BufferInv' /\ LockInv'
    BY <1>1, <1>2, <1>5, SameRequests, SameBuffer, SameLock
       DEF requestVars, lockVars, historyVars
  <1>10. FirmInv'
    BY <1>1, <1>2, <1>5, SameFirm DEF FirmInv, offsetVars, historyVars
  <1> QED
    BY <1>7, <1>8, <1>9, <1>10 DEF OrderInv

LEMMA BrokerLockExpiresPreserves ==
    ASSUME OrderInv, BrokerLockExpires
    PROVE  OrderInv'
  <1>1. TypeOK /\ OwnerInv /\ RequestInv /\ BufferInv /\ FirmInv /\ LockInv
    BY DEF OrderInv
  <1>2. /\ lockCall[brokerLock].answer # "granted"
        /\ \A p \in ProcessQueues : owner[p] = brokerLock => ~HoldsLock(pq[p])
        /\ brokerLock' = NoClient
        /\ UNCHANGED <<queueVars, offsetVars, requestVars, running, lockCall,
                       historyVars>>
    BY DEF BrokerLockExpires
  <1>3. TypeOK'
    BY <1>1, <1>2 DEF TypeOK, queueVars, offsetVars, requestVars, historyVars
  <1>4. OwnerInv'
    BY <1>1, <1>2 DEF OwnerInv, queueVars, requestVars, historyVars
  <1>5. RequestInv' /\ BufferInv'
    BY <1>1, <1>2, SameRequests, SameBuffer DEF queueVars, requestVars, historyVars
  <1>6. FirmInv'
    BY <1>1, <1>2, SameFirm DEF FirmInv, queueVars, offsetVars, historyVars
  <1>7. LockInv'
    BY <1>1, <1>2 DEF LockInv, Untouched, HoldsLock, queueVars
  <1> QED
    BY <1>3, <1>4, <1>5, <1>6, <1>7 DEF OrderInv

-----------------------------------------------------------------------------
(* Requests.                                                               *)

(* A step of client c's thread, to v, with object p: the other objects     *)
(* neither gain nor lose a request or a batch.                             *)
OnlyThread(c, p, v) ==
    /\ running' \in [Clients -> RunningType]
    /\ running'[c] = v
    /\ \A d \in Clients : d # c => running'[d] = running[d]
    /\ \A d \in Clients :
          /\ running'[d].q # NoQueue => owner[running'[d].q] = d
          /\ running'[d].q = NoQueue => running'[d].st = "loop"
    /\ \A r \in ProcessQueues : r # p /\ owner[r] \in Clients =>
          (running'[owner[r]].q = r <=> running[owner[r]].q = r)
    /\ \A r \in ProcessQueues : r # p => Pending(r)' = Pending(r)

LEMMA ThreadStep ==
    ASSUME TypeOK, OwnerInv, NEW c \in Clients, NEW p \in ProcessQueues,
           owner[p] = c, owner' = owner,
           running[c].q \in {p, NoQueue},
           NEW v \in RunningType, v.q \in {p, NoQueue}, v.q = NoQueue => v.st = "loop",
           running' = [running EXCEPT ![c] = v]
    PROVE  /\ OnlyThread(c, p, v)
           /\ Pending(p)' = IF v.q = p /\ v.st = "listening" THEN v.msgs ELSE {}
           /\ Pending(p) = IF running[c].q = p /\ running[c].st = "listening"
                           THEN running[c].msgs ELSE {}
  <1>1. /\ running' \in [Clients -> RunningType]
        /\ running'[c] = v
        /\ \A d \in Clients : d # c => running'[d] = running[d]
    BY DEF TypeOK
  <1>2. \A d \in Clients :
            /\ running'[d].q # NoQueue => owner[running'[d].q] = d
            /\ running'[d].q = NoQueue => running'[d].st = "loop"
    BY <1>1 DEF OwnerInv
  <1>3. \A r \in ProcessQueues : r # p /\ owner[r] \in Clients =>
            /\ running'[owner[r]].q = r <=> running[owner[r]].q = r
            /\ running'[owner[r]].q = r => running'[owner[r]] = running[owner[r]]
    BY <1>1, ConstantsAssumption
  <1>4. \A r \in ProcessQueues : r # p => Pending(r)' = Pending(r)
    BY <1>3 DEF Pending
  <1>5. /\ Pending(p)' = IF v.q = p /\ v.st = "listening" THEN v.msgs ELSE {}
        /\ Pending(p) = IF running[c].q = p /\ running[c].st = "listening"
                        THEN running[c].msgs ELSE {}
    BY <1>1 DEF Pending
  <1> QED
    BY <1>1, <1>2, <1>3, <1>4, <1>5 DEF OnlyThread

(* One object's requests change.                                           *)
LEMMA RequestStep ==
    ASSUME RequestInv, NEW p \in ProcessQueues, owner' = owner,
           \A c \in Clients : lockCall'[c] = lockCall[c],
           \A r \in ProcessQueues : r # p =>
               /\ submitted'[r] = submitted[r] /\ later'[r] = later[r]
               /\ lockLater'[r] = lockLater[r]
               /\ pq'[r].consuming = pq[r].consuming
               /\ owner[r] \in Clients =>
                     (running'[owner[r]].q = r <=> running[owner[r]].q = r),
           Tokens(p)' <= 1, ~pq'[p].consuming => Tokens(p)' = 0
    PROVE  RequestInv'
  <1> SUFFICES ASSUME NEW r \in ProcessQueues, owner[r] \in Clients, r # p
               PROVE  Tokens(r)' <= 1 /\ (~pq'[r].consuming => Tokens(r)' = 0)
    BY DEF RequestInv
  <1>1. Tokens(r)' = Tokens(r)
    BY DEF Tokens, Count
  <1> QED
    BY <1>1 DEF RequestInv

(* One object's buffer, history or batch changes.                          *)
LEMMA BufferStep ==
    ASSUME BufferInv, NEW p \in ProcessQueues, UNCHANGED <<start, nextOffset>>,
           \A r \in ProcessQueues : r # p =>
               /\ pq'[r] = pq[r] /\ accepted'[r] = accepted[r]
               /\ Pending(r)' = Pending(r),
           Orderly(pq'[p], start[p], nextOffset[p], accepted'[p], Pending(p)')
    PROVE  BufferInv'
  <1> SUFFICES ASSUME NEW r \in ProcessQueues
               PROVE  Orderly(pq'[r], start'[r], nextOffset'[r], accepted'[r],
                              Pending(r)')
    BY DEF BufferInv
  <1> QED
    BY DEF BufferInv

LEMMA TokenCounts ==
    ASSUME TypeOK, NEW p \in ProcessQueues
    PROVE  /\ submitted[p] \in Nat /\ later[p] \in Nat /\ lockLater[p] \in Nat
           /\ \A b : Count(b) \in {0, 1}
           /\ Tokens(p) \in Nat
  <1>1. submitted[p] \in Nat /\ later[p] \in Nat /\ lockLater[p] \in Nat
    BY DEF TypeOK
  <1>2. \A b : Count(b) \in {0, 1}
    BY DEF Count
  <1> QED
    BY <1>1, <1>2 DEF Tokens

LEMMA SubmitTimeoutPreserves ==
    ASSUME OrderInv, NEW p \in ProcessQueues, SubmitTimeout(p)
    PROVE  OrderInv'
  <1>1. TypeOK /\ OwnerInv /\ RequestInv /\ BufferInv /\ FirmInv /\ LockInv
    BY DEF OrderInv
  <1>2. /\ later[p] > 0
        /\ later' = Take(later, p)
        /\ submitted' = Add(submitted, p)
        /\ UNCHANGED <<queueVars, offsetVars, lockLater, running, lockVars, historyVars>>
    BY DEF SubmitTimeout
  <1>3. /\ later' \in [ProcessQueues -> Nat] /\ submitted' \in [ProcessQueues -> Nat]
        /\ later'[p] = later[p] - 1 /\ submitted'[p] = submitted[p] + 1
        /\ \A r \in ProcessQueues : r # p =>
              later'[r] = later[r] /\ submitted'[r] = submitted[r]
    BY <1>1, <1>2 DEF TypeOK, Take, Add
  <1>4. owner[p] \in Clients
    BY <1>1, <1>2 DEF TypeOK, OwnerInv
  <1>5. TypeOK'
    BY <1>1, <1>2, <1>3 DEF TypeOK, queueVars, offsetVars, lockVars, historyVars
  <1>6. OwnerInv'
    BY <1>1, <1>2, <1>3, <1>4, ConstantsAssumption
       DEF OwnerInv, queueVars, lockVars, historyVars
  <1>7. RequestInv'
    <2>1. Tokens(p)' = Tokens(p)
      BY <1>1, <1>2, <1>3, TokenCounts DEF Tokens, queueVars, lockVars
    <2>2. Tokens(p) <= 1 /\ (~pq[p].consuming => Tokens(p) = 0)
      BY <1>1, <1>4 DEF RequestInv
    <2> QED
      BY <1>1, <1>2, <1>3, <2>1, <2>2, RequestStep DEF queueVars, lockVars
  <1>8. BufferInv' /\ LockInv'
    BY <1>1, <1>2, SameBuffer, SameLock DEF queueVars, lockVars, historyVars
  <1>9. FirmInv'
    BY <1>1, <1>2, SameFirm DEF FirmInv, queueVars, offsetVars, historyVars
  <1> QED
    BY <1>5, <1>6, <1>7, <1>8, <1>9 DEF OrderInv

LEMMA EnterRequestPreserves ==
    ASSUME OrderInv, NEW p \in ProcessQueues, EnterRequest(p)
    PROVE  OrderInv'
  <1>1. TypeOK /\ OwnerInv /\ RequestInv /\ BufferInv /\ FirmInv /\ LockInv
    BY DEF OrderInv
  <1>v. PICK v \in RunningType : v = Running(p, "loop", {}, NoOffset)
    BY DEF Running, RunningType, LoopStates
  <1>c. PICK c \in Clients : owner[p] = c
    BY <1>1 DEF TypeOK, OwnerInv, EnterRequest
  <1>2. /\ submitted[p] > 0
        /\ running[c] = Idle
        /\ submitted' = Take(submitted, p)
        /\ UNCHANGED <<queueVars, offsetVars, later, lockVars, historyVars>>
    BY <1>c DEF EnterRequest
  <1>3. \/ running' = [running EXCEPT ![c] = v] /\ lockLater' = lockLater
        \/ running' = running /\ lockLater' = Add(lockLater, p)
    BY <1>c, <1>v DEF EnterRequest
  <1>4. owner[p] = c /\ c \in Clients
    BY <1>c
  <1>5. running[c].q = NoQueue /\ running[c].st = "loop" /\ running[c].offset = NoOffset
    BY <1>2 DEF Idle
  <1>6. v.q = p /\ v.st = "loop" /\ v.msgs = {} /\ v.offset = NoOffset
    BY <1>v DEF Running
  <1>7. /\ submitted' \in [ProcessQueues -> Nat]
        /\ submitted'[p] = submitted[p] - 1
        /\ \A r \in ProcessQueues : r # p => submitted'[r] = submitted[r]
    BY <1>1, <1>2 DEF TypeOK, Take
  <1>8. owner' = owner /\ pq' = pq /\ lockCall' = lockCall /\ later' = later
    BY <1>2 DEF queueVars, lockVars
  <1>9. Tokens(p) <= 1 /\ (~pq[p].consuming => Tokens(p) = 0)
    BY <1>1, <1>4 DEF RequestInv
  <1>10. CASE running' = running /\ lockLater' = Add(lockLater, p)
    <2>1. /\ lockLater' \in [ProcessQueues -> Nat]
          /\ lockLater'[p] = lockLater[p] + 1
          /\ \A r \in ProcessQueues : r # p => lockLater'[r] = lockLater[r]
      BY <1>1, <1>10 DEF TypeOK, Add
    <2>2. TypeOK'
      BY <1>1, <1>2, <1>7, <1>10, <2>1
         DEF TypeOK, queueVars, offsetVars, lockVars, historyVars
    <2>3. OwnerInv'
      BY <1>1, <1>2, <1>4, <1>7, <1>10, <2>1, ConstantsAssumption
         DEF OwnerInv, queueVars, lockVars, historyVars
    <2>4. RequestInv'
      <3>1. Tokens(p)' = Tokens(p)
        BY <1>1, <1>7, <1>8, <1>10, <2>1, TokenCounts DEF Tokens
      <3> QED
        BY <1>1, <1>7, <1>8, <1>9, <1>10, <2>1, <3>1, RequestStep
    <2>5. BufferInv' /\ LockInv'
      BY <1>1, <1>2, <1>10, SameBuffer, SameLock DEF queueVars, lockVars, historyVars
    <2>6. FirmInv'
      BY <1>1, <1>2, <1>10, SameFirm DEF FirmInv, queueVars, offsetVars, historyVars
    <2> QED
      BY <2>2, <2>3, <2>4, <2>5, <2>6 DEF OrderInv
  <1>11. CASE running' = [running EXCEPT ![c] = v] /\ lockLater' = lockLater
    <2>0. OnlyThread(c, p, v) /\ Pending(p)' = {} /\ Pending(p) = {}
      <3>1. running[c].q \in {p, NoQueue} /\ v.q \in {p, NoQueue}
        BY <1>5, <1>6
      <3>2. running[c].st # "listening" /\ v.st # "listening" /\ v.st = "loop"
        BY <1>5, <1>6
      <3>3. running' = [running EXCEPT ![c] = v]
        BY <1>11
      <3> QED
        BY <1>1, <1>4, <1>8, <3>1, <3>2, <3>3, ThreadStep
    <2>1. /\ running' \in [Clients -> RunningType]
          /\ running'[c] = v
          /\ \A d \in Clients : d # c => running'[d] = running[d]
          /\ \A d \in Clients :
                /\ running'[d].q # NoQueue => owner[running'[d].q] = d
                /\ running'[d].q = NoQueue => running'[d].st = "loop"
          /\ \A r \in ProcessQueues : r # p /\ owner[r] \in Clients =>
                (running'[owner[r]].q = r <=> running[owner[r]].q = r)
          /\ \A r \in ProcessQueues : r # p => Pending(r)' = Pending(r)
          /\ Pending(p)' = {} /\ Pending(p) = {}
      BY <2>0 DEF OnlyThread
    <2>2. TypeOK'
      BY <1>1, <1>2, <1>7, <1>11, <2>1
         DEF TypeOK, queueVars, offsetVars, lockVars, historyVars
    <2>3. OwnerInv'
      BY <1>1, <1>2, <1>4, <1>7, <1>11, <2>1, ConstantsAssumption
         DEF OwnerInv, queueVars, lockVars, historyVars
    <2>4. RequestInv'
      <3>1. Tokens(p)' = Tokens(p)
        BY <1>1, <1>5, <1>6, <1>7, <1>8, <1>11, <2>1, TokenCounts, ConstantsAssumption
           DEF Tokens, Count
      <3> QED
        BY <1>1, <1>7, <1>8, <1>9, <1>11, <2>1, <3>1, RequestStep
    <2>5. BufferInv'
      <3>1. Orderly(pq[p], start[p], nextOffset[p], accepted[p], {})
        BY <1>1, <2>1 DEF BufferInv
      <3> QED
        BY <1>1, <1>2, <2>1, <3>1, BufferStep DEF queueVars, historyVars
    <2>6. LockInv'
      BY <1>1, <1>2, SameLock DEF queueVars, lockVars
    <2>7. FirmInv'
      <3>1. \A d \in Clients : Below(Firm, running'[d].offset)
        BY <1>1, <1>6, <2>1, BelowNothing DEF FirmInv
      <3> QED
        BY <1>1, <1>2, <3>1, SameFirm DEF FirmInv, queueVars, offsetVars, historyVars
    <2> QED
      BY <2>2, <2>3, <2>4, <2>5, <2>6, <2>7 DEF OrderInv
  <1> QED
    BY <1>3, <1>10, <1>11

(* The end of a request whose batch is settled, and a step inside the      *)
(* loop: only the thread and at most one of the object's timers change.    *)
LEMMA LoopStep ==
    ASSUME OrderInv, NEW c \in Clients, running[c].q # NoQueue,
           running[c].st # "listening",
           NEW v \in RunningType, v.q \in {running[c].q, NoQueue},
           v.q = NoQueue => v.st = "loop",
           v.st # "listening", v.offset \in {running[c].offset, NoOffset},
           running' = [running EXCEPT ![c] = v],
           \/ requestVars' = requestVars
           \/ v.q = NoQueue /\ later' = Add(later, running[c].q)
              /\ UNCHANGED <<submitted, lockLater>>
           \/ v.q = NoQueue /\ lockLater' = Add(lockLater, running[c].q)
              /\ UNCHANGED <<submitted, later>>,
           UNCHANGED <<queueVars, offsetVars, lockVars, historyVars>>
    PROVE  OrderInv'
  <1>1. TypeOK /\ OwnerInv /\ RequestInv /\ BufferInv /\ FirmInv /\ LockInv
    BY DEF OrderInv
  <1>p. PICK p \in ProcessQueues : running[c].q = p
    BY <1>1 DEF TypeOK, RunningType
  <1>2. owner[p] = c
    BY <1>1, <1>p, ConstantsAssumption DEF OwnerInv
  <1>3. owner' = owner /\ pq' = pq /\ lockCall' = lockCall
    BY DEF queueVars, lockVars
  <1>x. OnlyThread(c, p, v) /\ Pending(p)' = {} /\ Pending(p) = {}
    <2>1. running[c].q \in {p, NoQueue} /\ v.q \in {p, NoQueue}
      BY <1>p
    <2> QED
      BY <1>1, <1>2, <1>3, <2>1, ThreadStep
  <1>4. /\ running' \in [Clients -> RunningType]
        /\ running'[c] = v
        /\ \A d \in Clients : d # c => running'[d] = running[d]
        /\ \A d \in Clients :
              /\ running'[d].q # NoQueue => owner[running'[d].q] = d
              /\ running'[d].q = NoQueue => running'[d].st = "loop"
        /\ \A r \in ProcessQueues : r # p /\ owner[r] \in Clients =>
              (running'[owner[r]].q = r <=> running[owner[r]].q = r)
        /\ \A r \in ProcessQueues : r # p => Pending(r)' = Pending(r)
        /\ Pending(p)' = {} /\ Pending(p) = {}
    BY <1>x DEF OnlyThread
  <1>5. /\ submitted' \in [ProcessQueues -> Nat] /\ later' \in [ProcessQueues -> Nat]
        /\ lockLater' \in [ProcessQueues -> Nat]
        /\ \A r \in ProcessQueues : r # p =>
              /\ submitted'[r] = submitted[r] /\ later'[r] = later[r]
              /\ lockLater'[r] = lockLater[r]
        /\ submitted'[p] = submitted[p]
        /\ \/ later'[p] = later[p] /\ lockLater'[p] = lockLater[p]
           \/ v.q = NoQueue /\ later'[p] = later[p] + 1 /\ lockLater'[p] = lockLater[p]
           \/ v.q = NoQueue /\ later'[p] = later[p] /\ lockLater'[p] = lockLater[p] + 1
    BY <1>1, <1>p DEF TypeOK, Add, requestVars
  <1>6. TypeOK'
    BY <1>1, <1>4, <1>5 DEF TypeOK, queueVars, offsetVars, lockVars, historyVars
  <1>7. OwnerInv'
    BY <1>1, <1>2, <1>4, <1>5, ConstantsAssumption
       DEF OwnerInv, queueVars, lockVars, historyVars
  <1>8. RequestInv'
    <2>1. Tokens(p) <= 1 /\ (~pq[p].consuming => Tokens(p) = 0)
      BY <1>1, <1>2 DEF RequestInv
    <2>2. Tokens(p)' <= Tokens(p) /\ Tokens(p)' \in Nat
      <3>1. Count(running[owner[p]].q = p) = 1
        BY <1>2, <1>p DEF Count
      <3>2. Count(running'[owner[p]].q = p) = Count(v.q = p)
        BY <1>2, <1>4
      <3>3. v.q = NoQueue => Count(v.q = p) = 0
        BY <1>2, ConstantsAssumption DEF Count
      <3>4. Count(v.q = p) \in {0, 1}
        BY DEF Count
      <3>5. /\ submitted[p] \in Nat /\ later[p] \in Nat /\ lockLater[p] \in Nat
            /\ Count(lockCall[owner[p]].by = p) \in {0, 1}
        BY <1>1, <1>2, TokenCounts
      <3>6. Tokens(p)' = submitted[p] + later'[p] + lockLater'[p]
                + Count(v.q = p) + Count(lockCall[owner[p]].by = p)
        BY <1>3, <1>5, <3>2 DEF Tokens
      <3>7. Tokens(p) = submitted[p] + later[p] + lockLater[p]
                + 1 + Count(lockCall[owner[p]].by = p)
        BY <3>1 DEF Tokens
      <3> QED
        BY <1>5, <3>3, <3>4, <3>5, <3>6, <3>7
    <2>3. Tokens(p) \in Nat
      BY <1>1, <1>2, TokenCounts
    <2>4. Tokens(p)' <= 1 /\ (~pq'[p].consuming => Tokens(p)' = 0)
      BY <1>3, <2>1, <2>2, <2>3
    <2> QED
      BY <1>1, <1>2, <1>3, <1>4, <1>5, <2>4, RequestStep
  <1>9. BufferInv'
    <2>1. Orderly(pq[p], start[p], nextOffset[p], accepted[p], Pending(p))
      BY <1>1 DEF BufferInv
    <2>2. UNCHANGED <<pq, accepted, start, nextOffset>>
      BY DEF queueVars, historyVars
    <2>3. Pending(p)' = Pending(p)
      BY <1>4
    <2> QED
      BY <1>1, <1>4, <2>1, <2>2, <2>3, BufferStep
  <1>10. LockInv'
    BY <1>1, SameLock DEF queueVars, lockVars
  <1>11. FirmInv'
    <2>1. \A d \in Clients : Below(Firm, running'[d].offset)
      BY <1>1, <1>4, BelowNothing DEF FirmInv
    <2> QED
      BY <1>1, <2>1, SameFirm DEF FirmInv, queueVars, offsetVars, historyVars
  <1> QED
    BY <1>6, <1>7, <1>8, <1>9, <1>10, <1>11 DEF OrderInv

LEMMA IdleType ==
    /\ Idle \in RunningType
    /\ Idle.q = NoQueue /\ Idle.st = "loop" /\ Idle.offset = NoOffset
  BY DEF Idle, RunningType, LoopStates

LEMMA LoopEndsPreserves ==
    ASSUME OrderInv, NEW c \in Clients,
           LoopDropped(c) \/ LoopUnlocked(c) \/ LoopYields(c)
    PROVE  OrderInv'
  <1>1. /\ running[c].q # NoQueue /\ running[c].st = "loop"
        /\ running' = [running EXCEPT ![c] = Idle]
        /\ \/ requestVars' = requestVars
           \/ later' = Add(later, running[c].q) /\ UNCHANGED <<submitted, lockLater>>
           \/ lockLater' = Add(lockLater, running[c].q) /\ UNCHANGED <<submitted, later>>
        /\ UNCHANGED <<queueVars, offsetVars, lockVars, historyVars>>
    BY DEF LoopDropped, LoopUnlocked, LoopYields
  <1> QED
    BY <1>1, IdleType, LoopStep

LEMMA LoopGoesOnPreserves ==
    ASSUME OrderInv, NEW c \in Clients, LoopGoesOn(c)
    PROVE  OrderInv'
  <1>1. TypeOK
    BY DEF OrderInv
  <1> DEFINE v == [running[c] EXCEPT !.st = "taking"]
  <1>2. /\ running[c].q # NoQueue /\ running[c].st = "loop"
        /\ running' = [running EXCEPT ![c] = v]
        /\ requestVars' = requestVars
        /\ UNCHANGED <<queueVars, offsetVars, lockVars, historyVars>>
    BY DEF LoopGoesOn
  <1>3. /\ v \in RunningType /\ v.q = running[c].q /\ v.st = "taking"
        /\ v.offset = running[c].offset
    BY <1>1 DEF TypeOK, RunningType, LoopStates
  <1> HIDE DEF v
  <1> QED
    BY <1>2, <1>3, LoopStep

-----------------------------------------------------------------------------
(* Batches.                                                                *)

(* A step that changes the buffer or the history of the object the thread  *)
(* is working on: the buffer must stay orderly and nothing accepted for    *)
(* good may be lost.                                                       *)
LEMMA BatchStep ==
    ASSUME OrderInv, NEW c \in Clients, NEW p \in ProcessQueues, running[c].q = p,
           NEW v \in RunningType, v.q \in {p, NoQueue}, v.q = NoQueue => v.st = "loop",
           running' = [running EXCEPT ![c] = v],
           pq' \in [ProcessQueues -> Buffers],
           accepted' \in [ProcessQueues -> SUBSET Messages],
           freed' \in [ProcessQueues -> SUBSET Messages],
           \A r \in ProcessQueues : r # p =>
               pq'[r] = pq[r] /\ accepted'[r] = accepted[r],
           pq'[p].droped = pq[p].droped,
           HoldsLock(pq'[p]) => HoldsLock(pq[p]),
           Orderly(pq'[p], start[p], nextOffset[p], accepted'[p],
                   IF v.q = p /\ v.st = "listening" THEN v.msgs ELSE {}),
           Firm[p] \subseteq Firm'[p],
           Below(Firm', v.offset),
           store' \in [Clients -> Offsets \cup {NoOffset}],
           \A d \in Clients : Below(Firm, store'[d]),
           \/ v.q = p /\ later' = later /\ pq'[p].consuming = pq[p].consuming
           \/ v.q = NoQueue /\ later' = Add(later, p)
              /\ pq'[p].consuming = pq[p].consuming
           \/ v.q = NoQueue /\ later' = later,
           UNCHANGED <<owner, pull, nextOffset, table, start, committed, submitted,
                       lockLater, lockVars>>
    PROVE  OrderInv'
  <1>1. TypeOK /\ OwnerInv /\ RequestInv /\ BufferInv /\ FirmInv /\ LockInv
    BY DEF OrderInv
  <1>2. owner[p] = c /\ p # NoQueue
    BY <1>1, ConstantsAssumption DEF OwnerInv
  <1>3. UNCHANGED <<lockCall, brokerLock>>
    BY DEF lockVars
  <1>4. /\ OnlyThread(c, p, v)
        /\ Pending(p)' = IF v.q = p /\ v.st = "listening" THEN v.msgs ELSE {}
    BY <1>1, <1>2, ThreadStep
  <1>5. /\ later' \in [ProcessQueues -> Nat]
        /\ \A r \in ProcessQueues : r # p => later'[r] = later[r]
        /\ later' = later => later'[p] = later[p]
        /\ later' = Add(later, p) => later'[p] = later[p] + 1
    BY <1>1 DEF TypeOK, Add
  <1>6. TypeOK'
    BY <1>1, <1>3, <1>4, <1>5 DEF TypeOK, OnlyThread, Buffers
  <1>7. OwnerInv'
    <2>1. \A d \in Clients :
              /\ running'[d].q # NoQueue => owner[running'[d].q] = d
              /\ running'[d].q = NoQueue => running'[d].st = "loop"
      BY <1>4 DEF OnlyThread
    <2>2. \A r \in ProcessQueues : owner[r] = NoClient => r # p
      BY <1>2, ConstantsAssumption
    <2> QED
      BY <1>1, <1>3, <1>5, <2>1, <2>2 DEF OwnerInv
  <1>8. RequestInv'
    <2>1. Tokens(p) <= 1 /\ (~pq[p].consuming => Tokens(p) = 0)
      BY <1>1, <1>2 DEF RequestInv
    <2>2. /\ Count(running[owner[p]].q = p) = 1
          /\ v.q = p => Count(running'[owner[p]].q = p) = 1
          /\ v.q = NoQueue => Count(running'[owner[p]].q = p) = 0
      BY <1>2, <1>4 DEF Count, OnlyThread
    <2>3. /\ submitted[p] \in Nat /\ later[p] \in Nat /\ lockLater[p] \in Nat
          /\ Count(lockCall[owner[p]].by = p) \in {0, 1}
      BY <1>1, TokenCounts
    <2>4. Tokens(p)' = submitted[p] + later'[p] + lockLater[p]
              + Count(running'[owner[p]].q = p) + Count(lockCall[owner[p]].by = p)
      BY <1>3 DEF Tokens
    <2>5. Tokens(p) = submitted[p] + later[p] + lockLater[p]
              + 1 + Count(lockCall[owner[p]].by = p)
      BY <2>2 DEF Tokens
    <2>6. Tokens(p)' <= 1 /\ (~pq'[p].consuming => Tokens(p)' = 0)
      <3>1. CASE v.q = p /\ later' = later /\ pq'[p].consuming = pq[p].consuming
        BY <1>5, <2>1, <2>2, <2>3, <2>4, <2>5, <3>1
      <3>2. CASE /\ v.q = NoQueue /\ later' = Add(later, p)
                 /\ pq'[p].consuming = pq[p].consuming
        BY <1>5, <2>1, <2>2, <2>3, <2>4, <2>5, <3>2
      <3>3. CASE v.q = NoQueue /\ later' = later
        BY <1>5, <2>1, <2>2, <2>3, <2>4, <2>5, <3>3
      <3> QED
        BY <3>1, <3>2, <3>3
    <2>7. \A r \in ProcessQueues : r # p =>
              /\ submitted'[r] = submitted[r] /\ later'[r] = later[r]
              /\ lockLater'[r] = lockLater[r]
              /\ pq'[r].consuming = pq[r].consuming
              /\ owner[r] \in Clients =>
                    (running'[owner[r]].q = r <=> running[owner[r]].q = r)
      BY <1>4, <1>5 DEF OnlyThread
    <2> QED
      BY <1>1, <1>3, <2>6, <2>7, RequestStep
  <1>9. BufferInv'
    <2>1. \A r \in ProcessQueues : r # p => Pending(r)' = Pending(r)
      BY <1>4 DEF OnlyThread
    <2> QED
      BY <1>1, <1>4, <2>1, BufferStep
  <1>10. LockInv'
    <2>1. \A r \in ProcessQueues :
              /\ pq[r].droped => pq'[r].droped
              /\ HoldsLock(pq'[r]) => HoldsLock(pq[r])
      OBVIOUS
    <2> QED
      BY <1>1, <1>3, <2>1, SameLock
  <1>11. FirmInv'
    <2>1. \A r \in ProcessQueues : Firm[r] \subseteq Firm'[r]
      <3> SUFFICES ASSUME NEW r \in ProcessQueues, r # p
                   PROVE  Firm[r] \subseteq Firm'[r]
        OBVIOUS
      <3> QED
        BY DEF Firm
    <2>2. \A x : Below(Firm, x) => Below(Firm', x)
      BY <2>1, BelowGrows
    <2>3. \A d \in Clients : Below(Firm', running'[d].offset)
      BY <1>1, <1>4, <2>2 DEF FirmInv, OnlyThread
    <2> QED
      BY <1>1, <2>1, <2>3, FirmSteps DEF FirmInv
  <1> QED
    BY <1>6, <1>7, <1>8, <1>9, <1>10, <1>11 DEF OrderInv

(* The object a thread is working on, and its buffer.                      *)
LEMMA WorkedOn ==
    ASSUME OrderInv, NEW c \in Clients, running[c].q # NoQueue
    PROVE  /\ running[c].q \in ProcessQueues
           /\ owner[running[c].q] = c
           /\ pq[running[c].q] \in Buffers
           /\ accepted[running[c].q] \in SUBSET Messages
           /\ running[c].msgs \in SUBSET Messages
           /\ LET p == running[c].q
                  batch == IF running[c].st = "listening" THEN running[c].msgs ELSE {}
              IN  Orderly(pq[p], start[p], nextOffset[p], accepted[p], batch)
  <1>1. TypeOK /\ OwnerInv /\ BufferInv
    BY DEF OrderInv
  <1>2. PICK p \in ProcessQueues : running[c].q = p
    BY <1>1 DEF TypeOK, RunningType
  <1>3. owner[p] = c
    BY <1>1, <1>2, ConstantsAssumption DEF OwnerInv
  <1>4. Pending(p) = IF running[c].st = "listening" THEN running[c].msgs ELSE {}
    BY <1>2, <1>3 DEF Pending
  <1>5. Orderly(pq[p], start[p], nextOffset[p], accepted[p], Pending(p))
    BY <1>1 DEF BufferInv
  <1>6. /\ pq[p] \in Buffers /\ accepted[p] \in SUBSET Messages
        /\ running[c].msgs \in SUBSET Messages
    BY <1>1 DEF TypeOK, RunningType, Buffers
  <1> QED
    BY <1>2, <1>3, <1>4, <1>5, <1>6

LEMMA TakeMessagesPreserves ==
    ASSUME OrderInv, NEW c \in Clients, TakeMessages(c)
    PROVE  OrderInv'
  <1>1. TypeOK /\ FirmInv
    BY DEF OrderInv
  <1>2. running[c].q # NoQueue /\ running[c].st = "taking"
    BY DEF TakeMessages
  <1>p. PICK p \in ProcessQueues : running[c].q = p
    BY <1>2, WorkedOn
  <1> DEFINE old == pq[p]
             batch == takeBatch(old, BatchSize)
             new == takeMessags(old, BatchSize)
             st == IF batch = {} THEN "stopping" ELSE "listening"
  <1>v. PICK v : v = Running(p, st, batch, NoOffset)
    OBVIOUS
  <1>3. /\ old \in Buffers /\ accepted[p] \in SUBSET Messages
        /\ Orderly(old, start[p], nextOffset[p], accepted[p], {})
    BY <1>2, <1>p, WorkedOn
  <1>4. /\ pq' = [pq EXCEPT ![p] = new]
        /\ running' = [running EXCEPT ![c] = v]
        /\ UNCHANGED <<owner, pull, nextOffset, table, start, offsetVars, requestVars,
                       lockVars, historyVars>>
    BY <1>p, <1>v DEF TakeMessages
  <1>5. /\ new \in Buffers /\ batch \in SUBSET old.msgTreeMap
        /\ new.msgTreeMapTemp = old.msgTreeMapTemp \cup batch
        /\ new.droped = old.droped /\ new.locked = old.locked
        /\ new.lockExpired = old.lockExpired /\ new.consuming = old.consuming
    BY <1>3, TakeFields
  <1>6. Orderly(new, start[p], nextOffset[p], accepted[p], batch)
    BY <1>3, OrderlyTake
  <1>7. batch \in SUBSET Messages
    BY <1>3, <1>5, BufferType
  <1> HIDE DEF batch, new
  <1>8. /\ v \in RunningType /\ v.q = p /\ v.offset = NoOffset
        /\ batch = IF v.q = p /\ v.st = "listening" THEN v.msgs ELSE {}
    BY <1>7, <1>v DEF Running, RunningType, LoopStates
  <1> HIDE DEF st
  <1>9. /\ pq' \in [ProcessQueues -> Buffers] /\ pq'[p] = new
        /\ \A r \in ProcessQueues : r # p => pq'[r] = pq[r]
    BY <1>1, <1>4, <1>5 DEF TypeOK, Buffers
  <1>10. /\ accepted' = accepted /\ freed' = freed /\ store' = store
         /\ later' = later
         /\ UNCHANGED <<owner, pull, nextOffset, table, start, committed, submitted,
                        lockLater, lockVars>>
    BY <1>4 DEF offsetVars, requestVars, historyVars
  <1>11. Firm[p] \subseteq Firm'[p]
    <2>1. batch \cap accepted[p] = {}
      BY <1>3, <1>5 DEF Orderly
    <2> QED
      BY <1>5, <1>9, <1>10, <2>1 DEF Firm
  <1>12. HoldsLock(new) = HoldsLock(old) /\ HoldsLock(pq'[p]) = HoldsLock(new)
    BY <1>5, <1>9 DEF HoldsLock
  <1>13. Below(Firm', v.offset) /\ \A d \in Clients : Below(Firm, store'[d])
    BY <1>1, <1>8, <1>10, BelowNothing DEF FirmInv
  <1>14. Orderly(pq'[p], start[p], nextOffset[p], accepted'[p],
                 IF v.q = p /\ v.st = "listening" THEN v.msgs ELSE {})
    BY <1>6, <1>8, <1>9, <1>10
  <1>15. /\ v.q \in {p, NoQueue} /\ (v.q = NoQueue => v.st = "loop")
         /\ accepted' \in [ProcessQueues -> SUBSET Messages]
         /\ freed' \in [ProcessQueues -> SUBSET Messages]
         /\ store' \in [Clients -> Offsets \cup {NoOffset}]
         /\ pq'[p].droped = pq[p].droped
         /\ v.q = p /\ later' = later /\ pq'[p].consuming = pq[p].consuming
    BY <1>1, <1>5, <1>8, <1>9, <1>10, ConstantsAssumption DEF TypeOK
  <1> QED
    BY <1>p, <1>4, <1>8, <1>9, <1>10, <1>11, <1>12, <1>13, <1>14, <1>15, BatchStep

LEMMA StopConsumingPreserves ==
    ASSUME OrderInv, NEW c \in Clients, StopConsuming(c)
    PROVE  OrderInv'
  <1>1. TypeOK /\ FirmInv
    BY DEF OrderInv
  <1>2. running[c].q # NoQueue /\ running[c].st = "stopping"
    BY DEF StopConsuming
  <1>p. PICK p \in ProcessQueues : running[c].q = p
    BY <1>2, WorkedOn
  <1> DEFINE old == pq[p]
             new == stopConsuming(old)
  <1>3. /\ old \in Buffers /\ accepted[p] \in SUBSET Messages
        /\ Orderly(old, start[p], nextOffset[p], accepted[p], {})
    BY <1>2, <1>p, WorkedOn
  <1>4. /\ pq' = [pq EXCEPT ![p] = new]
        /\ running' = [running EXCEPT ![c] = Idle]
        /\ UNCHANGED <<owner, pull, nextOffset, table, start, offsetVars, requestVars,
                       lockVars, historyVars>>
    BY <1>p DEF StopConsuming
  <1>5. /\ new \in Buffers
        /\ new.msgTreeMap = old.msgTreeMap /\ new.msgTreeMapTemp = old.msgTreeMapTemp
        /\ new.msgCount = old.msgCount
        /\ new.droped = old.droped /\ new.locked = old.locked
        /\ new.lockExpired = old.lockExpired
    BY <1>3 DEF stopConsuming, Buffers, ProcessQueueType
  <1>6. Orderly(new, start[p], nextOffset[p], accepted[p], {})
    BY <1>3, <1>5, OrderlySame
  <1> HIDE DEF new
  <1>7. /\ pq' \in [ProcessQueues -> Buffers] /\ pq'[p] = new
        /\ \A r \in ProcessQueues : r # p => pq'[r] = pq[r]
    BY <1>1, <1>4, <1>5 DEF TypeOK, Buffers
  <1>8. /\ accepted' = accepted /\ freed' = freed /\ store' = store
        /\ later' = later
        /\ UNCHANGED <<owner, pull, nextOffset, table, start, committed, submitted,
                       lockLater, lockVars>>
    BY <1>4 DEF offsetVars, requestVars, historyVars
  <1>9. Firm[p] \subseteq Firm'[p]
    BY <1>5, <1>7, <1>8 DEF Firm
  <1>10. HoldsLock(new) = HoldsLock(old) /\ HoldsLock(pq'[p]) = HoldsLock(new)
    BY <1>5, <1>7 DEF HoldsLock
  <1>11. Below(Firm', Idle.offset) /\ \A d \in Clients : Below(Firm, store'[d])
    BY <1>1, <1>8, BelowNothing, IdleType DEF FirmInv
  <1>12. Orderly(pq'[p], start[p], nextOffset[p], accepted'[p],
                 IF Idle.q = p /\ Idle.st = "listening" THEN Idle.msgs ELSE {})
    BY <1>6, <1>7, <1>8, IdleType
  <1>13. /\ Idle \in RunningType /\ Idle.q \in {p, NoQueue}
         /\ Idle.q = NoQueue => Idle.st = "loop"
         /\ accepted' \in [ProcessQueues -> SUBSET Messages]
         /\ freed' \in [ProcessQueues -> SUBSET Messages]
         /\ store' \in [Clients -> Offsets \cup {NoOffset}]
         /\ pq'[p].droped = pq[p].droped
         /\ Idle.q = NoQueue /\ later' = later
    BY <1>1, <1>5, <1>7, <1>8, IdleType DEF TypeOK
  <1> QED
    BY <1>p, <1>4, <1>7, <1>8, <1>9, <1>10, <1>11, <1>12, <1>13, BatchStep

(* commit's offset passes what this object accepted for good, and what it  *)
(* started from.                                                           *)
LEMMA CommitIsFirm ==
    ASSUME OrderInv, NEW p \in ProcessQueues, NEW msgs,
           pq[p] \in Buffers,
           Orderly(pq[p], start[p], nextOffset[p], accepted[p], msgs),
           \A r \in ProcessQueues : Firm[r] \subseteq Firm'[r],
           Firm'[p] = accepted[p] \cup msgs
    PROVE  /\ commitResult(pq[p]) \in Offsets \cup {NoOffset}
           /\ Below(Firm', commitResult(pq[p]))
  <1> DEFINE temp == pq[p].msgTreeMapTemp
             x == commitResult(pq[p])
  <1>1. TypeOK /\ FirmInv
    BY DEF OrderInv
  <1>2. temp \in SUBSET Messages
    BY BufferType
  <1>3. CASE temp = {}
    <2>1. x = NoOffset
      BY <1>3 DEF commitResult, NoOffset
    <2> QED
      BY <2>1, BelowNothing
  <1>4. CASE temp # {}
    <2>1. x = Last(temp) + 1
      BY <1>4 DEF commitResult
    <2>2. Last(temp) \in temp /\ \A y \in temp : y <= Last(temp)
      BY <1>2, <1>4, MessageCount, LastIsGreatest
    <2>3. Last(temp) \in Messages /\ Last(temp) \in Int
      BY <1>2, <2>2, MessageIsInt
    <2>4. x \in Offsets
      BY <2>1, <2>3, ConstantsAssumption DEF Messages, Offsets
    <2>5. Below(Firm', start[p])
      BY <1>1, BelowGrows DEF FirmInv
    <2>6. ASSUME NEW o \in Messages, o < x
          PROVE  \E r \in ProcessQueues : o \in Firm'[r]
      <3>1. /\ o \in Int /\ o <= Last(temp)
            /\ start[p] \in Int /\ nextOffset[p] \in Int
        <4>1. o \in Int
          BY MessageIsInt
        <4>2. start[p] \in Int /\ nextOffset[p] \in Int
          BY <1>1, ConstantsAssumption DEF TypeOK, Offsets
        <4> QED
          BY <2>1, <2>3, <2>6, <4>1, <4>2
      <3>2. CASE o < start[p]
        BY <2>5, <3>2 DEF Below
      <3>3. CASE start[p] <= o
        <4>1. Last(temp) < nextOffset[p]
          BY <2>2 DEF Orderly
        <4>2. o < nextOffset[p]
          BY <2>3, <3>1, <4>1
        <4>3. o \in pq[p].msgTreeMap \cup temp \cup accepted[p]
          BY <3>3, <4>2 DEF Orderly
        <4>4. o \notin pq[p].msgTreeMap
          <5>1. o \in pq[p].msgTreeMap => Last(temp) < o
            BY <2>2 DEF Orderly
          <5> QED
            BY <2>3, <3>1, <5>1
        <4>5. o \in accepted[p] \cup msgs
          BY <4>3, <4>4 DEF Orderly
        <4> QED
          BY <4>5
      <3> QED
        BY <3>1, <3>2, <3>3
    <2> QED
      BY <2>4, <2>6 DEF Below
  <1> QED
    BY <1>3, <1>4

LEMMA ListenerCommitsPreserves ==
    ASSUME OrderInv, NEW c \in Clients, ListenerCommits(c)
    PROVE  OrderInv'
  <1>1. TypeOK /\ FirmInv
    BY DEF OrderInv
  <1>2. running[c].q # NoQueue /\ running[c].st = "listening"
    BY DEF ListenerCommits
  <1>p. PICK p \in ProcessQueues : running[c].q = p
    BY <1>2, WorkedOn
  <1> DEFINE old == pq[p]
             msgs == running[c].msgs
             new == commit(old)
             x == commitResult(old)
  <1>v. PICK v : v = Running(p, "updating", msgs, x)
    OBVIOUS
  <1>3. /\ old \in Buffers /\ accepted[p] \in SUBSET Messages
        /\ msgs \in SUBSET Messages
        /\ Orderly(old, start[p], nextOffset[p], accepted[p], msgs)
    BY <1>2, <1>p, WorkedOn
  <1>4. /\ pq' = [pq EXCEPT ![p] = new]
        /\ running' = [running EXCEPT ![c] = v]
        /\ accepted' = [accepted EXCEPT ![p] = accepted[p] \cup msgs]
        /\ UNCHANGED <<owner, pull, nextOffset, table, start, offsetVars, requestVars,
                       lockVars, freed>>
    BY <1>p, <1>v DEF ListenerCommits
  <1>5. /\ new \in Buffers
        /\ new.msgTreeMapTemp = {}
        /\ new.droped = old.droped /\ new.locked = old.locked
        /\ new.lockExpired = old.lockExpired /\ new.consuming = old.consuming
    BY <1>3, CommitFields
  <1>6. Orderly(new, start[p], nextOffset[p], accepted[p] \cup msgs, {})
    BY <1>3, OrderlyCommit
  <1> HIDE DEF msgs, new, x
  <1>7. /\ pq' \in [ProcessQueues -> Buffers] /\ pq'[p] = new
        /\ \A r \in ProcessQueues : r # p => pq'[r] = pq[r]
    BY <1>1, <1>4, <1>5 DEF TypeOK, Buffers
  <1>8. /\ accepted' \in [ProcessQueues -> SUBSET Messages]
        /\ accepted'[p] = accepted[p] \cup msgs
        /\ \A r \in ProcessQueues : r # p => accepted'[r] = accepted[r]
    BY <1>1, <1>3, <1>4 DEF TypeOK
  <1>9. /\ freed' = freed /\ store' = store /\ later' = later
        /\ UNCHANGED <<owner, pull, nextOffset, table, start, committed, submitted,
                       lockLater, lockVars>>
    BY <1>4 DEF offsetVars, requestVars
  <1>10. /\ Firm'[p] = accepted[p] \cup msgs
         /\ \A r \in ProcessQueues : Firm[r] \subseteq Firm'[r]
    BY <1>5, <1>7, <1>8 DEF Firm
  <1>11. x \in Offsets \cup {NoOffset} /\ Below(Firm', x)
    BY <1>3, <1>10, CommitIsFirm DEF x
  <1>12. /\ v \in RunningType /\ v.q = p /\ v.st = "updating" /\ v.offset = x
    BY <1>3, <1>11, <1>v DEF Running, RunningType, LoopStates
  <1>13. HoldsLock(new) = HoldsLock(old) /\ HoldsLock(pq'[p]) = HoldsLock(new)
    BY <1>5, <1>7 DEF HoldsLock
  <1>14. Below(Firm', v.offset) /\ \A d \in Clients : Below(Firm, store'[d])
    BY <1>1, <1>9, <1>11, <1>12 DEF FirmInv
  <1>15. Orderly(pq'[p], start[p], nextOffset[p], accepted'[p],
                 IF v.q = p /\ v.st = "listening" THEN v.msgs ELSE {})
    BY <1>6, <1>7, <1>8, <1>12
  <1>16. /\ v.q \in {p, NoQueue} /\ (v.q = NoQueue => v.st = "loop")
         /\ freed' \in [ProcessQueues -> SUBSET Messages]
         /\ store' \in [Clients -> Offsets \cup {NoOffset}]
         /\ pq'[p].droped = pq[p].droped
         /\ v.q = p /\ later' = later /\ pq'[p].consuming = pq[p].consuming
    BY <1>1, <1>5, <1>7, <1>9, <1>12, ConstantsAssumption DEF TypeOK
  <1> QED
    BY <1>p, <1>4, <1>7, <1>8, <1>9, <1>10, <1>12, <1>13, <1>14, <1>15, <1>16, BatchStep

LEMMA ListenerSucceedsPreserves ==
    ASSUME OrderInv, NEW c \in Clients, ListenerSucceeds(c)
    PROVE  OrderInv'
  <1>1. TypeOK /\ FirmInv
    BY DEF OrderInv
  <1>2. running[c].q # NoQueue /\ running[c].st = "listening"
    BY DEF ListenerSucceeds
  <1>p. PICK p \in ProcessQueues : running[c].q = p
    BY <1>2, WorkedOn
  <1> DEFINE msgs == running[c].msgs
  <1>v. PICK v : v = Running(p, "loop", {}, NoOffset)
    OBVIOUS
  <1>3. /\ pq[p] \in Buffers /\ accepted[p] \in SUBSET Messages
        /\ msgs \in SUBSET Messages
        /\ Orderly(pq[p], start[p], nextOffset[p], accepted[p], msgs)
    BY <1>2, <1>p, WorkedOn
  <1>4. /\ running' = [running EXCEPT ![c] = v]
        /\ accepted' = [accepted EXCEPT ![p] = accepted[p] \cup msgs]
        /\ freed' = [freed EXCEPT ![p] = freed[p] \cup msgs]
        /\ UNCHANGED <<queueVars, offsetVars, requestVars, lockVars>>
    BY <1>p, <1>v DEF ListenerSucceeds
  <1>5. Orderly(pq[p], start[p], nextOffset[p], accepted[p] \cup msgs, {})
    BY <1>3, OrderlySucceed
  <1> HIDE DEF msgs
  <1>6. /\ pq' = pq /\ store' = store /\ later' = later
        /\ UNCHANGED <<owner, pull, nextOffset, table, start, committed, submitted,
                       lockLater, lockVars>>
    BY <1>4 DEF queueVars, offsetVars, requestVars
  <1>7. /\ accepted' \in [ProcessQueues -> SUBSET Messages]
        /\ accepted'[p] = accepted[p] \cup msgs
        /\ \A r \in ProcessQueues : r # p => accepted'[r] = accepted[r]
    BY <1>1, <1>3, <1>4 DEF TypeOK
  <1>8. freed' \in [ProcessQueues -> SUBSET Messages]
    BY <1>1, <1>3, <1>4 DEF TypeOK
  <1>9. Firm[p] \subseteq Firm'[p]
    BY <1>6, <1>7 DEF Firm
  <1>10. v \in RunningType /\ v.q = p /\ v.st = "loop" /\ v.offset = NoOffset
    BY <1>v DEF Running, RunningType, LoopStates
  <1>11. Below(Firm', v.offset) /\ \A d \in Clients : Below(Firm, store'[d])
    BY <1>1, <1>6, <1>10, BelowNothing DEF FirmInv
  <1>12. Orderly(pq'[p], start[p], nextOffset[p], accepted'[p],
                 IF v.q = p /\ v.st = "listening" THEN v.msgs ELSE {})
    BY <1>5, <1>6, <1>7, <1>10
  <1>13. /\ v.q \in {p, NoQueue} /\ (v.q = NoQueue => v.st = "loop")
         /\ pq' \in [ProcessQueues -> Buffers]
         /\ store' \in [Clients -> Offsets \cup {NoOffset}]
         /\ HoldsLock(pq'[p]) => HoldsLock(pq[p])
         /\ pq'[p].droped = pq[p].droped
         /\ \A r \in ProcessQueues : r # p => pq'[r] = pq[r]
         /\ v.q = p /\ later' = later /\ pq'[p].consuming = pq[p].consuming
    BY <1>1, <1>6, <1>10, ConstantsAssumption DEF TypeOK, Buffers
  <1> QED
    BY <1>p, <1>4, <1>6, <1>7, <1>8, <1>9, <1>10, <1>11, <1>12, <1>13, BatchStep

LEMMA ListenerRollsBackPreserves ==
    ASSUME OrderInv, NEW c \in Clients, ListenerRollsBack(c)
    PROVE  OrderInv'
  <1>1. TypeOK /\ FirmInv
    BY DEF OrderInv
  <1>2. running[c].q # NoQueue /\ running[c].st = "listening"
    BY DEF ListenerRollsBack
  <1>p. PICK p \in ProcessQueues : running[c].q = p
    BY <1>2, WorkedOn
  <1> DEFINE old == pq[p]
             new == rollback(old)
             acc == accepted[p] \ old.msgTreeMapTemp
  <1>3. /\ old \in Buffers /\ accepted[p] \in SUBSET Messages
        /\ Orderly(old, start[p], nextOffset[p], accepted[p], running[c].msgs)
    BY <1>2, <1>p, WorkedOn
  <1>4. /\ pq' = [pq EXCEPT ![p] = new]
        /\ running' = [running EXCEPT ![c] = Idle]
        /\ later' = Add(later, p)
        /\ accepted' = [accepted EXCEPT ![p] = acc]
        /\ UNCHANGED <<owner, pull, nextOffset, table, start, offsetVars, submitted,
                       lockLater, lockVars, freed>>
    BY <1>p DEF ListenerRollsBack
  <1>5. /\ new \in Buffers
        /\ new.msgTreeMapTemp = {}
        /\ new.droped = old.droped /\ new.locked = old.locked
        /\ new.lockExpired = old.lockExpired /\ new.consuming = old.consuming
    BY <1>3, RollbackFields
  <1>6. Orderly(new, start[p], nextOffset[p], acc, {})
    BY <1>3, OrderlyRollback
  <1> HIDE DEF new
  <1>7. /\ pq' \in [ProcessQueues -> Buffers] /\ pq'[p] = new
        /\ \A r \in ProcessQueues : r # p => pq'[r] = pq[r]
    BY <1>1, <1>4, <1>5 DEF TypeOK, Buffers
  <1>8. /\ accepted' \in [ProcessQueues -> SUBSET Messages]
        /\ accepted'[p] = acc
        /\ \A r \in ProcessQueues : r # p => accepted'[r] = accepted[r]
    BY <1>1, <1>3, <1>4 DEF TypeOK
  <1>9. /\ freed' = freed /\ store' = store /\ running' = [running EXCEPT ![c] = Idle]
        /\ UNCHANGED <<owner, pull, nextOffset, table, start, committed, submitted,
                       lockLater, lockVars>>
    BY <1>4 DEF offsetVars
  <1>10. Firm[p] \subseteq Firm'[p]
    BY <1>5, <1>7, <1>8 DEF Firm
  <1>11. HoldsLock(new) = HoldsLock(old) /\ HoldsLock(pq'[p]) = HoldsLock(new)
    BY <1>5, <1>7 DEF HoldsLock
  <1>12. Below(Firm', Idle.offset) /\ \A d \in Clients : Below(Firm, store'[d])
    BY <1>1, <1>9, BelowNothing, IdleType DEF FirmInv
  <1>13. Orderly(pq'[p], start[p], nextOffset[p], accepted'[p],
                 IF Idle.q = p /\ Idle.st = "listening" THEN Idle.msgs ELSE {})
    BY <1>6, <1>7, <1>8, IdleType
  <1>14. /\ Idle \in RunningType /\ Idle.q \in {p, NoQueue}
         /\ Idle.q = NoQueue => Idle.st = "loop"
         /\ freed' \in [ProcessQueues -> SUBSET Messages]
         /\ store' \in [Clients -> Offsets \cup {NoOffset}]
         /\ pq'[p].droped = pq[p].droped
         /\ Idle.q = NoQueue /\ later' = Add(later, p)
         /\ pq'[p].consuming = pq[p].consuming
    BY <1>1, <1>4, <1>5, <1>7, <1>9, IdleType DEF TypeOK
  <1> QED
    BY <1>p, <1>7, <1>8, <1>9, <1>10, <1>11, <1>12, <1>13, <1>14, BatchStep

LEMMA ListenerSuspendsPreserves ==
    ASSUME OrderInv, NEW c \in Clients, ListenerSuspends(c)
    PROVE  OrderInv'
  <1>1. TypeOK /\ FirmInv
    BY DEF OrderInv
  <1>2. running[c].q # NoQueue /\ running[c].st = "listening"
    BY DEF ListenerSuspends
  <1>p. PICK p \in ProcessQueues : running[c].q = p
    BY <1>2, WorkedOn
  <1> DEFINE old == pq[p]
             msgs == running[c].msgs
             new == makeMessageToCosumeAgain(old, msgs)
  <1>3. /\ old \in Buffers /\ accepted[p] \in SUBSET Messages
        /\ msgs \in SUBSET Messages
        /\ Orderly(old, start[p], nextOffset[p], accepted[p], msgs)
    BY <1>2, <1>p, WorkedOn
  <1>4. /\ pq' = [pq EXCEPT ![p] = new]
        /\ running' = [running EXCEPT ![c] = Idle]
        /\ later' = Add(later, p)
        /\ UNCHANGED <<owner, pull, nextOffset, table, start, offsetVars, submitted,
                       lockLater, lockVars, historyVars>>
    BY <1>p DEF ListenerSuspends
  <1>5. /\ new \in Buffers
        /\ new.msgTreeMapTemp = old.msgTreeMapTemp \ msgs
        /\ new.droped = old.droped /\ new.locked = old.locked
        /\ new.lockExpired = old.lockExpired /\ new.consuming = old.consuming
    BY <1>3, AgainFields
  <1>6. Orderly(new, start[p], nextOffset[p], accepted[p], {})
    BY <1>3, OrderlyAgain
  <1> HIDE DEF new, msgs
  <1>7. /\ pq' \in [ProcessQueues -> Buffers] /\ pq'[p] = new
        /\ \A r \in ProcessQueues : r # p => pq'[r] = pq[r]
    BY <1>1, <1>4, <1>5 DEF TypeOK, Buffers
  <1>8. /\ accepted' = accepted /\ freed' = freed /\ store' = store
        /\ UNCHANGED <<owner, pull, nextOffset, table, start, committed, submitted,
                       lockLater, lockVars>>
    BY <1>4 DEF offsetVars, historyVars
  <1>9. Firm[p] \subseteq Firm'[p]
    BY <1>5, <1>7, <1>8 DEF Firm
  <1>10. HoldsLock(new) = HoldsLock(old) /\ HoldsLock(pq'[p]) = HoldsLock(new)
    BY <1>5, <1>7 DEF HoldsLock
  <1>11. Below(Firm', Idle.offset) /\ \A d \in Clients : Below(Firm, store'[d])
    BY <1>1, <1>8, BelowNothing, IdleType DEF FirmInv
  <1>12. Orderly(pq'[p], start[p], nextOffset[p], accepted'[p],
                 IF Idle.q = p /\ Idle.st = "listening" THEN Idle.msgs ELSE {})
    BY <1>6, <1>7, <1>8, IdleType
  <1>13. /\ Idle \in RunningType /\ Idle.q \in {p, NoQueue}
         /\ Idle.q = NoQueue => Idle.st = "loop"
         /\ accepted' \in [ProcessQueues -> SUBSET Messages]
         /\ freed' \in [ProcessQueues -> SUBSET Messages]
         /\ store' \in [Clients -> Offsets \cup {NoOffset}]
         /\ pq'[p].droped = pq[p].droped
         /\ Idle.q = NoQueue /\ later' = Add(later, p)
         /\ pq'[p].consuming = pq[p].consuming
    BY <1>1, <1>4, <1>5, <1>7, <1>8, IdleType DEF TypeOK
  <1> QED
    BY <1>p, <1>4, <1>7, <1>8, <1>9, <1>10, <1>11, <1>12, <1>13, BatchStep

LEMMA StoreOffsetPreserves ==
    ASSUME OrderInv, NEW c \in Clients, StoreOffset(c)
    PROVE  OrderInv'
  <1>1. TypeOK /\ FirmInv
    BY DEF OrderInv
  <1>2. running[c].q # NoQueue /\ running[c].st = "updating"
    BY DEF StoreOffset
  <1>p. PICK p \in ProcessQueues : running[c].q = p
    BY <1>2, WorkedOn
  <1> DEFINE msgs == running[c].msgs
             x == running[c].offset
  <1>v. PICK v : v = Running(p, "loop", {}, NoOffset)
    OBVIOUS
  <1>3. /\ pq[p] \in Buffers /\ accepted[p] \in SUBSET Messages
        /\ msgs \in SUBSET Messages
        /\ Orderly(pq[p], start[p], nextOffset[p], accepted[p], {})
    BY <1>2, <1>p, WorkedOn
  <1>4. /\ running' = [running EXCEPT ![c] = v]
        /\ freed' = [freed EXCEPT ![p] = freed[p] \cup msgs]
        /\ store' \in {store, [store EXCEPT ![c] = x]}
        /\ UNCHANGED <<queueVars, committed, requestVars, lockVars, accepted>>
    BY <1>p, <1>v DEF StoreOffset, updateOffset
  <1>5. x \in Offsets \cup {NoOffset} /\ Below(Firm, x)
    BY <1>1 DEF TypeOK, RunningType, FirmInv
  <1> HIDE DEF msgs, x
  <1>6. /\ pq' = pq /\ accepted' = accepted /\ later' = later
        /\ UNCHANGED <<owner, pull, nextOffset, table, start, committed, submitted,
                       lockLater, lockVars>>
    BY <1>4 DEF queueVars, requestVars
  <1>7. freed' \in [ProcessQueues -> SUBSET Messages]
    BY <1>1, <1>3, <1>4 DEF TypeOK
  <1>8. /\ store' \in [Clients -> Offsets \cup {NoOffset}]
        /\ \A d \in Clients : Below(Firm, store'[d])
    BY <1>1, <1>4, <1>5 DEF TypeOK, FirmInv
  <1>9. Firm[p] \subseteq Firm'[p]
    BY <1>6 DEF Firm
  <1>10. v \in RunningType /\ v.q = p /\ v.st = "loop" /\ v.offset = NoOffset
    BY <1>v DEF Running, RunningType, LoopStates
  <1>11. Below(Firm', v.offset)
    BY <1>10, BelowNothing
  <1>12. Orderly(pq'[p], start[p], nextOffset[p], accepted'[p],
                 IF v.q = p /\ v.st = "listening" THEN v.msgs ELSE {})
    BY <1>3, <1>6, <1>10
  <1>13. /\ v.q \in {p, NoQueue} /\ (v.q = NoQueue => v.st = "loop")
         /\ pq' \in [ProcessQueues -> Buffers]
         /\ accepted' \in [ProcessQueues -> SUBSET Messages]
         /\ HoldsLock(pq'[p]) => HoldsLock(pq[p])
         /\ pq'[p].droped = pq[p].droped
         /\ \A r \in ProcessQueues : r # p => pq'[r] = pq[r] /\ accepted'[r] = accepted[r]
         /\ v.q = p /\ later' = later /\ pq'[p].consuming = pq[p].consuming
    BY <1>1, <1>6, <1>10, ConstantsAssumption DEF TypeOK, Buffers
  <1> QED
    BY <1>p, <1>4, <1>6, <1>7, <1>8, <1>9, <1>10, <1>11, <1>12, <1>13, BatchStep

-----------------------------------------------------------------------------
(* The theorems.                                                           *)

LEMMA InitOrderly ==
    ASSUME Init
    PROVE  OrderInv
  <1>1. TypeOK
    BY NewFields, IdleType, ConstantsAssumption
       DEF Init, TypeOK, PullStates, Offsets, Buffers, LockCallType, NoCall
  <1>2. OwnerInv
    BY IdleType DEF Init, OwnerInv, NoCall
  <1>3. \A p \in ProcessQueues : owner[p] \notin Clients
    BY ConstantsAssumption DEF Init
  <1>4. RequestInv
    BY <1>3 DEF RequestInv
  <1>5. BufferInv
    <2> SUFFICES ASSUME NEW p \in ProcessQueues
                 PROVE  Orderly(pq[p], start[p], nextOffset[p], accepted[p], Pending(p))
      BY DEF BufferInv
    <2>1. Pending(p) = {}
      BY <1>3 DEF Pending
    <2>2. Cardinality({}) = 0
      BY FS_EmptySet
    <2>3. Orderly(NewProcessQueue, 0, 0, {}, {})
      BY <2>2, NewFields, MessageIsInt DEF Orderly
    <2> QED
      BY <2>1, <2>3 DEF Init
  <1>6. FirmInv
    BY BelowNothing, IdleType DEF Init, FirmInv
  <1>7. LockInv
    BY <1>3 DEF Init, LockInv, NoCall
  <1> QED
    BY <1>1, <1>2, <1>4, <1>5, <1>6, <1>7 DEF OrderInv

LEMMA StutterOrderly ==
    ASSUME OrderInv, UNCHANGED vars
    PROVE  OrderInv'
  <1>1. TypeOK /\ OwnerInv /\ RequestInv /\ BufferInv /\ FirmInv /\ LockInv
    BY DEF OrderInv
  <1>2. UNCHANGED <<queueVars, offsetVars, requestVars, running, lockVars, historyVars>>
    BY DEF vars
  <1>3. TypeOK'
    BY <1>1, <1>2
       DEF TypeOK, queueVars, offsetVars, requestVars, lockVars, historyVars
  <1>4. OwnerInv'
    BY <1>1, <1>2 DEF OwnerInv, queueVars, requestVars, lockVars, historyVars
  <1>5. RequestInv' /\ BufferInv' /\ LockInv'
    BY <1>1, <1>2, SameRequests, SameBuffer, SameLock
       DEF queueVars, requestVars, lockVars, historyVars
  <1>6. FirmInv'
    BY <1>1, <1>2, SameFirm DEF FirmInv, queueVars, offsetVars, historyVars
  <1> QED
    BY <1>3, <1>4, <1>5, <1>6 DEF OrderInv

(* The invariant is inductive: every handler of the orderly service, of    *)
(* the pull cycle, of rebalance and of the queue locks preserves it.       *)
THEOREM OrderInvHolds == Spec => []OrderInv
  <1>1. Init => OrderInv
    BY InitOrderly
  <1>2. OrderInv /\ [Next]_vars => OrderInv'
    <2> SUFFICES ASSUME OrderInv, [Next]_vars PROVE OrderInv'
      OBVIOUS
    <2>1. CASE \E c \in Clients :
                   PersistAll(c) \/ AssignQueue(c) \/ RemoveQueue(c)
      BY <2>1, PersistAllPreserves, AssignQueuePreserves, RemoveQueuePreserves
    <2>2. CASE \E p \in ProcessQueues :
                   PullSend(p) \/ PullFound(p) \/ PullNotFound(p) \/ PullDropped(p)
      BY <2>2, PullSendPreserves, PullFoundPreserves, PullNotFoundPreserves,
         PullDroppedPreserves
    <2>3. CASE \E c \in Clients :
                   \/ LockAll(c) \/ LockAnswer(c)
                   \/ \E p \in ProcessQueues : LockOne(c, p)
      BY <2>3, LockAllPreserves, LockAnswerPreserves, LockOnePreserves
    <2>4. CASE (\E p \in ProcessQueues : LockExpires(p)) \/ BrokerLockExpires
      BY <2>4, LockExpiresPreserves, BrokerLockExpiresPreserves
    <2>5. CASE \E p \in ProcessQueues : SubmitTimeout(p) \/ EnterRequest(p)
      BY <2>5, SubmitTimeoutPreserves, EnterRequestPreserves
    <2>6. CASE \E c \in Clients :
                   LoopDropped(c) \/ LoopUnlocked(c) \/ LoopYields(c) \/ LoopGoesOn(c)
      BY <2>6, LoopEndsPreserves, LoopGoesOnPreserves
    <2>7. CASE \E c \in Clients : TakeMessages(c) \/ StopConsuming(c)
      BY <2>7, TakeMessagesPreserves, StopConsumingPreserves
    <2>8. CASE \E c \in Clients :
                   \/ ListenerCommits(c) \/ ListenerSucceeds(c)
                   \/ ListenerRollsBack(c) \/ ListenerSuspends(c) \/ StoreOffset(c)
      BY <2>8, ListenerCommitsPreserves, ListenerSucceedsPreserves,
         ListenerRollsBackPreserves, ListenerSuspendsPreserves, StoreOffsetPreserves
    <2>9. CASE UNCHANGED vars
      BY <2>9, StutterOrderly
    <2> QED
      BY <2>1, <2>2, <2>3, <2>4, <2>5, <2>6, <2>7, <2>8, <2>9 DEF Next
  <1> QED
    BY <1>1, <1>2, PTL DEF Spec

(* Every variable keeps its type: offsets stay within the broker's queue   *)
(* and no request or timer counter goes below zero.                        *)
THEOREM TypeCorrect == Spec => []TypeOK
  <1>1. OrderInv => TypeOK
    BY DEF OrderInv
  <1> QED
    BY <1>1, OrderInvHolds, PTL

(* m_msgCount is exact: putMessage, takeMessags, commit, rollback and      *)
(* makeMessageToCosumeAgain, interleaved by any number of clients, never   *)
(* lose or repeat a message of the two maps.                               *)
THEOREM CountAlwaysExact == Spec => []CountIsExact
  <1>1. OrderInv => CountIsExact
    BY DEF OrderInv, BufferInv, Orderly, CountIsExact
  <1> QED
    BY <1>1, OrderInvHolds, PTL

(* m_consuming admits one request, timer, running loop or lock call per    *)
(* object: putMessage dispatches only an object that has none, and every   *)
(* path through Do passes its one request on or ends it.                   *)
THEOREM OneRequest == Spec => []OneRequestPerQueue
  <1>1. ASSUME OrderInv, NEW p \in ProcessQueues
        PROVE  Requests(p) <= 1
    <2>1. TypeOK /\ OwnerInv /\ RequestInv
      BY <1>1 DEF OrderInv
    <2> DEFINE H == {c \in Clients : running[c].q = p}
               A == {c \in Clients : lockCall[c].by = p}
    <2>2. p # NoQueue
      BY ConstantsAssumption
    <2>3. \A c \in H \cup A : c = owner[p] /\ c \in Clients
      BY <2>1, <2>2 DEF OwnerInv
    <2>4. Cardinality({}) = 0 /\ \A x : Cardinality({x}) = 1
      BY FS_EmptySet, FS_Singleton
    <2>5. CASE owner[p] = NoClient
      <3>1. H = {} /\ A = {}
        BY <2>3, <2>5, ConstantsAssumption
      <3>2. submitted[p] = 0 /\ later[p] = 0 /\ lockLater[p] = 0
        BY <2>1, <2>5 DEF OwnerInv
      <3>3. Cardinality(H) = 0 /\ Cardinality(A) = 0
        BY <2>4, <3>1
      <3> QED
        BY <3>2, <3>3 DEF Requests
    <2>6. CASE owner[p] \in Clients
      <3>1. Cardinality(H) = Count(running[owner[p]].q = p)
        <4>1. CASE running[owner[p]].q = p
          <5>1. H = {owner[p]}
            BY <2>3, <2>6, <4>1
          <5> QED
            BY <2>4, <4>1, <5>1 DEF Count
        <4>2. CASE running[owner[p]].q # p
          <5>1. H = {}
            BY <2>3, <4>2
          <5> QED
            BY <2>4, <4>2, <5>1 DEF Count
        <4> QED
          BY <4>1, <4>2
      <3>2. Cardinality(A) = Count(lockCall[owner[p]].by = p)
        <4>1. CASE lockCall[owner[p]].by = p
          <5>1. A = {owner[p]}
            BY <2>3, <2>6, <4>1
          <5> QED
            BY <2>4, <4>1, <5>1 DEF Count
        <4>2. CASE lockCall[owner[p]].by # p
          <5>1. A = {}
            BY <2>3, <4>2
          <5> QED
            BY <2>4, <4>2, <5>1 DEF Count
        <4> QED
          BY <4>1, <4>2
      <3> HIDE DEF H, A
      <3>3. Requests(p) = Tokens(p)
        BY <3>1, <3>2 DEF Requests, Tokens, H, A
      <3> QED
        BY <2>1, <2>6, <3>3 DEF RequestInv
    <2> QED
      BY <2>1, <2>5, <2>6 DEF TypeOK
  <1>2. OrderInv => OneRequestPerQueue
    BY <1>1 DEF OneRequestPerQueue
  <1> QED
    BY <1>2, OrderInvHolds, PTL

(* Orderly: when a batch is with the listener, every earlier message of    *)
(* this assignment has been accepted, whatever was committed, rolled back, *)
(* suspended or given up at the loop's checks before.                      *)
THEOREM AlwaysInOrder == Spec => []DeliveredInOrder
  <1>1. OrderInv => DeliveredInOrder
    <2> SUFFICES ASSUME OrderInv, NEW c \in Clients, running[c].st = "listening",
                        NEW o \in running[c].msgs, NEW x \in Messages,
                        start[running[c].q] <= x, x < o
                 PROVE  x \in accepted[running[c].q] \cup running[c].msgs
      BY DEF DeliveredInOrder
    <2>1. running[c].q # NoQueue
      BY DEF OrderInv, OwnerInv
    <2>2. PICK p \in ProcessQueues : running[c].q = p
      BY <2>1, WorkedOn
    <2>3. /\ pq[p] \in Buffers
          /\ Orderly(pq[p], start[p], nextOffset[p], accepted[p], running[c].msgs)
      BY <2>1, <2>2, WorkedOn
    <2>4. o \in pq[p].msgTreeMapTemp
      BY <2>3 DEF Orderly
    <2>5. o \in Int /\ x \in Int /\ nextOffset[p] \in Int
      <3>1. o \in Int
        BY <2>3, <2>4, BufferType
      <3>2. x \in Int
        BY MessageIsInt
      <3>3. nextOffset[p] \in Int
        BY ConstantsAssumption DEF OrderInv, TypeOK, Offsets
      <3> QED
        BY <3>1, <3>2, <3>3
    <2>6. o < nextOffset[p]
      BY <2>3, <2>4 DEF Orderly
    <2>7. x \in pq[p].msgTreeMap \cup pq[p].msgTreeMapTemp \cup accepted[p]
      <3>1. x < nextOffset[p]
        BY <2>5, <2>6
      <3> QED
        BY <2>2, <2>3, <3>1 DEF Orderly
    <2>8. x \notin pq[p].msgTreeMap
      <3>1. x \in pq[p].msgTreeMap => o < x
        BY <2>3, <2>4 DEF Orderly
      <3> QED
        BY <2>5, <3>1
    <2> QED
      BY <2>2, <2>3, <2>7, <2>8 DEF Orderly
  <1> QED
    BY <1>1, OrderInvHolds, PTL

(* The durable offset passes only messages that some assignment's listener *)
(* accepted and did not roll back, although dropped objects still store    *)
(* their results and updateOffset may go backwards.                        *)
THEOREM CommitsAreAccepted == Spec => []CommittedIsAccepted
  <1>1. OrderInv => CommittedIsAccepted
    <2> SUFFICES ASSUME OrderInv, NEW o \in Messages, o < committed
                 PROVE  \E p \in ProcessQueues : o \in accepted[p]
      BY DEF CommittedIsAccepted, Settled
    <2>1. \E p \in ProcessQueues : o \in Firm[p]
      BY DEF OrderInv, FirmInv, Below
    <2> QED
      BY <2>1 DEF Firm
  <1> QED
    BY <1>1, OrderInvHolds, PTL

(* The queue lock is exclusive among clients that never lost the queue,    *)
(* whatever answers are refused, lost or late and whichever lock expires.  *)
THEOREM ExclusiveLock == Spec => []LockIsExclusive
  <1>1. OrderInv => LockIsExclusive
    <2> SUFFICES ASSUME OrderInv, NEW p \in ProcessQueues, NEW q \in ProcessQueues,
                        HoldsLock(pq[p]), HoldsLock(pq[q]), owner[p] # owner[q],
                        \A r \in ProcessQueues :
                            ~(pq[r].droped /\ owner[r] \in {owner[p], owner[q]})
                 PROVE  FALSE
      BY DEF LockIsExclusive
    <2>1. TypeOK /\ OwnerInv /\ LockInv
      BY DEF OrderInv
    <2>2. \A r \in {p, q} : owner[r] \in Clients
      <3>1. pq[p] # NewProcessQueue /\ pq[q] # NewProcessQueue
        BY NewFields DEF HoldsLock
      <3> QED
        BY <2>1, <3>1 DEF OwnerInv, TypeOK
    <2>3. Untouched(owner[p]) /\ Untouched(owner[q])
      BY DEF Untouched
    <2>4. brokerLock = owner[p] /\ brokerLock = owner[q]
      BY <2>1, <2>2, <2>3 DEF LockInv
    <2> QED
      BY <2>4
  <1> QED
    BY <1>1, OrderInvHolds, PTL

-----------------------------------------------------------------------------
(* The refinement of AtLeastOnce.                                          *)

(* A step that accepts nothing, takes nothing and rolls nothing back.      *)
FirmStays ==
    /\ accepted' = accepted
    /\ \A p \in ProcessQueues : pq'[p].msgTreeMapTemp = pq[p].msgTreeMapTemp

LEMMA SameBuffersStay ==
    ASSUME UNCHANGED <<pq, accepted>>
    PROVE  FirmStays
  BY DEF FirmStays

LEMMA OneBufferStays ==
    ASSUME TypeOK, NEW p \in ProcessQueues, NEW q,
           pq' = [pq EXCEPT ![p] = q], accepted' = accepted,
           q.msgTreeMapTemp = pq[p].msgTreeMapTemp
    PROVE  FirmStays
  BY DEF FirmStays, TypeOK

LEMMA RebalanceStays ==
    ASSUME OrderInv, NEW c \in Clients,
           PersistAll(c) \/ AssignQueue(c) \/ RemoveQueue(c)
    PROVE  FirmStays
  <1>1. TypeOK
    BY DEF OrderInv
  <1>2. CASE PersistAll(c) \/ AssignQueue(c)
    BY <1>2, SameBuffersStay DEF PersistAll, AssignQueue, queueVars, historyVars
  <1>3. CASE RemoveQueue(c)
    <2>1. table[c] \in ProcessQueues
      BY <1>1, <1>3 DEF TypeOK, RemoveQueue
    <2>2. /\ pq' = [pq EXCEPT ![table[c]] = setDroped(pq[table[c]])]
          /\ accepted' = accepted
      BY <1>3 DEF RemoveQueue, historyVars
    <2>3. setDroped(pq[table[c]]).msgTreeMapTemp = pq[table[c]].msgTreeMapTemp
      BY <1>1, <2>1 DEF TypeOK, setDroped, ProcessQueueType
    <2> QED
      BY <1>1, <2>1, <2>2, <2>3, OneBufferStays
  <1> QED
    BY <1>2, <1>3

LEMMA PullStays ==
    ASSUME OrderInv, NEW p \in ProcessQueues,
           PullSend(p) \/ PullFound(p) \/ PullNotFound(p) \/ PullDropped(p)
    PROVE  FirmStays
  <1>1. TypeOK
    BY DEF OrderInv
  <1>2. CASE PullSend(p) \/ PullNotFound(p) \/ PullDropped(p)
    BY <1>2, SameBuffersStay DEF PullSend, PullNotFound, PullDropped, historyVars
  <1>3. CASE PullFound(p)
    <2>1. PICK found : pq' = [pq EXCEPT ![p] = putMessage(pq[p], found)]
      BY <1>3 DEF PullFound
    <2>2. accepted' = accepted
      BY <1>3 DEF PullFound, historyVars
    <2>3. putMessage(pq[p], found).msgTreeMapTemp = pq[p].msgTreeMapTemp
      BY <1>1 DEF TypeOK, putMessage, ProcessQueueType
    <2> QED
      BY <1>1, <2>1, <2>2, <2>3, OneBufferStays
  <1> QED
    BY <1>2, <1>3

LEMMA LockStays ==
    ASSUME OrderInv,
           \/ \E c \in Clients : \/ LockAll(c) \/ LockAnswer(c)
                                 \/ \E p \in ProcessQueues : LockOne(c, p)
           \/ (\E p \in ProcessQueues : LockExpires(p)) \/ BrokerLockExpires
    PROVE  FirmStays
  <1>1. TypeOK
    BY DEF OrderInv
  <1>2. CASE \/ \E c \in Clients : LockAll(c) \/ \E p \in ProcessQueues : LockOne(c, p)
             \/ BrokerLockExpires
    <2>1. UNCHANGED <<pq, accepted>>
      BY <1>2 DEF LockAll, LockOne, BrokerLockExpires, queueVars, historyVars
    <2> QED
      BY <2>1, SameBuffersStay
  <1>3. ASSUME NEW c \in Clients, LockAnswer(c) PROVE FirmStays
    <2>1. PICK call : call = lockCall[c]
      OBVIOUS
    <2>2. accepted' = accepted
      BY <1>3 DEF LockAnswer, historyVars
    <2>3. CASE table[c] = NoQueue
      BY <1>3, <2>2, <2>3, SameBuffersStay DEF LockAnswer
    <2>4. CASE table[c] # NoQueue
      <3>1. table[c] \in ProcessQueues
        BY <1>1, <2>4 DEF TypeOK
      <3>2. pq' = [pq EXCEPT ![table[c]] = applyAnswer(call, pq[table[c]])]
        BY <1>3, <2>1, <2>4 DEF LockAnswer
      <3>3. applyAnswer(call, pq[table[c]]).msgTreeMapTemp = pq[table[c]].msgTreeMapTemp
        BY <1>1, <3>1 DEF TypeOK, applyAnswer, setLocked, ProcessQueueType
      <3> QED
        BY <1>1, <2>2, <3>1, <3>2, <3>3, OneBufferStays
    <2> QED
      BY <2>3, <2>4
  <1>4. ASSUME NEW p \in ProcessQueues, LockExpires(p) PROVE FirmStays
    <2>1. accepted' = accepted /\ pq' = [pq EXCEPT ![p] = [pq[p] EXCEPT !.lockExpired = TRUE]]
      BY <1>4 DEF LockExpires, historyVars
    <2>2. [pq[p] EXCEPT !.lockExpired = TRUE].msgTreeMapTemp = pq[p].msgTreeMapTemp
      BY <1>1 DEF TypeOK, ProcessQueueType
    <2> QED
      BY <1>1, <2>1, <2>2, OneBufferStays
  <1> QED
    BY <1>2, <1>3, <1>4

LEMMA RequestStays ==
    ASSUME OrderInv,
           \/ \E p \in ProcessQueues : SubmitTimeout(p) \/ EnterRequest(p)
           \/ \E c \in Clients : \/ LoopDropped(c) \/ LoopUnlocked(c)
                                 \/ LoopYields(c) \/ LoopGoesOn(c) \/ StoreOffset(c)
           \/ UNCHANGED vars
    PROVE  FirmStays
  <1>1. UNCHANGED <<pq, accepted>>
    BY DEF SubmitTimeout, EnterRequest, LoopDropped, LoopUnlocked, LoopYields,
           LoopGoesOn, StoreOffset, vars, queueVars, historyVars
  <1> QED
    BY <1>1, SameBuffersStay

LEMMA StopStays ==
    ASSUME OrderInv, NEW c \in Clients, StopConsuming(c)
    PROVE  FirmStays
  <1>1. TypeOK
    BY DEF OrderInv
  <1>2. PICK p \in ProcessQueues : running[c].q = p
    BY WorkedOn DEF StopConsuming
  <1>3. pq' = [pq EXCEPT ![p] = stopConsuming(pq[p])] /\ accepted' = accepted
    BY <1>2 DEF StopConsuming, historyVars
  <1>4. stopConsuming(pq[p]).msgTreeMapTemp = pq[p].msgTreeMapTemp
    BY <1>1 DEF TypeOK, stopConsuming, ProcessQueueType
  <1> QED
    BY <1>1, <1>3, <1>4, OneBufferStays

(* The batch of a take was not accepted before, and a rollback takes back  *)
(* what was not accepted for good.                                         *)
LEMMA BatchGrows ==
    ASSUME OrderInv, NEW c \in Clients,
           \/ TakeMessages(c) \/ ListenerCommits(c) \/ ListenerSucceeds(c)
           \/ ListenerRollsBack(c) \/ ListenerSuspends(c)
    PROVE  /\ \A p \in ProcessQueues : Firm[p] \subseteq Firm'[p]
           /\ UNCHANGED committed
  <1>1. TypeOK
    BY DEF OrderInv
  <1>2. running[c].q # NoQueue /\ running[c].st \in {"taking", "listening"}
    BY DEF TakeMessages, ListenerCommits, ListenerSucceeds, ListenerRollsBack,
           ListenerSuspends
  <1>p. PICK p \in ProcessQueues : running[c].q = p
    BY <1>2, WorkedOn
  <1> DEFINE old == pq[p]
             msgs == running[c].msgs
  <1>3. UNCHANGED committed
    BY DEF TakeMessages, ListenerCommits, ListenerSucceeds, ListenerRollsBack,
           ListenerSuspends, offsetVars
  <1>4. /\ old \in Buffers /\ msgs \in SUBSET Messages
        /\ Orderly(old, start[p], nextOffset[p], accepted[p],
                   IF running[c].st = "listening" THEN msgs ELSE {})
    BY <1>2, <1>p, WorkedOn
  <1>5. ASSUME NEW q, NEW A,
               pq' = [pq EXCEPT ![p] = q], accepted' = [accepted EXCEPT ![p] = A],
               accepted[p] \ old.msgTreeMapTemp \subseteq A \ q.msgTreeMapTemp
        PROVE  \A r \in ProcessQueues : Firm[r] \subseteq Firm'[r]
    BY <1>1, <1>5 DEF TypeOK, Firm
  <1>6. accepted[p] = accepted[p] /\ accepted = [accepted EXCEPT ![p] = accepted[p]]
        /\ pq = [pq EXCEPT ![p] = pq[p]]
    BY <1>1 DEF TypeOK
  <1>7. CASE TakeMessages(c)
    <2>1. /\ pq' = [pq EXCEPT ![p] = takeMessags(old, BatchSize)]
          /\ accepted' = accepted
      BY <1>p, <1>7 DEF TakeMessages, historyVars
    <2>2. /\ takeBatch(old, BatchSize) \in SUBSET old.msgTreeMap
          /\ takeMessags(old, BatchSize).msgTreeMapTemp
                = old.msgTreeMapTemp \cup takeBatch(old, BatchSize)
      BY <1>4, TakeFields
    <2>3. old.msgTreeMap \cap accepted[p] = {}
      BY <1>4 DEF Orderly
    <2> QED
      BY <1>3, <1>5, <1>6, <2>1, <2>2, <2>3
  <1>8. CASE ListenerCommits(c)
    <2>1. /\ pq' = [pq EXCEPT ![p] = commit(old)]
          /\ accepted' = [accepted EXCEPT ![p] = accepted[p] \cup msgs]
      BY <1>p, <1>8 DEF ListenerCommits
    <2>2. commit(old).msgTreeMapTemp = {}
      BY <1>4, CommitFields
    <2> QED
      BY <1>3, <1>5, <2>1, <2>2
  <1>9. CASE ListenerSucceeds(c)
    <2>1. /\ pq' = [pq EXCEPT ![p] = old]
          /\ accepted' = [accepted EXCEPT ![p] = accepted[p] \cup msgs]
      BY <1>p, <1>6, <1>9 DEF ListenerSucceeds, queueVars
    <2> QED
      BY <1>3, <1>5, <2>1
  <1>10. CASE ListenerRollsBack(c)
    <2>1. /\ pq' = [pq EXCEPT ![p] = rollback(old)]
          /\ accepted' = [accepted EXCEPT ![p] = accepted[p] \ old.msgTreeMapTemp]
      BY <1>p, <1>10 DEF ListenerRollsBack
    <2>2. rollback(old).msgTreeMapTemp = {}
      BY <1>4 DEF rollback, Buffers, ProcessQueueType
    <2> QED
      BY <1>3, <1>5, <2>1, <2>2
  <1>11. CASE ListenerSuspends(c)
    <2>1. /\ pq' = [pq EXCEPT ![p] = makeMessageToCosumeAgain(old, msgs)]
          /\ accepted' = accepted
      BY <1>p, <1>11 DEF ListenerSuspends, historyVars
    <2>2. makeMessageToCosumeAgain(old, msgs).msgTreeMapTemp = old.msgTreeMapTemp \ msgs
      BY <1>4 DEF makeMessageToCosumeAgain, Buffers, ProcessQueueType
    <2> QED
      BY <1>3, <1>5, <1>6, <2>1, <2>2
  <1> QED
    BY <1>7, <1>8, <1>9, <1>10, <1>11

(* The durable offset moves, if at all, to where nothing is left behind.   *)
LEMMA CommitStep ==
    ASSUME OrderInv, OrderInv', FirmStays
    PROVE  AO!Next
  <1>1. Firm' = Firm
    BY SameFirm DEF FirmStays, OrderInv
  <1>2. committed' \in Offsets \cup {NoOffset}
    BY DEF OrderInv, TypeOK
  <1>3. \A o \in Messages : o < committed' => \E p \in ProcessQueues : o \in Firm[p]
    BY <1>1 DEF OrderInv, FirmInv, Below
  <1>4. \A o \in Messages : 0 <= o /\ o < committed' =>
            o \in UNION {Firm[p] : p \in ProcessQueues}
    BY <1>3
  <1> QED
    BY <1>1, <1>2, <1>4 DEF AO!Next, AO!Commit

(* Messages are accepted for good, and the offset stays.                   *)
LEMMA SettleStep ==
    ASSUME OrderInv', \A p \in ProcessQueues : Firm[p] \subseteq Firm'[p],
           UNCHANGED committed
    PROVE  AO!Next
  <1> DEFINE S == UNION {Firm[p] : p \in ProcessQueues}
             T == UNION {Firm'[p] : p \in ProcessQueues}
  <1>1. T \in SUBSET Messages
    BY DEF OrderInv, TypeOK, Firm
  <1>2. T = S \cup T
    OBVIOUS
  <1>3. (UNION {Firm[p] : p \in ProcessQueues})' = T
    OBVIOUS
  <1> QED
    BY <1>1, <1>2, <1>3 DEF AO!Next, AO!Settle

(* Orderly consumers keep the promise of a group: every step of rebalance, *)
(* pulls, locks, pool threads and listeners either accepts messages for    *)
(* good or leaves the durable offset where nothing is left behind, for any *)
(* number of clients, assignments and messages.                            *)
THEOREM Refinement == Spec => ImplementsAtLeastOnce
  <1>1. Init => AO!Init
    <2> SUFFICES ASSUME Init PROVE AO!Init
      OBVIOUS
    <2>1. \A p \in ProcessQueues : Firm[p] = {}
      BY DEF Init, Firm
    <2>2. UNION {Firm[p] : p \in ProcessQueues} = {}
      BY <2>1
    <2>3. /\ committed \in Offsets \cup {NoOffset}
          /\ \A o \in Messages : o >= committed
      BY ConstantsAssumption DEF Init, Messages, Offsets, NoOffset
    <2> QED
      BY <2>2, <2>3 DEF AO!Init
  <1>2. OrderInv /\ OrderInv' /\ [Next]_vars => [AO!Next]_AO!vars
    <2> SUFFICES ASSUME OrderInv, OrderInv', [Next]_vars PROVE AO!Next
      OBVIOUS
    <2>1. CASE \E c \in Clients :
                   PersistAll(c) \/ AssignQueue(c) \/ RemoveQueue(c)
      BY <2>1, RebalanceStays, CommitStep
    <2>2. CASE \E p \in ProcessQueues :
                   PullSend(p) \/ PullFound(p) \/ PullNotFound(p) \/ PullDropped(p)
      BY <2>2, PullStays, CommitStep
    <2>3. CASE \/ \E c \in Clients : \/ LockAll(c) \/ LockAnswer(c)
                                     \/ \E p \in ProcessQueues : LockOne(c, p)
               \/ (\E p \in ProcessQueues : LockExpires(p)) \/ BrokerLockExpires
      BY <2>3, LockStays, CommitStep
    <2>4. CASE \/ \E p \in ProcessQueues : SubmitTimeout(p) \/ EnterRequest(p)
               \/ \E c \in Clients : \/ LoopDropped(c) \/ LoopUnlocked(c)
                                     \/ LoopYields(c) \/ LoopGoesOn(c) \/ StoreOffset(c)
               \/ UNCHANGED vars
      BY <2>4, RequestStays, CommitStep
    <2>5. CASE \E c \in Clients : StopConsuming(c)
      BY <2>5, StopStays, CommitStep
    <2>6. CASE \E c \in Clients :
                   \/ TakeMessages(c) \/ ListenerCommits(c) \/ ListenerSucceeds(c)
                   \/ ListenerRollsBack(c) \/ ListenerSuspends(c)
      BY <2>6, BatchGrows, SettleStep
    <2> QED
      BY <2>1, <2>2, <2>3, <2>4, <2>5, <2>6 DEF Next
  <1> QED
    BY <1>1, <1>2, OrderInvHolds, PTL DEF Spec, ImplementsAtLeastOnce, AO!Spec
=============================================================================
