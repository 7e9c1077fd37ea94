---------------------------- MODULE ProcessQueue ----------------------------
(***************************************************************************)
(* The per-queue buffer of the push consumer (consumer/ProcessQueue.cpp):  *)
(* the messages pulled from one message queue and not yet consumed.  Every *)
(* method runs under m_lockTreeMap, so it is an operator from one value of *)
(* the object to the next; takeMessags, whose last assignment is made      *)
(* after the unlock, is two operators.  A message is its queue offset, the *)
(* key the code's maps are ordered by.                                     *)
(***************************************************************************)
EXTENDS Integers, FiniteSets

(* The object's fields; m_lastLockTimestamp is abstracted to its only use, *)
(* the answer of isLockExpired.                                            *)
ProcessQueueType(Offsets) ==
    [ msgTreeMap     : SUBSET Offsets,   \* pulled, not handed out
      msgTreeMapTemp : SUBSET Offsets,   \* orderly: handed out, uncommitted
      queueOffsetMax : Int,
      msgCount       : Int,
      droped         : BOOLEAN,
      locked         : BOOLEAN,
      lockExpired    : BOOLEAN,
      consuming      : BOOLEAN ]

NewProcessQueue ==
    [ msgTreeMap |-> {}, msgTreeMapTemp |-> {}, queueOffsetMax |-> 0,
      msgCount |-> 0, droped |-> FALSE, locked |-> FALSE,
      lockExpired |-> FALSE, consuming |-> FALSE ]

First(S) == CHOOSE x \in S : \A y \in S : x <= y

Last(S) == CHOOSE x \in S : \A y \in S : y <= x

-----------------------------------------------------------------------------
(* Mutation: every pull that brings messages dispatches the queue.         *)
dispathToConsume_Always(q, msgs) == q.msgTreeMap \cup msgs # {}

(* putMessage's return value: must the caller hand the queue to the pool?  *)
dispathToConsume(q, msgs) ==
    /\ q.msgTreeMap \cup msgs # {}
    /\ ~q.consuming

putMessage(q, msgs) ==
    [q EXCEPT !.msgTreeMap = @ \cup msgs,
              !.queueOffsetMax = IF msgs = {} THEN @ ELSE Last(msgs),
              !.msgCount = @ + Cardinality(msgs),
              !.consuming = @ \/ q.msgTreeMap \cup msgs # {}]

getMaxSpan(q) ==
    IF q.msgTreeMap = {} THEN 0 ELSE Last(q.msgTreeMap) - First(q.msgTreeMap)

(* The object after removeMessage: an empty map is left alone, count too.  *)
removeMessage(q, msgs) ==
    IF q.msgTreeMap = {}
    THEN q
    ELSE [q EXCEPT !.msgTreeMap = @ \ msgs,
                   !.msgCount = @ - Cardinality(msgs)]

(* Mutation: as if the list removed were always the whole buffer.          *)
removeMessageResult_IgnoresRest(q, msgs) ==
    IF q.msgTreeMap = {} THEN -1 ELSE q.queueOffsetMax + 1

(* Mutation: one past the offset after the last message.                   *)
removeMessageResult_OffByOne(q, msgs) ==
    IF q.msgTreeMap = {} \/ q.msgTreeMap \ msgs # {} THEN -1
    ELSE q.queueOffsetMax + 2

(* removeMessage's return value: the offset the queue may be committed at, *)
(* -1 when there is nothing new to commit.                                 *)
removeMessageResult(q, msgs) ==
    LET left == q.msgTreeMap \ msgs
    IN  IF q.msgTreeMap = {} THEN -1
        ELSE IF left = {} THEN q.queueOffsetMax + 1
        ELSE IF First(left) # First(q.msgTreeMap) THEN First(left)
        ELSE -1

setDroped(q) == [q EXCEPT !.droped = TRUE]

-----------------------------------------------------------------------------
(* Orderly consumption.                                                    *)

(* Mutation: the newest messages first.                                    *)
takeBatch_Newest(q, batchSize) ==
    {o \in q.msgTreeMap :
        Cardinality({x \in q.msgTreeMap : x > o}) < batchSize}

(* The batch takeMessags hands out: the batchSize smallest offsets.        *)
takeBatch(q, batchSize) ==
    {o \in q.msgTreeMap :
        Cardinality({x \in q.msgTreeMap : x < o}) < batchSize}

takeMessags(q, batchSize) ==
    LET batch == takeBatch(q, batchSize)
    IN  [q EXCEPT !.msgTreeMap = @ \ batch,
                  !.msgTreeMapTemp = @ \cup batch]

(* The end of takeMessags, outside the lock, when nothing was taken.       *)
stopConsuming(q) == [q EXCEPT !.consuming = FALSE]

(* Mutation: the uncommitted messages are not cleared.                     *)
rollback_KeepsTemp(q) ==
    [q EXCEPT !.msgTreeMap = @ \cup q.msgTreeMapTemp]

rollback(q) ==
    [q EXCEPT !.msgTreeMap = @ \cup q.msgTreeMapTemp,
              !.msgTreeMapTemp = {}]

(* Mutation: one message is counted whatever is uncommitted.               *)
commit_CountsOne(q) ==
    [q EXCEPT !.msgCount = IF q.msgTreeMapTemp = {} THEN @ ELSE @ - 1,
              !.msgTreeMapTemp = {}]

commit(q) ==
    [q EXCEPT !.msgCount = @ - Cardinality(q.msgTreeMapTemp),
              !.msgTreeMapTemp = {}]

(* Mutation: one past the offset after the last message.                   *)
commitResult_OffByOne(q) ==
    IF q.msgTreeMapTemp = {} THEN -1 ELSE Last(q.msgTreeMapTemp) + 2

commitResult(q) ==
    IF q.msgTreeMapTemp = {} THEN -1 ELSE Last(q.msgTreeMapTemp) + 1

makeMessageToCosumeAgain(q, msgs) ==
    [q EXCEPT !.msgTreeMapTemp = @ \ msgs,
              !.msgTreeMap = @ \cup msgs]

setLocked(q, locked) == [q EXCEPT !.locked = locked]
=============================================================================
