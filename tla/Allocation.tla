------------------------------ MODULE Allocation ------------------------------
(***************************************************************************)
(* AllocateMessageQueueAveragely::allocate: which queues of a topic a      *)
(* client of a group gets, from the sorted list of the queues and the      *)
(* sorted list of the group's clients.  A client's share is a slice of the *)
(* queues; the slice is computed on positions, counted from 0.             *)
(***************************************************************************)
EXTENDS Integers, FiniteSets

(* Mutation: nobody gets one of the remaining queues.                      *)
AverageSize_Floor(index, n, k) == IF n <= k THEN 1 ELSE n \div k

(* averageSize and startIndex of client index, of k, for n queues.         *)
AverageSize(index, n, k) ==
    IF n <= k THEN 1
    ELSE IF n % k > 0 /\ index < n % k THEN n \div k + 1 ELSE n \div k

(* Mutation: the remainder is not skipped by the clients that follow.      *)
StartIndex_NoSkip(index, n, k) == index * AverageSize(index, n, k)

StartIndex(index, n, k) ==
    IF n % k > 0 /\ index < n % k
    THEN index * AverageSize(index, n, k)
    ELSE index * AverageSize(index, n, k) + (n % k)

SliceSize(index, n, k) ==
    IF AverageSize(index, n, k) <= n - StartIndex(index, n, k)
    THEN AverageSize(index, n, k) ELSE n - StartIndex(index, n, k)

Slice(index, n, k) ==
    {(StartIndex(index, n, k) + i) % n : i \in 0 .. SliceSize(index, n, k) - 1}

(* The position of x among the elements of S, which are integers.          *)
Position(S, x) == Cardinality({y \in S : y < x})

(* The share of client cid.  A client that is not in the list gets NULL,   *)
(* which rebalanceByTopic takes for no queue.                              *)
Allocate(cid, mqAll, cidAll) ==
    IF cid \notin cidAll THEN {}
    ELSE {q \in mqAll : Position(mqAll, q) \in
            Slice(Position(cidAll, cid), Cardinality(mqAll), Cardinality(cidAll))}
=============================================================================
