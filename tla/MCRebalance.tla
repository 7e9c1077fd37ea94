---------------------------- MODULE MCRebalance ----------------------------
(* Rebalance for TLC.                                                      *)
EXTENDS Rebalance

OneTopic == <<"t1">>

(* All queues are on one broker.                                           *)
ThreeQueues == [n \in 0 .. 2 |-> "b1"]

Route(queues, address) ==
    [ queues |-> [t \in Topics |-> queues], addr |-> [b \in Brokers |-> address] ]

(* The topic gets a queue and the broker another master.                   *)
Changing == << Route({0, 1}, "a1"), Route({0, 1, 2}, "a2") >>
=============================================================================
