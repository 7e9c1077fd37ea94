----------------------------- MODULE MCProducer -----------------------------
(* Producer for TLC: one sender makes any call, the other one sends a      *)
(* small message.                                                          *)
EXTENDS Producer, TLC

CONSTANTS s1, s2
AnyMode == (s1 :> AllModes) @@ (s2 :> {"sync"})
AnySize == (s1 :> {"big"}) @@ (s2 :> {"small"})

Q(b, i) == [broker |-> b, id |-> i]

Route(queues, writeable, brokers, masters, order) ==
    [ queues |-> queues, writeable |-> writeable, brokers |-> brokers,
      masters |-> masters, order |-> order ]

(* The topic does not exist; is made on two brokers; loses the master of   *)
(* one of them.                                                            *)
Changing ==
    << Route(<<>>, {}, {}, {}, FALSE),
       Route(<<Q("b1", 0), Q("b2", 0)>>, {"b1", "b2"}, {"b1", "b2"}, {"b1", "b2"}, FALSE),
       Route(<<Q("b1", 0), Q("b2", 0)>>, {"b1", "b2"}, {"b1", "b2"}, {"b1"}, FALSE) >>

Default == Route(<<Q("b2", 0)>>, {"b2"}, {"b2"}, {"b2"}, FALSE)
=============================================================================
