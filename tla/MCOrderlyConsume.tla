-------------------------- MODULE MCOrderlyConsume --------------------------
(* OrderlyConsume for TLC: objects are interchangeable, and so are clients.*)
EXTENDS OrderlyConsume, TLC

Symmetry == Permutations(ProcessQueues) \cup Permutations(Clients)
=============================================================================
