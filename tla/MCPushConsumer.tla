--------------------------- MODULE MCPushConsumer ---------------------------
(* PushConsumer for TLC: objects are interchangeable, and so are clients.  *)
EXTENDS PushConsumer, TLC

Symmetry == Permutations(ProcessQueues) \cup Permutations(Clients)
=============================================================================
