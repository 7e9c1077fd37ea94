--------------------------- MODULE MCClientFactory ---------------------------
(* ClientFactory for TLC.                                                  *)
EXTENDS ClientFactory

OneGroup == <<"g1">>
TwoGroups == <<"g1", "g2">>

(* The topic stays, moves to another broker, loses a broker.               *)
Staying == <<{"b1"}>>
Moving == <<{"b1"}, {"b2"}>>
Leaving == <<{"b1", "b2"}, {"b1"}>>
=============================================================================
