---------------------------- MODULE AtLeastOnce ----------------------------
(***************************************************************************)
(* What a consumer group promises for one message queue: the durable       *)
(* offset, from which any member starts, may go back (messages are then    *)
(* delivered again) but never stands beyond a message that the broker      *)
(* still has and that nobody has dealt with, unless the broker itself has  *)
(* moved it there.                                                         *)
(***************************************************************************)
EXTENDS Integers

CONSTANTS
    Messages,   \* the offsets that have a message for the group
    Positions   \* the values of the durable offset

VARIABLES
    committed,  \* the durable offset
    settled,    \* the messages that have been dealt with
    overruled,  \* the messages the broker made the group pass over
    expired     \* the broker has deleted the messages below it

vars == <<committed, settled, overruled, expired>>

Init ==
    /\ committed \in Positions
    /\ \A o \in Messages : o >= committed
    /\ settled = {}
    /\ overruled = {}
    /\ expired = 0

(* Messages are dealt with, by any member and in any order.                *)
Settle ==
    /\ \E S \in SUBSET Messages : settled' = settled \cup S
    /\ UNCHANGED <<committed, overruled, expired>>

(* The offset is moved to where nothing is left behind.                    *)
Commit ==
    /\ \E x \in Positions :
        /\ \A o \in Messages : expired <= o /\ o < x => o \in settled \cup overruled
        /\ committed' = x
    /\ UNCHANGED <<settled, overruled, expired>>

(* The broker does not know the group's offset and names another one; the  *)
(* update may be lost on its way back.                                     *)
Overrule ==
    /\ \E x \in Positions :
        /\ overruled' = overruled \cup
               {o \in Messages \ settled : expired <= o /\ o < x}
        /\ committed' \in {committed, x}
    /\ UNCHANGED <<settled, expired>>

Expire ==
    /\ expired' = expired + 1
    /\ UNCHANGED <<committed, settled, overruled>>

Next == Settle \/ Commit \/ Overrule \/ Expire

Spec == Init /\ [][Next]_vars
=============================================================================
