----------------------------- MODULE RemoteCall -----------------------------
(***************************************************************************)
(* What the remoting client promises of a call: the application learns     *)
(* once and for good how it ended, and that it was answered only if a      *)
(* reply has come; a reply that comes too late changes nothing.            *)
(***************************************************************************)
CONSTANT Calls

VARIABLES
    outcome,   \* how a call ended, if it has
    replied    \* the calls whose reply the client has

vars == <<outcome, replied>>

Init ==
    /\ outcome = [k \in Calls |-> "new"]
    /\ replied = {}

Ends(k, how) ==
    /\ outcome' = [outcome EXCEPT ![k] = how]
    /\ UNCHANGED replied

(* There is no connection, or nobody wants an answer.                      *)
Dismiss(k) == outcome[k] = "new" /\ Ends(k, "dismissed")

Open(k) == outcome[k] = "new" /\ Ends(k, "open")

Answer(k) == outcome[k] = "open" /\ k \in replied /\ Ends(k, "answered")

(* It was not sent, or has expired.                                        *)
GiveUp(k) == outcome[k] = "open" /\ Ends(k, "unanswered")

Reply(k) ==
    /\ outcome[k] # "new"
    /\ replied' = replied \cup {k}
    /\ UNCHANGED outcome

(* A reply that nobody waits for any more is dropped.                      *)
Drop(k) ==
    /\ outcome[k] # "answered"
    /\ replied' = replied \ {k}
    /\ UNCHANGED outcome

Next == \E k \in Calls :
    Dismiss(k) \/ Open(k) \/ Answer(k) \/ GiveUp(k) \/ Reply(k) \/ Drop(k)

Spec == Init /\ [][Next]_vars
=============================================================================
