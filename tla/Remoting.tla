------------------------------ MODULE Remoting ------------------------------
(***************************************************************************)
(* The remoting client (transport/TcpRemotingClient.cpp): synchronous,     *)
(* asynchronous and oneway calls over one server's transport, and the life *)
(* of a call's ResponseFuture between the caller, the pool thread that     *)
(* handles the response (ProcessData) and the event thread that expires    *)
(* futures (HandleTimerEvent).                                             *)
(*                                                                         *)
(* The caller and the pool thread use a future outside m_mutexResp, so the *)
(* other threads may run while they do: a future expires during the send,  *)
(* is answered before setSendRequestOK, or its wait times out inside       *)
(* putResponse.  Freed memory keeps what the destructor left in it.        *)
(*                                                                         *)
(* The event thread selects on m_rset.  A transport that is taken from the *)
(* table is deleted and its socket closed; while m_rset names a closed     *)
(* socket select fails with EBADF, and Run skips both HandleSocketEvent    *)
(* and HandleTimerEvent.                                                   *)
(***************************************************************************)
EXTENDS Integers, FiniteSets

CONSTANTS
    Calls,          \* each made once; its opaque is unique
    MaxTransports   \* bound on the connections made

NoTransport == 0

Transports == 1 .. MaxTransports

ASSUME ConstantsAssumption == MaxTransports \in Nat

VARIABLES
    transport,      \* m_tcpTransportTable's entry for the server
    connected,      \* transports in CLIENT_STATE_CONNECTED
    rset,           \* m_rset: the transports whose sockets it holds
    lastTransport,  \* history: the transports made so far
    kind,           \* the call's kind
    pc,             \* where the call's thread is
    tts,            \* the transport it uses
    responseTable,  \* m_responseTable: the calls in it
    mem,            \* the calls' ResponseFuture objects
    response,       \* is m_pResponseCommand set?
    notify,         \* m_notifyFlag
    net,            \* the call's request or response on the connection
    worker,         \* the pool thread that has the call's response
    callbacks,      \* history: operationComplete calls
    misuse          \* history: where a deleted future was used

transportVars == <<transport, connected, rset, lastTransport>>
callVars == <<kind, tts>>
futureVars == <<mem, response, notify>>
historyVars == <<callbacks, misuse>>
vars == <<transportVars, callVars, pc, responseTable, futureVars, net, worker,
          historyVars>>

Kinds == {"sync", "async", "oneway"}

(* A caller has its transport, is in SendCmd, has sent or failed to send,  *)
(* waits for a response, or has returned.                                  *)
CallStates == {"idle", "connected", "sending", "sent", "failed", "waiting",
               "returned"}

(* The steps that use a future outside the lock.                           *)
Steps == {"setSendRequestOK", "syncFailed", "asyncFailed", "waitResponse",
          "putResponse", "notify", "executeInvokeCallback"}

TypeOK ==
    /\ transport \in Transports \cup {NoTransport}
    /\ connected \subseteq Transports
    /\ rset \subseteq Transports
    /\ lastTransport \in 0 .. MaxTransports
    /\ kind \in [Calls -> Kinds]
    /\ pc \in [Calls -> CallStates]
    /\ tts \in [Calls -> Transports \cup {NoTransport}]
    /\ responseTable \subseteq Calls
    /\ mem \in [Calls -> {"none", "live", "deleted"}]
    /\ response \in [Calls -> BOOLEAN]
    /\ notify \in [Calls -> BOOLEAN]
    /\ net \in [Calls -> {"none", "request", "response"}]
    /\ worker \in [Calls -> {"none", "found", "put"}]
    /\ callbacks \in [Calls -> 0 .. 2]
    /\ misuse \subseteq Calls \X Steps

Init ==
    /\ transport = NoTransport
    /\ connected = {}
    /\ rset = {}
    /\ lastTransport = 0
    /\ kind \in [Calls -> Kinds]
    /\ pc = [k \in Calls |-> "idle"]
    /\ tts = [k \in Calls |-> NoTransport]
    /\ responseTable = {}
    /\ mem = [k \in Calls |-> "none"]
    /\ response = [k \in Calls |-> FALSE]
    /\ notify = [k \in Calls |-> FALSE]
    /\ net = [k \in Calls |-> "none"]
    /\ worker = [k \in Calls |-> "none"]
    /\ callbacks = [k \in Calls |-> 0]
    /\ misuse = {}

Goes(k, st) == pc' = [pc EXCEPT ![k] = st]

New(k) ==
    /\ mem' = [mem EXCEPT ![k] = "live"]
    /\ response' = [response EXCEPT ![k] = FALSE]
    /\ notify' = [notify EXCEPT ![k] = FALSE]

Delete(k) == mem' = [mem EXCEPT ![k] = "deleted"]

(* Records that a step uses the future; deleted futures must not be.       *)
Use(k, step) ==
    misuse' = IF mem[k] = "deleted" THEN misuse \cup {<<k, step>>} ELSE misuse

-----------------------------------------------------------------------------
(* Transports.                                                             *)

(* m_rset names the socket of a transport that was deleted.                *)
BadSet == \E t \in rset : t # transport

(* GetAndCreateTransport, under m_mutex: t is the table's transport if it  *)
(* is connected.  If not, that one is deleted and t is a new connection in *)
(* its place, with which UpdateEvent builds m_rset anew; or there is none, *)
(* and m_rset stays as it was.                                             *)
GetAndCreateTransport(t) ==
    \/ /\ transport \in connected
       /\ t = transport
       /\ UNCHANGED transportVars
    \/ /\ transport \notin connected
       /\ lastTransport < MaxTransports
       /\ t = lastTransport + 1
       /\ lastTransport' = t
       /\ transport' = t
       /\ connected' = connected \cup {t}
       /\ rset' = {t}
    \/ /\ transport \notin connected
       /\ t = NoTransport
       /\ transport' = NoTransport
       /\ UNCHANGED <<connected, rset, lastTransport>>

(* UpdateEvent: the connected transports of the table.                     *)
UpdateEvent == rset' = {transport} \cap connected'

(* HandleSocketEvent reads the end of the stream or an error: Close, also  *)
(* when a failed send has closed the transport before, then UpdateEvent.   *)
ConnectionLost ==
    /\ transport \in rset
    /\ ~BadSet
    /\ connected' = connected \ {transport}
    /\ UpdateEvent
    /\ UNCHANGED <<transport, lastTransport, callVars, pc, responseTable, futureVars, net,
                   worker, historyVars>>

(* The same for the connection to another server, or a new one to it.      *)
OtherServer ==
    /\ UNCHANGED <<transport, connected, lastTransport>>
    /\ UpdateEvent
    /\ UNCHANGED <<callVars, pc, responseTable, futureVars, net, worker, historyVars>>

(* Another call to this server takes a transport, or its send fails.       *)
OtherCall ==
    /\ \/ \E t \in Transports \cup {NoTransport} : GetAndCreateTransport(t)
       \/ /\ connected' = connected \ {transport}
          /\ UNCHANGED <<transport, rset, lastTransport>>
    /\ UNCHANGED <<callVars, pc, responseTable, futureVars, net, worker, historyVars>>

-----------------------------------------------------------------------------
(* Callers.                                                                *)

(* invoke...: without a transport the call is over.                        *)
TakeTransport(k) ==
    /\ pc[k] = "idle"
    /\ \E t \in Transports \cup {NoTransport} :
        /\ GetAndCreateTransport(t)
        /\ IF t = NoTransport THEN Goes(k, "returned") ELSE Goes(k, "connected")
        /\ tts' = [tts EXCEPT ![k] = t]
    /\ UNCHANGED <<kind, responseTable, futureVars, net, worker, historyVars>>

(* invoke...Impl up to SendCmd: the future is made and put in the table    *)
(* when the transport is still connected.                                  *)
Invoke(k) ==
    /\ pc[k] = "connected"
    /\ \/ /\ tts[k] \notin connected
          /\ Goes(k, "returned")
          /\ UNCHANGED <<responseTable, futureVars>>
       \/ /\ tts[k] \in connected
          /\ kind[k] # "oneway"
          /\ Goes(k, "sending")
          /\ responseTable' = responseTable \cup {k}
          /\ New(k)
       \/ /\ tts[k] \in connected
          /\ kind[k] = "oneway"
          /\ Goes(k, "sending")
          /\ UNCHANGED <<responseTable, futureVars>>
    /\ UNCHANGED <<transportVars, callVars, net, worker, historyVars>>

SendSucceeds(k) ==
    /\ pc[k] = "sending"
    /\ tts[k] \in connected
    /\ net' = [net EXCEPT ![k] = "request"]
    /\ IF kind[k] = "oneway" THEN Goes(k, "returned") ELSE Goes(k, "sent")
    /\ UNCHANGED <<transportVars, callVars, responseTable, futureVars, worker, historyVars>>

(* The transport is closed, or an error or a time-out of the send closes   *)
(* it; its socket stays open, and in m_rset.                               *)
SendFails(k) ==
    /\ pc[k] = "sending"
    /\ connected' = connected \ {tts[k]}
    /\ IF kind[k] = "oneway" THEN Goes(k, "returned") ELSE Goes(k, "failed")
    /\ UNCHANGED <<transport, rset, lastTransport, callVars, responseTable, futureVars,
                   net, worker, historyVars>>

(* setSendRequestOK(true); an asynchronous call is done.                   *)
SetSendRequestOK(k) ==
    /\ pc[k] = "sent"
    /\ Use(k, "setSendRequestOK")
    /\ IF kind[k] = "async" THEN Goes(k, "returned") ELSE Goes(k, "waiting")
    /\ UNCHANGED <<transportVars, callVars, responseTable, futureVars, net, worker, callbacks>>

(* Mutation: the future is deleted and stays in the table.                 *)
SyncFailed_Keeps(k) ==
    /\ pc[k] = "failed"
    /\ kind[k] = "sync"
    /\ Use(k, "syncFailed")
    /\ Delete(k)
    /\ Goes(k, "returned")
    /\ UNCHANGED <<transportVars, callVars, responseTable, response, notify, net,
                   worker, callbacks>>

(* A synchronous call that was not sent takes its future back.             *)
SyncFailed(k) ==
    /\ pc[k] = "failed"
    /\ kind[k] = "sync"
    /\ Use(k, "syncFailed")
    /\ responseTable' = responseTable \ {k}
    /\ Delete(k)
    /\ Goes(k, "returned")
    /\ UNCHANGED <<transportVars, callVars, response, notify, net, worker, callbacks>>

(* An asynchronous one too, after the callback; a deleted future has none. *)
(* Expired meanwhile, it is not in the table and erase(end()) is           *)
(* undefined: a misuse.                                                    *)
AsyncFailed(k) ==
    /\ pc[k] = "failed"
    /\ kind[k] = "async"
    /\ Use(k, "asyncFailed")
    /\ responseTable' = responseTable \ {k}
    /\ callbacks' = [callbacks EXCEPT ![k] =
                         IF mem[k] = "live" THEN @ + 1 ELSE @]
    /\ Delete(k)
    /\ Goes(k, "returned")
    /\ UNCHANGED <<transportVars, callVars, response, notify, net, worker>>

(* waitResponse returns when notified or timed out, with whatever response *)
(* is there; the future is deleted only if there is one.                   *)
WaitResponse(k) ==
    /\ pc[k] = "waiting"
    /\ Use(k, "waitResponse")
    /\ IF response[k] THEN Delete(k) ELSE UNCHANGED mem
    /\ Goes(k, "returned")
    /\ UNCHANGED <<transportVars, callVars, responseTable, response, notify, net,
                   worker, callbacks>>

-----------------------------------------------------------------------------
(* The pool thread with the response, and the event thread.                *)

Busy(k) == pc[k] \in {"sending", "sent", "failed"}

(* HandleSocketEvent: the server's answer is read off the table's          *)
(* transport.                                                              *)
ResponseArrives(k) ==
    /\ net[k] = "request"
    /\ tts[k] = transport
    /\ transport \in rset
    /\ ~BadSet
    /\ net' = [net EXCEPT ![k] = "response"]
    /\ UNCHANGED <<transportVars, callVars, pc, responseTable, futureVars, worker, historyVars>>

(* Mutation: the future stays in the table.                                *)
ProcessData_Keeps(k) ==
    /\ net[k] = "response"
    /\ net' = [net EXCEPT ![k] = "none"]
    /\ worker' = [worker EXCEPT ![k] = IF k \in responseTable THEN "found" ELSE "none"]
    /\ UNCHANGED <<transportVars, callVars, pc, responseTable, futureVars, historyVars>>

(* ProcessData takes the future out of the table; a response without one   *)
(* is dropped.                                                             *)
ProcessData(k) ==
    /\ net[k] = "response"
    /\ net' = [net EXCEPT ![k] = "none"]
    /\ worker' = [worker EXCEPT ![k] = IF k \in responseTable THEN "found" ELSE "none"]
    /\ responseTable' = responseTable \ {k}
    /\ UNCHANGED <<transportVars, callVars, pc, futureVars, historyVars>>

(* putResponse, first its assignment, which no lock protects.              *)
PutResponse(k) ==
    /\ worker[k] = "found"
    /\ Use(k, "putResponse")
    /\ response' = [response EXCEPT ![k] = TRUE]
    /\ worker' = [worker EXCEPT ![k] = "put"]
    /\ UNCHANGED <<transportVars, callVars, pc, responseTable, mem, notify, net, callbacks>>

(* Then the waiting caller is notified.                                    *)
Notify(k) ==
    /\ worker[k] = "put"
    /\ kind[k] = "sync"
    /\ Use(k, "notify")
    /\ notify' = [notify EXCEPT ![k] = TRUE]
    /\ worker' = [worker EXCEPT ![k] = "none"]
    /\ UNCHANGED <<transportVars, callVars, pc, responseTable, mem, response, net, callbacks>>

(* Mutation: the future is not deleted after its callback.                 *)
ExecuteInvokeCallback_Leaks(k) ==
    /\ worker[k] = "put"
    /\ kind[k] = "async"
    /\ Use(k, "executeInvokeCallback")
    /\ callbacks' = [callbacks EXCEPT ![k] = @ + 1]
    /\ worker' = [worker EXCEPT ![k] = "none"]
    /\ UNCHANGED <<transportVars, callVars, pc, responseTable, futureVars, net>>

(* Or the callback is made and the future deleted.                         *)
ExecuteInvokeCallback(k) ==
    /\ worker[k] = "put"
    /\ kind[k] = "async"
    /\ Use(k, "executeInvokeCallback")
    /\ callbacks' = [callbacks EXCEPT ![k] = @ + 1]
    /\ Delete(k)
    /\ worker' = [worker EXCEPT ![k] = "none"]
    /\ UNCHANGED <<transportVars, callVars, pc, responseTable, response, notify, net>>


(* Mutation: every expired future is deleted, whoever waits on it.         *)
HandleTimerEvent_DeletesSync(k) ==
    /\ k \in responseTable
    /\ ~BadSet
    /\ responseTable' = responseTable \ {k}
    /\ response' = [response EXCEPT ![k] = FALSE]
    /\ callbacks' = IF kind[k] = "async"
                    THEN [callbacks EXCEPT ![k] = @ + 1] ELSE callbacks
    /\ Delete(k)
    /\ UNCHANGED <<transportVars, callVars, pc, notify, net, worker, misuse>>

(* The event thread, unless select failed, expires a future under          *)
(* m_mutexResp: putResponse(NULL).                                         *)
(* An asynchronous one is called back and deleted; of a synchronous one    *)
(* the caller is only notified.                                            *)
HandleTimerEvent(k) ==
    /\ k \in responseTable
    /\ ~BadSet
    /\ responseTable' = responseTable \ {k}
    /\ response' = [response EXCEPT ![k] = FALSE]
    /\ IF kind[k] = "async"
       THEN /\ callbacks' = [callbacks EXCEPT ![k] = @ + 1]
            /\ Delete(k)
            /\ UNCHANGED notify
       ELSE /\ notify' = [notify EXCEPT ![k] = TRUE]
            /\ UNCHANGED <<callbacks, mem>>
    /\ UNCHANGED <<transportVars, callVars, pc, net, worker, misuse>>

Next ==
    \/ ConnectionLost
    \/ OtherServer
    \/ OtherCall
    \/ \E k \in Calls : TakeTransport(k)
    \/ \E k \in Calls : Invoke(k)
    \/ \E k \in Calls : SendSucceeds(k)
    \/ \E k \in Calls : SendFails(k)
    \/ \E k \in Calls : SetSendRequestOK(k)
    \/ \E k \in Calls : SyncFailed(k)
    \/ \E k \in Calls : AsyncFailed(k)
    \/ \E k \in Calls : WaitResponse(k)
    \/ \E k \in Calls : ResponseArrives(k)
    \/ \E k \in Calls : ProcessData(k)
    \/ \E k \in Calls : PutResponse(k)
    \/ \E k \in Calls : Notify(k)
    \/ \E k \in Calls : ExecuteInvokeCallback(k)
    \/ \E k \in Calls : HandleTimerEvent(k)

Spec == Init /\ [][Next]_vars

(* Threads run and time passes; the server need not answer, and nobody     *)
(* need ever connect to any server again.                                  *)
Fairness ==
    \A k \in Calls :
        /\ WF_vars(Invoke(k))
        /\ WF_vars(SendSucceeds(k) \/ SendFails(k))
        /\ WF_vars(SetSendRequestOK(k))
        /\ WF_vars(SyncFailed(k) \/ AsyncFailed(k))
        /\ WF_vars(WaitResponse(k))
        /\ WF_vars(ProcessData(k))
        /\ WF_vars(PutResponse(k))
        /\ WF_vars(Notify(k) \/ ExecuteInvokeCallback(k))
        /\ WF_vars(HandleTimerEvent(k))

FairSpec == Spec /\ Fairness

-----------------------------------------------------------------------------
(* Properties.                                                             *)

(* Whatever overtakes whom, HandleTimerEvent and ProcessData, which take   *)
(* futures from the table, never find a deleted one there.                 *)
TableIsLive == \A k \in responseTable : mem[k] = "live"

(* No thread uses a future that another one has deleted.  The code departs *)
(* from this: the caller's and the pool thread's uses are outside the      *)
(* lock.                                                                   *)
NeverUsedAfterDelete == misuse = {}

(* It does so in three places only.  An asynchronous caller that comes out *)
(* of SendCmd may find its future gone (setSendRequestOK, the failed       *)
(* send's erase and delete), and the pool thread may find that of a        *)
(* synchronous call gone between putResponse's assignment and its Notify.  *)
(* Whatever the interleaving, the response is never written into a deleted *)
(* future, no callback is made from one, a synchronous caller never waits  *)
(* on one or deletes it again, and expiry meets none.                      *)
MisuseIsConfined ==
    \A m \in misuse :
        \/ kind[m[1]] = "async" /\ m[2] \in {"setSendRequestOK", "asyncFailed"}
        \/ kind[m[1]] = "sync" /\ m[2] = "notify"

(* A response, an expiry and a failed send between them call an            *)
(* asynchronous call's callback at most once.                              *)
CallbackOnce == \A k \in Calls : callbacks[k] <= 1

(* Nobody has a pointer to the future any more.                            *)
Forgotten(k) ==
    pc[k] = "returned" /\ k \notin responseTable /\ worker[k] = "none"

(* An asynchronous call's future is deleted on each of its paths.          *)
AsyncIsDeleted ==
    \A k \in Calls :
        kind[k] = "async" /\ Forgotten(k) => mem[k] # "live"

(* Every call's is, as invokeSyncImpl's comment has it: with a response by *)
(* the caller, without one by HandleTimerEvent.  The code departs from     *)
(* this: HandleTimerEvent deletes asynchronous futures only.               *)
FutureIsDeleted == \A k \in Calls : Forgotten(k) => mem[k] # "live"

(* Why these hold, call by call.                                           *)

(* Only a call that was sent can be answered, and whoever handles the      *)
(* answer has taken the future from the table: no expiry touched it.       *)
AnswerInv(k) ==
    /\ net[k] # "none" => pc[k] \in {"sent", "waiting", "returned"}
    /\ worker[k] # "none" =>
        /\ pc[k] \in {"sent", "waiting", "returned"}
        /\ net[k] = "none"
        /\ k \notin responseTable
        /\ ~notify[k]
    /\ worker[k] = "put" => response[k]

(* Who keeps the future alive: the table, the pool thread that has the     *)
(* response of an asynchronous call or has not stored it yet, and a        *)
(* synchronous caller.                                                     *)
AliveInv(k) ==
    /\ k \in responseTable =>
           mem[k] = "live" /\ ~response[k] /\ ~notify[k]
    /\ worker[k] = "found" => mem[k] = "live" /\ ~response[k]
    /\ worker[k] = "put" /\ kind[k] = "async" => mem[k] = "live"
    /\ kind[k] = "sync" /\ (Busy(k) \/ pc[k] = "waiting") =>
           mem[k] = "live"

(* A live asynchronous future was not called back and somebody will.       *)
CallbackInv(k) ==
    /\ callbacks[k] > 0 => kind[k] = "async" /\ mem[k] = "deleted"
    /\ kind[k] = "async" /\ mem[k] = "live" =>
           k \in responseTable \/ worker[k] # "none"
    /\ kind[k] = "async" /\ mem[k] = "deleted" => callbacks[k] > 0
    /\ callbacks[k] <= 1

KindInv(k) ==
    /\ kind[k] = "async" => pc[k] # "waiting"
    /\ kind[k] = "oneway" =>
           /\ pc[k] \notin {"sent", "failed", "waiting"}
           /\ mem[k] = "none"
           /\ worker[k] = "none"
    /\ pc[k] \in {"idle", "connected"} => mem[k] = "none"
    /\ mem[k] = "none" => ~response[k] /\ (Busy(k) => kind[k] = "oneway")

(* The induction: no order of the caller's, the pool thread's and the      *)
(* event thread's steps breaks one of these.                               *)
FutureInv ==
    /\ TypeOK
    /\ MisuseIsConfined
    /\ \A k \in Calls : AnswerInv(k) /\ AliveInv(k) /\ CallbackInv(k) /\ KindInv(k)

(* The abstract specification: a call with a future is open until the      *)
(* callback is made or the synchronous caller returns.  It was answered if *)
(* the future was deleted with a response in it.                           *)
IsOpen(k) ==
    IF kind[k] = "async" THEN mem[k] = "live" /\ callbacks[k] = 0
                         ELSE mem[k] # "none" /\ pc[k] # "returned"

IsOver(k) ==
    IF kind[k] = "async" THEN mem[k] = "deleted" /\ callbacks[k] = 1
                         ELSE mem[k] # "none" /\ pc[k] = "returned"

HasResponse(k) == mem[k] = "deleted" /\ response[k]

Outcome(k) ==
    CASE mem[k] = "none" /\ pc[k] # "returned" -> "new"
      [] mem[k] = "none" /\ pc[k] = "returned" -> "dismissed"
      [] IsOpen(k) -> "open"
      [] IsOver(k) /\ HasResponse(k) -> "answered"
      [] IsOver(k) /\ ~HasResponse(k) -> "unanswered"
      [] OTHER -> "impossible"

Replied == {k \in Calls : net[k] = "response" \/ worker[k] # "none" \/ response[k]}

RC == INSTANCE RemoteCall WITH outcome <- [k \in Calls |-> Outcome(k)], replied <- Replied

(* The remoting client implements it, deleted futures or not: however the  *)
(* caller, ProcessData and HandleTimerEvent meet, a call ends once, as     *)
(* answered only with the response, and late responses change nothing.     *)
ImplementsRemoteCall == RC!Spec


(* When a worker has closed a socket, Run loops to "build fd set again".   *)
(* The code departs from this: Run copies m_rset as it is, and only a new  *)
(* connection or an event that select no longer reports would rebuild it.  *)
FdSetIsRebuilt == BadSet ~> ~BadSet
=============================================================================
