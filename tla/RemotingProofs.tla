--------------------------- MODULE RemotingProofs ---------------------------
(***************************************************************************)
(* Proofs about Remoting, for any set of calls: FutureInv is inductive, so *)
(* the table holds live futures only, deleted futures are used in three    *)
(* places only, and a callback is made at most once and its future then    *)
(* deleted; and Remoting implements RemoteCall.                            *)
(***************************************************************************)
EXTENDS Remoting, TLAPS

CallInv(k) == AnswerInv(k) /\ AliveInv(k) /\ CallbackInv(k) /\ KindInv(k)

(* What a call's invariant depends on.                                     *)
SameCall(k) ==
    /\ kind'[k] = kind[k]
    /\ pc'[k] = pc[k]
    /\ mem'[k] = mem[k]
    /\ response'[k] = response[k]
    /\ notify'[k] = notify[k]
    /\ net'[k] = net[k]
    /\ worker'[k] = worker[k]
    /\ callbacks'[k] = callbacks[k]
    /\ (k \in responseTable') <=> (k \in responseTable)

(* A step of one call leaves the others' invariants alone.                 *)
LEMMA SameCallInv ==
    ASSUME NEW k \in Calls, CallInv(k), SameCall(k)
    PROVE  CallInv(k)'
BY DEF CallInv, SameCall, AnswerInv, AliveInv, CallbackInv, KindInv, Busy

(* A step of call k.                                                       *)
StepOf(k) ==
    \/ TakeTransport(k)
    \/ Invoke(k)
    \/ SendSucceeds(k)
    \/ SendFails(k)
    \/ SetSendRequestOK(k)
    \/ SyncFailed(k)
    \/ AsyncFailed(k)
    \/ WaitResponse(k)
    \/ ResponseArrives(k)
    \/ ProcessData(k)
    \/ PutResponse(k)
    \/ Notify(k)
    \/ ExecuteInvokeCallback(k)
    \/ HandleTimerEvent(k)

(* It leaves the other calls alone.                                        *)
LEMMA OthersAreSame ==
    ASSUME TypeOK, NEW k \in Calls, StepOf(k), NEW j \in Calls, j # k
    PROVE  SameCall(j)
<1>1. CASE TakeTransport(k)
  BY <1>1 DEF SameCall, TypeOK, TakeTransport, GetAndCreateTransport, Goes, transportVars,
     callVars, futureVars, historyVars
<1>2. CASE Invoke(k)
  BY <1>2 DEF SameCall, TypeOK, Invoke, Goes, New, transportVars, callVars,
     futureVars, historyVars
<1>3. CASE SendSucceeds(k)
  BY <1>3 DEF SameCall, TypeOK, SendSucceeds, Goes, transportVars, callVars,
     futureVars, historyVars
<1>4. CASE SendFails(k)
  BY <1>4 DEF SameCall, TypeOK, SendFails, Goes, transportVars, callVars,
     futureVars, historyVars
<1>5. CASE SetSendRequestOK(k)
  BY <1>5 DEF SameCall, TypeOK, SetSendRequestOK, Use, Goes, transportVars,
     callVars, futureVars, historyVars
<1>6. CASE SyncFailed(k)
  BY <1>6 DEF SameCall, TypeOK, SyncFailed, Use, Goes, Delete,
     transportVars, callVars, futureVars, historyVars
<1>7. CASE AsyncFailed(k)
  BY <1>7 DEF SameCall, TypeOK, AsyncFailed, Use, Goes, Delete,
     transportVars, callVars, futureVars, historyVars
<1>8. CASE WaitResponse(k)
  BY <1>8 DEF SameCall, TypeOK, WaitResponse, Use, Goes, Delete,
     transportVars, callVars, futureVars, historyVars
<1>9. CASE ResponseArrives(k)
  BY <1>9 DEF SameCall, TypeOK, ResponseArrives, transportVars, callVars,
     futureVars, historyVars
<1>10. CASE ProcessData(k)
  BY <1>10 DEF SameCall, TypeOK, ProcessData, transportVars, callVars,
     futureVars, historyVars
<1>11. CASE PutResponse(k)
  BY <1>11 DEF SameCall, TypeOK, PutResponse, Use, transportVars, callVars,
     futureVars, historyVars
<1>12. CASE Notify(k)
  BY <1>12 DEF SameCall, TypeOK, Notify, Use, transportVars, callVars,
     futureVars, historyVars
<1>13. CASE ExecuteInvokeCallback(k)
  BY <1>13 DEF SameCall, TypeOK, ExecuteInvokeCallback, Use, Delete,
     transportVars, callVars, futureVars, historyVars
<1>14. CASE HandleTimerEvent(k)
  BY <1>14 DEF SameCall, TypeOK, HandleTimerEvent, Delete, transportVars,
     callVars, futureVars, historyVars
<1> QED
  BY <1>1, <1>2, <1>3, <1>4, <1>5, <1>6, <1>7, <1>8, <1>9, <1>10, <1>11,
     <1>12, <1>13, <1>14 DEF StepOf

(* Type correctness, split from the rest for the provers.                  *)
LEMMA FutureInvParts ==
    FutureInv <=> TypeOK /\ MisuseIsConfined /\ \A k \in Calls : CallInv(k)
BY DEF FutureInv, CallInv

(* Initially there are no futures.                                         *)
LEMMA InitHolds == Init => FutureInv
<1> SUFFICES ASSUME Init PROVE FutureInv
  OBVIOUS
<1>1. TypeOK
  BY ConstantsAssumption DEF Init, TypeOK, Kinds, CallStates,
     Transports, NoTransport
<1>2. MisuseIsConfined
  BY DEF Init, MisuseIsConfined
<1>3. ASSUME NEW k \in Calls PROVE CallInv(k)
  <2>1. /\ pc[k] = "idle" /\ mem[k] = "none" /\ k \notin responseTable
        /\ net[k] = "none" /\ worker[k] = "none" /\ callbacks[k] = 0
        /\ ~response[k]
    BY DEF Init
  <2> QED
    BY <2>1 DEF CallInv, AnswerInv, AliveInv, CallbackInv, KindInv, Busy
<1> QED
  BY <1>1, <1>2, <1>3 DEF FutureInv, CallInv

(* The uses of deleted futures that MisuseIsConfined allows.               *)
MayBeMisused(k, step) ==
    \/ kind[k] = "async" /\ step \in {"setSendRequestOK", "asyncFailed"}
    \/ kind[k] = "sync" /\ step = "notify"

(* A use is one of these, or of a future that was not deleted.             *)
LEMMA UseIsConfined ==
    ASSUME TypeOK, MisuseIsConfined, NEW k \in Calls, NEW step \in Steps,
           Use(k, step), kind' = kind,
           MayBeMisused(k, step) \/ mem[k] # "deleted"
    PROVE  MisuseIsConfined' /\ misuse' \subseteq Calls \X Steps
<1>1. \/ misuse' = misuse
      \/ misuse' = misuse \cup {<<k, step>>} /\ MayBeMisused(k, step)
  BY DEF Use
<1>2. ASSUME NEW m \in misuse'
      PROVE  \/ kind[m[1]] = "async" /\ m[2] \in {"setSendRequestOK", "asyncFailed"}
             \/ kind[m[1]] = "sync" /\ m[2] = "notify"
  <2>1. CASE m \in misuse
    BY <2>1 DEF MisuseIsConfined
  <2>2. CASE m = <<k, step>> /\ MayBeMisused(k, step)
    BY <2>2 DEF MayBeMisused
  <2> QED
    BY <1>1, <1>2, <2>1, <2>2
<1>3. misuse' \subseteq Calls \X Steps
  BY <1>1 DEF TypeOK
<1> QED
  BY <1>2, <1>3 DEF MisuseIsConfined

TransportTypeOK ==
    /\ transport \in Transports \cup {NoTransport}
    /\ connected \subseteq Transports
    /\ rset \subseteq Transports
    /\ lastTransport \in 0 .. MaxTransports

(* GetAndCreateTransport keeps to the transports there are.                *)
LEMMA GetAndCreateTransportType ==
    ASSUME TypeOK, NEW t, GetAndCreateTransport(t)
    PROVE  TransportTypeOK'
<1>1. lastTransport < MaxTransports => lastTransport + 1 \in Transports
  BY ConstantsAssumption DEF TypeOK, Transports
<1>2. lastTransport' \in 0 .. MaxTransports
  BY ConstantsAssumption DEF TypeOK, GetAndCreateTransport, transportVars
<1> QED
  BY <1>1, <1>2 DEF TypeOK, TransportTypeOK, GetAndCreateTransport, transportVars

(* Getting a transport touches no future.                                  *)
LEMMA TakeTransportPreserves ==
    ASSUME FutureInv, NEW k \in Calls, TakeTransport(k)
    PROVE  FutureInv'
<1>1. TypeOK /\ MisuseIsConfined /\ \A j \in Calls : CallInv(j)
  BY FutureInvParts
<1>2. TypeOK'
  <2>1. TransportTypeOK'
    BY <1>1, GetAndCreateTransportType DEF TakeTransport
  <2>2. /\ tts' \in [Calls -> Transports \cup {NoTransport}]
        /\ pc' \in [Calls -> CallStates]
    BY <1>1 DEF TypeOK, TakeTransport, Goes, CallStates
  <2> QED
    BY <1>1, <2>1, <2>2
       DEF TypeOK, TransportTypeOK, TakeTransport, futureVars, historyVars
<1>3. MisuseIsConfined'
  BY <1>1 DEF MisuseIsConfined, TakeTransport, GetAndCreateTransport, historyVars
<1>4. CallInv(k)'
  BY <1>1 DEF TypeOK, Kinds, CallStates, CallInv, AliveInv, AnswerInv,
     CallbackInv, KindInv, Busy, TakeTransport, GetAndCreateTransport, Goes, transportVars,
     callVars, futureVars, historyVars
<1>5. ASSUME NEW j \in Calls, j # k PROVE CallInv(j)'
  <2>1. SameCall(j)
    BY <1>1, <1>5, OthersAreSame DEF StepOf
  <2> QED
    BY <1>1, <2>1, SameCallInv
<1>6. \A j \in Calls : CallInv(j)'
  BY <1>4, <1>5
<1> QED
  BY <1>2, <1>3, <1>6 DEF FutureInv, CallInv

(* A new future enters the table live, unanswered and unnotified.          *)
LEMMA InvokePreserves ==
    ASSUME FutureInv, NEW k \in Calls, Invoke(k)
    PROVE  FutureInv'
<1>1. TypeOK /\ MisuseIsConfined /\ \A j \in Calls : CallInv(j)
  BY FutureInvParts
<1>2. TypeOK'
  BY <1>1, ConstantsAssumption DEF TypeOK, Kinds, CallStates, Transports,
     NoTransport, CallInv, AliveInv, CallbackInv, Invoke, Goes, New,
     transportVars, callVars, futureVars, historyVars
<1>3. MisuseIsConfined'
  BY <1>1 DEF MisuseIsConfined, Invoke, callVars, historyVars
<1>4. CallInv(k)'
  BY <1>1 DEF TypeOK, Kinds, CallStates, CallInv, AliveInv, AnswerInv,
     CallbackInv, KindInv, Busy, Invoke, Goes, New, transportVars, callVars,
     futureVars, historyVars
<1>5. ASSUME NEW j \in Calls, j # k PROVE CallInv(j)'
  <2>1. SameCall(j)
    BY <1>1, <1>5, OthersAreSame DEF StepOf
  <2> QED
    BY <1>1, <2>1, SameCallInv
<1>6. \A j \in Calls : CallInv(j)'
  BY <1>4, <1>5
<1> QED
  BY <1>2, <1>3, <1>6 DEF FutureInv, CallInv

(* A sent request can be answered; the future stays as it is.              *)
LEMMA SendSucceedsPreserves ==
    ASSUME FutureInv, NEW k \in Calls, SendSucceeds(k)
    PROVE  FutureInv'
<1>1. TypeOK /\ MisuseIsConfined /\ \A j \in Calls : CallInv(j)
  BY FutureInvParts
<1>2. TypeOK'
  BY <1>1, ConstantsAssumption DEF TypeOK, Kinds, CallStates, Transports,
     NoTransport, CallInv, AliveInv, CallbackInv, SendSucceeds, Goes,
     transportVars, callVars, futureVars, historyVars
<1>3. MisuseIsConfined'
  BY <1>1 DEF MisuseIsConfined, SendSucceeds, callVars, historyVars
<1>4. CallInv(k)'
  BY <1>1 DEF TypeOK, Kinds, CallStates, CallInv, AliveInv, AnswerInv,
     CallbackInv, KindInv, Busy, SendSucceeds, Goes, transportVars, callVars,
     futureVars, historyVars
<1>5. ASSUME NEW j \in Calls, j # k PROVE CallInv(j)'
  <2>1. SameCall(j)
    BY <1>1, <1>5, OthersAreSame DEF StepOf
  <2> QED
    BY <1>1, <2>1, SameCallInv
<1>6. \A j \in Calls : CallInv(j)'
  BY <1>4, <1>5
<1> QED
  BY <1>2, <1>3, <1>6 DEF FutureInv, CallInv

(* A failed send leaves the future to the caller.                          *)
LEMMA SendFailsPreserves ==
    ASSUME FutureInv, NEW k \in Calls, SendFails(k)
    PROVE  FutureInv'
<1>1. TypeOK /\ MisuseIsConfined /\ \A j \in Calls : CallInv(j)
  BY FutureInvParts
<1>2. TypeOK'
  BY <1>1, ConstantsAssumption DEF TypeOK, Kinds, CallStates, Transports,
     NoTransport, CallInv, AliveInv, CallbackInv, SendFails, Goes,
     transportVars, callVars, futureVars, historyVars
<1>3. MisuseIsConfined'
  BY <1>1 DEF MisuseIsConfined, SendFails, callVars, historyVars
<1>4. CallInv(k)'
  BY <1>1 DEF TypeOK, Kinds, CallStates, CallInv, AliveInv, AnswerInv,
     CallbackInv, KindInv, Busy, SendFails, Goes, transportVars, callVars,
     futureVars, historyVars
<1>5. ASSUME NEW j \in Calls, j # k PROVE CallInv(j)'
  <2>1. SameCall(j)
    BY <1>1, <1>5, OthersAreSame DEF StepOf
  <2> QED
    BY <1>1, <2>1, SameCallInv
<1>6. \A j \in Calls : CallInv(j)'
  BY <1>4, <1>5
<1> QED
  BY <1>2, <1>3, <1>6 DEF FutureInv, CallInv

(* setSendRequestOK may find an asynchronous call's future deleted.        *)
LEMMA SetSendRequestOKPreserves ==
    ASSUME FutureInv, NEW k \in Calls, SetSendRequestOK(k)
    PROVE  FutureInv'
<1>1. TypeOK /\ MisuseIsConfined /\ \A j \in Calls : CallInv(j)
  BY FutureInvParts
<1>2. MisuseIsConfined' /\ misuse' \subseteq Calls \X Steps
  <2>1. MayBeMisused(k, "setSendRequestOK") \/ mem[k] # "deleted"
    BY <1>1 DEF TypeOK, Kinds, CallStates, CallInv, AliveInv, AnswerInv,
       CallbackInv, KindInv, Busy, MayBeMisused, SetSendRequestOK
  <2>2. Use(k, "setSendRequestOK") /\ kind' = kind
    BY DEF SetSendRequestOK, callVars
  <2> QED
    BY <1>1, <2>1, <2>2, UseIsConfined DEF Steps
<1>3. TypeOK'
  BY <1>1, <1>2, ConstantsAssumption DEF TypeOK, Kinds, CallStates, Transports,
     NoTransport, CallInv, AliveInv, CallbackInv, SetSendRequestOK, Goes,
     transportVars, callVars, futureVars, historyVars
<1>4. CallInv(k)'
  BY <1>1 DEF TypeOK, Kinds, CallStates, CallInv, AliveInv, AnswerInv,
     CallbackInv, KindInv, Busy, SetSendRequestOK, Use, Goes, transportVars,
     callVars, futureVars, historyVars
<1>5. ASSUME NEW j \in Calls, j # k PROVE CallInv(j)'
  <2>1. SameCall(j)
    BY <1>1, <1>5, OthersAreSame DEF StepOf
  <2> QED
    BY <1>1, <2>1, SameCallInv
<1>6. \A j \in Calls : CallInv(j)'
  BY <1>4, <1>5
<1> QED
  BY <1>2, <1>3, <1>6 DEF FutureInv, CallInv

(* A synchronous caller that failed to send deletes its own future.        *)
LEMMA SyncFailedPreserves ==
    ASSUME FutureInv, NEW k \in Calls, SyncFailed(k)
    PROVE  FutureInv'
<1>1. TypeOK /\ MisuseIsConfined /\ \A j \in Calls : CallInv(j)
  BY FutureInvParts
<1>2. MisuseIsConfined' /\ misuse' \subseteq Calls \X Steps
  <2>1. MayBeMisused(k, "syncFailed") \/ mem[k] # "deleted"
    BY <1>1 DEF TypeOK, Kinds, CallStates, CallInv, AliveInv, AnswerInv,
       CallbackInv, KindInv, Busy, MayBeMisused, SyncFailed
  <2>2. Use(k, "syncFailed") /\ kind' = kind
    BY DEF SyncFailed, callVars
  <2> QED
    BY <1>1, <2>1, <2>2, UseIsConfined DEF Steps
<1>3. TypeOK'
  BY <1>1, <1>2, ConstantsAssumption DEF TypeOK, Kinds, CallStates, Transports,
     NoTransport, CallInv, AliveInv, CallbackInv, SyncFailed, Goes, Delete,
     transportVars, callVars, futureVars, historyVars
<1>4. CallInv(k)'
  BY <1>1 DEF TypeOK, Kinds, CallStates, CallInv, AliveInv, AnswerInv,
     CallbackInv, KindInv, Busy, SyncFailed, Use, Goes, Delete, transportVars,
     callVars, futureVars, historyVars
<1>5. ASSUME NEW j \in Calls, j # k PROVE CallInv(j)'
  <2>1. SameCall(j)
    BY <1>1, <1>5, OthersAreSame DEF StepOf
  <2> QED
    BY <1>1, <2>1, SameCallInv
<1>6. \A j \in Calls : CallInv(j)'
  BY <1>4, <1>5
<1> QED
  BY <1>2, <1>3, <1>6 DEF FutureInv, CallInv

(* A failed asynchronous call is called back only while its future lives.  *)
LEMMA AsyncFailedPreserves ==
    ASSUME FutureInv, NEW k \in Calls, AsyncFailed(k)
    PROVE  FutureInv'
<1>1. TypeOK /\ MisuseIsConfined /\ \A j \in Calls : CallInv(j)
  BY FutureInvParts
<1>2. MisuseIsConfined' /\ misuse' \subseteq Calls \X Steps
  <2>1. MayBeMisused(k, "asyncFailed") \/ mem[k] # "deleted"
    BY <1>1 DEF TypeOK, Kinds, CallStates, CallInv, AliveInv, AnswerInv,
       CallbackInv, KindInv, Busy, MayBeMisused, AsyncFailed
  <2>2. Use(k, "asyncFailed") /\ kind' = kind
    BY DEF AsyncFailed, callVars
  <2> QED
    BY <1>1, <2>1, <2>2, UseIsConfined DEF Steps
<1>3. TypeOK'
  BY <1>1, <1>2, ConstantsAssumption DEF TypeOK, Kinds, CallStates, Transports,
     NoTransport, CallInv, AliveInv, CallbackInv, AsyncFailed, Goes,
     Delete, transportVars, callVars, futureVars, historyVars
<1>4. CallInv(k)'
  BY <1>1 DEF TypeOK, Kinds, CallStates, CallInv, AliveInv, AnswerInv,
     CallbackInv, KindInv, Busy, AsyncFailed, Use, Goes, Delete, transportVars,
     callVars, futureVars, historyVars
<1>5. ASSUME NEW j \in Calls, j # k PROVE CallInv(j)'
  <2>1. SameCall(j)
    BY <1>1, <1>5, OthersAreSame DEF StepOf
  <2> QED
    BY <1>1, <2>1, SameCallInv
<1>6. \A j \in Calls : CallInv(j)'
  BY <1>4, <1>5
<1> QED
  BY <1>2, <1>3, <1>6 DEF FutureInv, CallInv

(* The waiter's future is alive; whoever returns deletes it if answered.   *)
LEMMA WaitResponsePreserves ==
    ASSUME FutureInv, NEW k \in Calls, WaitResponse(k)
    PROVE  FutureInv'
<1>1. TypeOK /\ MisuseIsConfined /\ \A j \in Calls : CallInv(j)
  BY FutureInvParts
<1>2. MisuseIsConfined' /\ misuse' \subseteq Calls \X Steps
  <2>1. MayBeMisused(k, "waitResponse") \/ mem[k] # "deleted"
    BY <1>1 DEF TypeOK, Kinds, CallStates, CallInv, AliveInv, AnswerInv,
       CallbackInv, KindInv, Busy, MayBeMisused, WaitResponse
  <2>2. Use(k, "waitResponse") /\ kind' = kind
    BY DEF WaitResponse, callVars
  <2> QED
    BY <1>1, <2>1, <2>2, UseIsConfined DEF Steps
<1>3. TypeOK'
  BY <1>1, <1>2, ConstantsAssumption DEF TypeOK, Kinds, CallStates, Transports,
     NoTransport, CallInv, AliveInv, CallbackInv, WaitResponse, Goes,
     Delete, transportVars, callVars, futureVars, historyVars
<1>4. CallInv(k)'
  BY <1>1 DEF TypeOK, Kinds, CallStates, CallInv, AliveInv, AnswerInv,
     CallbackInv, KindInv, Busy, WaitResponse, Use, Goes, Delete, transportVars,
     callVars, futureVars, historyVars
<1>5. ASSUME NEW j \in Calls, j # k PROVE CallInv(j)'
  <2>1. SameCall(j)
    BY <1>1, <1>5, OthersAreSame DEF StepOf
  <2> QED
    BY <1>1, <2>1, SameCallInv
<1>6. \A j \in Calls : CallInv(j)'
  BY <1>4, <1>5
<1> QED
  BY <1>2, <1>3, <1>6 DEF FutureInv, CallInv

(* A response arriving changes no future.                                  *)
LEMMA ResponseArrivesPreserves ==
    ASSUME FutureInv, NEW k \in Calls, ResponseArrives(k)
    PROVE  FutureInv'
<1>1. TypeOK /\ MisuseIsConfined /\ \A j \in Calls : CallInv(j)
  BY FutureInvParts
<1>2. TypeOK'
  BY <1>1, ConstantsAssumption DEF TypeOK, Kinds, CallStates, Transports,
     NoTransport, CallInv, AliveInv, CallbackInv, ResponseArrives,
     transportVars, callVars, futureVars, historyVars
<1>3. MisuseIsConfined'
  BY <1>1 DEF MisuseIsConfined, ResponseArrives, callVars, historyVars
<1>4. CallInv(k)'
  BY <1>1 DEF TypeOK, Kinds, CallStates, CallInv, AliveInv, AnswerInv,
     CallbackInv, KindInv, Busy, ResponseArrives, transportVars, callVars,
     futureVars, historyVars
<1>5. ASSUME NEW j \in Calls, j # k PROVE CallInv(j)'
  <2>1. SameCall(j)
    BY <1>1, <1>5, OthersAreSame DEF StepOf
  <2> QED
    BY <1>1, <2>1, SameCallInv
<1>6. \A j \in Calls : CallInv(j)'
  BY <1>4, <1>5
<1> QED
  BY <1>2, <1>3, <1>6 DEF FutureInv, CallInv

(* ProcessData takes the future from the table before it is answered.      *)
LEMMA ProcessDataPreserves ==
    ASSUME FutureInv, NEW k \in Calls, ProcessData(k)
    PROVE  FutureInv'
<1>1. TypeOK /\ MisuseIsConfined /\ \A j \in Calls : CallInv(j)
  BY FutureInvParts
<1>2. TypeOK'
  BY <1>1, ConstantsAssumption DEF TypeOK, Kinds, CallStates, Transports,
     NoTransport, CallInv, AliveInv, CallbackInv, ProcessData, transportVars,
     callVars, futureVars, historyVars
<1>3. MisuseIsConfined'
  BY <1>1 DEF MisuseIsConfined, ProcessData, callVars, historyVars
<1>4. CallInv(k)'
  BY <1>1 DEF TypeOK, Kinds, CallStates, CallInv, AliveInv, AnswerInv,
     CallbackInv, KindInv, Busy, ProcessData, transportVars, callVars,
     futureVars, historyVars
<1>5. ASSUME NEW j \in Calls, j # k PROVE CallInv(j)'
  <2>1. SameCall(j)
    BY <1>1, <1>5, OthersAreSame DEF StepOf
  <2> QED
    BY <1>1, <2>1, SameCallInv
<1>6. \A j \in Calls : CallInv(j)'
  BY <1>4, <1>5
<1> QED
  BY <1>2, <1>3, <1>6 DEF FutureInv, CallInv

(* putResponse finds the future of its response alive.                     *)
LEMMA PutResponsePreserves ==
    ASSUME FutureInv, NEW k \in Calls, PutResponse(k)
    PROVE  FutureInv'
<1>1. TypeOK /\ MisuseIsConfined /\ \A j \in Calls : CallInv(j)
  BY FutureInvParts
<1>2. MisuseIsConfined' /\ misuse' \subseteq Calls \X Steps
  <2>1. MayBeMisused(k, "putResponse") \/ mem[k] # "deleted"
    BY <1>1 DEF TypeOK, Kinds, CallStates, CallInv, AliveInv, AnswerInv,
       CallbackInv, KindInv, Busy, MayBeMisused, PutResponse
  <2>2. Use(k, "putResponse") /\ kind' = kind
    BY DEF PutResponse, callVars
  <2> QED
    BY <1>1, <2>1, <2>2, UseIsConfined DEF Steps
<1>3. TypeOK'
  BY <1>1, <1>2, ConstantsAssumption DEF TypeOK, Kinds, CallStates, Transports,
     NoTransport, CallInv, AliveInv, CallbackInv, PutResponse,
     transportVars, callVars, futureVars, historyVars
<1>4. CallInv(k)'
  BY <1>1 DEF TypeOK, Kinds, CallStates, CallInv, AliveInv, AnswerInv,
     CallbackInv, KindInv, Busy, PutResponse, Use, transportVars, callVars,
     futureVars, historyVars
<1>5. ASSUME NEW j \in Calls, j # k PROVE CallInv(j)'
  <2>1. SameCall(j)
    BY <1>1, <1>5, OthersAreSame DEF StepOf
  <2> QED
    BY <1>1, <2>1, SameCallInv
<1>6. \A j \in Calls : CallInv(j)'
  BY <1>4, <1>5
<1> QED
  BY <1>2, <1>3, <1>6 DEF FutureInv, CallInv

(* The waiter is notified after the response was put.                      *)
LEMMA NotifyPreserves ==
    ASSUME FutureInv, NEW k \in Calls, Notify(k)
    PROVE  FutureInv'
<1>1. TypeOK /\ MisuseIsConfined /\ \A j \in Calls : CallInv(j)
  BY FutureInvParts
<1>2. MisuseIsConfined' /\ misuse' \subseteq Calls \X Steps
  <2>1. MayBeMisused(k, "notify") \/ mem[k] # "deleted"
    BY <1>1 DEF TypeOK, Kinds, CallStates, CallInv, AliveInv, AnswerInv,
       CallbackInv, KindInv, Busy, MayBeMisused, Notify
  <2>2. Use(k, "notify") /\ kind' = kind
    BY DEF Notify, callVars
  <2> QED
    BY <1>1, <2>1, <2>2, UseIsConfined DEF Steps
<1>3. TypeOK'
  BY <1>1, <1>2, ConstantsAssumption DEF TypeOK, Kinds, CallStates, Transports,
     NoTransport, CallInv, AliveInv, CallbackInv, Notify, transportVars,
     callVars, futureVars, historyVars
<1>4. CallInv(k)'
  BY <1>1 DEF TypeOK, Kinds, CallStates, CallInv, AliveInv, AnswerInv,
     CallbackInv, KindInv, Busy, Notify, Use, transportVars, callVars,
     futureVars, historyVars
<1>5. ASSUME NEW j \in Calls, j # k PROVE CallInv(j)'
  <2>1. SameCall(j)
    BY <1>1, <1>5, OthersAreSame DEF StepOf
  <2> QED
    BY <1>1, <2>1, SameCallInv
<1>6. \A j \in Calls : CallInv(j)'
  BY <1>4, <1>5
<1> QED
  BY <1>2, <1>3, <1>6 DEF FutureInv, CallInv

(* The pool thread calls back a future that nobody else has.               *)
LEMMA ExecuteInvokeCallbackPreserves ==
    ASSUME FutureInv, NEW k \in Calls, ExecuteInvokeCallback(k)
    PROVE  FutureInv'
<1>1. TypeOK /\ MisuseIsConfined /\ \A j \in Calls : CallInv(j)
  BY FutureInvParts
<1>2. MisuseIsConfined' /\ misuse' \subseteq Calls \X Steps
  <2>1. MayBeMisused(k, "executeInvokeCallback") \/ mem[k] # "deleted"
    BY <1>1 DEF TypeOK, Kinds, CallStates, CallInv, AliveInv, AnswerInv,
       CallbackInv, KindInv, Busy, MayBeMisused, ExecuteInvokeCallback
  <2>2. Use(k, "executeInvokeCallback") /\ kind' = kind
    BY DEF ExecuteInvokeCallback, callVars
  <2> QED
    BY <1>1, <2>1, <2>2, UseIsConfined DEF Steps
<1>3. TypeOK'
  BY <1>1, <1>2, ConstantsAssumption DEF TypeOK, Kinds, CallStates, Transports,
     NoTransport, CallInv, AliveInv, CallbackInv, ExecuteInvokeCallback,
     Delete, transportVars, callVars, futureVars, historyVars
<1>4. CallInv(k)'
  BY <1>1 DEF TypeOK, Kinds, CallStates, CallInv, AliveInv, AnswerInv,
     CallbackInv, KindInv, Busy, ExecuteInvokeCallback, Use, Delete,
     transportVars, callVars, futureVars, historyVars
<1>5. ASSUME NEW j \in Calls, j # k PROVE CallInv(j)'
  <2>1. SameCall(j)
    BY <1>1, <1>5, OthersAreSame DEF StepOf
  <2> QED
    BY <1>1, <2>1, SameCallInv
<1>6. \A j \in Calls : CallInv(j)'
  BY <1>4, <1>5
<1> QED
  BY <1>2, <1>3, <1>6 DEF FutureInv, CallInv

(* An expired future was in the table, so it was alive and unanswered.     *)
LEMMA HandleTimerEventPreserves ==
    ASSUME FutureInv, NEW k \in Calls, HandleTimerEvent(k)
    PROVE  FutureInv'
<1>1. TypeOK /\ MisuseIsConfined /\ \A j \in Calls : CallInv(j)
  BY FutureInvParts
<1>2. TypeOK'
  <2>1. callbacks[k] \in 0 .. 1
    BY <1>1 DEF TypeOK, CallInv, CallbackInv
  <2>2. callbacks' \in [Calls -> 0 .. 2]
    <3>1. callbacks[k] + 1 \in 0 .. 2
      BY <2>1
    <3> QED
      BY <1>1, <3>1 DEF TypeOK, HandleTimerEvent
  <2>3. /\ mem' \in [Calls -> {"none", "live", "deleted"}]
        /\ notify' \in [Calls -> BOOLEAN]
        /\ response' \in [Calls -> BOOLEAN]
        /\ responseTable' \subseteq Calls
    BY <1>1 DEF TypeOK, HandleTimerEvent, Delete
  <2> QED
    BY <1>1, <2>2, <2>3 DEF TypeOK, HandleTimerEvent, transportVars, callVars
<1>3. MisuseIsConfined'
  BY <1>1 DEF MisuseIsConfined, HandleTimerEvent, callVars, historyVars
<1>4. CallInv(k)'
  BY <1>1 DEF TypeOK, Kinds, CallStates, CallInv, AliveInv, AnswerInv,
     CallbackInv, KindInv, Busy, HandleTimerEvent, Delete, transportVars,
     callVars, futureVars, historyVars
<1>5. ASSUME NEW j \in Calls, j # k PROVE CallInv(j)'
  <2>1. SameCall(j)
    BY <1>1, <1>5, OthersAreSame DEF StepOf
  <2> QED
    BY <1>1, <2>1, SameCallInv
<1>6. \A j \in Calls : CallInv(j)'
  BY <1>4, <1>5
<1> QED
  BY <1>2, <1>3, <1>6 DEF FutureInv, CallInv

(* What happens to the transports changes no future.                       *)
LEMMA TransportStepPreserves ==
    ASSUME FutureInv, ConnectionLost \/ OtherServer \/ OtherCall
    PROVE  FutureInv'
<1>1. TypeOK /\ MisuseIsConfined /\ \A j \in Calls : CallInv(j)
  BY FutureInvParts
<1>2. UNCHANGED <<callVars, pc, responseTable, futureVars, net, worker, historyVars>>
  BY DEF ConnectionLost, OtherServer, OtherCall
<1>3. TransportTypeOK'
  <2>1. CASE ConnectionLost \/ OtherServer
    BY <1>1, <2>1 DEF TypeOK, TransportTypeOK, ConnectionLost, OtherServer, UpdateEvent
  <2>2. CASE OtherCall
    BY <1>1, <2>2, GetAndCreateTransportType DEF OtherCall, TypeOK, TransportTypeOK
  <2> QED
    BY <2>1, <2>2
<1>4. TypeOK' /\ MisuseIsConfined'
  BY <1>1, <1>2, <1>3 DEF TypeOK, TransportTypeOK, MisuseIsConfined, callVars,
     futureVars, historyVars
<1>5. ASSUME NEW j \in Calls PROVE CallInv(j)'
  BY <1>1, <1>2, SameCallInv DEF SameCall, callVars, futureVars, historyVars
<1> QED
  BY <1>4, <1>5 DEF FutureInv, CallInv

(* Neither does a step of something else.                                  *)
LEMMA StutterPreserves == ASSUME FutureInv, UNCHANGED vars PROVE FutureInv'
<1>1. TypeOK /\ MisuseIsConfined /\ \A j \in Calls : CallInv(j)
  BY FutureInvParts
<1>2. TypeOK' /\ MisuseIsConfined'
  BY <1>1 DEF TypeOK, MisuseIsConfined, vars, transportVars,
     callVars, futureVars, historyVars
<1>3. ASSUME NEW j \in Calls PROVE CallInv(j)'
  BY <1>1, SameCallInv DEF SameCall, vars, transportVars,
     callVars, futureVars, historyVars
<1> QED
  BY <1>2, <1>3 DEF FutureInv, CallInv

(* The caller's, the pool thread's and the event thread's steps all        *)
(* preserve FutureInv.                                                     *)
LEMMA NextPreserves == FutureInv /\ [Next]_vars => FutureInv'
<1> SUFFICES ASSUME FutureInv, [Next]_vars PROVE FutureInv'
  OBVIOUS
<1>1. CASE \E k \in Calls : TakeTransport(k)
  BY <1>1, TakeTransportPreserves
<1>2. CASE \E k \in Calls : Invoke(k)
  BY <1>2, InvokePreserves
<1>3. CASE \E k \in Calls : SendSucceeds(k)
  BY <1>3, SendSucceedsPreserves
<1>4. CASE \E k \in Calls : SendFails(k)
  BY <1>4, SendFailsPreserves
<1>5. CASE \E k \in Calls : SetSendRequestOK(k)
  BY <1>5, SetSendRequestOKPreserves
<1>6. CASE \E k \in Calls : SyncFailed(k)
  BY <1>6, SyncFailedPreserves
<1>7. CASE \E k \in Calls : AsyncFailed(k)
  BY <1>7, AsyncFailedPreserves
<1>8. CASE \E k \in Calls : WaitResponse(k)
  BY <1>8, WaitResponsePreserves
<1>9. CASE \E k \in Calls : ResponseArrives(k)
  BY <1>9, ResponseArrivesPreserves
<1>10. CASE \E k \in Calls : ProcessData(k)
  BY <1>10, ProcessDataPreserves
<1>11. CASE \E k \in Calls : PutResponse(k)
  BY <1>11, PutResponsePreserves
<1>12. CASE \E k \in Calls : Notify(k)
  BY <1>12, NotifyPreserves
<1>13. CASE \E k \in Calls : ExecuteInvokeCallback(k)
  BY <1>13, ExecuteInvokeCallbackPreserves
<1>14. CASE \E k \in Calls : HandleTimerEvent(k)
  BY <1>14, HandleTimerEventPreserves
<1>15. CASE ConnectionLost \/ OtherServer \/ OtherCall
  BY <1>15, TransportStepPreserves
<1>16. CASE UNCHANGED vars
  BY <1>16, StutterPreserves
<1> QED
  BY <1>1, <1>2, <1>3, <1>4, <1>5, <1>6, <1>7, <1>8, <1>9,
     <1>10, <1>11, <1>12, <1>13, <1>14, <1>15, <1>16 DEF Next

(* FutureInv in every reachable state, for any number of calls.            *)
THEOREM FutureInvHolds == Spec => []FutureInv
BY InitHolds, NextPreserves, PTL DEF Spec

(* HandleTimerEvent and ProcessData find only live futures in the table.   *)
THEOREM LiveTable == Spec => []TableIsLive
<1>1. FutureInv => TableIsLive
  BY DEF FutureInv, AliveInv, TableIsLive, TypeOK
<1> QED
  BY <1>1, FutureInvHolds, PTL

(* Whatever the interleaving, deleted futures are used in three places     *)
(* only: putResponse, the callbacks, the waiting caller and the expiry     *)
(* meet none.                                                              *)
THEOREM ConfinedMisuse == Spec => []MisuseIsConfined
<1>1. FutureInv => MisuseIsConfined
  BY DEF FutureInv
<1> QED
  BY <1>1, FutureInvHolds, PTL

(* Response, expiry and failed send make at most one callback.             *)
THEOREM AtMostOneCallback == Spec => []CallbackOnce
<1>1. FutureInv => CallbackOnce
  BY DEF FutureInv, CallbackInv, CallbackOnce
<1> QED
  BY <1>1, FutureInvHolds, PTL

(* No asynchronous call leaks its future.                                  *)
THEOREM NoAsyncLeak == Spec => []AsyncIsDeleted
<1>1. FutureInv => AsyncIsDeleted
  BY DEF FutureInv, CallbackInv, AsyncIsDeleted, Forgotten
<1> QED
  BY <1>1, FutureInvHolds, PTL

-----------------------------------------------------------------------------
(* The refinement of RemoteCall.                                           *)

HasReply(k) == net[k] = "response" \/ worker[k] # "none" \/ response[k]

(* The steps of RemoteCall, seen from one call.                            *)
OutcomeStays(k) == Outcome(k)' = Outcome(k)

ReplyStays(k) == HasReply(k)' <=> HasReply(k)

Starts(k) ==
    /\ Outcome(k) = "new"
    /\ Outcome(k)' \in {"dismissed", "open"}
    /\ ReplyStays(k)

Finishes(k) ==
    /\ Outcome(k) = "open"
    /\ \/ Outcome(k)' = "unanswered"
       \/ Outcome(k)' = "answered" /\ HasReply(k)
    /\ ReplyStays(k)

ReplyMoves(k) ==
    /\ OutcomeStays(k)
    /\ \/ Outcome(k) # "new" /\ HasReply(k)'
       \/ Outcome(k) # "answered" /\ ~HasReply(k)'

AbstractStep(k) ==
    \/ OutcomeStays(k) /\ ReplyStays(k)
    \/ Starts(k)
    \/ Finishes(k)
    \/ ReplyMoves(k)

(* What a call does not change, its abstraction does not change.           *)
LEMMA SameCallMaps ==
    ASSUME NEW k \in Calls, SameCall(k)
    PROVE  OutcomeStays(k) /\ ReplyStays(k)
BY DEF SameCall, OutcomeStays, ReplyStays, Outcome, IsOpen, IsOver,
   HasResponse, HasReply

(* A call's outcome by its kind.                                           *)
OutcomeByKind(k) ==
    /\ mem[k] = "none" /\ pc[k] # "returned" => Outcome(k) = "new"
    /\ mem[k] = "none" /\ pc[k] = "returned" => Outcome(k) = "dismissed"
    /\ kind[k] = "async" /\ mem[k] = "live" => Outcome(k) = "open"
    /\ kind[k] = "async" /\ mem[k] = "deleted" =>
           Outcome(k) = IF response[k] THEN "answered" ELSE "unanswered"
    /\ kind[k] = "sync" /\ mem[k] # "none" /\ pc[k] # "returned" =>
           Outcome(k) = "open"
    /\ kind[k] = "sync" /\ mem[k] # "none" /\ pc[k] = "returned" =>
           Outcome(k) = IF mem[k] = "deleted" /\ response[k]
                        THEN "answered" ELSE "unanswered"
    /\ kind[k] = "oneway" => mem[k] = "none"

OutcomesByKind == \A k \in Calls : OutcomeByKind(k)

(* These are all the cases, because a callback is made once and its future *)
(* then deleted.                                                           *)
LEMMA OutcomeCases == FutureInv => OutcomesByKind
<1> SUFFICES ASSUME FutureInv, NEW k \in Calls PROVE OutcomeByKind(k)
  BY DEF OutcomesByKind
<1>1. /\ kind[k] \in Kinds
      /\ mem[k] \in {"none", "live", "deleted"}
      /\ callbacks[k] \in 0 .. 2
      /\ response[k] \in BOOLEAN
      /\ callbacks[k] > 0 => kind[k] = "async" /\ mem[k] = "deleted"
      /\ kind[k] = "async" /\ mem[k] = "deleted" => callbacks[k] > 0
      /\ callbacks[k] <= 1
      /\ kind[k] = "oneway" => mem[k] = "none"
  BY DEF FutureInv, TypeOK, CallbackInv, KindInv
<1> QED
  BY <1>1 DEF OutcomeByKind, Outcome, IsOpen, IsOver, HasResponse, Kinds

(* In both states of a step.                                               *)
LEMMA OutcomeCasesOfStep ==
    ASSUME FutureInv, FutureInv', NEW k \in Calls
    PROVE  OutcomeByKind(k) /\ OutcomeByKind(k)'
<1>1. FutureInv' => OutcomesByKind'
  BY OutcomeCases, PTL
<1> QED
  BY <1>1, OutcomeCases DEF OutcomesByKind

(* A call without a transport is dismissed.                                *)
LEMMA TakeTransportMaps ==
    ASSUME FutureInv, FutureInv', NEW k \in Calls, TakeTransport(k)
    PROVE  AbstractStep(k)
<1>1. TypeOK /\ TypeOK' /\ CallInv(k) /\ OutcomeByKind(k) /\ OutcomeByKind(k)'
  BY FutureInvParts, OutcomeCasesOfStep DEF FutureInv
<1> QED
  BY <1>1 DEF CallInv, AnswerInv, AliveInv, CallbackInv, KindInv, Busy,
     TypeOK, Kinds, TakeTransport, GetAndCreateTransport, Goes, OutcomeByKind,
     AbstractStep, OutcomeStays, ReplyStays, Starts, Finishes, ReplyMoves,
     HasReply, callVars, futureVars, historyVars

(* A call whose transport is gone is dismissed, one with a future opened.  *)
LEMMA InvokeMaps ==
    ASSUME FutureInv, FutureInv', NEW k \in Calls, Invoke(k)
    PROVE  AbstractStep(k)
<1>1. TypeOK /\ TypeOK' /\ CallInv(k) /\ OutcomeByKind(k) /\ OutcomeByKind(k)'
  BY FutureInvParts, OutcomeCasesOfStep DEF FutureInv
<1> QED
  BY <1>1 DEF CallInv, AnswerInv, AliveInv, CallbackInv, KindInv, Busy,
     TypeOK, Kinds, Invoke, Goes, New, OutcomeByKind, AbstractStep,
     OutcomeStays, ReplyStays, Starts, Finishes, ReplyMoves, HasReply,
     callVars, futureVars, historyVars

(* A oneway call that was sent is dismissed, any other stays open.         *)
LEMMA SendSucceedsMaps ==
    ASSUME FutureInv, FutureInv', NEW k \in Calls, SendSucceeds(k)
    PROVE  AbstractStep(k)
<1>1. TypeOK /\ TypeOK' /\ CallInv(k) /\ OutcomeByKind(k) /\ OutcomeByKind(k)'
  BY FutureInvParts, OutcomeCasesOfStep DEF FutureInv
<1> QED
  BY <1>1 DEF CallInv, AnswerInv, AliveInv, CallbackInv, KindInv, Busy,
     TypeOK, Kinds, SendSucceeds, Goes, OutcomeByKind, AbstractStep,
     OutcomeStays, ReplyStays, Starts, Finishes, ReplyMoves, HasReply,
     callVars, futureVars, historyVars

(* So is one that was not sent.                                            *)
LEMMA SendFailsMaps ==
    ASSUME FutureInv, FutureInv', NEW k \in Calls, SendFails(k)
    PROVE  AbstractStep(k)
<1>1. TypeOK /\ TypeOK' /\ CallInv(k) /\ OutcomeByKind(k) /\ OutcomeByKind(k)'
  BY FutureInvParts, OutcomeCasesOfStep DEF FutureInv
<1> QED
  BY <1>1 DEF CallInv, AnswerInv, AliveInv, CallbackInv, KindInv, Busy,
     TypeOK, Kinds, SendFails, Goes, OutcomeByKind, AbstractStep,
     OutcomeStays, ReplyStays, Starts, Finishes, ReplyMoves, HasReply,
     callVars, futureVars, historyVars

(* The caller goes on to wait, or leaves.                                  *)
LEMMA SetSendRequestOKMaps ==
    ASSUME FutureInv, FutureInv', NEW k \in Calls, SetSendRequestOK(k)
    PROVE  AbstractStep(k)
<1>1. TypeOK /\ TypeOK' /\ CallInv(k) /\ OutcomeByKind(k) /\ OutcomeByKind(k)'
  BY FutureInvParts, OutcomeCasesOfStep DEF FutureInv
<1> QED
  BY <1>1 DEF CallInv, AnswerInv, AliveInv, CallbackInv, KindInv, Busy,
     TypeOK, Kinds, SetSendRequestOK, Use, Goes, OutcomeByKind,
     AbstractStep, OutcomeStays, ReplyStays, Starts, Finishes, ReplyMoves,
     HasReply, callVars, futureVars, historyVars

(* A synchronous call that was not sent is given up.                       *)
LEMMA SyncFailedMaps ==
    ASSUME FutureInv, FutureInv', NEW k \in Calls, SyncFailed(k)
    PROVE  AbstractStep(k)
<1>1. TypeOK /\ TypeOK' /\ CallInv(k) /\ OutcomeByKind(k) /\ OutcomeByKind(k)'
  BY FutureInvParts, OutcomeCasesOfStep DEF FutureInv
<1>2. /\ kind[k] = "sync" /\ mem[k] = "live" /\ pc[k] # "returned"
      /\ mem'[k] = "deleted" /\ pc'[k] = "returned"
      /\ kind'[k] = kind[k] /\ net'[k] = net[k] /\ worker'[k] = worker[k]
      /\ response'[k] = response[k]
  BY <1>1 DEF CallInv, AliveInv, Busy, TypeOK, SyncFailed, Delete, Goes,
     callVars
<1>3. ReplyStays(k)
  BY <1>2 DEF ReplyStays, HasReply
<1>4. Outcome(k) = "open"
  BY <1>1, <1>2 DEF OutcomeByKind
<1>5. Outcome(k)' = IF response[k] THEN "answered" ELSE "unanswered"
  BY <1>1, <1>2 DEF OutcomeByKind
<1> QED
  BY <1>3, <1>4, <1>5 DEF AbstractStep, Finishes, HasReply

(* An asynchronous one too, unless it has expired already.                 *)
LEMMA AsyncFailedMaps ==
    ASSUME FutureInv, FutureInv', NEW k \in Calls, AsyncFailed(k)
    PROVE  AbstractStep(k)
<1>1. TypeOK /\ TypeOK' /\ CallInv(k) /\ OutcomeByKind(k) /\ OutcomeByKind(k)'
  BY FutureInvParts, OutcomeCasesOfStep DEF FutureInv
<1>2. /\ kind[k] = "async" /\ mem[k] \in {"live", "deleted"}
      /\ mem'[k] = "deleted"
      /\ kind'[k] = kind[k] /\ net'[k] = net[k] /\ worker'[k] = worker[k]
      /\ response'[k] = response[k]
  BY <1>1 DEF CallInv, KindInv, Busy, TypeOK, AsyncFailed, Delete, callVars
<1>3. ReplyStays(k)
  BY <1>2 DEF ReplyStays, HasReply
<1>4. Outcome(k)' = IF response[k] THEN "answered" ELSE "unanswered"
  BY <1>1, <1>2 DEF OutcomeByKind
<1>5. CASE mem[k] = "live"
  <2>1. Outcome(k) = "open"
    BY <1>1, <1>2, <1>5 DEF OutcomeByKind
  <2> QED
    BY <1>3, <1>4, <2>1 DEF AbstractStep, Finishes, HasReply
<1>6. CASE mem[k] = "deleted"
  <2>1. OutcomeStays(k)
    BY <1>1, <1>2, <1>4, <1>6 DEF OutcomeByKind, OutcomeStays
  <2> QED
    BY <1>3, <2>1 DEF AbstractStep
<1> QED
  BY <1>2, <1>5, <1>6

(* Whoever returns from its wait was answered or gives up.                 *)
LEMMA WaitResponseMaps ==
    ASSUME FutureInv, FutureInv', NEW k \in Calls, WaitResponse(k)
    PROVE  AbstractStep(k)
<1>1. TypeOK /\ TypeOK' /\ CallInv(k) /\ OutcomeByKind(k) /\ OutcomeByKind(k)'
  BY FutureInvParts, OutcomeCasesOfStep DEF FutureInv
<1>2. /\ kind[k] = "sync" /\ mem[k] = "live" /\ pc[k] # "returned"
      /\ pc'[k] = "returned"
      /\ mem'[k] = IF response[k] THEN "deleted" ELSE "live"
      /\ kind'[k] = kind[k] /\ net'[k] = net[k] /\ worker'[k] = worker[k]
      /\ response'[k] = response[k]
  BY <1>1 DEF CallInv, AliveInv, KindInv, TypeOK, Kinds, WaitResponse, Delete,
     Goes, callVars
<1>3. ReplyStays(k)
  BY <1>2 DEF ReplyStays, HasReply
<1>4. Outcome(k) = "open"
  BY <1>1, <1>2 DEF OutcomeByKind
<1>5. Outcome(k)' = IF response[k] THEN "answered" ELSE "unanswered"
  BY <1>1, <1>2 DEF OutcomeByKind
<1> QED
  BY <1>3, <1>4, <1>5 DEF AbstractStep, Finishes, HasReply

(* The reply comes, for whatever call was sent.                            *)
LEMMA ResponseArrivesMaps ==
    ASSUME FutureInv, FutureInv', NEW k \in Calls, ResponseArrives(k)
    PROVE  AbstractStep(k)
<1>1. TypeOK /\ TypeOK' /\ CallInv(k) /\ OutcomeByKind(k) /\ OutcomeByKind(k)'
  BY FutureInvParts, OutcomeCasesOfStep DEF FutureInv
<1> QED
  BY <1>1 DEF CallInv, AnswerInv, AliveInv, CallbackInv, KindInv, Busy,
     TypeOK, Kinds, ResponseArrives, OutcomeByKind, AbstractStep,
     OutcomeStays, ReplyStays, Starts, Finishes, ReplyMoves, HasReply,
     callVars, futureVars, historyVars

(* A reply without a future in the table is dropped.                       *)
LEMMA ProcessDataMaps ==
    ASSUME FutureInv, FutureInv', NEW k \in Calls, ProcessData(k)
    PROVE  AbstractStep(k)
<1>1. TypeOK /\ TypeOK' /\ CallInv(k) /\ OutcomeByKind(k) /\ OutcomeByKind(k)'
  BY FutureInvParts, OutcomeCasesOfStep DEF FutureInv
<1> QED
  BY <1>1 DEF CallInv, AnswerInv, AliveInv, CallbackInv, KindInv, Busy,
     TypeOK, Kinds, ProcessData, OutcomeByKind, AbstractStep, OutcomeStays,
     ReplyStays, Starts, Finishes, ReplyMoves, HasReply, callVars,
     futureVars, historyVars

(* A future that gets its response is still open or was given up.          *)
LEMMA PutResponseMaps ==
    ASSUME FutureInv, FutureInv', NEW k \in Calls, PutResponse(k)
    PROVE  AbstractStep(k)
<1>1. TypeOK /\ TypeOK' /\ CallInv(k) /\ OutcomeByKind(k) /\ OutcomeByKind(k)'
  BY FutureInvParts, OutcomeCasesOfStep DEF FutureInv
<1> QED
  BY <1>1 DEF CallInv, AnswerInv, AliveInv, CallbackInv, KindInv, Busy,
     TypeOK, Kinds, PutResponse, OutcomeByKind, AbstractStep, OutcomeStays,
     ReplyStays, Starts, Finishes, ReplyMoves, HasReply, callVars,
     futureVars, historyVars

(* The response stays in the future.                                       *)
LEMMA NotifyMaps ==
    ASSUME FutureInv, FutureInv', NEW k \in Calls, Notify(k)
    PROVE  AbstractStep(k)
<1>1. TypeOK /\ TypeOK' /\ CallInv(k) /\ OutcomeByKind(k) /\ OutcomeByKind(k)'
  BY FutureInvParts, OutcomeCasesOfStep DEF FutureInv
<1> QED
  BY <1>1 DEF CallInv, AnswerInv, AliveInv, CallbackInv, KindInv, Busy,
     TypeOK, Kinds, Notify, OutcomeByKind, AbstractStep, OutcomeStays,
     ReplyStays, Starts, Finishes, ReplyMoves, HasReply, callVars,
     futureVars, historyVars

(* The callback with the response is the answer.                           *)
LEMMA ExecuteInvokeCallbackMaps ==
    ASSUME FutureInv, FutureInv', NEW k \in Calls, ExecuteInvokeCallback(k)
    PROVE  AbstractStep(k)
<1>1. TypeOK /\ TypeOK' /\ CallInv(k) /\ OutcomeByKind(k) /\ OutcomeByKind(k)'
  BY FutureInvParts, OutcomeCasesOfStep DEF FutureInv
<1> QED
  BY <1>1 DEF CallInv, AnswerInv, AliveInv, CallbackInv, KindInv, Busy,
     TypeOK, Kinds, ExecuteInvokeCallback, Delete, OutcomeByKind,
     AbstractStep, OutcomeStays, ReplyStays, Starts, Finishes, ReplyMoves,
     HasReply, callVars, futureVars, historyVars

(* An expired asynchronous call is given up, its callback told.            *)
LEMMA HandleTimerEventMaps ==
    ASSUME FutureInv, FutureInv', NEW k \in Calls, HandleTimerEvent(k)
    PROVE  AbstractStep(k)
<1>1. TypeOK /\ TypeOK' /\ CallInv(k) /\ OutcomeByKind(k) /\ OutcomeByKind(k)'
  BY FutureInvParts, OutcomeCasesOfStep DEF FutureInv
<1>2. /\ mem[k] = "live" /\ ~response[k] /\ ~response'[k]
      /\ kind[k] \in {"sync", "async"} /\ pc'[k] = pc[k]
      /\ kind'[k] = kind[k] /\ net'[k] = net[k] /\ worker'[k] = worker[k]
  BY <1>1 DEF CallInv, AliveInv, KindInv, TypeOK, Kinds, HandleTimerEvent,
     callVars
<1>3. ReplyStays(k)
  BY <1>2 DEF ReplyStays, HasReply
<1>4. CASE kind[k] = "async"
  <2>1. mem'[k] = "deleted"
    BY <1>1, <1>4 DEF TypeOK, HandleTimerEvent, Delete
  <2>2. Outcome(k) = "open"
    BY <1>1, <1>2, <1>4 DEF OutcomeByKind
  <2>3. Outcome(k)' = "unanswered"
    BY <1>1, <1>2, <1>4, <2>1 DEF OutcomeByKind
  <2> QED
    BY <1>3, <2>2, <2>3 DEF AbstractStep, Finishes
<1>5. CASE kind[k] = "sync"
  <2>1. mem'[k] = "live"
    BY <1>2, <1>5 DEF HandleTimerEvent
  <2>2. OutcomeStays(k)
    BY <1>1, <1>2, <1>5, <2>1 DEF OutcomeByKind, OutcomeStays
  <2> QED
    BY <1>3, <2>2 DEF AbstractStep
<1> QED
  BY <1>2, <1>4, <1>5

(* Every step of a call is one of RemoteCall's, or none.                   *)
LEMMA StepOfCallMaps ==
    ASSUME FutureInv, FutureInv', NEW k \in Calls, StepOf(k)
    PROVE  AbstractStep(k)
BY TakeTransportMaps, InvokeMaps, SendSucceedsMaps,
   SendFailsMaps, SetSendRequestOKMaps, SyncFailedMaps,
   AsyncFailedMaps, WaitResponseMaps, ResponseArrivesMaps,
   ProcessDataMaps, PutResponseMaps, NotifyMaps,
   ExecuteInvokeCallbackMaps, HandleTimerEventMaps DEF StepOf

(* And no other call's.                                                    *)
LEMMA OthersMap ==
    ASSUME FutureInv, NEW k \in Calls, StepOf(k)
    PROVE  \A j \in Calls \ {k} : OutcomeStays(j) /\ ReplyStays(j)
BY OthersAreSame, SameCallMaps DEF FutureInv

(* One call's step is a step of RemoteCall.                                *)
LEMMA AbstractStepIsNext ==
    ASSUME NEW k \in Calls, AbstractStep(k),
           \A j \in Calls \ {k} : OutcomeStays(j) /\ ReplyStays(j)
    PROVE  [RC!Next]_(RC!vars)
<1> DEFINE out == [j \in Calls |-> Outcome(j)]
<1>1. /\ Replied \subseteq Calls /\ Replied' \subseteq Calls
      /\ \A j \in Calls : j \in Replied <=> HasReply(j)
      /\ \A j \in Calls : j \in Replied' <=> HasReply(j)'
  BY DEF Replied, HasReply
<1>2. out' = [out EXCEPT ![k] = Outcome(k)']
  BY DEF OutcomeStays
<1>3. ASSUME ReplyStays(k) PROVE Replied' = Replied
  BY <1>1, <1>3 DEF ReplyStays
<1>4. ASSUME OutcomeStays(k) PROVE out' = out
  BY <1>4 DEF OutcomeStays
<1>5. CASE OutcomeStays(k) /\ ReplyStays(k)
  BY <1>3, <1>4, <1>5 DEF RC!vars
<1>6. CASE Starts(k)
  <2>1. RC!Dismiss(k) \/ RC!Open(k)
    BY <1>2, <1>3, <1>6 DEF Starts, RC!Dismiss, RC!Open, RC!Ends
  <2> QED
    BY <2>1 DEF RC!Next
<1>7. CASE Finishes(k)
  <2>1. RC!Answer(k) \/ RC!GiveUp(k)
    BY <1>1, <1>2, <1>3, <1>7 DEF Finishes, RC!Answer, RC!GiveUp, RC!Ends
  <2> QED
    BY <2>1 DEF RC!Next
<1>8. CASE ReplyMoves(k)
  <2>1. CASE Outcome(k) # "new" /\ HasReply(k)'
    <3>1. Replied' = Replied \cup {k}
      BY <1>1, <2>1 DEF ReplyStays
    <3> QED
      BY <1>4, <1>8, <2>1, <3>1 DEF ReplyMoves, RC!Reply, RC!Next
  <2>2. CASE Outcome(k) # "answered" /\ ~HasReply(k)'
    <3>1. Replied' = Replied \ {k}
      BY <1>1, <2>2 DEF ReplyStays
    <3> QED
      BY <1>4, <1>8, <2>2, <3>1 DEF ReplyMoves, RC!Drop, RC!Next
  <2> QED
    BY <1>8, <2>1, <2>2 DEF ReplyMoves
<1> QED
  BY <1>5, <1>6, <1>7, <1>8 DEF AbstractStep

(* The steps of transports and of something else change no call.           *)
LEMMA NoCallMaps ==
    ASSUME ConnectionLost \/ OtherServer \/ OtherCall \/ UNCHANGED vars
    PROVE  UNCHANGED RC!vars
BY DEF ConnectionLost, OtherServer, OtherCall, RC!vars, Replied, Outcome, IsOpen, IsOver, HasResponse,
   vars, callVars, futureVars, historyVars

(* Initially no call was made.                                             *)
LEMMA InitMaps == Init => RC!Init
<1> SUFFICES ASSUME Init PROVE RC!Init
  OBVIOUS
<1>1. ASSUME NEW k \in Calls PROVE Outcome(k) = "new"
  <2>1. mem[k] = "none" /\ pc[k] # "returned"
    BY DEF Init
  <2> QED
    BY <2>1, InitHolds, OutcomeCases DEF OutcomesByKind, OutcomeByKind
<1>2. Replied = {}
  BY DEF Init, Replied
<1> QED
  BY <1>1, <1>2 DEF RC!Init

(* The remoting client implements RemoteCall for any number of calls:      *)
(* however the caller, ProcessData and HandleTimerEvent meet, each ends    *)
(* once, as answered only with its response.                               *)
THEOREM Refinement == Spec => ImplementsRemoteCall
<1>1. ASSUME FutureInv, FutureInv', [Next]_vars PROVE [RC!Next]_(RC!vars)
  <2>1. CASE \E k \in Calls : StepOf(k)
    <3>1. PICK k \in Calls : StepOf(k)
      BY <2>1
    <3> QED
      BY <1>1, <3>1, StepOfCallMaps, OthersMap, AbstractStepIsNext
  <2>2. CASE ConnectionLost \/ OtherServer \/ OtherCall \/ UNCHANGED vars
    BY <2>2, NoCallMaps
  <2> QED
    BY <1>1, <2>1, <2>2 DEF Next, StepOf
<1> QED
  BY <1>1, InitMaps, FutureInvHolds, PTL DEF Spec, ImplementsRemoteCall, RC!Spec
=============================================================================
