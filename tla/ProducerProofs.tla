--------------------------- MODULE ProducerProofs ---------------------------
(***************************************************************************)
(* Proofs about Producer, for any number of senders, whatever their calls  *)
(* and messages are and however routes change: what an application is told *)
(* is true, and requests are repeated only on purpose and three times at   *)
(* most.                                                                   *)
(*                                                                         *)
(* None of this depends on the publish information, so CallInv types a     *)
(* sender's call and not the tables it reads; TypeInv, which rests on      *)
(* CallInv, types those.                                                   *)
(***************************************************************************)
EXTENDS Producer, OperatorProofs

(* A sender that may still make a request.                                 *)
OpenStates == {"idle", "find", "update", "findAgain", "default", "findLast",
               "select", "address", "addressAgain", "request"}

CallTypeOK ==
    /\ pc \in [Senders -> OpenStates \cup {"answer", "done", "gone"}]
    /\ layers \in [Senders -> Nat]
    /\ flag \in [Senders -> BOOLEAN]
    /\ times \in [Senders -> 0 .. 2]
    /\ sent \in [Senders -> Nat]
    /\ DOMAIN copies = Senders
    /\ DOMAIN result = Senders

(* The turns of the loop bound the requests, and these the compressions.   *)
TriesInv(s) ==
    /\ sent[s] <= times[s] + 1
    /\ pc[s] \in OpenStates => sent[s] <= times[s]
    /\ pc[s] = "answer" => sent[s] >= 1
    /\ layers[s] <= sent[s]

(* A copy belongs to a request that was made; the request that waits for   *)
(* its answer has none yet.                                                *)
CopiesInv(s) ==
    \A c \in copies[s] :
        /\ c.n \in Nat /\ c.n <= sent[s]
        /\ pc[s] = "answer" => c.n < sent[s]

(* The application is told at the end of the call, and what is true.       *)
ToldInv(s) ==
    /\ result[s].kind # "none" => pc[s] \in {"done", "gone"}
    /\ result[s].kind \in {"ok", "notOk"} =>
          \E c \in copies[s] : /\ c.n = sent[s]
                               /\ c.queue = result[s].queue
                               /\ c.status = result[s].kind

(* Whoever may make another request has no copy that it does not mean to   *)
(* repeat.                                                                 *)
OnPurposeInv(s) ==
    \A c \in copies[s] :
        (c.n < sent[s] \/ pc[s] \in OpenStates)
            => retryAnother /\ c.status = "notOk" /\ mode[s] = "sync"

SenderInv(s) ==
    TriesInv(s) /\ CopiesInv(s) /\ ToldInv(s) /\ OnPurposeInv(s)

CallInv == CallTypeOK /\ \A s \in Senders : SenderInv(s)

-----------------------------------------------------------------------------
(* No sender has made a request yet.                                       *)
LEMMA InitHolds == Init => CallInv
<1> SUFFICES ASSUME Init PROVE CallInv
  OBVIOUS
<1>1. CallTypeOK
  BY DEF Init, CallTypeOK, OpenStates
<1>2. ASSUME NEW s \in Senders PROVE SenderInv(s)
  <2>1. /\ pc[s] = "idle" /\ sent[s] = 0 /\ times[s] = 0 /\ layers[s] = 0
        /\ copies[s] = {} /\ result[s].kind = "none"
    BY DEF Init, Untold
  <2> QED
    BY <2>1 DEF SenderInv, TriesInv, CopiesInv, ToldInv, OnPurposeInv
<1> QED
  BY <1>1, <1>2 DEF CallInv

(* What a sender's invariant depends on.                                   *)
SameSender(s) ==
    /\ pc'[s] = pc[s]
    /\ times'[s] = times[s]
    /\ layers'[s] = layers[s]
    /\ flag'[s] = flag[s]
    /\ sent'[s] = sent[s]
    /\ copies'[s] = copies[s]
    /\ result'[s] = result[s]
    /\ mode'[s] = mode[s]
    /\ retryAnother' = retryAnother

LEMMA SameSenderInv ==
    ASSUME NEW s \in Senders, SenderInv(s), SameSender(s)
    PROVE  SenderInv(s)'
BY DEF SenderInv, SameSender, TriesInv, CopiesInv, ToldInv, OnPurposeInv

(* Steps of the timer tasks and of the name server.                        *)
LEMMA CallsFrame ==
    ASSUME CallInv, UNCHANGED <<retryAnother, pc, callVars, tryVars, brokerVars>>
    PROVE  CallInv'
<1>1. UNCHANGED <<pc, layers, flag, times, sent, copies, result, mode, retryAnother>>
  BY DEF callVars, tryVars, brokerVars
<1>2. CallTypeOK'
  BY <1>1 DEF CallInv, CallTypeOK
<1>3. ASSUME NEW s \in Senders PROVE SenderInv(s)'
  <2>1. SameSender(s)
    BY <1>1 DEF SameSender
  <2> QED
    BY <2>1, SameSenderInv DEF CallInv
<1> QED
  BY <1>2, <1>3 DEF CallInv

(* A step that only takes a sender on, to another place before its request *)
(* or into the next turn of the loop.                                      *)
Continues(s) ==
    /\ \E place \in OpenStates : To(s, place)
    /\ \/ UNCHANGED times
       \/ times[s] < 2 /\ times' = [times EXCEPT ![s] = @ + 1]
    /\ UNCHANGED result

(* Or ends its call without a result.                                      *)
Ends(s) == Throw(s) /\ UNCHANGED times

LEMMA OpenStep ==
    ASSUME CallInv, NEW s \in Senders, pc[s] \in OpenStates,
           Continues(s) \/ Ends(s),
           UNCHANGED <<retryAnother, mode, layers, flag, sent, copies>>
    PROVE  CallInv'
<1>1. \A t \in Senders : t # s =>
          pc'[t] = pc[t] /\ times'[t] = times[t] /\ result'[t] = result[t]
  BY DEF CallInv, CallTypeOK, Continues, Ends, To, Throw
<1>2. ASSUME NEW t \in Senders, t # s PROVE SenderInv(t)'
  <2>1. SameSender(t)
    BY <1>1, <1>2 DEF SameSender
  <2> QED
    BY <2>1, SameSenderInv DEF CallInv
<1>3. SenderInv(s)
  BY DEF CallInv
<1>4. times[s] \in 0 .. 2 /\ sent[s] \in Nat /\ layers[s] \in Nat
  BY DEF CallInv, CallTypeOK
<1>5. CASE Continues(s)
  <2>1. /\ pc' \in [Senders -> OpenStates \cup {"answer", "done", "gone"}]
        /\ pc'[s] \in OpenStates /\ result' = result
    BY <1>5 DEF CallInv, CallTypeOK, Continues, To
  <2>2. /\ times' \in [Senders -> 0 .. 2]
        /\ times'[s] \in {times[s], times[s] + 1}
    BY <1>4, <1>5 DEF CallInv, CallTypeOK, Continues
  <2>3. CallTypeOK'
    BY <2>1, <2>2 DEF CallInv, CallTypeOK
  <2>4. pc'[s] \notin {"answer", "done", "gone"}
    BY <2>1 DEF OpenStates
  <2>5. TriesInv(s)'
    BY <1>3, <1>4, <2>2, <2>4 DEF SenderInv, TriesInv
  <2>6. CopiesInv(s)' /\ OnPurposeInv(s)'
    BY <1>3, <2>4 DEF SenderInv, CopiesInv, OnPurposeInv
  <2>7. result[s].kind = "none"
    BY <1>3 DEF SenderInv, ToldInv, OpenStates
  <2>8. ToldInv(s)'
    BY <2>1, <2>7 DEF ToldInv
  <2> QED
    BY <1>2, <2>3, <2>5, <2>6, <2>8 DEF CallInv, SenderInv
<1>6. CASE Ends(s)
  <2>1. /\ pc' = [pc EXCEPT ![s] = "done"]
        /\ \/ result' = [result EXCEPT ![s] = result[s]]
           \/ result' = [result EXCEPT ![s] = Told("exception", NoQueue)]
        /\ times' = times
    BY <1>6 DEF Ends, Throw, To
  <2>2. CallTypeOK'
    BY <2>1 DEF CallInv, CallTypeOK
  <2>3. pc'[s] = "done" /\ result'[s].kind \in {"none", "exception"}
    <3>1. result[s].kind = "none"
      BY <1>3 DEF SenderInv, ToldInv, OpenStates
    <3> QED
      BY <2>1, <3>1 DEF CallInv, CallTypeOK, Told
  <2>4. TriesInv(s)'
    BY <1>3, <2>1, <2>3 DEF SenderInv, TriesInv, OpenStates
  <2>5. CopiesInv(s)' /\ OnPurposeInv(s)' /\ ToldInv(s)'
    BY <1>3, <2>3 DEF SenderInv, CopiesInv, OnPurposeInv, ToldInv, OpenStates
  <2> QED
    BY <1>2, <2>2, <2>4, <2>5 DEF CallInv, SenderInv
<1> QED
  BY <1>5, <1>6

(* A lookup, an update or an address on the way to the request.            *)
LEMMA UseContinues ==
    ASSUME NEW s \in Senders, Use(s), UNCHANGED times
    PROVE  Continues(s) \/ Ends(s)
BY DEF Use, Continues, Ends, OpenStates

LEMMA LookupPreserves ==
    ASSUME CallInv, NEW s \in Senders,
           \/ Call(s) \/ TryToFind(s) \/ UpdateRoute(s) \/ FindAgain(s)
           \/ UpdateDefault(s) \/ FindLast(s) \/ SelectQueue(s) \/ FindAddress(s)
    PROVE  CallInv'
<1>1. pc[s] \in OpenStates
  BY DEF Call, TryToFind, UpdateRoute, FindAgain, UpdateDefault, FindLast,
     SelectQueue, FindAddress, OpenStates
<1>2. UNCHANGED <<retryAnother, mode, layers, flag, sent, copies, times>>
  BY DEF Call, TryToFind, UpdateRoute, FindAgain, UpdateDefault, FindLast,
     SelectQueue, FindAddress, callVars, tryVars, brokerVars
<1>3. Continues(s) \/ Ends(s)
  <2>1. CASE Call(s)
    BY <1>2, <2>1 DEF Call, Continues, brokerVars, OpenStates
  <2>2. CASE TryToFind(s)
    BY <1>2, <2>2, UseContinues DEF TryToFind, Continues, OpenStates
  <2>3. CASE UpdateRoute(s)
    BY <1>2, <2>3 DEF UpdateRoute, Continues, brokerVars, OpenStates
  <2>4. CASE FindAgain(s)
    BY <1>2, <2>4, UseContinues DEF FindAgain, Continues, OpenStates
  <2>5. CASE UpdateDefault(s)
    BY <1>2, <2>5 DEF UpdateDefault, Continues, brokerVars, OpenStates
  <2>6. CASE FindLast(s)
    BY <1>2, <2>6, UseContinues DEF FindLast
  <2>7. CASE SelectQueue(s)
    BY <1>2, <2>7 DEF SelectQueue, Continues, Ends, OpenStates
  <2>8. CASE FindAddress(s)
    BY <1>2, <2>8 DEF FindAddress, Continues, brokerVars, OpenStates
  <2> QED
    BY <2>1, <2>2, <2>3, <2>4, <2>5, <2>6, <2>7, <2>8
<1> QED
  BY <1>1, <1>2, <1>3, OpenStep

(* No address: the loop's next turn, or an exception.                      *)
LEMMA FindAddressAgainPreserves ==
    ASSUME CallInv, NEW s \in Senders, FindAddressAgain(s)
    PROVE  CallInv'
<1>1. pc[s] \in OpenStates /\ UNCHANGED <<retryAnother, mode, layers, flag, sent, copies>>
  BY DEF FindAddressAgain, callVars, OpenStates
<1>2. Continues(s) \/ Ends(s)
  BY DEF FindAddressAgain, Retried, Again, Continues, Ends, OpenStates
<1> QED
  BY <1>1, <1>2, OpenStep

(* The request: a new number, and the body as Compresses decides.          *)
LEMMA SendMessagePreserves ==
    ASSUME CallInv, NEW s \in Senders, SendMessage(s)
    PROVE  CallInv'
<1>1. /\ pc[s] = "request" /\ pc' = [pc EXCEPT ![s] = "answer"]
      /\ sent' = [sent EXCEPT ![s] = @ + 1]
      /\ flag' = [flag EXCEPT ![s] = Compresses(s)]
      /\ layers' = [layers EXCEPT ![s] = IF Compresses(s) THEN @ + 1 ELSE @]
      /\ UNCHANGED <<retryAnother, mode, times, copies, result>>
  BY DEF SendMessage, To, callVars
<1>2. Compresses(s) \in BOOLEAN
  BY DEF Compresses
<1>3. CallTypeOK'
  BY <1>1, <1>2 DEF CallInv, CallTypeOK
<1>4. ASSUME NEW t \in Senders, t # s PROVE SenderInv(t)'
  <2>1. SameSender(t)
    BY <1>1, <1>4 DEF SameSender, CallInv, CallTypeOK
  <2> QED
    BY <2>1, SameSenderInv DEF CallInv
<1>5. SenderInv(s) /\ pc[s] \in OpenStates
  BY <1>1 DEF CallInv, OpenStates
<1>6. /\ times[s] \in 0 .. 2 /\ sent[s] \in Nat /\ layers[s] \in Nat
      /\ pc'[s] = "answer" /\ sent'[s] = sent[s] + 1
      /\ flag'[s] = Compresses(s)
      /\ layers'[s] = IF Compresses(s) THEN layers[s] + 1 ELSE layers[s]
  BY <1>1 DEF CallInv, CallTypeOK
<1>7. TriesInv(s)'
  BY <1>1, <1>5, <1>6 DEF SenderInv, TriesInv, OpenStates
<1>8. CopiesInv(s)'
  BY <1>1, <1>5, <1>6 DEF SenderInv, CopiesInv
<1>9. OnPurposeInv(s)'
  BY <1>1, <1>5, <1>6 DEF SenderInv, OnPurposeInv
<1>10. ToldInv(s)'
  <2>1. result[s].kind = "none"
    BY <1>1, <1>5 DEF SenderInv, ToldInv
  <2> QED
    BY <1>1, <2>1 DEF ToldInv
<1> QED
  BY <1>3, <1>4, <1>7, <1>8, <1>9, <1>10 DEF CallInv, SenderInv

-----------------------------------------------------------------------------
(* What the brokers hold after an answer: as before, or one copy more of   *)
(* the request that was answered.                                          *)
NewCopy(s, status) ==
    [n |-> sent[s], queue |-> mq[s], layers |-> layers[s], flag |-> flag[s],
     status |-> status]

Stored(s, status) ==
    copies' = [copies EXCEPT ![s] = @ \cup {NewCopy(s, status)}]

LEMMA CopiesAfterAnswer ==
    ASSUME CallInv, NEW s \in Senders, pc[s] = "answer",
           UNCHANGED copies \/ \E status : Stored(s, status),
           UNCHANGED <<layers, flag, sent>>, pc'[s] # "answer"
    PROVE  CopiesInv(s)'
<1>1. SenderInv(s) /\ sent[s] \in Nat
  BY DEF CallInv, CallTypeOK
<1>2. CASE UNCHANGED copies
  BY <1>1, <1>2 DEF SenderInv, CopiesInv
<1>3. CASE \E status : Stored(s, status)
  <2>1. PICK status : Stored(s, status)
    BY <1>3
  <2> DEFINE c == NewCopy(s, status)
  <2>2. copies'[s] = copies[s] \cup {c}
    BY <2>1 DEF Stored, CallInv, CallTypeOK
  <2>3. c.n = sent[s]
    BY DEF NewCopy
  <2> HIDE DEF c
  <2>4. CopiesInv(s)'
    BY <1>1, <2>2, <2>3 DEF SenderInv, CopiesInv
  <2> QED
    BY <2>4
<1> QED
  BY <1>2, <1>3

(* Other senders do not notice an answer.                                  *)
LEMMA AnswerOthers ==
    ASSUME CallInv, NEW s \in Senders, Answer(s)
    PROVE  /\ CallTypeOK'
           /\ \A t \in Senders : t # s => SenderInv(t)'
<1>1. UNCHANGED <<retryAnother, mode, layers, flag, sent>>
  BY DEF Answer, callVars
<1>2. UNCHANGED copies \/ \E e : copies' = [copies EXCEPT ![s] = e]
  BY DEF Answer, AnswerStored, AnswerRetryable, AnswerError, NoAnswer,
     CallbackDropped, Stores
<1>3. UNCHANGED result \/ \E e : result' = [result EXCEPT ![s] = e]
  BY DEF Answer, AnswerStored, AnswerRetryable, AnswerError, NoAnswer,
     CallbackDropped, Tell, Again, Throw
<1>4. \/ UNCHANGED times
      \/ times[s] < 2 /\ times' = [times EXCEPT ![s] = @ + 1]
  BY DEF Answer, AnswerStored, AnswerRetryable, AnswerError, NoAnswer,
     CallbackDropped, Tell, Again, Throw
<1>5. \E place \in {"done", "find"} : pc' = [pc EXCEPT ![s] = place]
  BY DEF Answer, AnswerStored, AnswerRetryable, AnswerError, NoAnswer,
     CallbackDropped, Tell, Again, Throw, To
<1>6. CallTypeOK'
  <2>1. times' \in [Senders -> 0 .. 2]
    BY <1>4 DEF CallInv, CallTypeOK
  <2>2. pc' \in [Senders -> OpenStates \cup {"answer", "done", "gone"}]
    BY <1>5 DEF CallInv, CallTypeOK, OpenStates
  <2>3. DOMAIN copies' = Senders /\ DOMAIN result' = Senders
    BY <1>2, <1>3 DEF CallInv, CallTypeOK
  <2> QED
    BY <1>1, <2>1, <2>2, <2>3 DEF CallInv, CallTypeOK
<1>7. ASSUME NEW t \in Senders, t # s PROVE SenderInv(t)'
  <2>1. SameSender(t)
    BY <1>1, <1>2, <1>3, <1>4, <1>5, <1>7 DEF SameSender, CallInv, CallTypeOK
  <2> QED
    BY <2>1, SameSenderInv DEF CallInv
<1> QED
  BY <1>6, <1>7

(* The loop goes on after an answer only with a copy that is not safe, or  *)
(* with none.                                                              *)
LEMMA AgainAfterAnswer ==
    ASSUME CallInv, NEW s \in Senders, Answer(s), Again(s),
           \/ UNCHANGED copies
           \/ Stored(s, "notOk") /\ retryAnother /\ mode[s] = "sync"
    PROVE  SenderInv(s)'
<1>1. UNCHANGED <<retryAnother, mode, layers, flag, sent>> /\ pc[s] = "answer"
  BY DEF Answer, callVars
<1>2. /\ SenderInv(s) /\ sent[s] \in Nat /\ layers[s] \in Nat /\ times[s] \in 0 .. 2
      /\ result[s].kind = "none"
  BY <1>1 DEF CallInv, CallTypeOK, SenderInv, ToldInv
<1>3. \/ /\ pc'[s] = "find" /\ times'[s] = times[s] + 1 /\ result' = result
      \/ /\ pc'[s] = "done" /\ times' = times /\ result'[s].kind \in {"none", "exception"}
  BY <1>2 DEF Again, Throw, To, Told, CallInv, CallTypeOK
<1>4. CopiesInv(s)'
  BY <1>1, <1>3, CopiesAfterAnswer
<1>5. TriesInv(s)'
  BY <1>1, <1>2, <1>3 DEF SenderInv, TriesInv, OpenStates
<1>6. ToldInv(s)'
  BY <1>2, <1>3 DEF ToldInv
<1>7. OnPurposeInv(s)'
  <2>1. \A c \in copies[s] : retryAnother /\ c.status = "notOk" /\ mode[s] = "sync"
    BY <1>1, <1>2 DEF SenderInv, CopiesInv, OnPurposeInv
  <2>2. CASE UNCHANGED copies
    BY <1>1, <2>1, <2>2 DEF OnPurposeInv
  <2>3. CASE Stored(s, "notOk") /\ retryAnother /\ mode[s] = "sync"
    <3>1. copies'[s] = copies[s] \cup {NewCopy(s, "notOk")}
      BY <2>3 DEF Stored, CallInv, CallTypeOK
    <3>2. NewCopy(s, "notOk").status = "notOk"
      BY DEF NewCopy
    <3> QED
      BY <1>1, <2>1, <2>3, <3>1, <3>2 DEF OnPurposeInv
  <2> QED
    BY <2>2, <2>3
<1> QED
  BY <1>4, <1>5, <1>6, <1>7 DEF SenderInv

(* The call ends with an answer: the application is told of the copy that  *)
(* was stored, of a failure, or nothing.                                   *)
LEMMA TellAfterAnswer ==
    ASSUME CallInv, NEW s \in Senders, Answer(s), NEW status,
           UNCHANGED copies \/ Stored(s, status),
           pc' = [pc EXCEPT ![s] = "done"], UNCHANGED times,
           \/ result'[s].kind \in {"none", "exception"}
           \/ result'[s] = Told(status, mq[s]) /\ Stored(s, status)
    PROVE  SenderInv(s)'
<1>1. UNCHANGED <<retryAnother, mode, layers, flag, sent>> /\ pc[s] = "answer"
  BY DEF Answer, callVars
<1>2. SenderInv(s) /\ sent[s] \in Nat /\ pc'[s] = "done"
  BY DEF CallInv, CallTypeOK
<1>3. CopiesInv(s)'
  BY <1>1, <1>2, CopiesAfterAnswer
<1>4. TriesInv(s)'
  BY <1>1, <1>2 DEF SenderInv, TriesInv, OpenStates
<1>5. Stored(s, status) => copies'[s] = copies[s] \cup {NewCopy(s, status)}
  BY DEF Stored, CallInv, CallTypeOK
<1>6. ToldInv(s)'
  <2>1. CASE result'[s].kind \in {"none", "exception"}
    BY <1>2, <2>1 DEF ToldInv
  <2>2. CASE result'[s] = Told(status, mq[s]) /\ Stored(s, status)
    <3>1. result'[s].kind = status /\ result'[s].queue = mq[s]
      BY <2>2 DEF Told
    <3>2. /\ NewCopy(s, status).n = sent[s] /\ NewCopy(s, status).queue = mq[s]
          /\ NewCopy(s, status).status = status
      BY DEF NewCopy
    <3> QED
      BY <1>1, <1>2, <1>5, <2>2, <3>1, <3>2 DEF ToldInv
  <2> QED
    BY <2>1, <2>2
<1>7. OnPurposeInv(s)'
  <2>1. NewCopy(s, status).n = sent[s]
    BY DEF NewCopy
  <2> QED
    BY <1>1, <1>2, <1>5, <2>1 DEF SenderInv, OnPurposeInv, OpenStates
<1> QED
  BY <1>3, <1>4, <1>6, <1>7 DEF SenderInv

LEMMA AnswerPreserves ==
    ASSUME CallInv, NEW s \in Senders, Answer(s)
    PROVE  CallInv'
<1>0. pc[s] = "answer" /\ DOMAIN result = Senders /\ result[s].kind = "none"
  BY DEF Answer, CallInv, CallTypeOK, SenderInv, ToldInv
<1>1. \A status : Stores(s, status) <=> Stored(s, status)
  BY DEF Stores, Stored, NewCopy
<1>2. ASSUME NEW kind, NEW q, Tell(s, Told(kind, q))
      PROVE  /\ pc' = [pc EXCEPT ![s] = "done"] /\ UNCHANGED times
             /\ result'[s].kind = "none" \/ result'[s] = Told(kind, q)
  BY <1>0, <1>2 DEF Tell, To
<1>3. Told("exception", NoQueue).kind = "exception"
  BY DEF Told
<1>4. SenderInv(s)'
  <2>1. CASE AnswerStored(s)
    <3>1. PICK status \in {"ok", "notOk"} :
              /\ Stores(s, status)
              /\ IF mode[s] = "sync" /\ status = "notOk" /\ retryAnother
                 THEN Again(s) ELSE Tell(s, Told(status, mq[s]))
      BY <2>1 DEF AnswerStored
    <3>2. Stored(s, status)
      BY <1>1, <3>1
    <3>3. CASE mode[s] = "sync" /\ status = "notOk" /\ retryAnother
      BY <3>1, <3>2, <3>3, AgainAfterAnswer
    <3>4. CASE ~(mode[s] = "sync" /\ status = "notOk" /\ retryAnother)
      <4>1. Tell(s, Told(status, mq[s]))
        BY <3>1, <3>4
      <4> QED
        BY <1>2, <3>2, <4>1, TellAfterAnswer
    <3> QED
      BY <3>3, <3>4
  <2>2. CASE AnswerRetryable(s) \/ AnswerError(s)
    <3>1. UNCHANGED copies /\ (Again(s) \/ Tell(s, Told("exception", NoQueue)))
      BY <2>2 DEF AnswerRetryable, AnswerError
    <3>2. CASE Again(s)
      BY <3>1, <3>2, AgainAfterAnswer
    <3>3. CASE Tell(s, Told("exception", NoQueue))
      BY <1>2, <1>3, <3>1, <3>3, TellAfterAnswer
    <3> QED
      BY <3>1, <3>2, <3>3
  <2>3. CASE NoAnswer(s)
    <3>1. UNCHANGED copies \/ Stored(s, "unknown")
      BY <1>1, <2>3 DEF NoAnswer
    <3>2. Tell(s, Told("exception", NoQueue))
      BY <2>3 DEF NoAnswer
    <3> QED
      BY <1>2, <1>3, <3>1, <3>2, TellAfterAnswer
  <2>4. CASE CallbackDropped(s)
    <3>1. UNCHANGED copies /\ UNCHANGED times /\ pc' = [pc EXCEPT ![s] = "done"]
          /\ result'[s].kind = "none"
      BY <1>0, <2>4 DEF CallbackDropped, To
    <3> QED
      BY <3>1, TellAfterAnswer
  <2> QED
    BY <2>1, <2>2, <2>3, <2>4 DEF Answer
<1> QED
  BY <1>4, AnswerOthers DEF CallInv

(* The process ends with every call that it makes.                         *)
LEMMA UseDeletedPreserves ==
    ASSUME CallInv, NEW s \in Senders, UseDeleted(s)
    PROVE  CallInv'
<1>1. /\ pc' = [t \in Senders |-> "gone"]
      /\ UNCHANGED <<layers, flag, times, sent, copies, result, mode, retryAnother>>
  BY DEF UseDeleted, callVars, tryVars, brokerVars
<1>2. CallTypeOK'
  BY <1>1 DEF CallInv, CallTypeOK
<1>3. ASSUME NEW t \in Senders PROVE SenderInv(t)'
  <2>1. pc'[t] = "gone" /\ SenderInv(t)
    BY <1>1 DEF CallInv
  <2>2. TriesInv(t)' /\ CopiesInv(t)'
    BY <1>1, <2>1 DEF SenderInv, TriesInv, CopiesInv, OpenStates
  <2>3. ToldInv(t)' /\ OnPurposeInv(t)'
    BY <1>1, <2>1 DEF SenderInv, ToldInv, OnPurposeInv, OpenStates
  <2> QED
    BY <2>2, <2>3 DEF SenderInv
<1> QED
  BY <1>2, <1>3 DEF CallInv

-----------------------------------------------------------------------------
(* The invariant of a send call, from sendDefaultImpl's first lookup to    *)
(* what processSendResponse makes of the answer.                           *)
THEOREM CallInvHolds == Spec => []CallInv
<1>1. ASSUME CallInv, [Next]_vars
      PROVE  CallInv'
  <2>1. CASE RouteChanges \/ UpdateTask \/ CleanOfflineBroker
    BY <1>1, <2>1, CallsFrame DEF RouteChanges, UpdateTask, CleanOfflineBroker
  <2>2. CASE \E s \in Senders : Call(s) \/ Step(s) \/ UseDeleted(s)
    <3>1. PICK s \in Senders : Call(s) \/ Step(s) \/ UseDeleted(s)
      BY <2>2
    <3> QED
      BY <1>1, <3>1, LookupPreserves, FindAddressAgainPreserves, SendMessagePreserves,
         AnswerPreserves, UseDeletedPreserves DEF Step
  <2>3. CASE UNCHANGED vars
    BY <1>1, <2>3, CallsFrame DEF vars
  <2> QED
    BY <1>1, <2>1, <2>2, <2>3 DEF Next
<1> QED
  BY <1>1, InitHolds, PTL DEF Spec

(* SEND_OK, or a status for a copy that is not safe, is only returned when *)
(* the broker has stored the last request in the queue that the SendResult *)
(* names (processSendResponse), for every mix of calls, retries, lost      *)
(* answers and route changes.                                              *)
THEOREM ToldTheTruth == Spec => []ResultIsStored
<1>1. CallInv => ResultIsStored
  BY DEF CallInv, SenderInv, ToldInv, ResultIsStored
<1> QED
  BY <1>1, CallInvHolds, PTL

(* A message is stored twice only by a sync call with                      *)
(* retryAnotherBrokerWhenNotStoreOK whose earlier copies were all reported *)
(* as not safe (the catch blocks and the status test of sendDefaultImpl).  *)
THEOREM NoStrayCopy == Spec => []RepeatedOnPurpose
<1>1. CallInv => RepeatedOnPurpose
  BY DEF CallInv, SenderInv, OnPurposeInv, RepeatedOnPurpose
<1> QED
  BY <1>1, CallInvHolds, PTL

(* A call makes three requests at most, and compresses the body as often   *)
(* at most: lookups without an address use up turns of the loop too.       *)
ThreeRequests == \A s \in Senders : sent[s] <= 3 /\ layers[s] <= 3

THEOREM AtMostThreeRequests == Spec => []ThreeRequests
<1>1. CallInv => ThreeRequests
  <2> SUFFICES ASSUME CallInv, NEW s \in Senders
               PROVE  sent[s] <= 3 /\ layers[s] <= 3
    BY DEF ThreeRequests
  <2>1. times[s] \in 0 .. 2 /\ sent[s] \in Nat /\ layers[s] \in Nat
    BY DEF CallInv, CallTypeOK
  <2> QED
    BY <2>1 DEF CallInv, SenderInv, TriesInv
<1> QED
  BY <1>1, CallInvHolds, PTL

-----------------------------------------------------------------------------
(* The types of the tables and of what a sender takes from them.           *)

LEMMA RoutesType ==
    /\ Len(RouteHistory) \in Nat \ {0}
    /\ DOMAIN RouteHistory = 1 .. Len(RouteHistory)
    /\ DOMAIN Routes = 1 .. Len(RouteHistory) + 1
    /\ Len(Routes) = Len(RouteHistory) + 1
<1> DEFINE S == {RouteHistory[i] : i \in DOMAIN RouteHistory}
<1>1. RouteHistory \in Seq(S \cup {DefaultRoute}) /\ RouteHistory # <<>>
  BY ProducerAssumption
<1> HIDE DEF S
<1> QED
  BY <1>1 DEF Routes

(* topicRouteData2TopicPublishInfo makes a list of queues of the route.    *)
LEMMA PublishQueuesType ==
    ASSUME NEW i \in DOMAIN Routes
    PROVE  PublishQueues(Routes[i]) \in Seq(Queues)
<1> DEFINE r == Routes[i]
           usable == {k \in DOMAIN r.queues :
                         r.order \/ r.queues[k].broker \in r.writeable \cap r.masters}
           Nth(n) == CHOOSE k \in usable : Cardinality({j \in usable : j < k}) = n - 1
<1>1. r.queues \in Seq(Queues)
  BY ProducerAssumption
<1>2. DOMAIN r.queues = 1 .. Len(r.queues) /\ Len(r.queues) \in Nat
  BY <1>1
<1>3. IsFiniteSet(1 .. Len(r.queues)) /\ usable \in SUBSET (1 .. Len(r.queues))
  BY <1>2, FS_Interval
<1>4. IsFiniteSet(usable) /\ (\A y \in usable : y \in Int) /\ Cardinality(usable) \in Nat
  BY <1>2, <1>3, FS_Subset, FS_CardinalityType
<1>5. ASSUME NEW n \in 1 .. Cardinality(usable)
      PROVE  r.queues[Nth(n)] \in Queues
  <2>1. n - 1 \in 0 .. Cardinality(usable) - 1
    BY <1>4, <1>5
  <2>2. \E k \in usable : Position(usable, k) = n - 1
    <3> HIDE DEF usable
    <3> QED
      BY <1>4, <2>1, PositionTaken
  <2>3. Nth(n) \in usable
    BY <2>2 DEF Position
  <2> HIDE DEF Nth
  <2> QED
    BY <1>1, <1>3, <1>2, <2>3
<1>6. PublishQueues(r) = [n \in 1 .. Cardinality(usable) |-> r.queues[Nth(n)]]
  BY DEF PublishQueues
<1> HIDE DEF Nth, usable, r
<1>7. [n \in 1 .. Cardinality(usable) |-> r.queues[Nth(n)]] \in Seq(Queues)
  BY <1>4, <1>5
<1> QED
  BY <1>6, <1>7 DEF r

(* selectOneMessageQueue returns a queue of the list or NULL.              *)
LEMMA SelectType ==
    ASSUME NEW lastBroker, info \in Seq(Queues), which \in 0 .. Period - 1
    PROVE  SelectOneMessageQueue(lastBroker) \in Queues \cup {NoQueue}
<1> DEFINE n == Len(info)
           At(i) == info[((which + i) % n) + 1]
           other == {i \in 0 .. n - 1 : At(i).broker # lastBroker}
<1>1. n \in Nat /\ DOMAIN info = 1 .. n /\ Period \in Nat
  BY ProducerAssumption
<1>2. CASE other = {}
  BY <1>2 DEF SelectOneMessageQueue
<1>3. CASE other # {}
  <2>1. other \in SUBSET (0 .. n - 1) /\ n - 1 \in Int /\ n > 0
    BY <1>1, <1>3
  <2>2. First(other) \in other
    <3> HIDE DEF other, n
    <3> QED
      BY <1>3, <2>1, FirstIsLeast
  <2>3. SelectOneMessageQueue(lastBroker) = At(First(other))
    BY <1>3 DEF SelectOneMessageQueue, First
  <2>4. First(other) \in 0 .. n - 1
    BY <2>1, <2>2
  <2> DEFINE f == First(other)
  <2> HIDE DEF f
  <2>5. which + f \in Int /\ n \in Nat /\ n > 0
    BY <1>1, <2>1, <2>4 DEF f
  <2>6. (which + f) % n \in 0 .. n - 1
    BY <2>5
  <2>7. info[((which + f) % n) + 1] \in Queues
    BY <1>1, <2>6
  <2> QED
    BY <2>3, <2>7 DEF f
<1> QED
  BY <1>2, <1>3

(* The invariant: a sender that looks for an address, sends or waits for   *)
(* the answer has a queue.                                                 *)
QueueStates == {"address", "addressAgain", "request", "answer"}

TableType ==
    /\ ns \in DOMAIN RouteHistory
    /\ route \in 0 .. Len(Routes)
    /\ addr \subseteq Brokers
    /\ known \in BOOLEAN
    /\ info \in Seq(Queues) /\ (info # <<>> => known)
    /\ which \in 0 .. Period - 1
    /\ dangling \subseteq Senders

ChoiceType ==
    /\ retryAnother \in BOOLEAN
    /\ mode \in [Senders -> AllModes]
    /\ size \in [Senders -> AllSizes]
    /\ last \in [Senders -> {q.broker : q \in Queues} \cup {NoBroker}]
    /\ mq \in [Senders -> Queues \cup {NoQueue}]
    /\ \A s \in Senders : pc[s] \in QueueStates => mq[s] \in Queues

OutcomeType ==
    /\ \A s \in Senders : copies[s] \subseteq Copies
    /\ result \in [Senders -> [kind : {"none", "ok", "notOk", "exception"},
                               queue : Queues \cup {NoQueue}]]

TypeInv == TableType /\ ChoiceType /\ OutcomeType

(* With CallInv, these are the types of all of the state.                  *)
LEMMA TypeInvSuffices == CallInv /\ TypeInv => TypeOK
<1> SUFFICES ASSUME CallInv, TypeInv PROVE TypeOK
  OBVIOUS
<1>1. layers \in [Senders -> 0 .. 3] /\ sent \in [Senders -> 0 .. 3]
  <2>1. ASSUME NEW s \in Senders PROVE layers[s] \in 0 .. 3 /\ sent[s] \in 0 .. 3
    <3>1. times[s] \in 0 .. 2 /\ sent[s] \in Nat /\ layers[s] \in Nat
      BY DEF CallInv, CallTypeOK
    <3> QED
      BY <3>1 DEF CallInv, SenderInv, TriesInv
  <2> QED
    BY <2>1 DEF CallInv, CallTypeOK
<1>2. pc \in [Senders -> {"idle", "find", "update", "findAgain", "default", "findLast",
                          "select", "address", "addressAgain", "request", "answer",
                          "done", "gone"}]
  BY DEF CallInv, CallTypeOK, OpenStates
<1>3. flag \in [Senders -> BOOLEAN] /\ times \in [Senders -> 0 .. 2]
  BY DEF CallInv, CallTypeOK
<1> QED
  BY <1>1, <1>2, <1>3 DEF TypeInv, TableType, ChoiceType, OutcomeType, TypeOK

LEMMA InitTypes == Init => TypeInv
<1> SUFFICES ASSUME Init PROVE TypeInv
  OBVIOUS
<1>1. TableType
  <2>1. 1 \in DOMAIN RouteHistory /\ 0 \in 0 .. Len(Routes) /\ 0 \in 0 .. Period - 1
    BY RoutesType, ProducerAssumption
  <2>2. <<>> \in Seq(Queues)
    OBVIOUS
  <2> QED
    BY <2>1, <2>2 DEF Init, TableType
<1>2. ChoiceType
  BY DEF Init, ChoiceType, QueueStates
<1>3. OutcomeType
  BY DEF Init, OutcomeType, Untold
<1> QED
  BY <1>1, <1>2, <1>3 DEF TypeInv

(* An update of the route replaces the tables as a whole.                  *)
LEMMA ApplyRouteType ==
    ASSUME TableType, NEW i \in DOMAIN Routes, ApplyRoute(i), UNCHANGED ns
    PROVE  TableType'
<1>1. CASE UNCHANGED tableVars
  BY <1>1 DEF tableVars, routeVars, TableType
<1>2. CASE /\ addr' = (addr \ Routes[i].brokers) \cup Routes[i].masters
           /\ route' = i
           /\ UpdateTopicPublishInfo(PublishQueues(Routes[i]))
  <2>1. Routes[i].masters \subseteq Brokers
    BY ProducerAssumption DEF Brokers
  <2>2. addr' \subseteq Brokers
    BY <1>2, <2>1 DEF TableType
  <2>3. info' \in Seq(Queues) /\ known' = TRUE /\ which' = which
    BY <1>2, PublishQueuesType DEF UpdateTopicPublishInfo
  <2>4. dangling' \subseteq Senders
    BY <1>2 DEF UpdateTopicPublishInfo, TableType
  <2>5. route' \in 0 .. Len(Routes)
    BY <1>2, RoutesType
  <2> QED
    BY <2>2, <2>3, <2>4, <2>5 DEF TableType
<1> QED
  BY <1>1, <1>2 DEF ApplyRoute

LEMMA UpdateType ==
    ASSUME TableType, UpdateTopic \/ UpdateFails \/ ApplyRoute(DefaultIndex), UNCHANGED ns
    PROVE  TableType'
<1>1. CASE UNCHANGED tableVars
  BY <1>1 DEF tableVars, routeVars, TableType
<1>2. ns \in DOMAIN Routes /\ DefaultIndex \in DOMAIN Routes
  BY RoutesType DEF TableType, DefaultIndex
<1> QED
  BY <1>1, <1>2, ApplyRouteType DEF UpdateTopic, UpdateFails

(* The steps of the name server and the timer tasks.                       *)
LEMMA EnvironmentType ==
    ASSUME TypeInv, RouteChanges \/ UpdateTask \/ CleanOfflineBroker
    PROVE  TypeInv'
<1>1. UNCHANGED <<retryAnother, pc, callVars, tryVars, brokerVars>>
  BY DEF RouteChanges, UpdateTask, CleanOfflineBroker
<1>2. ChoiceType' /\ OutcomeType'
  BY <1>1 DEF TypeInv, ChoiceType, OutcomeType, callVars, tryVars, brokerVars
<1>3. TableType'
  <2>1. CASE RouteChanges
    BY <2>1 DEF RouteChanges, tableVars, routeVars, TypeInv, TableType
  <2>2. CASE UpdateTask
    BY <2>2, UpdateType DEF UpdateTask, TypeInv
  <2>3. CASE CleanOfflineBroker
    <3>1. addr' \subseteq Brokers
      BY <2>3 DEF CleanOfflineBroker, TypeInv, TableType
    <3> QED
      BY <2>3, <3>1 DEF CleanOfflineBroker, TypeInv, TableType
  <2> QED
    BY <2>1, <2>2, <2>3
<1> QED
  BY <1>2, <1>3 DEF TypeInv

(* What a sender's step may do to its own queue, place and result.         *)
Chooses(s) ==
    /\ \E place : pc' = [pc EXCEPT ![s] = place]
    /\ \/ UNCHANGED mq
       \/ \E q \in Queues \cup {NoQueue} : mq' = [mq EXCEPT ![s] = q]
    /\ pc'[s] \in QueueStates => mq'[s] \in Queues

LEMMA ChoiceStep ==
    ASSUME TypeInv, CallInv, NEW s \in Senders, Chooses(s), UNCHANGED <<retryAnother, callVars>>,
           UNCHANGED last \/ \E q \in Queues : last' = [last EXCEPT ![s] = q.broker]
    PROVE  ChoiceType'
<1>1. last' \in [Senders -> {q.broker : q \in Queues} \cup {NoBroker}]
  BY DEF TypeInv, ChoiceType
<1>2. mq' \in [Senders -> Queues \cup {NoQueue}]
  BY DEF Chooses, TypeInv, ChoiceType
<1>3. ASSUME NEW t \in Senders, pc'[t] \in QueueStates PROVE mq'[t] \in Queues
  <2>1. CASE t = s
    BY <1>3, <2>1 DEF Chooses
  <2>2. CASE t # s
    BY <1>3, <2>2 DEF Chooses, TypeInv, ChoiceType, CallInv, CallTypeOK
  <2> QED
    BY <2>1, <2>2
<1> QED
  BY <1>1, <1>2, <1>3 DEF TypeInv, ChoiceType, callVars

LEMMA ThrowType ==
    ASSUME TypeInv, NEW s \in Senders, Throw(s), UNCHANGED copies
    PROVE  OutcomeType'
<1>1. Told("exception", NoQueue) \in [kind : {"none", "ok", "notOk", "exception"},
                                      queue : Queues \cup {NoQueue}]
  BY DEF Told
<1> QED
  BY <1>1 DEF Throw, TypeInv, OutcomeType

(* What follows a lookup.                                                  *)
LEMMA UseType ==
    ASSUME TypeInv, CallInv, NEW s \in Senders, Use(s),
           UNCHANGED <<retryAnother, callVars, copies>>
    PROVE  ChoiceType' /\ OutcomeType' /\ which' \in 0 .. Period - 1
<1>0. /\ mq[s] \in Queues \cup {NoQueue}
      /\ \A place : [pc EXCEPT ![s] = place][s] = place
      /\ \A q : [mq EXCEPT ![s] = q][s] = q
  BY DEF TypeInv, ChoiceType, CallInv, CallTypeOK
<1>1. CASE UNCHANGED <<which, last, mq, result>> /\ mq[s] # NoQueue /\ To(s, "addressAgain")
  <2>1. Chooses(s)
    BY <1>0, <1>1 DEF Chooses, To
  <2> QED
    BY <1>1, <2>1, ChoiceStep DEF TypeInv, TableType, OutcomeType
<1>2. CASE UNCHANGED <<which, last, mq, result>> /\ To(s, "select")
  <2>1. pc' = [pc EXCEPT ![s] = "select"] /\ pc'[s] = "select" /\ mq' = mq
    BY <1>0, <1>2 DEF To
  <2>2. Chooses(s)
    BY <2>1 DEF Chooses, QueueStates
  <2> QED
    BY <1>2, <2>2, ChoiceStep DEF TypeInv, TableType, OutcomeType
<1>3. CASE LET q == SelectOneMessageQueue(last[s]) IN
            /\ which' = IF info # <<>> \/ last[s] # NoBroker THEN (which + 1) % Period ELSE which
            /\ \/ /\ q # NoQueue
                  /\ mq' = [mq EXCEPT ![s] = q]
                  /\ last' = [last EXCEPT ![s] = q.broker]
                  /\ To(s, "address")
                  /\ UNCHANGED result
               \/ /\ q = NoQueue
                  /\ Throw(s)
                  /\ UNCHANGED <<mq, last>>
  <2> DEFINE q == SelectOneMessageQueue(last[s])
  <2>1. q \in Queues \cup {NoQueue}
    BY SelectType DEF TypeInv, TableType
  <2>2. which' \in 0 .. Period - 1
    BY <1>3, ProducerAssumption DEF TypeInv, TableType
  <2> HIDE DEF q
  <2>3. CASE /\ q # NoQueue /\ mq' = [mq EXCEPT ![s] = q]
             /\ last' = [last EXCEPT ![s] = q.broker] /\ To(s, "address") /\ UNCHANGED result
    <3>1. q \in Queues
      BY <2>1, <2>3
    <3>2. Chooses(s)
      BY <1>0, <2>3, <3>1 DEF Chooses, To
    <3> QED
      BY <2>2, <2>3, <3>1, <3>2, ChoiceStep DEF TypeInv, OutcomeType
  <2>4. CASE q = NoQueue /\ Throw(s) /\ UNCHANGED <<mq, last>>
    <3>1. pc' = [pc EXCEPT ![s] = "done"] /\ pc'[s] = "done" /\ mq' = mq
      BY <1>0, <2>4 DEF Throw, To
    <3>2. Chooses(s)
      BY <3>1 DEF Chooses, QueueStates
    <3> QED
      BY <2>2, <2>4, <3>2, ChoiceStep, ThrowType
  <2> QED
    BY <1>3, <2>3, <2>4 DEF q
<1> QED
  BY <1>1, <1>2, <1>3 DEF Use

LEMMA LookupType ==
    ASSUME TypeInv, CallInv, NEW s \in Senders,
           TryToFind(s) \/ FindAgain(s) \/ FindLast(s)
    PROVE  TypeInv'
<1>1. UNCHANGED <<ns, routeVars, dangling, retryAnother, callVars, copies>>
  BY DEF TryToFind, FindAgain, FindLast
<1>2. CASE Use(s) /\ UNCHANGED known
  BY <1>1, <1>2, UseType DEF TypeInv, TableType, routeVars
<1>3. CASE /\ info = <<>> /\ known' \in BOOLEAN /\ which' \in {0, which}
           /\ \E place \in {"update", "default"} : To(s, place)
           /\ UNCHANGED <<mq, last, result>>
  <2>1. Chooses(s)
    <3>1. \A place : [pc EXCEPT ![s] = place][s] = place
      BY DEF CallInv, CallTypeOK
    <3> QED
      BY <1>3, <3>1 DEF Chooses, To, QueueStates
  <2>2. which' \in 0 .. Period - 1
    BY <1>3, ProducerAssumption DEF TypeInv, TableType
  <2>3. TableType'
    BY <1>1, <1>3, <2>2 DEF TypeInv, TableType, routeVars
  <2> QED
    BY <1>1, <1>3, <2>1, <2>3, ChoiceStep DEF TypeInv, OutcomeType
<1> QED
  BY <1>2, <1>3 DEF TryToFind, FindAgain, FindLast, TypeInv, TableType

LEMMA UpdateStepType ==
    ASSUME TypeInv, CallInv, NEW s \in Senders, UpdateRoute(s) \/ UpdateDefault(s)
    PROVE  TypeInv'
<1>1. UNCHANGED <<ns, retryAnother, callVars, tryVars, brokerVars>>
  BY DEF UpdateRoute, UpdateDefault
<1>2. Chooses(s)
  <2>1. \A place : [pc EXCEPT ![s] = place][s] = place
    BY DEF CallInv, CallTypeOK
  <2> QED
    BY <1>1, <2>1 DEF UpdateRoute, UpdateDefault, Chooses, To, QueueStates, tryVars
<1>3. TableType'
  BY <1>1, UpdateType DEF UpdateRoute, UpdateDefault, TypeInv
<1> QED
  BY <1>1, <1>2, <1>3, ChoiceStep DEF TypeInv, OutcomeType, tryVars, brokerVars

(* Steps that leave the tables alone.                                      *)
LEMMA ChooseType ==
    ASSUME TypeInv, CallInv, NEW s \in Senders, Call(s) \/ SelectQueue(s) \/ FindAddress(s)
    PROVE  TypeInv'
<1>0. /\ \A place : [pc EXCEPT ![s] = place][s] = place
      /\ \A q : [mq EXCEPT ![s] = q][s] = q
  BY DEF TypeInv, ChoiceType, CallInv, CallTypeOK
<1>1. UNCHANGED <<ns, tableVars, retryAnother, callVars, last, copies>>
  BY DEF Call, SelectQueue, FindAddress, tryVars, brokerVars
<1>2. TableType'
  BY <1>1 DEF TypeInv, TableType, tableVars, routeVars
<1>3. Chooses(s) /\ (UNCHANGED result \/ Throw(s))
  <2>1. CASE Call(s)
    BY <1>0, <2>1 DEF Call, Chooses, To, QueueStates, brokerVars
  <2>2. CASE SelectQueue(s)
    <3>1. \A i \in DOMAIN info : info[i] \in Queues
      BY DEF TypeInv, TableType
    <3> QED
      BY <1>0, <2>2, <3>1 DEF SelectQueue, Chooses, Throw, To, QueueStates
  <2>3. CASE FindAddress(s)
    <3>1. mq[s] \in Queues
      BY <2>3 DEF FindAddress, TypeInv, ChoiceType, QueueStates
    <3> QED
      BY <1>0, <2>3, <3>1 DEF FindAddress, Chooses, To, tryVars, brokerVars
  <2> QED
    BY <2>1, <2>2, <2>3
<1> QED
  BY <1>1, <1>2, <1>3, ChoiceStep, ThrowType DEF TypeInv, OutcomeType

LEMMA AgainChooses ==
    ASSUME TypeInv, CallInv, NEW s \in Senders, Again(s)
    PROVE  Chooses(s) /\ (UNCHANGED result \/ Throw(s))
<1>1. \A place : [pc EXCEPT ![s] = place][s] = place
  BY DEF CallInv, CallTypeOK
<1> QED
  BY <1>1 DEF Again, Throw, To, Chooses, QueueStates

LEMMA RequestType ==
    ASSUME TypeInv, CallInv, NEW s \in Senders, FindAddressAgain(s) \/ SendMessage(s)
    PROVE  TypeInv'
<1>0. \A place : [pc EXCEPT ![s] = place][s] = place
  BY DEF CallInv, CallTypeOK
<1>1. UNCHANGED <<ns, tableVars, retryAnother, callVars, last, copies>>
  BY DEF FindAddressAgain, SendMessage
<1>2. TableType'
  BY <1>1 DEF TypeInv, TableType, tableVars, routeVars
<1>3. mq[s] \in Queues
  BY DEF FindAddressAgain, SendMessage, TypeInv, ChoiceType, QueueStates
<1>4. Chooses(s) /\ (UNCHANGED result \/ Throw(s))
  <2>1. CASE FindAddressAgain(s)
    BY <1>0, <1>3, <2>1, AgainChooses DEF FindAddressAgain, Retried, Throw, To, Chooses,
       QueueStates
  <2>2. CASE SendMessage(s)
    BY <1>0, <1>3, <2>2 DEF SendMessage, To, Chooses
  <2> QED
    BY <2>1, <2>2
<1> QED
  BY <1>1, <1>2, <1>4, ChoiceStep, ThrowType DEF TypeInv, OutcomeType

(* The answer: a copy of the request, with its number and its queue.       *)
LEMMA AnswerType ==
    ASSUME TypeInv, CallInv, NEW s \in Senders, Answer(s)
    PROVE  TypeInv'
<1>0. /\ \A place : [pc EXCEPT ![s] = place][s] = place
      /\ \A e : [copies EXCEPT ![s] = e][s] = e
      /\ DOMAIN copies = Senders
  BY DEF CallInv, CallTypeOK
<1>1. UNCHANGED <<ns, tableVars, retryAnother, callVars, last>>
  BY DEF Answer
<1>2. TableType'
  BY <1>1 DEF TypeInv, TableType, tableVars, routeVars
<1>3. mq[s] \in Queues
  BY DEF Answer, TypeInv, ChoiceType, QueueStates
<1>4. sent[s] \in 1 .. 3 /\ layers[s] \in 0 .. 3 /\ flag[s] \in BOOLEAN
  <2>1. /\ times[s] \in 0 .. 2 /\ sent[s] \in Nat /\ layers[s] \in Nat
        /\ flag[s] \in BOOLEAN /\ pc[s] = "answer"
    BY DEF Answer, CallInv, CallTypeOK
  <2> QED
    BY <2>1 DEF CallInv, SenderInv, TriesInv
<1>5. \A status \in {"ok", "notOk", "unknown"} : NewCopy(s, status) \in Copies
  BY <1>3, <1>4 DEF NewCopy, Copies
<1>6. ASSUME UNCHANGED copies \/ \E status \in {"ok", "notOk", "unknown"} : Stores(s, status)
      PROVE  \A t \in Senders : copies'[t] \subseteq Copies
  <2>1. CASE UNCHANGED copies
    BY <2>1 DEF TypeInv, OutcomeType
  <2>2. CASE \E status \in {"ok", "notOk", "unknown"} : Stores(s, status)
    <3>1. PICK status \in {"ok", "notOk", "unknown"} : Stores(s, status)
      BY <2>2
    <3>2. copies' = [copies EXCEPT ![s] = copies[s] \cup {NewCopy(s, status)}]
      BY <3>1 DEF Stores, NewCopy
    <3>3. NewCopy(s, status) \in Copies
      BY <1>5
    <3> HIDE DEF Copies
    <3>4. ASSUME NEW t \in Senders PROVE copies'[t] \subseteq Copies
      BY <1>0, <3>2, <3>3 DEF TypeInv, OutcomeType
    <3> QED
      BY <3>4
  <2> QED
    BY <1>6, <2>1, <2>2
<1>7. \A t \in Senders : copies'[t] \subseteq Copies
  BY <1>6 DEF Answer, AnswerStored, AnswerRetryable, AnswerError, NoAnswer, CallbackDropped
<1>8. ASSUME NEW kind \in {"ok", "notOk", "exception"}, NEW q \in Queues \cup {NoQueue},
             Tell(s, Told(kind, q))
      PROVE  /\ Chooses(s)
             /\ result' \in [Senders -> [kind : {"none", "ok", "notOk", "exception"},
                                         queue : Queues \cup {NoQueue}]]
  <2>1. Told(kind, q) \in [kind : {"none", "ok", "notOk", "exception"},
                           queue : Queues \cup {NoQueue}]
    BY DEF Told
  <2> QED
    BY <1>0, <1>8, <2>1 DEF Tell, To, Chooses, QueueStates, TypeInv, OutcomeType
<1>9. ASSUME Again(s)
      PROVE  /\ Chooses(s)
             /\ result' \in [Senders -> [kind : {"none", "ok", "notOk", "exception"},
                                         queue : Queues \cup {NoQueue}]]
  <2>1. Told("exception", NoQueue) \in [kind : {"none", "ok", "notOk", "exception"},
                                        queue : Queues \cup {NoQueue}]
    BY DEF Told
  <2>2. Chooses(s) /\ (UNCHANGED result \/ Throw(s))
    BY <1>9, AgainChooses
  <2> QED
    BY <2>1, <2>2 DEF Throw, TypeInv, OutcomeType
<1>10. /\ Chooses(s)
       /\ result' \in [Senders -> [kind : {"none", "ok", "notOk", "exception"},
                                   queue : Queues \cup {NoQueue}]]
  <2>1. CASE AnswerStored(s)
    BY <1>3, <1>8, <1>9, <2>1 DEF AnswerStored
  <2>2. CASE AnswerRetryable(s) \/ AnswerError(s) \/ NoAnswer(s)
    BY <1>8, <1>9, <2>2 DEF AnswerRetryable, AnswerError, NoAnswer
  <2>3. CASE CallbackDropped(s)
    BY <1>0, <2>3 DEF CallbackDropped, To, Chooses, QueueStates, TypeInv, OutcomeType
  <2> QED
    BY <2>1, <2>2, <2>3 DEF Answer
<1>11. ChoiceType'
  BY <1>1, <1>10, ChoiceStep
<1> QED
  BY <1>2, <1>7, <1>10, <1>11 DEF TypeInv, OutcomeType

LEMMA UseDeletedType ==
    ASSUME TypeInv, NEW s \in Senders, UseDeleted(s)
    PROVE  TypeInv'
BY DEF UseDeleted, TypeInv, TableType, ChoiceType, OutcomeType, QueueStates,
   tableVars, routeVars, callVars, tryVars, brokerVars

(* What a producer keeps has its type for any routes, any senders and any  *)
(* answers: m_sendWhichQueue stays in its range, the publish information   *)
(* is a list of queues of the routes, whoever sends has a queue, and a     *)
(* copy has the number of one of three requests.                           *)
THEOREM TypeCorrect == Spec => []TypeOK
<1>1. ASSUME TypeInv, CallInv, [Next]_vars
      PROVE  TypeInv'
  <2>1. CASE RouteChanges \/ UpdateTask \/ CleanOfflineBroker
    BY <1>1, <2>1, EnvironmentType
  <2>2. CASE \E s \in Senders : Call(s) \/ Step(s) \/ UseDeleted(s)
    <3>1. PICK s \in Senders : Call(s) \/ Step(s) \/ UseDeleted(s)
      BY <2>2
    <3> QED
      BY <1>1, <3>1, LookupType, UpdateStepType, ChooseType, RequestType, AnswerType,
         UseDeletedType DEF Step
  <2>3. CASE UNCHANGED vars
    BY <1>1, <2>3 DEF vars, TypeInv, TableType, ChoiceType, OutcomeType,
       tableVars, routeVars, callVars, tryVars, brokerVars
  <2> QED
    BY <1>1, <2>1, <2>2, <2>3 DEF Next
<1> QED
  BY <1>1, InitTypes, CallInvHolds, TypeInvSuffices, PTL DEF Spec
=============================================================================
