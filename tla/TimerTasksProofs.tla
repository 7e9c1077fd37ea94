-------------------------- MODULE TimerTasksProofs --------------------------
(***************************************************************************)
(* Proofs about TimerTasks, for any set of tasks and any number of pool    *)
(* workers: the types, and that a periodic task never runs beside itself.  *)
(***************************************************************************)
EXTENDS TimerTasks, FiniteSetTheorems, TLAPS

(* A worker's flags: it is woken while it waits or is stopped, has no      *)
(* place in m_idle once it is woken, and leaves nothing behind.            *)
FlagsInv ==
    \A w \in Workers :
        /\ w \in canWork => at[w] = "waiting" \/ w \in stop
        /\ w \in canWork \cap idle => w \in stop
        /\ at[w] = "absent" => w \notin idle \cup canWork \cup stop

(* A task that is queued, with a worker or about to be added is marked,    *)
(* and is in one of these places only.                                     *)
QueuedInv ==
    \A i \in 1 .. Len(works) :
        /\ works[i] \in processing
        /\ works[i] # adding
        /\ \A j \in 1 .. Len(works) : works[i] = works[j] => i = j

AtWorkInv ==
    \A w \in Workers : job[w] # NoWork =>
        /\ job[w] \in processing
        /\ job[w] # adding
        /\ \A i \in 1 .. Len(works) : works[i] # job[w]
        /\ \A v \in Workers : job[v] = job[w] => v = w

AddingInv == adding # NoWork => adding \in processing

TaskInv == TypeOK /\ FlagsInv /\ QueuedInv /\ AtWorkInv /\ AddingInv

PlaceInv == QueuedInv /\ AtWorkInv /\ AddingInv

-----------------------------------------------------------------------------
(* The initial workers wait and nothing is queued.                         *)
LEMMA InitHolds == Init => TaskInv
<1> SUFFICES ASSUME Init PROVE TaskInv
  OBVIOUS
<1>1. PICK W \in SUBSET Workers :
        /\ at = [w \in Workers |-> IF w \in W THEN "waiting" ELSE "absent"]
        /\ idle = W
  BY DEF Init, PoolInit
<1>2. TypeOK
  <2>1. at \in [Workers -> {"absent", "waiting", "taking", "doing", "empty", "leaving"}]
    BY <1>1
  <2>2. /\ works \in Seq(Works)
        /\ job \in [Workers -> Works \cup {NoWork}]
        /\ canWork = {} /\ stop = {} /\ destroy = FALSE /\ missed = FALSE
    BY DEF Init, PoolInit
  <2>3. \A w \in Workers : job[w] = NoWork /\ at[w] # "doing"
    BY <1>1 DEF Init, PoolInit
  <2>4. \A w \in idle : at[w] = "waiting"
    BY <1>1
  <2>5. PoolTypeOK
    BY <1>1, <2>1, <2>2, <2>3, <2>4 DEF PoolTypeOK
  <2> QED
    BY <2>5 DEF Init, TypeOK
<1>3. FlagsInv
  BY <1>1 DEF Init, PoolInit, FlagsInv
<1>4. QueuedInv /\ AtWorkInv /\ AddingInv
  BY DEF Init, PoolInit, QueuedInv, AtWorkInv, AddingInv
<1> QED
  BY <1>2, <1>3, <1>4 DEF TaskInv

(* Steps that move no task.                                                *)
LEMMA PlaceFrame ==
    ASSUME PlaceInv, UNCHANGED <<works, job, adding, processing>>
    PROVE  PlaceInv'
BY DEF PlaceInv, QueuedInv, AtWorkInv, AddingInv

(* Steps that leave the pool alone.                                        *)
LEMMA PoolFrame ==
    ASSUME PoolTypeOK, FlagsInv, UNCHANGED poolVars
    PROVE  PoolTypeOK' /\ FlagsInv'
BY DEF PoolTypeOK, FlagsInv, poolVars

(* What the owner does to the timer thread's lists.                        *)
LEMMA OwnerPreserves ==
    ASSUME TaskInv,
           \/ \E t \in Works : \/ RegisterTimer(t) \/ RegisterTask(t)
                               \/ UnRegisterTimer(t) \/ UnRegisterTask(t)
           \/ Shutdown \/ CloseTimerThread \/ CheckTimeOut
    PROVE  TaskInv'
<1> USE DEF RegisterTimer, RegisterTask, UnRegisterTimer, UnRegisterTask,
            Shutdown, CloseTimerThread, CheckTimeOut
<1>1. UNCHANGED poolVars /\ UNCHANGED <<adding, processing>>
  OBVIOUS
<1>2. UNCHANGED <<works, job, adding, processing>>
  BY <1>1 DEF poolVars
<1>3. /\ timers' \subseteq Works /\ timerTasks' \subseteq Works /\ due' \subseteq Works
      /\ closed' \in BOOLEAN
      /\ app' \in {"open", "unregistering", "destroying", "joining", "closed"}
  BY DEF TaskInv, TypeOK
<1>4. PoolTypeOK' /\ FlagsInv'
  BY <1>1, PoolFrame DEF TaskInv, TypeOK
<1>5. PlaceInv'
  BY <1>2, PlaceFrame DEF TaskInv, PlaceInv
<1> QED
  BY <1>1, <1>3, <1>4, <1>5 DEF TaskInv, TypeOK, PlaceInv

(* Stopping idle workers, or all of them, wakes them too.                  *)
LEMMA StopPreserves ==
    ASSUME PoolTypeOK, FlagsInv, NEW W \in SUBSET Present, Stop(W),
           UNCHANGED <<works, at, idle, job, missed>>, destroy' \in BOOLEAN
    PROVE  PoolTypeOK' /\ FlagsInv'
<1>1. \A w \in W : w \in Workers /\ at[w] # "absent"
  BY DEF Present
<1>2. PoolTypeOK'
  BY <1>1 DEF PoolTypeOK, Stop
<1>3. FlagsInv'
  BY <1>1 DEF FlagsInv, Stop
<1> QED
  BY <1>2, <1>3

(* Destroy drops nothing yet: what is queued stays until the workers have  *)
(* left.                                                                   *)
LEMMA DestroyPreserves ==
    ASSUME TaskInv, DestroyPool
    PROVE  TaskInv'
<1>1. PoolTypeOK' /\ FlagsInv'
  BY StopPreserves DEF TaskInv, TypeOK, DestroyPool, Destroy
<1>2. PlaceInv'
  BY PlaceFrame DEF TaskInv, PlaceInv, DestroyPool, Destroy
<1> QED
  BY <1>1, <1>2 DEF TaskInv, TypeOK, PlaceInv, DestroyPool

(* The manager stops idle workers, whatever they were woken for.           *)
LEMMA ManagerPreserves ==
    ASSUME TaskInv, Manager
    PROVE  TaskInv'
<1>1. PICK W \in SUBSET idle : Stop(W)
  BY DEF Manager, RemoveIdleThreads
<1>2. W \in SUBSET Present
  BY DEF TaskInv, TypeOK, PoolTypeOK, FlagsInv, Present
<1>3. UNCHANGED <<works, at, idle, job, destroy, missed>> /\ UNCHANGED timerVars
  BY DEF Manager, RemoveIdleThreads
<1>4. destroy' \in BOOLEAN
  BY <1>3 DEF TaskInv, TypeOK, PoolTypeOK
<1>5. PoolTypeOK' /\ FlagsInv'
  BY <1>1, <1>2, <1>3, <1>4, StopPreserves DEF TaskInv, TypeOK
<1>6. PlaceInv'
  BY <1>3, PlaceFrame DEF TaskInv, PlaceInv, timerVars
<1> QED
  BY <1>3, <1>5, <1>6 DEF TaskInv, TypeOK, PlaceInv, timerVars

(* Close clears the queue when every worker has left.                      *)
LEMMA CloseReturnsPreserves ==
    ASSUME TaskInv, CloseReturns
    PROVE  TaskInv'
<1>1. works' = <<>> /\ UNCHANGED <<at, idle, canWork, stop, job, destroy, missed>>
  BY DEF CloseReturns, JoinWorkers
<1>2. UNCHANGED <<timers, timerTasks, due, adding, processing, closed>> /\ app' = "closed"
  BY DEF CloseReturns
<1>3. TypeOK'
  BY <1>1, <1>2 DEF TaskInv, TypeOK, PoolTypeOK
<1>4. FlagsInv'
  BY <1>1 DEF TaskInv, FlagsInv
<1>5. QueuedInv' /\ AtWorkInv' /\ AddingInv'
  BY <1>1, <1>2 DEF TaskInv, QueuedInv, AtWorkInv, AddingInv
<1> QED
  BY <1>3, <1>4, <1>5 DEF TaskInv

(* OnTimeOut marks a task that is nowhere: the mark says so.               *)
LEMMA OnTimeOutPreserves ==
    ASSUME TaskInv, NEW t \in Works, OnTimeOut(t)
    PROVE  TaskInv'
<1>1. UNCHANGED poolVars /\ UNCHANGED <<timers, timerTasks, closed, app>> /\ due' = due \ {t}
  BY DEF OnTimeOut
<1>2. UNCHANGED <<works, job>>
  BY <1>1 DEF poolVars
<1>3. PoolTypeOK' /\ FlagsInv'
  BY <1>1, PoolFrame DEF TaskInv, TypeOK
<1>4. CASE t \in timerTasks \ processing
  <2>1. processing' = processing \cup {t} /\ adding' = t
    BY <1>4 DEF OnTimeOut
  <2>2. QueuedInv' /\ AtWorkInv' /\ AddingInv'
    BY <1>2, <1>4, <2>1 DEF TaskInv, QueuedInv, AtWorkInv, AddingInv
  <2> QED
    BY <1>1, <1>3, <2>1, <2>2 DEF TaskInv, TypeOK
<1>5. CASE t \notin timerTasks \ processing
  <2>1. UNCHANGED <<processing, adding>>
    BY <1>5 DEF OnTimeOut
  <2>2. PlaceInv'
    BY <1>2, <2>1, PlaceFrame DEF TaskInv, PlaceInv
  <2> QED
    BY <1>1, <1>3, <2>1, <2>2 DEF TaskInv, TypeOK, PlaceInv
<1> QED
  BY <1>4, <1>5

(* WakeOneThread, with the new workers of AddThreads or with none.         *)
LEMMA WakePreserves ==
    ASSUME PoolTypeOK, FlagsInv, NEW new \in SUBSET (Workers \ Present),
           NEW w \in idle \cup new, Wake(w, new), works' \in Seq(Works),
           UNCHANGED <<stop, job, destroy>>
    PROVE  PoolTypeOK' /\ FlagsInv'
<1>1. \A x \in new : x \in Workers /\ at[x] = "absent"
  BY DEF Present
<1>2. w \in Workers
  BY <1>1 DEF PoolTypeOK
<1>3. \A x \in Workers : at'[x] = IF x \in new THEN "waiting" ELSE at[x]
  BY DEF Wake
<1>4. /\ idle' = (idle \cup new) \ {w} /\ canWork' = canWork \cup {w}
      /\ stop' = stop
  BY DEF Wake
<1>5. at' \in [Workers -> {"absent", "waiting", "taking", "doing", "empty", "leaving"}]
  BY DEF Wake, PoolTypeOK
<1>6. missed' \in BOOLEAN
  BY DEF Wake
<1>7. PoolTypeOK'
  BY <1>1, <1>2, <1>3, <1>4, <1>5, <1>6 DEF PoolTypeOK
<1>8. FlagsInv'
  <2> SUFFICES ASSUME NEW x \in Workers
               PROVE  /\ x \in canWork' => at'[x] = "waiting" \/ x \in stop'
                      /\ x \in canWork' \cap idle' => x \in stop'
                      /\ at'[x] = "absent" => x \notin idle' \cup canWork' \cup stop'
    BY DEF FlagsInv
  <2>1. CASE x = w
    BY <1>1, <1>3, <1>4, <2>1 DEF FlagsInv, PoolTypeOK
  <2>2. CASE x # w
    BY <1>1, <1>3, <1>4, <2>2 DEF FlagsInv, PoolTypeOK
  <2> QED
    BY <2>1, <2>2
<1> QED
  BY <1>7, <1>8

LEMMA AddWorkPool ==
    ASSUME PoolTypeOK, FlagsInv, NEW t \in Works, AddWork(t)
    PROVE  PoolTypeOK' /\ FlagsInv'
<1>1. CASE destroy
  BY <1>1, PoolFrame DEF AddWork
<1>2. CASE ~destroy
  <2>1. works' = Append(works, t) /\ UNCHANGED <<stop, job, destroy>>
    BY <1>2 DEF AddWork
  <2>2. works' \in Seq(Works)
    BY <2>1 DEF PoolTypeOK
  <2>3. CASE idle # {}
    <3>1. PICK w \in idle : Wake(w, {})
      BY <1>2, <2>3 DEF AddWork
    <3> QED
      BY <2>1, <2>2, <3>1, WakePreserves
  <2>4. CASE idle = {} /\ Cardinality(Workers \ Present) = 0
    <3>1. AllBusy
      BY <1>2, <2>4 DEF AddWork
    <3> QED
      BY <2>1, <2>2, <3>1 DEF AllBusy, PoolTypeOK, FlagsInv
  <2>5. CASE idle = {} /\ Cardinality(Workers \ Present) # 0
    <3>1. PICK new \in SUBSET (Workers \ Present) : \E w \in new : Wake(w, new)
      BY <1>2, <2>5 DEF AddWork
    <3>2. PICK w \in new : Wake(w, new)
      BY <3>1
    <3> QED
      BY <2>1, <2>2, <3>2, WakePreserves
  <2> QED
    BY <2>3, <2>4, <2>5
<1> QED
  BY <1>1, <1>2

(* The task goes to the end of the queue, or nowhere once the pool is      *)
(* being destroyed; it keeps its mark then and is not found due again.     *)
LEMMA SubmitPreserves ==
    ASSUME TaskInv, Submit
    PROVE  TaskInv'
<1>1. adding \in Works /\ adding # NoWork /\ AddWork(adding)
  BY DEF TaskInv, TypeOK, Submit
<1>2. adding' = NoWork /\ UNCHANGED <<timers, timerTasks, due, processing, closed, app>>
  BY DEF Submit
<1>3. PoolTypeOK' /\ FlagsInv'
  BY <1>1, AddWorkPool DEF TaskInv, TypeOK
<1>4. TypeOK'
  BY <1>2, <1>3 DEF TaskInv, TypeOK
<1>5. works \in Seq(Works) /\ \A i \in 1 .. Len(works) : works[i] # NoWork
  BY PoolAssumption DEF TaskInv, TypeOK, PoolTypeOK
<1>6. CASE UNCHANGED <<works, job>>
  <2>1. QueuedInv' /\ AtWorkInv' /\ AddingInv'
    BY <1>2, <1>5, <1>6 DEF TaskInv, QueuedInv, AtWorkInv, AddingInv
  <2> QED
    BY <1>3, <1>4, <2>1 DEF TaskInv
<1>7. CASE works' = Append(works, adding) /\ UNCHANGED job
  <2>1. /\ Len(works') = Len(works) + 1
        /\ \A i \in 1 .. Len(works) : works'[i] = works[i]
        /\ works'[Len(works) + 1] = adding
        /\ Len(works) \in Nat
    BY <1>1, <1>5, <1>7
  <2>2. \A i \in 1 .. Len(works') : i \in 1 .. Len(works) \/ i = Len(works) + 1
    BY <2>1
  <2>3. QueuedInv'
    <3>1. \A i \in 1 .. Len(works') : works'[i] \in processing /\ works'[i] # NoWork
      BY <1>1, <1>5, <2>1, <2>2 DEF TaskInv, QueuedInv, AddingInv
    <3>2. \A i, j \in 1 .. Len(works') : works'[i] = works'[j] => i = j
      BY <2>1, <2>2 DEF TaskInv, QueuedInv
    <3> QED
      BY <1>2, <3>1, <3>2 DEF QueuedInv
  <2>4. AtWorkInv'
    BY <1>2, <1>7, <2>1, <2>2 DEF TaskInv, AtWorkInv
  <2>5. AddingInv'
    BY <1>2 DEF AddingInv
  <2> QED
    BY <1>3, <1>4, <2>3, <2>4, <2>5 DEF TaskInv
<1> QED
  BY <1>1, <1>3, <1>4, <1>6, <1>7 DEF TaskInv, AddWork, poolVars

(* A worker ends its task: no copy of it is left anywhere, so the mark may *)
(* go.                                                                     *)
LEMMA TaskDonePreserves ==
    ASSUME TaskInv, NEW w \in Workers, TaskDone(w)
    PROVE  TaskInv'
<1>1. /\ at[w] = "doing" /\ job[w] # NoWork
      /\ processing' = processing \ {job[w]}
      /\ at' = [at EXCEPT ![w] = "taking"]
      /\ job' = [job EXCEPT ![w] = NoWork]
      /\ UNCHANGED <<works, idle, canWork, stop, destroy, missed>>
      /\ UNCHANGED <<timers, timerTasks, due, adding, closed, app>>
  BY DEF TaskDone, WorkDone, TaskInv, TypeOK, PoolTypeOK
<1>2. TypeOK'
  BY <1>1 DEF TaskInv, TypeOK, PoolTypeOK
<1>3. FlagsInv'
  BY <1>1 DEF TaskInv, TypeOK, PoolTypeOK, FlagsInv
<1>4. QueuedInv'
  BY <1>1 DEF TaskInv, QueuedInv, AtWorkInv
<1>5. AtWorkInv'
  BY <1>1 DEF TaskInv, TypeOK, PoolTypeOK, AtWorkInv
<1>6. AddingInv'
  BY <1>1 DEF TaskInv, AtWorkInv, AddingInv
<1> QED
  BY <1>2, <1>3, <1>4, <1>5, <1>6 DEF TaskInv

(* A worker takes the first work: from the queue to the worker.            *)
LEMMA GetWorkPreserves ==
    ASSUME TaskInv, NEW w \in Workers, GetWork(w), UNCHANGED timerVars
    PROVE  TaskInv'
<1>1. at[w] = "taking" /\ UNCHANGED <<canWork, stop, destroy, missed>>
  BY DEF GetWork
<1>2. UNCHANGED <<timers, timerTasks, due, adding, processing, closed, app>>
  BY DEF timerVars
<1>3. job[w] = NoWork
  BY <1>1 DEF TaskInv, TypeOK, PoolTypeOK
<1>4. CASE /\ w \notin stop /\ works # <<>>
           /\ job' = [job EXCEPT ![w] = Head(works)]
           /\ works' = Tail(works)
           /\ at' = [at EXCEPT ![w] = "doing"]
           /\ idle' = idle \ {w}
  <2>0. works \in Seq(Works) /\ works # <<>>
    BY <1>4 DEF TaskInv, TypeOK, PoolTypeOK
  <2>1. /\ Len(works) \in Nat /\ Len(works) >= 1
        /\ Head(works) = works[1] /\ works[1] \in Works
        /\ works' \in Seq(Works) /\ Len(works') = Len(works) - 1
        /\ \A i \in 1 .. Len(works') : works'[i] = works[i + 1]
    BY <1>4, <2>0
  <2>2. works[1] # NoWork
    BY <2>1, PoolAssumption
  <2>3. TypeOK'
    BY <1>1, <1>2, <1>4, <2>1, <2>2 DEF TaskInv, TypeOK, PoolTypeOK
  <2>4. FlagsInv'
    BY <1>1, <1>4 DEF TaskInv, TypeOK, PoolTypeOK, FlagsInv
  <2>5. \A i \in 1 .. Len(works') : i + 1 \in 1 .. Len(works) /\ i + 1 # 1
    BY <2>1
  <2>6. 1 \in 1 .. Len(works)
    BY <2>1
  <2>7. QueuedInv'
    <3>1. \A i \in 1 .. Len(works') : works'[i] \in processing /\ works'[i] # adding
      BY <2>1, <2>5 DEF TaskInv, QueuedInv
    <3>2. ASSUME NEW i \in 1 .. Len(works'), NEW j \in 1 .. Len(works'),
                 works'[i] = works'[j]
          PROVE  i = j
      <4>1. works[i + 1] = works[j + 1]
        BY <2>1, <3>2
      <4>2. i + 1 = j + 1
        BY <2>5, <4>1 DEF TaskInv, QueuedInv
      <4> QED
        BY <4>2
    <3> QED
      BY <1>2, <3>1, <3>2 DEF QueuedInv
  <2>8. AtWorkInv'
    <3>1. \A v \in Workers : job'[v] = IF v = w THEN works[1] ELSE job[v]
      BY <1>4, <2>1 DEF TaskInv, TypeOK, PoolTypeOK
    <3>2. \A v \in Workers : job[v] # works[1]
      BY <2>2, <2>6 DEF TaskInv, AtWorkInv
    <3>3. works[1] \in processing /\ works[1] # adding
      BY <2>6 DEF TaskInv, QueuedInv
    <3>4. \A i \in 1 .. Len(works') : works'[i] # works[1]
      BY <2>1, <2>5, <2>6 DEF TaskInv, QueuedInv
    <3>5. \A v \in Workers : job[v] # NoWork =>
              \A i \in 1 .. Len(works') : works'[i] # job[v]
      BY <2>1, <2>5 DEF TaskInv, AtWorkInv
    <3>6. ASSUME NEW v \in Workers, job'[v] # NoWork
          PROVE  /\ job'[v] \in processing' /\ job'[v] # adding'
                 /\ \A i \in 1 .. Len(works') : works'[i] # job'[v]
                 /\ \A x \in Workers : job'[x] = job'[v] => x = v
      <4>1. CASE v = w
        BY <1>2, <3>1, <3>2, <3>3, <3>4, <4>1
      <4>2. CASE v # w
        BY <1>2, <3>1, <3>2, <3>5, <3>6, <4>2 DEF TaskInv, AtWorkInv
      <4> QED
        BY <4>1, <4>2
    <3> QED
      BY <3>6 DEF AtWorkInv
  <2>9. AddingInv'
    BY <1>2 DEF TaskInv, AddingInv
  <2> QED
    BY <2>3, <2>4, <2>7, <2>8, <2>9 DEF TaskInv
<1>5. CASE at' = [at EXCEPT ![w] = "empty"] /\ UNCHANGED <<job, works, idle>>
  <2>1. TypeOK'
    BY <1>1, <1>2, <1>3, <1>5 DEF TaskInv, TypeOK, PoolTypeOK
  <2>2. FlagsInv'
    BY <1>1, <1>5 DEF TaskInv, TypeOK, PoolTypeOK, FlagsInv
  <2>3. PlaceInv'
    BY <1>2, <1>5, PlaceFrame DEF TaskInv, PlaceInv
  <2> QED
    BY <2>1, <2>2, <2>3 DEF TaskInv, PlaceInv
<1> QED
  BY <1>4, <1>5 DEF GetWork

(* A worker's other steps: it is woken, goes back or leaves.               *)
LEMMA WorkerPreserves ==
    ASSUME TaskInv, NEW w \in Workers,
           StopsWaiting(w) \/ GoesBack(w) \/ RemoveThread(w), UNCHANGED timerVars
    PROVE  TaskInv'
<1>1. UNCHANGED <<timers, timerTasks, due, adding, processing, closed, app>>
  BY DEF timerVars
<1>2. UNCHANGED <<works, job, destroy, missed>>
  BY DEF StopsWaiting, GoesBack, RemoveThread
<1>3. PlaceInv'
  BY <1>1, <1>2, PlaceFrame DEF TaskInv, PlaceInv
<1>4. CASE StopsWaiting(w)
  <2>1. w \in idle => w \in stop
    BY <1>4 DEF TaskInv, TypeOK, PoolTypeOK, FlagsInv, StopsWaiting
  <2>2. PoolTypeOK'
    BY <1>4, <2>1 DEF TaskInv, TypeOK, PoolTypeOK, StopsWaiting
  <2>3. FlagsInv'
    BY <1>4 DEF TaskInv, TypeOK, PoolTypeOK, FlagsInv, StopsWaiting
  <2> QED
    BY <1>1, <1>3, <2>2, <2>3 DEF TaskInv, TypeOK, PlaceInv
<1>5. CASE GoesBack(w)
  <2>1. PoolTypeOK'
    BY <1>5 DEF TaskInv, TypeOK, PoolTypeOK, GoesBack
  <2>2. FlagsInv'
    BY <1>5 DEF TaskInv, TypeOK, PoolTypeOK, FlagsInv, GoesBack
  <2> QED
    BY <1>1, <1>3, <2>1, <2>2 DEF TaskInv, TypeOK, PlaceInv
<1>6. CASE RemoveThread(w)
  <2>1. PoolTypeOK'
    BY <1>6 DEF TaskInv, TypeOK, PoolTypeOK, RemoveThread
  <2>2. FlagsInv'
    BY <1>6 DEF TaskInv, TypeOK, PoolTypeOK, FlagsInv, RemoveThread
  <2> QED
    BY <1>1, <1>3, <2>1, <2>2 DEF TaskInv, TypeOK, PlaceInv
<1> QED
  BY <1>4, <1>5, <1>6

(* Stuttering.                                                             *)
LEMMA StutterPreserves ==
    ASSUME TaskInv, UNCHANGED vars
    PROVE  TaskInv'
<1>1. UNCHANGED poolVars /\ UNCHANGED timerVars
  BY DEF vars
<1>2. UNCHANGED <<works, job, adding, processing>>
  BY <1>1 DEF poolVars, timerVars
<1>3. PoolTypeOK' /\ FlagsInv' /\ PlaceInv'
  BY <1>1, <1>2, PoolFrame, PlaceFrame DEF TaskInv, TypeOK, PlaceInv
<1> QED
  BY <1>1, <1>3 DEF TaskInv, TypeOK, PlaceInv, timerVars

(* The invariant of the mark m_isProcessing: a marked task is in one place *)
(* at most, and nothing that is in one is unmarked.                        *)
THEOREM TaskInvHolds == Spec => []TaskInv
<1>1. ASSUME TaskInv, [Next]_vars
      PROVE  TaskInv'
  <2>1. CASE \/ \E t \in Works : RegisterTimer(t) \/ RegisterTask(t)
             \/ Shutdown
    BY <1>1, <2>1, OwnerPreserves
  <2>2. CASE Closes
    BY <1>1, <2>2, OwnerPreserves, DestroyPreserves, CloseReturnsPreserves DEF Closes
  <2>3. CASE TimerThread
    BY <1>1, <2>3, OwnerPreserves, OnTimeOutPreserves, SubmitPreserves DEF TimerThread
  <2>4. CASE Manager
    BY <1>1, <2>4, ManagerPreserves
  <2>5. CASE \E w \in Workers : Worker(w)
    <3>1. PICK w \in Workers : Worker(w)
      BY <2>5
    <3> QED
      BY <1>1, <3>1, TaskDonePreserves, GetWorkPreserves, WorkerPreserves
         DEF Worker, WorkerStep
  <2>6. CASE UNCHANGED vars
    BY <1>1, <2>6, StutterPreserves
  <2> QED
    BY <1>1, <2>1, <2>2, <2>3, <2>4, <2>5, <2>6 DEF Next
<1> QED
  BY <1>1, InitHolds, PTL DEF Spec

(* The pool's and the timer thread's state is well typed, and a worker in  *)
(* m_idle waits unless it was stopped.                                     *)
THEOREM TypeCorrect == Spec => []TypeOK
<1>1. TaskInv => TypeOK
  BY DEF TaskInv
<1> QED
  BY <1>1, TaskInvHolds, PTL

(* A set with no two different members has at most one.                    *)
LEMMA AtMostOne ==
    ASSUME NEW S, \A x, y \in S : x = y
    PROVE  Cardinality(S) \in {0, 1} /\ (Cardinality(S) = 1 => S # {})
<1>1. CASE S = {}
  BY <1>1, FS_EmptySet
<1>2. CASE S # {}
  <2>1. PICK x \in S : TRUE
    BY <1>2
  <2>2. S = {x}
    BY <2>1
  <2> QED
    BY <2>2, FS_Singleton
<1> QED
  BY <1>1, <1>2

(* However slow a task is and however often it is due, it is queued once   *)
(* or with one worker (TimerTaskManager::OnTimeOut, TimerTask::Do), for    *)
(* any number of tasks and workers.                                        *)
THEOREM NeverBesideItself == Spec => []TaskOnce
<1>1. TaskInv => TaskOnce
  <2> SUFFICES ASSUME TaskInv, NEW t \in Works
               PROVE  Cardinality({i \in DOMAIN works : works[i] = t})
                        + Cardinality({w \in Workers : job[w] = t}) <= 1
    BY DEF TaskOnce
  <2> DEFINE Q == {i \in DOMAIN works : works[i] = t}
             J == {w \in Workers : job[w] = t}
  <2>1. DOMAIN works = 1 .. Len(works)
    BY DEF TaskInv, TypeOK, PoolTypeOK
  <2>2. t # NoWork
    BY PoolAssumption
  <2>3. \A x, y \in Q : x = y
    BY <2>1 DEF TaskInv, QueuedInv
  <2>4. \A x, y \in J : x = y
    BY <2>2 DEF TaskInv, AtWorkInv
  <2>5. Q = {} \/ J = {}
    BY <2>1, <2>2 DEF TaskInv, AtWorkInv
  <2> HIDE DEF Q, J
  <2>6. Cardinality(Q) \in {0, 1} /\ (Cardinality(Q) = 1 => Q # {})
    BY <2>3, AtMostOne
  <2>7. Cardinality(J) \in {0, 1} /\ (Cardinality(J) = 1 => J # {})
    BY <2>4, AtMostOne
  <2>8. Cardinality(Q) + Cardinality(J) <= 1
    BY <2>5, <2>6, <2>7
  <2> QED
    BY <2>8 DEF Q, J
<1> QED
  BY <1>1, TaskInvHolds, PTL
=============================================================================
