----------------------------- MODULE ThreadPool -----------------------------
(***************************************************************************)
(* kpr/ThreadPool.cpp: a queue of works, the workers that take from it and *)
(* the manager thread that stops idle workers.  Every operation of the     *)
(* pool holds its lock; a worker's own steps lie between them.             *)
(*                                                                         *)
(* A worker that has left may come back as another one: there are as many  *)
(* names as the pool may have workers.  Which idle worker is woken, and    *)
(* which have been idle for too long, is any choice.                       *)
(***************************************************************************)
EXTENDS Integers, Sequences, FiniteSets

CONSTANTS
    Works,      \* what AddWork is given
    Workers,    \* m_maxCount names
    MinCount,   \* m_minCount, also the initial count
    AddStep,    \* m_step
    NoWork

ASSUME PoolAssumption ==
    /\ MinCount \in 1 .. Cardinality(Workers)
    /\ AddStep \in Nat \ {0}
    /\ NoWork \notin Works

VARIABLES
    works,     \* m_works
    at,        \* where a worker's Run is, or absent
    idle,      \* m_idle
    canWork,   \* m_canWork
    stop,      \* m_stop
    job,       \* the work it does
    destroy,   \* m_destroy
    missed     \* history: when the last work was added, no worker was left to take it

poolVars == <<works, at, idle, canWork, stop, job, destroy, missed>>

(* The types; and an idle worker waits, unless it has been stopped.        *)
PoolTypeOK ==
    /\ works \in Seq(Works)
    /\ at \in [Workers -> {"absent", "waiting", "taking", "doing", "empty", "leaving"}]
    /\ idle \subseteq Workers /\ canWork \subseteq Workers /\ stop \subseteq Workers
    /\ job \in [Workers -> Works \cup {NoWork}]
    /\ \A w \in Workers : job[w] # NoWork <=> at[w] = "doing"
    /\ \A w \in idle : at[w] = "waiting" \/ w \in stop
    /\ destroy \in BOOLEAN /\ missed \in BOOLEAN

PoolInit ==
    /\ works = <<>>
    /\ \E W \in SUBSET Workers :
        /\ Cardinality(W) = MinCount
        /\ at = [w \in Workers |-> IF w \in W THEN "waiting" ELSE "absent"]
        /\ idle = W
    /\ canWork = {} /\ stop = {}
    /\ job = [w \in Workers |-> NoWork]
    /\ destroy = FALSE /\ missed = FALSE

Present == {w \in Workers : at[w] # "absent"}

(* Workers that will ask for a work before they wait again.                *)
Coming ==
    {w \in Workers \ stop : \/ at[w] \in {"taking", "doing"}
                            \/ at[w] = "waiting" /\ w \in canWork}

-----------------------------------------------------------------------------
(* AddWork.                                                                *)

(* Mutation: WakeUp does not clear m_idle.                                 *)
Wake_Idle(w, new) ==
    /\ at' = [x \in Workers |-> IF x \in new THEN "waiting" ELSE at[x]]
    /\ idle' = idle \cup new
    /\ canWork' = canWork \cup {w}
    /\ missed' = (w \in stop /\ Coming = {})

(* WakeOneThread and WakeUp, with new workers that AddThreads has made and *)
(* that wait.  A worker that is idle may have been stopped.                *)
Wake(w, new) ==
    /\ at' = [x \in Workers |-> IF x \in new THEN "waiting" ELSE at[x]]
    /\ idle' = (idle \cup new) \ {w}
    /\ canWork' = canWork \cup {w}
    /\ missed' = (w \in stop /\ Coming = {})

AllBusy ==
    /\ missed' = (Coming = {})
    /\ UNCHANGED <<at, idle, canWork>>

(* The work is dropped once the pool is being destroyed.                   *)
AddWork(work) ==
    IF destroy THEN UNCHANGED poolVars
    ELSE /\ works' = Append(works, work)
         /\ IF idle # {} THEN \E w \in idle : Wake(w, {})
            ELSE LET room == Cardinality(Workers \ Present) IN
                 IF room = 0 THEN AllBusy
                 ELSE \E new \in SUBSET (Workers \ Present) : \E w \in new :
                        /\ Cardinality(new) = IF AddStep > room THEN room ELSE AddStep
                        /\ Wake(w, new)
         /\ UNCHANGED <<stop, job, destroy>>

-----------------------------------------------------------------------------
(* ThreadPoolWorker::Run.                                                  *)

(* Woken by WakeUp or by Stop.                                             *)
StopsWaiting(w) ==
    /\ at[w] = "waiting"
    /\ w \in canWork
    /\ canWork' = canWork \ {w}
    /\ at' = [at EXCEPT ![w] = "taking"]
    /\ UNCHANGED <<works, idle, stop, job, destroy, missed>>

GetWork(w) ==
    /\ at[w] = "taking"
    /\ \/ /\ w \notin stop /\ ~destroy /\ works # <<>>
          /\ job' = [job EXCEPT ![w] = Head(works)]
          /\ works' = Tail(works)
          /\ at' = [at EXCEPT ![w] = "doing"]
          /\ idle' = idle \ {w}
       \/ /\ w \in stop \/ destroy \/ works = <<>>
          /\ at' = [at EXCEPT ![w] = "empty"]
          /\ UNCHANGED <<job, works, idle>>
    /\ UNCHANGED <<canWork, stop, destroy, missed>>

(* Mutation: a worker takes one work each time it is woken.                *)
WorkDone_Once(w) ==
    /\ at' = [at EXCEPT ![w] = "empty"]
    /\ job' = [job EXCEPT ![w] = NoWork]
    /\ UNCHANGED <<works, idle, canWork, stop, destroy, missed>>

(* Do has returned.                                                        *)
WorkDone(w) ==
    /\ at' = [at EXCEPT ![w] = "taking"]
    /\ job' = [job EXCEPT ![w] = NoWork]
    /\ UNCHANGED <<works, idle, canWork, stop, destroy, missed>>

(* A worker that has found the queue empty goes back to wait, or leaves.   *)
GoesBack(w) ==
    /\ at[w] = "empty"
    /\ \/ /\ w \in stop \/ destroy
          /\ at' = [at EXCEPT ![w] = "leaving"]
          /\ UNCHANGED idle
       \/ /\ w \notin stop /\ ~destroy
          /\ at' = [at EXCEPT ![w] = "waiting"]
          /\ idle' = idle \cup {w}
    /\ UNCHANGED <<works, canWork, stop, job, destroy, missed>>

(* RemoveThread: its flags go with the worker.                             *)
RemoveThread(w) ==
    /\ at[w] = "leaving"
    /\ at' = [at EXCEPT ![w] = "absent"]
    /\ idle' = idle \ {w}
    /\ canWork' = canWork \ {w}
    /\ stop' = stop \ {w}
    /\ UNCHANGED <<works, job, destroy, missed>>

WorkerStep(w) == StopsWaiting(w) \/ GetWork(w) \/ GoesBack(w) \/ RemoveThread(w)

-----------------------------------------------------------------------------
(* Mutation: Stop only sets the flag.                                      *)
Stop_Unseen(W) ==
    /\ stop' = stop \cup W
    /\ UNCHANGED canWork

(* ThreadPoolWorker::Stop.                                                 *)
Stop(W) ==
    /\ stop' = stop \cup W
    /\ canWork' = canWork \cup W

(* The manager's RemoveIdleThreads.  Workers that were stopped and have    *)
(* not left yet count for m_minCount.                                      *)
RemoveIdleThreads ==
    /\ ~destroy
    /\ \E W \in SUBSET idle :
        /\ W # {}
        /\ Cardinality(W) <= Cardinality(Present) - MinCount
        /\ Stop(W)
    /\ UNCHANGED <<works, at, idle, job, destroy, missed>>

(* Destroy stops every worker ...                                          *)
Destroy ==
    /\ destroy' = TRUE
    /\ Stop(Present)
    /\ UNCHANGED <<works, at, idle, job, missed>>

(* ... and waits for them.                                                 *)
JoinWorkers ==
    /\ Present = {}
    /\ works' = <<>>
    /\ UNCHANGED <<at, idle, canWork, stop, job, destroy, missed>>
=============================================================================
