----------------------------- MODULE TimerTasks -----------------------------
(***************************************************************************)
(* kpr/TimerTaskManager.cpp: periodic tasks, as the client factory         *)
(* registers them, between the timer thread (kpr/TimerThread.cpp), which   *)
(* finds that they are due, and the workers of a thread pool, which do     *)
(* them.                                                                   *)
(*                                                                         *)
(* A task is due at any time after it was last found due, and again and    *)
(* again.  m_isProcessing is read and written without a lock.              *)
(***************************************************************************)
EXTENDS ThreadPool

VARIABLES
    timers,      \* m_timers of the timer thread
    timerTasks,  \* m_timerTasks of the manager
    due,         \* the list that CheckTimeOut has made
    adding,      \* the task OnTimeOut is about to add, with the manager's m_mutex
    processing,  \* m_isProcessing
    closed,      \* m_closed of the timer thread
    app          \* what the manager's owner is doing

timerVars == <<timers, timerTasks, due, adding, processing, closed, app>>
vars == <<poolVars, timerVars>>

TypeOK ==
    /\ PoolTypeOK
    /\ timers \subseteq Works /\ timerTasks \subseteq Works
    /\ due \subseteq Works
    /\ adding \in Works \cup {NoWork}
    /\ processing \subseteq Works
    /\ closed \in BOOLEAN
    /\ app \in {"open", "unregistering", "destroying", "joining", "closed"}

Init ==
    /\ PoolInit
    /\ timers = {} /\ timerTasks = {} /\ due = {} /\ adding = NoWork /\ processing = {}
    /\ closed = FALSE
    /\ app = "open"

-----------------------------------------------------------------------------
(* The owner: MQClientFactory registers its tasks, later unregisters them  *)
(* and closes the manager.                                                 *)

(* RegisterTimer: the timer first ...                                      *)
RegisterTimer(t) ==
    /\ app = "open"
    /\ t \notin timers
    /\ timers' = timers \cup {t}
    /\ UNCHANGED <<poolVars, timerTasks, due, adding, processing, closed, app>>

(* ... then its task: when the timer is due in between nothing happens.    *)
RegisterTask(t) ==
    /\ app = "open"
    /\ t \in timers \ timerTasks
    /\ adding = NoWork
    /\ timerTasks' = timerTasks \cup {t}
    /\ UNCHANGED <<poolVars, timers, due, adding, processing, closed, app>>

Shutdown ==
    /\ app = "open"
    /\ timers = timerTasks /\ timers # {}
    /\ app' = "unregistering"
    /\ UNCHANGED <<poolVars, timers, timerTasks, due, adding, processing, closed>>

UnRegisterTimer(t) ==
    /\ app = "unregistering"
    /\ t \in timers
    /\ timers' = timers \ {t}
    /\ UNCHANGED <<poolVars, timerTasks, due, adding, processing, closed, app>>

UnRegisterTask(t) ==
    /\ app = "unregistering"
    /\ t \in timerTasks \ timers
    /\ adding = NoWork
    /\ timerTasks' = timerTasks \ {t}
    /\ UNCHANGED <<poolVars, timers, due, adding, processing, closed, app>>

(* Close: the timer thread is told to end but not waited for.              *)
CloseTimerThread ==
    /\ app = "unregistering"
    /\ timerTasks = {} /\ timers = {}
    /\ closed' = TRUE
    /\ app' = "destroying"
    /\ UNCHANGED <<poolVars, timers, timerTasks, due, adding, processing>>

DestroyPool ==
    /\ app = "destroying"
    /\ Destroy
    /\ app' = "joining"
    /\ UNCHANGED <<timers, timerTasks, due, adding, processing, closed>>

CloseReturns ==
    /\ app = "joining"
    /\ JoinWorkers
    /\ app' = "closed"
    /\ UNCHANGED <<timers, timerTasks, due, adding, processing, closed>>

-----------------------------------------------------------------------------
(* TimerThread::Run.                                                       *)

CheckTimeOut ==
    /\ ~closed
    /\ due = {} /\ adding = NoWork
    /\ \E T \in SUBSET timers : T # {} /\ due' = T
    /\ UNCHANGED <<poolVars, timers, timerTasks, adding, processing, closed, app>>

(* Mutation: IsProcessing is not asked.                                    *)
OnTimeOut_Always(t) ==
    /\ t \in due /\ adding = NoWork
    /\ due' = due \ {t}
    /\ IF t \in timerTasks
       THEN processing' = processing \cup {t} /\ adding' = t
       ELSE UNCHANGED <<processing, adding>>
    /\ UNCHANGED <<poolVars, timers, timerTasks, closed, app>>

(* OnTimeOut: a task that is still queued or at work is passed over.       *)
OnTimeOut(t) ==
    /\ t \in due /\ adding = NoWork
    /\ due' = due \ {t}
    /\ IF t \in timerTasks \ processing
       THEN processing' = processing \cup {t} /\ adding' = t
       ELSE UNCHANGED <<processing, adding>>
    /\ UNCHANGED <<poolVars, timers, timerTasks, closed, app>>

Submit ==
    /\ adding # NoWork
    /\ AddWork(adding)
    /\ adding' = NoWork
    /\ UNCHANGED <<timers, timerTasks, due, processing, closed, app>>

(* TimerTask::Do: DoTask, then m_isProcessing = false.                     *)
TaskDone(w) ==
    /\ at[w] = "doing"
    /\ processing' = processing \ {job[w]}
    /\ WorkDone(w)
    /\ UNCHANGED <<timers, timerTasks, due, adding, closed, app>>

-----------------------------------------------------------------------------
Worker(w) == TaskDone(w) \/ (WorkerStep(w) /\ UNCHANGED timerVars)

Manager == RemoveIdleThreads /\ UNCHANGED timerVars

TimerThread == CheckTimeOut \/ (\E t \in Works : OnTimeOut(t)) \/ Submit

Closes ==
    \/ \E t \in Works : UnRegisterTimer(t) \/ UnRegisterTask(t)
    \/ CloseTimerThread \/ DestroyPool \/ CloseReturns

Next ==
    \/ \E t \in Works : RegisterTimer(t) \/ RegisterTask(t)
    \/ Shutdown \/ Closes
    \/ TimerThread \/ Manager
    \/ \E w \in Workers : Worker(w)

Spec == Init /\ [][Next]_vars

(* Threads go on and tasks end.  A closing owner gets the manager's mutex, *)
(* which the timer thread takes again and again but not for long.          *)
FairSpec ==
    /\ Spec
    /\ \A w \in Workers : WF_vars(Worker(w))
    /\ WF_vars(TimerThread)
    /\ SF_vars(Closes)

-----------------------------------------------------------------------------
(* A task is in the queue once or with one worker, never both: it does not *)
(* run beside itself, however slow it is and however often it is due.      *)
TaskOnce ==
    \A t \in Works :
        Cardinality({i \in DOMAIN works : works[i] = t})
            + Cardinality({w \in Workers : job[w] = t}) <= 1

(* A work that found a worker when it was added, idle, new or still to ask *)
(* for work, is done, whichever workers are stopped or leave since then.   *)
WorkIsDone ==
    \A t \in Works :
        (t \in {works[i] : i \in DOMAIN works} /\ ~missed)
            ~> (t \notin {works[i] : i \in DOMAIN works} \/ destroy)

(* Close comes to an end and nothing is at work from then on, although the *)
(* timer thread may still be going through its list.                       *)
CloseStops ==
    app = "unregistering" ~> [](app = "closed" /\ \A w \in Workers : at[w] = "absent")
=============================================================================
