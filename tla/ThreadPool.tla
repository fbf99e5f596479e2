----------------------------- MODULE ThreadPool -----------------------------
(***************************************************************************)
(* threadpool::CThreadMgr with its CThread workers (src/threadpool), the   *)
(* pool behind CFuncThreadPool and CClassHandleThreadPool; the two differ  *)
(* only in what a task is.                                                 *)
(*                                                                         *)
(* Three kinds of threads act on it.                                       *)
(*   Callers  run(task):  idle -> work -> assign -> notify -> idle, with    *)
(*            work -> recheck -> toPark -> parked -> work while the pool is *)
(*            exhausted                                                    *)
(*   Workers  runThread(): top -> entering -> waiting -> woken -> running   *)
(*            -> ending -> announcing -> top, and exited at the end         *)
(*   Trimmers the garbage collector of gcLoop(), when a minimum was given, *)
(*            and the destructor: they delete the threads at the front of   *)
(*            the queue, joining each, while holding m_queueMutex          *)
(* Critical sections of m_queueMutex are single steps, except that of a    *)
(* trimmer, which keeps the mutex while it joins: lock tells which.        *)
(***************************************************************************)
EXTENDS Integers, Sequences, FiniteSets

CONSTANTS Callers,          \* threads that call run()
          Threads,          \* the identities a CThread object can take
          MaxThreads,       \* m_max
          MinThreads,       \* m_min; -1 turns the garbage collector off
          MaxTasks,         \* bound: how many times run() is called
          MaxSpurious,      \* bound: wake-ups that nobody notified
          OwnerCloses       \* whether the pool's owner ever destroys it

ASSUME PoolAssumption == /\ IsFiniteSet(Threads) /\ Threads # {}
                         /\ MaxThreads \in Nat
                         /\ MinThreads \in -1 .. MaxThreads
                         /\ MaxTasks \in Nat
                         /\ MaxSpurious \in Nat
                         /\ OwnerCloses \in BOOLEAN

VARIABLES queue,      \* m_queue: the idle threads
          busy,       \* m_busyCount
          lock,       \* m_queueMutex: "free", or the trimmer that keeps it
          wpc,        \* control of each CThread's worker; "none": no such object
          loop,       \* m_isLoop of each CThread
          func,       \* m_func (m_handle) of each CThread; 0 when never set
          cpc,        \* control of each caller
          hand,       \* the thread work() returned to each caller
          task,       \* the task each caller is submitting
          calls,      \* how many times run() was called
          runs,       \* how many times each task was executed
          gc,         \* the collector: "look", "lock", "trim", "gone"
          todo,       \* how many threads the collector has still to delete
          joining,    \* the trimmer is inside ~CThread, joining the front thread
          spurious,   \* how many wake-ups nobody notified there were
          phase,      \* "up", "closing" (the destructor runs), "down"
          undefined   \* a freed manager, an empty list or an empty function was used

poolVars   == <<queue, busy>>
workerVars == <<wpc, loop, func, runs>>
callerVars == <<cpc, hand, task, calls>>
trimVars   == <<gc, todo, joining, phase, lock>>
vars == <<poolVars, workerVars, callerVars, trimVars, spurious, undefined>>

Tasks == 1 .. MaxTasks
Live  == {t \in Threads : wpc[t] # "none"}

CallerAt(c, from, to) == cpc[c] = from /\ cpc' = [cpc EXCEPT ![c] = to]
WorkerAt(t, from, to) == wpc[t] = from /\ wpc' = [wpc EXCEPT ![t] = to]

\* notify_one() on a thread's own condition variable: only its worker waits
\* there, and the notification is lost when it does not.
NotifyWorker(t) == IF wpc[t] = "waiting" THEN [wpc EXCEPT ![t] = "woken"] ELSE wpc

Init == /\ queue = <<>> /\ busy = 0 /\ lock = "free"
        /\ wpc = [t \in Threads |-> "none"]
        /\ loop = [t \in Threads |-> FALSE]
        /\ func = [t \in Threads |-> 0]
        /\ cpc = [c \in Callers |-> "idle"]
        /\ hand = [c \in Callers |-> CHOOSE t \in Threads : TRUE]
        /\ task = [c \in Callers |-> 0]
        /\ calls = 0
        /\ runs = [k \in Tasks |-> 0]
        /\ gc = IF MinThreads = -1 THEN "gone" ELSE "look"
        /\ todo = 0 /\ joining = FALSE /\ phase = "up" /\ spurious = 0 /\ undefined = FALSE

---------------------------------------------------------------------------
(* run() and work(): thread_mgr.cpp:37-81, 134-138 *)

\* Tasks are named by the order of the calls.
NextTask == calls + 1

Call(c) ==
    /\ phase = "up" /\ calls < MaxTasks
    /\ CallerAt(c, "idle", "work")
    /\ calls' = calls + 1
    /\ task' = [task EXCEPT ![c] = NextTask]
    /\ UNCHANGED <<poolVars, workerVars, trimVars, hand, spurious, undefined>>

\* Line 60.
MayCreate == queue = <<>> /\ busy < MaxThreads

\* Lines 60-65: a new CThread, whose constructor starts its worker.
Create(c) ==
    /\ lock = "free" /\ MayCreate
    /\ CallerAt(c, "work", "assign")
    /\ \E t \in Threads \ Live :
          /\ wpc' = [wpc EXCEPT ![t] = "top"]
          /\ loop' = [loop EXCEPT ![t] = TRUE]
          /\ func' = [func EXCEPT ![t] = 0]
          /\ hand' = [hand EXCEPT ![c] = t]
    /\ busy' = busy + 1
    /\ UNCHANGED <<queue, runs, task, calls, trimVars, spurious, undefined>>

\* Faulty variant: front() without pop_front().
QueueAfterReuse_Kept == queue

QueueAfterReuse == Tail(queue)

\* Lines 66-72: the thread that has been idle longest.
Reuse(c) ==
    /\ lock = "free" /\ queue # <<>>
    /\ CallerAt(c, "work", "assign")
    /\ hand' = [hand EXCEPT ![c] = Head(queue)]
    /\ queue' = QueueAfterReuse
    /\ busy' = busy + 1
    /\ UNCHANGED <<workerVars, task, calls, trimVars, spurious, undefined>>

\* Line 73: neither an idle thread nor room for a new one.
GiveUp(c) ==
    /\ lock = "free" /\ queue = <<>> /\ ~MayCreate
    /\ CallerAt(c, "work", "recheck")
    /\ UNCHANGED <<poolVars, workerVars, hand, task, calls, trimVars, spurious, undefined>>

\* Line 74: m_busyCount is read again, without the lock.
Recheck(c) ==
    /\ CallerAt(c, "recheck", IF busy >= MaxThreads THEN "toPark" ELSE "work")
    /\ UNCHANGED <<poolVars, workerVars, hand, task, calls, trimVars, spurious, undefined>>

\* Lines 75-76: the wait has no predicate, and m_mutex guards nothing else.
Park(c) ==
    /\ CallerAt(c, "toPark", "parked")
    /\ UNCHANGED <<poolVars, workerVars, hand, task, calls, trimVars, spurious, undefined>>

\* thread.cpp:72, with no lock of the thread held.
Assign(c) ==
    /\ CallerAt(c, "assign", "notify")
    /\ func' = [func EXCEPT ![hand[c]] = task[c]]
    /\ undefined' = (wpc[hand[c]] = "none")
    /\ UNCHANGED <<poolVars, wpc, loop, runs, hand, task, calls, trimVars, spurious>>

\* thread.cpp:43-46.
RunAfter(c) ==
    /\ CallerAt(c, "notify", "idle")
    /\ wpc' = NotifyWorker(hand[c])
    /\ UNCHANGED <<poolVars, loop, func, runs, hand, task, calls, trimVars, spurious, undefined>>

---------------------------------------------------------------------------
(* CThread::runThread() and runEnd(): thread.cpp:29-41, thread_mgr.cpp:83-90 *)

LoopTest(t) ==
    /\ WorkerAt(t, "top", IF loop[t] THEN "entering" ELSE "exited")
    /\ UNCHANGED <<poolVars, loop, func, runs, callerVars, trimVars, spurious, undefined>>

\* Between the test of m_isLoop and this wait the worker cannot be notified.
Wait(t) ==
    /\ WorkerAt(t, "entering", "waiting")
    /\ UNCHANGED <<poolVars, loop, func, runs, callerVars, trimVars, spurious, undefined>>

\* Faulty variant: a thread told to stop handles its old task once more.
AfterWake_NoStopTest(t) == "running"

AfterWake(t) == IF loop[t] THEN "running" ELSE "exited"

Wake(t) ==
    /\ WorkerAt(t, "woken", AfterWake(t))
    /\ UNCHANGED <<poolVars, loop, func, runs, callerVars, trimVars, spurious, undefined>>

\* handle(): the task runs.  An empty std::function or a null handler cannot.
Handle(t) ==
    /\ WorkerAt(t, "running", "ending")
    /\ IF func[t] = 0
       THEN undefined' = TRUE /\ UNCHANGED runs
       ELSE runs' = [runs EXCEPT ![func[t]] = @ + 1] /\ UNCHANGED undefined
    /\ UNCHANGED <<poolVars, loop, func, callerVars, trimVars, spurious>>

\* Faulty variant: the thread is queued but stays counted as busy.
BusyAfterRun_Kept == busy

BusyAfterRun == busy - 1

\* The worker queues its own thread before it is back in its wait.
RunEnd(t) ==
    /\ phase # "down" /\ lock = "free"
    /\ WorkerAt(t, "ending", "announcing")
    /\ busy' = BusyAfterRun
    /\ queue' = Append(queue, t)
    /\ UNCHANGED <<loop, func, runs, callerVars, trimVars, spurious, undefined>>

\* A busy thread outlives the destructor and returns to a manager that is gone.
RunEndFreed(t) ==
    /\ phase = "down" /\ wpc[t] \in {"ending", "announcing"}
    /\ undefined' = TRUE
    /\ UNCHANGED <<poolVars, workerVars, callerVars, trimVars, spurious>>

\* m_cv.notify_all(), the lock already released: whoever is not yet parked
\* is not woken.
Announce(t) ==
    /\ phase # "down"
    /\ WorkerAt(t, "announcing", "top")
    /\ cpc' = [c \in Callers |-> IF cpc[c] = "parked" THEN "work" ELSE cpc[c]]
    /\ UNCHANGED <<poolVars, loop, func, runs, hand, task, calls, trimVars, spurious, undefined>>

---------------------------------------------------------------------------
(* gcLoop() and ~CThreadMgr(): thread_mgr.cpp:24-35, 92-117 *)

\* Lines 96-99: the size is read without the lock.  At or below the minimum
\* the collector sleeps, which changes nothing.
GcLook ==
    /\ gc = "look" /\ phase # "down" /\ lock # "gc"
    /\ Len(queue) > MinThreads
    /\ gc' = "lock" /\ todo' = Len(queue) - MinThreads
    /\ UNCHANGED <<poolVars, workerVars, callerVars, joining, phase, lock, spurious, undefined>>

\* Line 100.
GcLock ==
    /\ gc = "lock" /\ phase # "down" /\ lock = "free"
    /\ gc' = "trim" /\ lock' = "gc"
    /\ UNCHANGED <<poolVars, workerVars, callerVars, todo, joining, phase, spurious, undefined>>

\* The collector is detached and outlives the manager: it may still read
\* m_isStop as true and leave, or use the freed manager.
GcOrphaned ==
    /\ phase = "down" /\ gc \in {"look", "lock"}
    /\ \/ gc = "look" /\ gc' = "gone" /\ UNCHANGED undefined
       \/ gc' = gc /\ undefined' = TRUE
    /\ UNCHANGED <<poolVars, workerVars, callerVars, todo, joining, phase, lock, spurious>>

\* ~CThreadMgr, entered once no run() is in progress.
CloseStart ==
    /\ OwnerCloses /\ phase = "up" /\ lock = "free"
    /\ \A c \in Callers : cpc[c] = "idle"
    /\ lock' = "owner" /\ phase' = "closing"
    /\ UNCHANGED <<poolVars, workerVars, callerVars, gc, todo, joining, spurious, undefined>>

\* The collector deletes as many as it counted, the destructor all there are.
TrimMore == IF lock = "gc" THEN todo > 0 ELSE queue # <<>>

\* stop() in ~CThread: m_isLoop is cleared and one notification sent.
StopFront ==
    /\ lock # "free" /\ ~joining /\ TrimMore
    /\ queue # <<>> /\ Head(queue) \in Live
    /\ loop' = [loop EXCEPT ![Head(queue)] = FALSE]
    /\ wpc' = NotifyWorker(Head(queue))
    /\ joining' = TRUE
    /\ UNCHANGED <<poolVars, func, runs, callerVars, gc, todo, phase, lock, spurious, undefined>>

\* front() of an empty list, the queue having shrunk since its size was read,
\* or a thread that was queued twice and is already deleted.
StopNone ==
    /\ lock # "free" /\ ~joining /\ TrimMore
    /\ queue # <<>> => Head(queue) \notin Live
    /\ undefined' = TRUE
    /\ UNCHANGED <<poolVars, workerVars, callerVars, trimVars, spurious>>

\* m_thread->join() returns, the object is freed and leaves the queue.
JoinFront ==
    /\ joining
    /\ WorkerAt(Head(queue), "exited", "none")
    /\ queue' = Tail(queue)
    /\ joining' = FALSE
    /\ todo' = IF lock = "gc" THEN todo - 1 ELSE todo
    /\ UNCHANGED <<busy, loop, func, runs, callerVars, gc, phase, lock, spurious, undefined>>

TrimDone ==
    /\ lock # "free" /\ ~joining /\ ~TrimMore
    /\ lock' = "free"
    /\ IF lock = "gc"
       THEN gc' = "look" /\ UNCHANGED <<busy, phase>>
       ELSE busy' = 0 /\ phase' = "down" /\ UNCHANGED gc
    /\ UNCHANGED <<queue, workerVars, callerVars, todo, joining, spurious, undefined>>

---------------------------------------------------------------------------
(* External: a condition variable may wake a waiter that nobody notified. *)

SpuriousWorker(t) ==
    /\ spurious < MaxSpurious /\ spurious' = spurious + 1
    /\ WorkerAt(t, "waiting", "woken")
    /\ UNCHANGED <<poolVars, loop, func, runs, callerVars, trimVars, undefined>>

SpuriousCaller(c) ==
    /\ spurious < MaxSpurious /\ spurious' = spurious + 1
    /\ CallerAt(c, "parked", "work")
    /\ UNCHANGED <<poolVars, workerVars, hand, task, calls, trimVars, undefined>>

---------------------------------------------------------------------------

Caller(c) == \/ Create(c) \/ Reuse(c) \/ GiveUp(c) \/ Recheck(c) \/ Park(c)
             \/ Assign(c) \/ RunAfter(c)
Worker(t) == \/ LoopTest(t) \/ Wait(t) \/ Wake(t) \/ Handle(t)
             \/ RunEnd(t) \/ RunEndFreed(t) \/ Announce(t)
Trimmer   == \/ GcLook \/ GcLock \/ GcOrphaned
             \/ StopFront \/ StopNone \/ JoinFront \/ TrimDone

Next == /\ ~undefined
        /\ \/ \E c \in Callers : Call(c) \/ Caller(c) \/ SpuriousCaller(c)
           \/ \E t \in Threads : Worker(t) \/ SpuriousWorker(t)
           \/ CloseStart \/ Trimmer

Spec == Init /\ [][Next]_vars

\* Threads that are not waiting keep running, and so does every task.
Fairness == /\ \A c \in Callers : WF_vars(~undefined /\ Caller(c))
            /\ \A t \in Threads : WF_vars(~undefined /\ Worker(t))
            /\ WF_vars(~undefined /\ Trimmer)

FairSpec == Spec /\ Fairness

---------------------------------------------------------------------------
(* Properties *)

(* Every variable has its type. *)
TypeOK ==
    /\ queue \in Seq(Threads) /\ busy \in Int /\ lock \in {"free", "gc", "owner"}
    /\ wpc \in [Threads -> {"none", "top", "entering", "waiting", "woken", "running",
                            "ending", "announcing", "exited"}]
    /\ loop \in [Threads -> BOOLEAN] /\ func \in [Threads -> 0 .. MaxTasks]
    /\ cpc \in [Callers -> {"idle", "work", "recheck", "toPark", "parked", "assign", "notify"}]
    /\ hand \in [Callers -> Threads] /\ task \in [Callers -> 0 .. MaxTasks]
    /\ calls \in 0 .. MaxTasks /\ runs \in [Tasks -> Nat]
    /\ gc \in {"gone", "look", "lock", "trim"} /\ todo \in Int /\ joining \in BOOLEAN
    /\ phase \in {"up", "closing", "down"} /\ spurious \in Nat /\ undefined \in BOOLEAN

(* Until the pool is destroyed, m_busyCount and the queue together account  *)
(* for every thread there is, so never more than m_max are created, though  *)
(* only work()'s creating branch compares with m_max (thread_mgr.cpp:60).   *)
ThreadsAccounted ==
    phase # "down" => /\ Cardinality(Live) = busy + Len(queue)
                      /\ Cardinality(Live) <= MaxThreads

Holding(c) == cpc[c] \in {"assign", "notify"}

Exclusive ==
    /\ \A c, d \in Callers : c # d /\ Holding(c) /\ Holding(d) => hand[c] # hand[d]
    /\ \A c \in Callers, i \in DOMAIN queue : Holding(c) => queue[i] # hand[c]
    /\ \A i, j \in DOMAIN queue : queue[i] = queue[j] => i = j

(* A thread belongs to one caller or to the queue, once, never to both, as  *)
(* long as no condition variable has woken a thread that nobody notified.   *)
ThreadsExclusive == spurious = 0 => Exclusive

(* m_func is written with no lock of the thread held (thread.cpp:72): no    *)
(* worker is then about to call it or calling it.                           *)
FuncNotRaced == \A c \in Callers :
    spurious = 0 /\ cpc[c] = "assign" => wpc[hand[c]] \notin {"woken", "running", "ending"}

(* No task is executed twice, and none before run() was called for it.      *)
AtMostOnce == \A k \in Tasks :
    spurious = 0 => runs[k] <= IF k <= calls THEN 1 ELSE 0

(* The test submits a hundred tasks to ten threads and every one prints     *)
(* "run start...": each task submitted is executed.                         *)
EveryTaskRuns == \A k \in Tasks : calls >= k ~> runs[k] = 1
===========================================================================
