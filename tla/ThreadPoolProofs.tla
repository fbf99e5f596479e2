-------------------------- MODULE ThreadPoolProofs --------------------------
(***************************************************************************)
(* Proofs about ThreadPool for any callers, any finite set of threads, any *)
(* maximum and minimum and any number of spurious wake-ups.                *)
(***************************************************************************)
EXTENDS ThreadPool, FiniteSetTheorems, TLAPS

WorkerLabels == {"none", "top", "entering", "waiting", "woken", "running",
                 "ending", "announcing", "exited"}

\* A notification changes no worker but the one notified, and never removes it.
LEMMA NotifyWorkerType ==
    ASSUME TypeOK, NEW t \in Threads
    PROVE  /\ NotifyWorker(t) \in [Threads -> WorkerLabels]
           /\ \A u \in Threads : NotifyWorker(t)[u] = "none" <=> wpc[u] = "none"
  BY DEF TypeOK, NotifyWorker, WorkerLabels

(***************************************************************************)
(* Why the trimmer's queue is not empty when the joined thread is removed: *)
(* nobody else touches the queue while a trimmer keeps m_queueMutex.       *)
(***************************************************************************)
TrimInv ==
    /\ joining => lock # "free" /\ queue # <<>>
    /\ lock = "owner" <=> phase = "closing"
    /\ lock = "gc" <=> gc = "trim"

LEMMA TypeStep == TypeOK /\ TrimInv /\ [Next]_vars => TypeOK'
<1> SUFFICES ASSUME TypeOK, TrimInv, [Next]_vars PROVE TypeOK'
  OBVIOUS
<1> USE PoolAssumption DEF TypeOK, CallerAt, WorkerAt,
        poolVars, workerVars, callerVars, trimVars
<1>1. ASSUME NEW c \in Callers, Call(c) PROVE TypeOK'
  BY <1>1 DEF Call, NextTask
<1>2. ASSUME NEW c \in Callers, Create(c) PROVE TypeOK'
  BY <1>2 DEF Create, Live
<1>3. ASSUME NEW c \in Callers, Reuse(c) PROVE TypeOK'
  <2>1. Head(queue) \in Threads /\ Tail(queue) \in Seq(Threads)
    BY <1>3 DEF Reuse
  <2>2. QED BY <1>3, <2>1 DEF Reuse, QueueAfterReuse
<1>4. ASSUME NEW c \in Callers, GiveUp(c) \/ Recheck(c) \/ Park(c) \/ SpuriousCaller(c) PROVE TypeOK'
  <2>1. CASE GiveUp(c)
    BY <2>1 DEF GiveUp
  <2>2. CASE Recheck(c)
    BY <2>2 DEF Recheck
  <2>3. CASE Park(c)
    BY <2>3 DEF Park
  <2>4. CASE SpuriousCaller(c)
    BY <2>4 DEF SpuriousCaller
  <2>5. QED BY <1>4, <2>1, <2>2, <2>3, <2>4
<1>5. ASSUME NEW c \in Callers, Assign(c) PROVE TypeOK'
  BY <1>5 DEF Assign
<1>6. ASSUME NEW c \in Callers, RunAfter(c) PROVE TypeOK'
  BY <1>6, NotifyWorkerType DEF RunAfter, WorkerLabels
<1>7. ASSUME NEW t \in Threads, LoopTest(t) \/ Wait(t) \/ Wake(t) \/ SpuriousWorker(t) PROVE TypeOK'
  <2>1. CASE LoopTest(t)
    BY <2>1 DEF LoopTest
  <2>2. CASE Wait(t)
    BY <2>2 DEF Wait
  <2>3. CASE Wake(t)
    BY <2>3 DEF Wake, AfterWake
  <2>4. CASE SpuriousWorker(t)
    BY <2>4 DEF SpuriousWorker
  <2>5. QED BY <1>7, <2>1, <2>2, <2>3, <2>4
<1>8. ASSUME NEW t \in Threads, Handle(t) PROVE TypeOK'
  <2>1. func[t] \in 0 .. MaxTasks
    OBVIOUS
  <2>2. CASE func[t] = 0
    BY <1>8, <2>2 DEF Handle
  <2>3. CASE func[t] # 0
    <3>1. func[t] \in Tasks
      BY <2>1, <2>3 DEF Tasks
    <3>2. runs' \in [Tasks -> Nat]
      <4>1. runs' = [runs EXCEPT ![func[t]] = runs[func[t]] + 1]
        BY <1>8, <2>3 DEF Handle
      <4>2. runs[func[t]] + 1 \in Nat
        BY <3>1
      <4>3. QED BY <4>1, <4>2
    <3>3. QED BY <1>8, <2>3, <3>2 DEF Handle
  <2>4. QED BY <2>2, <2>3
<1>9. ASSUME NEW t \in Threads, RunEnd(t) PROVE TypeOK'
  BY <1>9 DEF RunEnd, BusyAfterRun
<1>10. ASSUME NEW t \in Threads, RunEndFreed(t) \/ Announce(t) PROVE TypeOK'
  <2>1. CASE RunEndFreed(t)
    BY <2>1 DEF RunEndFreed
  <2>2. CASE Announce(t)
    BY <2>2 DEF Announce
  <2> QED BY <1>10, <2>1, <2>2
<1>11. CASE CloseStart
  BY <1>11 DEF CloseStart
<1>12. CASE GcLook \/ GcLock \/ GcOrphaned
  <2>1. CASE GcLook
    <3>1. Len(queue) - MinThreads \in Int
      OBVIOUS
    <3>2. QED BY <2>1, <3>1 DEF GcLook
  <2>2. CASE GcLock
    BY <2>2 DEF GcLock
  <2>3. CASE GcOrphaned
    BY <2>3 DEF GcOrphaned
  <2>4. QED BY <1>12, <2>1, <2>2, <2>3
<1>13. CASE StopFront
  <2>1. Head(queue) \in Threads
    BY <1>13 DEF StopFront, Live
  <2>2. QED BY <1>13, <2>1, NotifyWorkerType DEF StopFront, WorkerLabels
<1>14. CASE StopNone
  BY <1>14 DEF StopNone
<1>15. CASE JoinFront
  <2>1. queue' \in Seq(Threads)
    BY <1>15 DEF JoinFront, TrimInv
  <2>2. todo' \in Int
    BY <1>15 DEF JoinFront
  <2>3. wpc' \in [Threads -> WorkerLabels]
    BY <1>15 DEF JoinFront, WorkerLabels
  <2>4. /\ busy' \in Int /\ lock' \in {"free", "gc", "owner"}
        /\ gc' \in {"gone", "look", "lock", "trim"} /\ phase' \in {"up", "closing", "down"}
    BY <1>15 DEF JoinFront
  <2>5. joining' \in BOOLEAN /\ undefined' \in BOOLEAN
    BY <1>15 DEF JoinFront
  <2>6. QED BY <1>15, <2>1, <2>2, <2>3, <2>4, <2>5 DEF JoinFront, WorkerLabels
<1>16. CASE TrimDone
  BY <1>16 DEF TrimDone
<1>17. CASE UNCHANGED vars
  BY <1>17 DEF vars
<1>18. QED
  BY <1>1, <1>2, <1>3, <1>4, <1>5, <1>6, <1>7, <1>8, <1>9, <1>10, <1>11, <1>12,
     <1>13, <1>14, <1>15, <1>16, <1>17 DEF Next, Caller, Worker, Trimmer

LEMMA TrimStep == TypeOK /\ TrimInv /\ [Next]_vars => TrimInv'
<1> SUFFICES ASSUME TypeOK, TrimInv, [Next]_vars PROVE TrimInv'
  OBVIOUS
<1> USE DEF TrimInv, poolVars, workerVars, callerVars, trimVars
<1>1. ASSUME NEW c \in Callers, Call(c) \/ Caller(c) \/ SpuriousCaller(c) PROVE TrimInv'
  BY <1>1 DEF Call, Caller, Create, Reuse, GiveUp, Recheck, Park, Assign, RunAfter, SpuriousCaller
<1>2. ASSUME NEW t \in Threads, Worker(t) \/ SpuriousWorker(t) PROVE TrimInv'
  BY <1>2 DEF Worker, LoopTest, Wait, Wake, Handle, RunEnd, RunEndFreed, Announce, SpuriousWorker
<1>3. CASE CloseStart
  BY <1>3 DEF CloseStart
<1>4. CASE GcLook \/ GcLock \/ GcOrphaned
  BY <1>4 DEF GcLook, GcLock, GcOrphaned
<1>5. CASE StopFront \/ StopNone
  BY <1>5 DEF StopFront, StopNone
<1>6. CASE JoinFront
  BY <1>6 DEF JoinFront
<1>7. CASE TrimDone
  BY <1>7 DEF TrimDone, TypeOK
<1>8. CASE UNCHANGED vars
  BY <1>8 DEF vars
<1>9. QED BY <1>1, <1>2, <1>3, <1>4, <1>5, <1>6, <1>7, <1>8 DEF Next, Trimmer

LEMMA PoolTyped == Spec => [](TypeOK /\ TrimInv)
<1>1. Init => TypeOK
  <2> SUFFICES ASSUME Init PROVE TypeOK
    OBVIOUS
  <2>1. queue \in Seq(Threads)
    BY DEF Init
  <2>2. hand \in [Callers -> Threads]
    BY PoolAssumption DEF Init
  <2>3. gc \in {"gone", "look", "lock", "trim"}
    BY DEF Init
  <2>4. /\ wpc \in [Threads -> WorkerLabels] /\ loop \in [Threads -> BOOLEAN]
        /\ func \in [Threads -> 0 .. MaxTasks] /\ task \in [Callers -> 0 .. MaxTasks]
        /\ calls \in 0 .. MaxTasks /\ runs \in [Tasks -> Nat]
    BY PoolAssumption DEF Init, WorkerLabels
  <2>5. busy \in Int /\ todo \in Int /\ spurious \in Nat
    BY DEF Init
  <2>6. /\ lock \in {"free", "gc", "owner"} /\ phase \in {"up", "closing", "down"}
        /\ joining \in BOOLEAN /\ undefined \in BOOLEAN
    BY DEF Init
  <2>7. cpc \in [Callers -> {"idle", "work", "recheck", "toPark", "parked", "assign", "notify"}]
    BY DEF Init
  <2>8. QED BY <2>1, <2>2, <2>3, <2>4, <2>5, <2>6, <2>7 DEF TypeOK, WorkerLabels
<1>2. Init => TrimInv
  BY DEF Init, TrimInv
<1>3. QED BY <1>1, <1>2, TypeStep, TrimStep, PTL DEF Spec

(* Type correctness of the pool's state (thread_mgr.h:35-43, thread.h).     *)
THEOREM PoolTypeCorrect == Spec => []TypeOK
  BY PoolTyped, PTL

---------------------------------------------------------------------------
(* The threads are accounted for *)

\* Live is a finite set; taking one more identity or giving one back changes
\* its size by one.
LEMMA LiveFinite == IsFiniteSet(Live) /\ Cardinality(Live) \in Nat
<1>1. Live \in SUBSET Threads
  BY DEF Live
<1>2. QED BY <1>1, PoolAssumption, FS_Subset, FS_CardinalityType

LEMMA AccountStep ==
    TypeOK /\ TrimInv /\ ThreadsAccounted /\ [Next]_vars => ThreadsAccounted'
<1> SUFFICES ASSUME TypeOK, TrimInv, ThreadsAccounted, [Next]_vars PROVE ThreadsAccounted'
  OBVIOUS
<1> USE PoolAssumption DEF TypeOK, ThreadsAccounted, CallerAt, WorkerAt, poolVars, workerVars, callerVars, trimVars
<1>same. ASSUME phase' # "down" => phase # "down", busy' + Len(queue') = busy + Len(queue), Live' = Live
         PROVE  ThreadsAccounted'
  BY <1>same
<1>1. ASSUME NEW c \in Callers, Create(c) PROVE ThreadsAccounted'
  <2>1. PICK t \in Threads \ Live : wpc' = [wpc EXCEPT ![t] = "top"]
    BY <1>1 DEF Create
  <2>2. Live' = Live \cup {t}
    BY <2>1 DEF Live
  <2>3. Cardinality(Live') = Cardinality(Live) + 1
    BY <2>1, <2>2, LiveFinite, FS_AddElement
  <2>4. busy' = busy + 1 /\ queue' = queue /\ queue = <<>> /\ busy < MaxThreads /\ phase' = phase
    BY <1>1 DEF Create, MayCreate
  <2>5. Len(queue) = 0
    BY <2>4
  <2>6. QED BY <2>3, <2>4, <2>5, LiveFinite
<1>2. ASSUME NEW c \in Callers, Reuse(c) PROVE ThreadsAccounted'
  <2>1. Len(queue') = Len(queue) - 1 /\ busy' = busy + 1 /\ Len(queue) \in Nat
    BY <1>2 DEF Reuse, QueueAfterReuse
  <2>2. Live' = Live /\ phase' = phase
    BY <1>2 DEF Reuse, Live
  <2>3. busy' + Len(queue') = busy + Len(queue)
    BY <2>1
  <2>4. QED BY <2>2, <2>3, <1>same
<1>3. ASSUME NEW c \in Callers, Call(c) \/ GiveUp(c) \/ Recheck(c) \/ Park(c) \/ Assign(c) \/ SpuriousCaller(c)
      PROVE  ThreadsAccounted'
  <2>1. wpc' = wpc /\ queue' = queue /\ busy' = busy /\ phase' = phase
    BY <1>3 DEF Call, GiveUp, Recheck, Park, Assign, SpuriousCaller
  <2>2. Live' = Live
    BY <2>1 DEF Live
  <2>3. QED BY <2>1, <2>2, <1>same
<1>4. ASSUME NEW c \in Callers, RunAfter(c) PROVE ThreadsAccounted'
  <2>1. Live' = Live
    BY <1>4, NotifyWorkerType DEF RunAfter, Live
  <2>2. QED BY <1>4, <2>1, <1>same DEF RunAfter
<1>5. ASSUME NEW t \in Threads, LoopTest(t) \/ Wait(t) \/ Wake(t) \/ Handle(t) \/ RunEndFreed(t) \/ Announce(t) \/ SpuriousWorker(t)
      PROVE  ThreadsAccounted'
  <2>1. Live' = Live
    BY <1>5 DEF LoopTest, Wait, Wake, AfterWake, Handle, RunEndFreed, Announce, SpuriousWorker, Live
  <2>2. queue' = queue /\ busy' = busy /\ phase' = phase
    BY <1>5 DEF LoopTest, Wait, Wake, Handle, RunEndFreed, Announce, SpuriousWorker
  <2>3. QED BY <2>1, <2>2, <1>same
<1>6. ASSUME NEW t \in Threads, RunEnd(t) PROVE ThreadsAccounted'
  <2>1. Len(queue') = Len(queue) + 1 /\ busy' = busy - 1 /\ Len(queue) \in Nat
    BY <1>6 DEF RunEnd, BusyAfterRun
  <2>2. Live' = Live /\ phase' = phase
    BY <1>6 DEF RunEnd, Live
  <2>3. busy' + Len(queue') = busy + Len(queue)
    BY <2>1
  <2>4. QED BY <2>2, <2>3, <1>same
<1>7. CASE CloseStart \/ GcLook \/ GcLock \/ GcOrphaned \/ StopNone
  <2>1. wpc' = wpc /\ queue' = queue /\ busy' = busy /\ (phase' # "down" => phase # "down")
    BY <1>7 DEF CloseStart, GcLook, GcLock, GcOrphaned, StopNone
  <2>2. Live' = Live
    BY <2>1 DEF Live
  <2>3. QED BY <2>1, <2>2, <1>same
<1>8. CASE StopFront
  <2>1. Live' = Live
    BY <1>8, NotifyWorkerType DEF StopFront, Live
  <2>2. QED BY <1>8, <2>1, <1>same DEF StopFront
<1>9. CASE JoinFront
  <2>1. queue # <<>>
    BY <1>9 DEF JoinFront, TrimInv
  <2>2. Head(queue) \in Threads /\ Len(queue') = Len(queue) - 1 /\ Len(queue) \in Nat
    BY <1>9, <2>1 DEF JoinFront
  <2>3. Live' = Live \ {Head(queue)} /\ Head(queue) \in Live
    BY <1>9, <2>2 DEF JoinFront, Live
  <2>4. Cardinality(Live') = Cardinality(Live) - 1
    BY <2>3, LiveFinite, FS_RemoveElement
  <2>5. busy' = busy /\ phase' = phase
    BY <1>9 DEF JoinFront
  <2>6. QED BY <2>2, <2>4, <2>5, LiveFinite
<1>10. CASE TrimDone
  <2>1. Live' = Live /\ queue' = queue
    BY <1>10 DEF TrimDone, Live
  <2>2. phase' # "down" => busy' = busy /\ phase' = phase
    BY <1>10 DEF TrimDone
  <2>3. QED BY <2>1, <2>2
<1>11. CASE UNCHANGED vars
  BY <1>11, <1>same DEF vars, Live
<1>12. QED
  BY <1>1, <1>2, <1>3, <1>4, <1>5, <1>6, <1>7, <1>8, <1>9, <1>10, <1>11
     DEF Next, Caller, Worker, Trimmer

(* m_busyCount and the queue account for every thread, and there are never  *)
(* more than m_max, whatever the callers, the collector and the destructor  *)
(* do and however many wake-ups are spurious.                               *)
THEOREM PoolAccounted == Spec => []ThreadsAccounted
<1>1. Init => ThreadsAccounted
  <2> SUFFICES ASSUME Init PROVE ThreadsAccounted
    OBVIOUS
  <2>1. Live = {} /\ busy = 0 /\ Len(queue) = 0
    BY DEF Init, Live
  <2>2. Cardinality(Live) = 0
    BY <2>1, FS_EmptySet
  <2>3. QED BY <2>1, <2>2, PoolAssumption DEF ThreadsAccounted
<1>2. QED BY <1>1, PoolTyped, AccountStep, PTL DEF Spec

---------------------------------------------------------------------------
(* Every thread has one owner *)

\* Where the worker of a thread that was told nothing can be.
Quiet == {"announcing", "top", "entering", "waiting"}

(***************************************************************************)
(* ThreadsExclusive is not inductive: RunEnd queues its own thread, which  *)
(* must then be in nobody's hand and not yet queued.  What excludes it is  *)
(* where the workers are: a thread in a hand or in the queue has not been  *)
(* woken since it was queued, except by the stop() of a trimmer, which     *)
(* concerns the front of the queue alone and has cleared m_isLoop.         *)
(***************************************************************************)
OwnInv ==
    /\ Exclusive
    /\ \A c \in Callers : Holding(c) => wpc[hand[c]] \in Quiet /\ loop[hand[c]]
    /\ \A i \in DOMAIN queue :
          \/ loop[queue[i]] /\ wpc[queue[i]] \in Quiet
          \/ i = 1 /\ joining /\ ~loop[queue[i]] /\ wpc[queue[i]] \in Quiet \cup {"woken", "exited"}
    /\ \A t \in Threads : wpc[t] \in {"running", "ending"} => loop[t]

\* What notify_one() does to each worker.
LEMMA NotifyWorkerEffect ==
    ASSUME TypeOK, NEW t \in Threads
    PROVE  \A u \in Threads :
              NotifyWorker(t)[u] = IF u = t /\ wpc[u] = "waiting" THEN "woken" ELSE wpc[u]
  BY DEF TypeOK, NotifyWorker

\* What taking the front and adding at the back do to each position.
LEMMA QueueFacts ==
    ASSUME TypeOK
    PROVE  /\ Len(queue) \in Nat /\ DOMAIN queue = 1 .. Len(queue)
           /\ \A i \in DOMAIN queue : queue[i] \in Threads
           /\ queue # <<>> =>
                 /\ 1 \in DOMAIN queue /\ Head(queue) = queue[1]
                 /\ DOMAIN Tail(queue) = 1 .. Len(queue) - 1
                 /\ \A i \in DOMAIN Tail(queue) : i + 1 \in DOMAIN queue /\ Tail(queue)[i] = queue[i + 1]
           /\ \A t \in Threads :
                 /\ DOMAIN Append(queue, t) = 1 .. Len(queue) + 1
                 /\ Append(queue, t)[Len(queue) + 1] = t
                 /\ \A i \in DOMAIN queue : Append(queue, t)[i] = queue[i]
  BY DEF TypeOK

LEMMA OwnStep ==
    ASSUME TypeOK, TrimInv, OwnInv, [Next]_vars, spurious' = 0
    PROVE  OwnInv'
<1> USE DEF TypeOK, OwnInv, Exclusive, Holding, Quiet, CallerAt, WorkerAt,
            poolVars, workerVars, callerVars, trimVars
<1>a. /\ \A i \in DOMAIN queue : queue[i] \in Threads /\ wpc[queue[i]] # "none"
      /\ \A c \in Callers : Holding(c) => hand[c] \in Threads /\ wpc[hand[c]] # "none"
  BY QueueFacts
<1>1. ASSUME NEW c \in Callers, Call(c) \/ GiveUp(c) \/ Recheck(c) \/ Park(c) PROVE OwnInv'
  <2>1. \A d \in Callers : Holding(d)' => Holding(d) /\ hand'[d] = hand[d]
    BY <1>1 DEF Call, GiveUp, Recheck, Park
  <2>2. queue' = queue /\ wpc' = wpc /\ loop' = loop /\ joining' = joining
    BY <1>1 DEF Call, GiveUp, Recheck, Park
  <2>3. QED BY <2>1, <2>2
<1>2. ASSUME NEW c \in Callers, Create(c) PROVE OwnInv'
  <2>1. PICK t \in Threads \ Live : /\ wpc' = [wpc EXCEPT ![t] = "top"]
                                    /\ loop' = [loop EXCEPT ![t] = TRUE]
                                    /\ hand' = [hand EXCEPT ![c] = t]
    BY <1>2 DEF Create
  <2>2. wpc[t] = "none"
    BY DEF Live
  <2>3. \A d \in Callers : d # c /\ Holding(d)' => Holding(d) /\ hand'[d] = hand[d] /\ hand[d] # t
    BY <1>2, <1>a, <2>1, <2>2 DEF Create
  <2>4. queue' = queue /\ queue = <<>> /\ DOMAIN queue = {} /\ joining' = joining
    BY <1>2 DEF Create, MayCreate
  <2>5. Holding(c)' => hand'[c] = t /\ wpc'[t] = "top" /\ loop'[t]
    BY <2>1
  <2>6. QED BY <2>1, <2>2, <2>3, <2>4, <2>5
<1>3. ASSUME NEW c \in Callers, Reuse(c) PROVE OwnInv'
  <2> DEFINE t == queue[1]
  <2>1. queue # <<>> /\ ~joining
    BY <1>3 DEF Reuse, TrimInv
  <2>2. t \in Threads /\ 1 \in DOMAIN queue /\ loop[t] /\ wpc[t] \in Quiet
    BY <2>1, QueueFacts
  <2>3. hand' = [hand EXCEPT ![c] = t] /\ queue' = Tail(queue) /\ UNCHANGED <<wpc, loop, joining>>
    BY <1>3, <2>1, QueueFacts DEF Reuse, QueueAfterReuse
  <2>4. \A i \in DOMAIN queue' : i + 1 \in DOMAIN queue /\ queue'[i] = queue[i + 1] /\ i + 1 # 1
    BY <2>1, <2>3, QueueFacts
  <2>5. \A d \in Callers : d # c /\ Holding(d)' => Holding(d) /\ hand'[d] = hand[d] /\ hand[d] # t
    BY <1>3, <2>2, <2>3 DEF Reuse
  <2>6. \A i, j \in DOMAIN queue' : queue'[i] = queue'[j] => i = j
    <3> TAKE i, j \in DOMAIN queue'
    <3> HAVE queue'[i] = queue'[j]
    <3>1. i + 1 = j + 1
      BY <2>4
    <3>2. i \in Int /\ j \in Int
      BY <2>1, <2>3, QueueFacts
    <3>3. QED BY <3>1, <3>2
  <2>7. hand'[c] = t /\ \A i \in DOMAIN queue' : queue'[i] # t
    BY <2>2, <2>3, <2>4
  <2>8. Exclusive'
    BY <2>3, <2>4, <2>5, <2>6, <2>7
  <2>9. \A d \in Callers : Holding(d)' => wpc'[hand'[d]] \in Quiet /\ loop'[hand'[d]]
    BY <2>2, <2>3, <2>5, <2>7
  <2>10. \A i \in DOMAIN queue' : loop'[queue'[i]] /\ wpc'[queue'[i]] \in Quiet
    BY <2>1, <2>3, <2>4
  <2>11. QED BY <2>3, <2>8, <2>9, <2>10
<1>4. ASSUME NEW c \in Callers, Assign(c) PROVE OwnInv'
  <2>1. \A d \in Callers : Holding(d)' => Holding(d) /\ hand'[d] = hand[d]
    BY <1>4 DEF Assign
  <2>2. queue' = queue /\ wpc' = wpc /\ loop' = loop /\ joining' = joining
    BY <1>4 DEF Assign
  <2>3. QED BY <2>1, <2>2
<1>5. ASSUME NEW c \in Callers, RunAfter(c) PROVE OwnInv'
  <2>1. \A d \in Callers : Holding(d)' => d # c /\ Holding(d) /\ hand'[d] = hand[d]
    BY <1>5 DEF RunAfter
  <2>2. Holding(c) /\ hand[c] \in Threads
    BY <1>5 DEF RunAfter
  <2>3. \A u \in Threads : wpc'[u] = IF u = hand[c] /\ wpc[u] = "waiting" THEN "woken" ELSE wpc[u]
    BY <1>5, <2>2, NotifyWorkerEffect DEF RunAfter
  <2>4. queue' = queue /\ loop' = loop /\ joining' = joining
    BY <1>5 DEF RunAfter
  <2>5. \A d \in Callers : Holding(d)' => wpc'[hand'[d]] = wpc[hand[d]]
    BY <2>1, <2>2, <2>3, <1>a
  <2>6. \A i \in DOMAIN queue : wpc'[queue[i]] = wpc[queue[i]]
    BY <2>2, <2>3, <1>a
  <2>7. \A t \in Threads : wpc'[t] \in {"running", "ending"} => loop'[t]
    BY <2>3, <2>4
  <2>8. QED BY <2>1, <2>4, <2>5, <2>6, <2>7
<1>6. ASSUME NEW t \in Threads,
             LoopTest(t) \/ Wait(t) \/ Wake(t) \/ Handle(t) \/ RunEndFreed(t) \/ Announce(t)
      PROVE  OwnInv'
  <2>1. queue' = queue /\ loop' = loop /\ joining' = joining /\ hand' = hand
    BY <1>6 DEF LoopTest, Wait, Wake, Handle, RunEndFreed, Announce
  <2>2. \A d \in Callers : Holding(d)' <=> Holding(d)
    BY <1>6 DEF LoopTest, Wait, Wake, Handle, RunEndFreed, Announce
  <2>3. \A u \in Threads : u # t => wpc'[u] = wpc[u]
    BY <1>6 DEF LoopTest, Wait, Wake, Handle, RunEndFreed, Announce
  <2>4. /\ wpc[t] \in Quiet /\ loop[t] => wpc'[t] \in Quiet
        /\ wpc[t] \in Quiet \cup {"woken", "exited"} /\ ~loop[t] => wpc'[t] \in Quiet \cup {"woken", "exited"}
        /\ wpc'[t] \in {"running", "ending"} => loop[t]
    BY <1>6 DEF LoopTest, Wait, Wake, AfterWake, Handle, RunEndFreed, Announce
  <2>5. Exclusive'
    BY <2>1, <2>2
  <2>6. \A d \in Callers : Holding(d)' => wpc'[hand'[d]] \in Quiet /\ loop'[hand'[d]]
    <3> TAKE d \in Callers
    <3> HAVE Holding(d)'
    <3>1. wpc[hand[d]] \in Quiet /\ loop[hand[d]] /\ hand'[d] = hand[d] /\ loop' = loop
      BY <2>1, <2>2
    <3>2. wpc'[hand[d]] \in Quiet
      BY ONLY <2>3, <2>4, <3>1, <1>a, <2>2, hand \in [Callers -> Threads], d \in Callers
    <3>3. QED BY ONLY <3>1, <3>2
  <2>7. \A i \in DOMAIN queue' :
          \/ loop'[queue'[i]] /\ wpc'[queue'[i]] \in Quiet
          \/ i = 1 /\ joining' /\ ~loop'[queue'[i]] /\ wpc'[queue'[i]] \in Quiet \cup {"woken", "exited"}
    <3> TAKE i \in DOMAIN queue'
    <3> DEFINE u == queue[i]
    <3>1. i \in DOMAIN queue /\ u \in Threads
      BY <2>1, <1>a
    <3>2. \/ loop[u] /\ wpc[u] \in Quiet
          \/ i = 1 /\ joining /\ ~loop[u] /\ wpc[u] \in Quiet \cup {"woken", "exited"}
      BY <3>1
    <3>3. wpc'[u] = wpc[u] \/ u = t
      BY <2>3, <3>1
    <3>4. \/ loop[u] /\ wpc'[u] \in Quiet
          \/ i = 1 /\ joining /\ ~loop[u] /\ wpc'[u] \in Quiet \cup {"woken", "exited"}
      BY ONLY <2>4, <3>2, <3>3
    <3>5. QED BY ONLY <2>1, <3>4
  <2>8. \A u \in Threads : wpc'[u] \in {"running", "ending"} => loop'[u]
    BY <2>1, <2>3, <2>4
  <2>9. QED BY ONLY <2>5, <2>6, <2>7, <2>8 DEF OwnInv
<1>7. ASSUME NEW t \in Threads, RunEnd(t) PROVE OwnInv'
  <2>1. wpc[t] = "ending" /\ loop[t] /\ ~joining
    BY <1>7 DEF RunEnd, TrimInv
  <2>2. queue' = Append(queue, t) /\ wpc' = [wpc EXCEPT ![t] = "announcing"]
        /\ UNCHANGED <<loop, joining, hand, cpc>>
    BY <1>7 DEF RunEnd
  <2>3. /\ \A i \in DOMAIN queue : queue[i] # t
        /\ \A c \in Callers : Holding(c) => hand[c] # t
    BY <2>1
  <2>4. \A i \in DOMAIN queue' : \/ i \in DOMAIN queue /\ queue'[i] = queue[i]
                                 \/ i = Len(queue) + 1 /\ queue'[i] = t
    BY <2>2, QueueFacts
  <2>5. Exclusive'
    <3>1. \A i, j \in DOMAIN queue' : queue'[i] = queue'[j] => i = j
      BY <2>3, <2>4
    <3>2. \A c \in Callers, i \in DOMAIN queue' : Holding(c)' => queue'[i] # hand'[c]
      BY <2>2, <2>3, <2>4
    <3>3. QED BY <2>2, <3>1, <3>2
  <2>6. \A i \in DOMAIN queue' : loop'[queue'[i]] /\ wpc'[queue'[i]] \in Quiet
    BY <2>1, <2>2, <2>3, <2>4, <1>a
  <2>7. QED BY <2>2, <2>3, <2>5, <2>6, <1>a
<1>8. CASE CloseStart \/ GcLook \/ GcLock \/ GcOrphaned \/ StopNone \/ TrimDone
  <2>1. UNCHANGED <<queue, wpc, loop, joining, hand, cpc>>
    BY <1>8 DEF CloseStart, GcLook, GcLock, GcOrphaned, StopNone, TrimDone
  <2>2. QED BY <2>1
<1>9. CASE StopFront
  <2> DEFINE t == queue[1]
  <2>1. queue # <<>> /\ ~joining /\ joining'
    BY <1>9 DEF StopFront
  <2>2. t \in Threads /\ 1 \in DOMAIN queue /\ loop[t] /\ wpc[t] \in Quiet
    BY <2>1, QueueFacts
  <2>3. loop' = [loop EXCEPT ![t] = FALSE] /\ wpc' = NotifyWorker(t) /\ UNCHANGED <<queue, hand, cpc>>
    BY <1>9, <2>1, QueueFacts DEF StopFront
  <2>4. /\ wpc'[t] \in Quiet \cup {"woken"} /\ ~loop'[t]
        /\ \A u \in Threads : u # t => wpc'[u] = wpc[u] /\ loop'[u] = loop[u]
    BY <2>2, <2>3, NotifyWorkerEffect
  <2>5. \A i \in DOMAIN queue : i # 1 => queue[i] # t /\ loop[queue[i]] /\ wpc[queue[i]] \in Quiet
    BY <2>1, <2>2
  <2>6. \A c \in Callers : Holding(c) => hand[c] # t
    BY <2>2
  <2>7. QED BY <2>1, <2>2, <2>3, <2>4, <2>5, <2>6, <1>a
<1>10. CASE JoinFront
  <2> DEFINE t == queue[1]
  <2>1. queue # <<>> /\ ~joining' /\ t \in Threads /\ 1 \in DOMAIN queue
    BY <1>10, QueueFacts DEF JoinFront, TrimInv
  <2>2. wpc[t] = "exited" /\ wpc' = [wpc EXCEPT ![t] = "none"] /\ queue' = Tail(queue)
        /\ UNCHANGED <<loop, hand, cpc>>
    BY <1>10, <2>1, QueueFacts DEF JoinFront
  <2>3. \A i \in DOMAIN queue' : i + 1 \in DOMAIN queue /\ queue'[i] = queue[i + 1] /\ i \in Int /\ i + 1 # 1
    BY <2>1, <2>2, QueueFacts
  <2>4. \A i \in DOMAIN queue' : queue'[i] # t /\ loop'[queue'[i]] /\ wpc'[queue'[i]] \in Quiet
    BY <2>1, <2>2, <2>3, <1>a
  <2>5. \A i, j \in DOMAIN queue' : queue'[i] = queue'[j] => i = j
    <3> TAKE i, j \in DOMAIN queue'
    <3> HAVE queue'[i] = queue'[j]
    <3>1. i + 1 = j + 1
      BY <2>3
    <3>2. QED BY <3>1, <2>3
  <2>6. \A c \in Callers : Holding(c) => hand[c] # t
    BY <2>2
  <2>7. QED BY <2>2, <2>3, <2>4, <2>5, <2>6, <1>a
<1>11. ASSUME NEW t, SpuriousWorker(t) \/ SpuriousCaller(t) PROVE FALSE
  <2>1. spurious' = spurious + 1 /\ spurious \in Nat
    BY <1>11 DEF SpuriousWorker, SpuriousCaller
  <2>2. QED BY ONLY <2>1, spurious' = 0
<1>12. CASE UNCHANGED vars
  BY <1>12 DEF vars
<1>13. QED
  BY <1>1, <1>2, <1>3, <1>4, <1>5, <1>6, <1>7, <1>8, <1>9, <1>10, <1>11, <1>12
     DEF Next, Caller, Worker, Trimmer

LEMMA SpuriousGrows ==
    ASSUME TypeOK, [Next]_vars, spurious' = 0
    PROVE  spurious = 0
<1>1. spurious' = spurious \/ spurious' = spurious + 1
  BY DEF Next, Caller, Worker, Trimmer, Call, Create, Reuse, GiveUp, Recheck, Park, Assign, RunAfter,
         LoopTest, Wait, Wake, Handle, RunEnd, RunEndFreed, Announce, GcLook, GcLock, GcOrphaned,
         CloseStart, StopFront, StopNone, JoinFront, TrimDone, SpuriousWorker, SpuriousCaller, vars
<1>2. spurious \in Nat
  BY DEF TypeOK
<1>3. QED BY ONLY <1>1, <1>2, spurious' = 0

\* It holds as long as no wake-up was spurious.
OwnClean == spurious = 0 => OwnInv

LEMMA PoolOwned == Spec => []OwnClean
<1>1. Init => OwnClean
  BY DEF Init, OwnClean, OwnInv, Exclusive, Holding
<1>2. TypeOK /\ TrimInv /\ OwnClean /\ [Next]_vars => OwnClean'
  BY OwnStep, SpuriousGrows DEF OwnClean
<1>3. QED BY <1>1, <1>2, PoolTyped, PTL DEF Spec

(* As long as no wake-up was spurious, a thread is in one caller's hand or  *)
(* once in the queue, never both (thread_mgr.cpp:58-72, 83-88).             *)
THEOREM PoolExclusive == Spec => []ThreadsExclusive
<1>1. OwnClean => ThreadsExclusive
  BY DEF OwnClean, OwnInv, ThreadsExclusive
<1>2. QED BY <1>1, PoolOwned, PTL

(* Then writing m_func without the thread's lock (thread.cpp:72) races with *)
(* no worker that calls it (thread.cpp:67).                                 *)
THEOREM PoolFuncNotRaced == Spec => []FuncNotRaced
<1>1. OwnClean => FuncNotRaced
  BY DEF OwnClean, OwnInv, FuncNotRaced, Holding, Quiet
<1>2. QED BY <1>1, PoolOwned, PTL

---------------------------------------------------------------------------
(* Every task runs at most once *)

Submitting(c) == cpc[c] # "idle"

\* A thread that will run its task, or is at it.
Armed(t) == wpc[t] \in {"woken", "running"} /\ loop[t]

(***************************************************************************)
(* A task that its caller still has has not run and is in no thread, but   *)
(* in the one the caller is about to notify; no two threads have the same  *)
(* task; and the task of a thread that will run has not run.               *)
(***************************************************************************)
TaskInv ==
    /\ \A k \in Tasks : runs[k] \in {0, 1} /\ (k > calls => runs[k] = 0)
    /\ \A c \in Callers : task[c] <= calls
    /\ \A t \in Threads : func[t] <= calls
    /\ \A c \in Callers : Submitting(c) => task[c] \in Tasks /\ runs[task[c]] = 0
    /\ \A c, d \in Callers : Submitting(c) /\ Submitting(d) /\ task[c] = task[d] => c = d
    /\ \A c \in Callers : cpc[c] = "notify" => func[hand[c]] = task[c]
    /\ \A c \in Callers, t \in Threads :
          Submitting(c) /\ func[t] = task[c] => cpc[c] = "notify" /\ hand[c] = t
    /\ \A t, u \in Threads : func[t] = func[u] /\ func[t] # 0 => t = u
    /\ \A t \in Threads : Armed(t) => func[t] \in Tasks /\ runs[func[t]] = 0

LEMMA TaskStep ==
    ASSUME TypeOK, TrimInv, OwnInv, TaskInv, [Next]_vars, spurious' = 0
    PROVE  TaskInv'
<1> USE DEF TypeOK, TaskInv, Submitting, Armed, Tasks, CallerAt, WorkerAt,
            poolVars, workerVars, callerVars, trimVars
<1>a. \A c \in Callers : Holding(c) => /\ hand[c] \in Threads /\ wpc[hand[c]] \in Quiet
                                      /\ ~Armed(hand[c])
  BY DEF OwnInv, Quiet
<1>1. ASSUME NEW c \in Callers, Call(c) PROVE TaskInv'
  <2>1. /\ calls' = calls + 1 /\ calls < MaxTasks /\ task' = [task EXCEPT ![c] = calls + 1]
        /\ cpc[c] = "idle" /\ cpc' = [cpc EXCEPT ![c] = "work"]
        /\ UNCHANGED <<wpc, loop, func, runs, hand>>
    BY <1>1 DEF Call, NextTask
  <2>2. calls + 1 \in Tasks /\ runs[calls + 1] = 0
    BY <2>1, PoolAssumption
  <2> QED BY <2>1, <2>2
<1>2. ASSUME NEW c \in Callers, GiveUp(c) \/ Recheck(c) \/ Park(c) PROVE TaskInv'
  <2>1. /\ cpc[c] \in {"work", "recheck", "toPark"} /\ UNCHANGED <<wpc, loop, func, runs, hand, task, calls>>
        /\ \E to \in {"work", "recheck", "toPark", "parked"} : cpc' = [cpc EXCEPT ![c] = to]
    BY <1>2 DEF GiveUp, Recheck, Park
  <2> QED BY <2>1
<1>3. ASSUME NEW c \in Callers, Create(c) PROVE TaskInv'
  <2>1. PICK t \in Threads \ Live : /\ wpc' = [wpc EXCEPT ![t] = "top"]
                                    /\ loop' = [loop EXCEPT ![t] = TRUE]
                                    /\ func' = [func EXCEPT ![t] = 0]
                                    /\ hand' = [hand EXCEPT ![c] = t]
    BY <1>3 DEF Create
  <2>2. \A d \in Callers : cpc[d] = "notify" => hand[d] # t
    BY <2>1, <1>a DEF Live, Holding, Quiet
  <2>3. cpc[c] = "work" /\ cpc' = [cpc EXCEPT ![c] = "assign"] /\ UNCHANGED <<runs, task, calls>>
    BY <1>3 DEF Create
  <2> QED BY <2>1, <2>2, <2>3
<1>4. ASSUME NEW c \in Callers, Reuse(c) PROVE TaskInv'
  <2>1. /\ cpc[c] = "work" /\ cpc' = [cpc EXCEPT ![c] = "assign"]
        /\ hand' = [hand EXCEPT ![c] = Head(queue)]
        /\ UNCHANGED <<wpc, loop, func, runs, task, calls>>
    BY <1>4 DEF Reuse
  <2> QED BY <2>1
<1>5. ASSUME NEW c \in Callers, Assign(c) PROVE TaskInv'
  <2>1. /\ cpc[c] = "assign" /\ cpc' = [cpc EXCEPT ![c] = "notify"]
        /\ func' = [func EXCEPT ![hand[c]] = task[c]]
        /\ UNCHANGED <<wpc, loop, runs, hand, task, calls>>
    BY <1>5 DEF Assign
  <2>2. hand[c] \in Threads /\ ~Armed(hand[c])
    BY <2>1, <1>a DEF Holding
  <2>3. \A d \in Callers : d # c /\ cpc[d] = "notify" => hand[d] # hand[c]
    BY <2>1 DEF OwnInv, Exclusive, Holding
  <2>4. \A t \in Threads : func[t] # task[c]
    BY <2>1
  <2> QED BY <2>1, <2>2, <2>3, <2>4
<1>6. ASSUME NEW c \in Callers, RunAfter(c) PROVE TaskInv'
  <2>1. /\ cpc[c] = "notify" /\ cpc' = [cpc EXCEPT ![c] = "idle"] /\ wpc' = NotifyWorker(hand[c])
        /\ UNCHANGED <<loop, func, runs, hand, task, calls>>
    BY <1>6 DEF RunAfter
  <2>2. \A t \in Threads : t # hand[c] => wpc'[t] = wpc[t]
    BY <2>1, NotifyWorkerEffect
  <2>3. func[hand[c]] \in Tasks /\ runs[func[hand[c]]] = 0
    BY <2>1
  <2> QED BY <2>1, <2>2, <2>3
<1>7. ASSUME NEW t \in Threads, LoopTest(t) \/ Wait(t) \/ Wake(t) \/ RunEnd(t) \/ RunEndFreed(t)
      PROVE  TaskInv'
  <2>1. UNCHANGED <<loop, func, runs, callerVars>>
    BY <1>7 DEF LoopTest, Wait, Wake, RunEnd, RunEndFreed
  <2>2. \A u \in Threads : Armed(u)' => Armed(u)
    BY <1>7 DEF LoopTest, Wait, Wake, AfterWake, RunEnd, RunEndFreed
  <2> QED BY <2>1, <2>2
<1>8. ASSUME NEW t \in Threads, Handle(t) PROVE TaskInv'
  <2>1. wpc[t] = "running" /\ wpc' = [wpc EXCEPT ![t] = "ending"] /\ loop[t]
    BY <1>8 DEF Handle, OwnInv
  <2>2. func[t] \in Tasks /\ runs[func[t]] = 0
    BY <2>1
  <2>3. runs' = [runs EXCEPT ![func[t]] = 1] /\ UNCHANGED <<loop, func, callerVars>>
    BY <1>8, <2>2 DEF Handle
  <2>4. \A c \in Callers : Submitting(c) => task[c] # func[t]
    BY <2>1, <1>a DEF Holding
  <2>5. \A u \in Threads : u # t => func[u] # func[t]
    BY <2>2
  <2> QED BY <2>1, <2>2, <2>3, <2>4, <2>5
<1>9. ASSUME NEW t \in Threads, Announce(t) PROVE TaskInv'
  <2>1. \A c \in Callers : (Submitting(c)' <=> Submitting(c)) /\ (cpc'[c] = "notify" <=> cpc[c] = "notify")
    BY <1>9 DEF Announce
  <2>2. (\A u \in Threads : Armed(u)' => Armed(u)) /\ UNCHANGED <<loop, func, runs, hand, task, calls>>
    BY <1>9 DEF Announce
  <2> QED BY <2>1, <2>2
<1>10. CASE CloseStart \/ GcLook \/ GcLock \/ GcOrphaned \/ StopNone \/ TrimDone
  <2>1. UNCHANGED <<wpc, loop, func, runs, cpc, hand, task, calls>>
    BY <1>10 DEF CloseStart, GcLook, GcLock, GcOrphaned, StopNone, TrimDone
  <2> QED BY <2>1
<1>11. CASE StopFront
  <2>1. Head(queue) \in Threads
    BY <1>11 DEF StopFront, Live
  <2>2. /\ loop' = [loop EXCEPT ![Head(queue)] = FALSE] /\ wpc' = NotifyWorker(Head(queue))
        /\ UNCHANGED <<func, runs, callerVars>>
    BY <1>11 DEF StopFront
  <2>3. \A u \in Threads : Armed(u)' => Armed(u)
    BY <2>1, <2>2, NotifyWorkerEffect
  <2> QED BY <2>2, <2>3
<1>12. CASE JoinFront
  <2>1. \A u \in Threads : Armed(u)' => Armed(u)
    BY <1>12 DEF JoinFront
  <2> QED BY <1>12, <2>1 DEF JoinFront
<1>13. ASSUME NEW t, SpuriousWorker(t) \/ SpuriousCaller(t) PROVE FALSE
  <2>1. spurious' = spurious + 1 /\ spurious \in Nat
    BY <1>13 DEF SpuriousWorker, SpuriousCaller
  <2> QED BY ONLY <2>1, spurious' = 0
<1>14. CASE UNCHANGED vars
  BY <1>14 DEF vars
<1> QED
  BY <1>1, <1>2, <1>3, <1>4, <1>5, <1>6, <1>7, <1>8, <1>9, <1>10, <1>11, <1>12, <1>13, <1>14
     DEF Next, Caller, Worker, Trimmer

TaskClean == spurious = 0 => TaskInv

(* As long as no wake-up was spurious, no task is executed twice, and none  *)
(* before run() was called for it (thread.cpp:29-46, 67-72).                *)
THEOREM PoolAtMostOnce == Spec => []AtMostOnce
<1>1. Init => TaskClean
  BY PoolAssumption DEF Init, TaskClean, TaskInv, Submitting, Armed, Tasks
<1>2. TypeOK /\ TrimInv /\ OwnClean /\ TaskClean /\ [Next]_vars => TaskClean'
  BY TaskStep, SpuriousGrows DEF OwnClean, TaskClean
<1>3. TypeOK /\ TaskClean => AtMostOnce
  BY DEF TypeOK, TaskClean, TaskInv, AtMostOnce, Tasks
<1> QED BY <1>1, <1>2, <1>3, PoolTyped, PoolOwned, PTL DEF Spec
===========================================================================
