------------------------------ MODULE WaitSync ------------------------------
(***************************************************************************)
(* threadsync::CWaitSync (src/threadsync/source/waitgroup.cpp), used as in *)
(* threadsync_test: add() once for each worker before the worker starts,   *)
(* done() once by each worker, and wait() after the last add().            *)
(*                                                                         *)
(*   worker:  new -> working -> notify -> finished                         *)
(*   waiter:  idle -> blocked -> woken -> blocked or returned              *)
(***************************************************************************)
EXTENDS Integers, FiniteSets

CONSTANTS Workers,    \* the threads waited for
          Waiters     \* the threads that call wait(); the test has one

ASSUME WaitSyncAssumption == IsFiniteSet(Workers)

VARIABLES count,      \* m_count
          worker,     \* control of each worker
          waiter,     \* control of each waiter
          early       \* the waiters that entered wait() while m_count > 0

vars == <<count, worker, waiter, early>>

Blocked == {x \in Waiters : waiter[x] = "blocked"}
Pending == {w \in Workers : worker[w] = "working"}

Init == /\ count = 0
        /\ worker = [w \in Workers |-> "new"]
        /\ waiter = [x \in Waiters |-> "idle"]
        /\ early = {}

\* add(), then the start of the worker.
Add(w) == /\ worker[w] = "new"
          /\ count' = count + 1
          /\ worker' = [worker EXCEPT ![w] = "working"]
          /\ UNCHANGED <<waiter, early>>

CountAfterDone == count - 1

\* The critical section of done().
Done(w) == /\ worker[w] = "working"
           /\ count' = CountAfterDone
           /\ worker' = [worker EXCEPT ![w] = "notify"]
           /\ UNCHANGED <<waiter, early>>

\* Faulty variant: a notification reaches nobody.
MayWake_Nobody == {}

\* Whom notify_one() can reach.
MayWake == Blocked

\* m_cv.notify_one(), after the unlock.
Notify(w) == /\ worker[w] = "notify"
             /\ worker' = [worker EXCEPT ![w] = "finished"]
             /\ \/ MayWake = {} /\ UNCHANGED waiter
                \/ \E x \in MayWake : waiter' = [waiter EXCEPT ![x] = "woken"]
             /\ UNCHANGED <<count, early>>

\* wait() blocks before it looks at m_count for the first time.
EnterWait(x) == /\ waiter[x] = "idle"
                /\ \A w \in Workers : worker[w] # "new"
                /\ waiter' = [waiter EXCEPT ![x] = "blocked"]
                /\ early' = IF count > 0 THEN early \cup {x} ELSE early
                /\ UNCHANGED <<count, worker>>

\* Faulty variant: the last worker is not waited for.
MustWait_OffByOne == count > 1

\* The condition of the do-while loop.
MustWait == count > 0

Retest(x) == /\ waiter[x] = "woken"
             /\ waiter' = [waiter EXCEPT ![x] = IF MustWait THEN "blocked" ELSE "returned"]
             /\ UNCHANGED <<count, worker, early>>

\* A condition variable may wake a waiter that nobody notified.
SpuriousWake(x) == /\ waiter[x] = "blocked"
                   /\ waiter' = [waiter EXCEPT ![x] = "woken"]
                   /\ UNCHANGED <<count, worker, early>>

Worker(w) == Add(w) \/ Done(w) \/ Notify(w)
Waiter(x) == EnterWait(x) \/ Retest(x)

Next == \/ \E w \in Workers : Worker(w)
        \/ \E x \in Waiters : Waiter(x) \/ SpuriousWake(x)

Spec == Init /\ [][Next]_vars

\* Every thread that is not blocked runs on; spurious wake-ups are not owed.
Fairness == /\ \A w \in Workers : WF_vars(Worker(w))
            /\ \A x \in Waiters : WF_vars(Waiter(x))

FairSpec == Spec /\ Fairness

---------------------------------------------------------------------------
(* Properties *)

(* Every variable has its type, and m_count is never negative. *)
TypeOK == /\ count \in Nat
          /\ worker \in [Workers -> {"new", "working", "notify", "finished"}]
          /\ waiter \in [Waiters -> {"idle", "blocked", "woken", "returned"}]
          /\ early \in SUBSET Waiters

(* wait() returns only when every worker has called done(), although other  *)
(* workers' notifications and spurious wake-ups release it from m_cv before *)
(* (waitgroup.cpp:20-23).                                                   *)
WaitMeansDone ==
    \A x \in Waiters : waiter[x] = "returned" =>
        \A w \in Workers : worker[w] \in {"notify", "finished"}

(* A single waiter that came while work was left is never left behind: when *)
(* the last done() has run and it still blocks, a notification is due.      *)
NoStranding ==
    \A x \in early : Waiters = {x} /\ waiter[x] = "blocked" /\ count = 0 =>
        \E w \in Workers : worker[w] = "notify"

(* The test prints "all thread execute complate" once wait() returns, and   *)
(* the program is to get there however fast its workers are.                *)
WaitReturns == \A x \in Waiters : waiter[x] = "blocked" ~> waiter[x] = "returned"

(* That message is true, and waitSync may be destroyed after it: no worker  *)
(* is still inside done() (waitgroup.cpp:37-38).                            *)
ReturnMeansFinished ==
    \A x \in Waiters : waiter[x] = "returned" => \A w \in Workers : worker[w] = "finished"
===========================================================================
