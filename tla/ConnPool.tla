------------------------------ MODULE ConnPool ------------------------------
(***************************************************************************)
(* dbconnpool::CMysqlwrapConnPool: connect() and freeConnect().            *)
(*                                                                         *)
(* connect() tests m_busyCount without the mutex, waits if the pool is     *)
(* busy, then in one critical section takes an idle connection, creates    *)
(* one, or goes round again.  The two branches of that section are not     *)
(* exclusive: a thread that took the last idle connection goes on to       *)
(* create another and forgets the first.  An exception of Connect() leaves *)
(* m_queueMutex locked for ever: jammed.                                   *)
(*                                                                         *)
(*   caller: idle -> toWait -> waiting -> woken -> toTake -> again -> ...   *)
(*           toTake -> holding -> notify -> idle, or toTake -> threw        *)
(***************************************************************************)
EXTENDS Integers, Sequences, FiniteSets

CONSTANTS Callers,        \* threads that call connect() and then freeConnect()
          Max,            \* m_max
          ConnectFails    \* whether Database::Connect() may throw

ASSUME ConnPoolAssumption == /\ IsFiniteSet(Callers)
                             /\ Max \in Nat \ {0}
                             /\ ConnectFails \in BOOLEAN

VARIABLES queue,      \* m_queue: the idle connections
          busy,       \* m_busyCount
          made,       \* how many connections were created; they are numbered
          pc,         \* control of each caller
          conn,       \* db: the connection of each caller that is holding one
          jammed      \* m_queueMutex was left locked

vars == <<queue, busy, made, pc, conn, jammed>>

Goto(c, from, to) == pc[c] \in from /\ pc' = [pc EXCEPT ![c] = to]

Init == /\ queue = <<>> /\ busy = 0 /\ made = 0 /\ jammed = FALSE
        /\ pc = [c \in Callers |-> "idle"]
        /\ conn = [c \in Callers |-> 0]

---------------------------------------------------------------------------
(* connect(): mysqlwrapconnpool.cpp:26-51 *)

\* Line 33: the count is read without the mutex, at the start of every round.
Check(c) == /\ Goto(c, {"idle", "again"}, IF busy >= Max THEN "toWait" ELSE "toTake")
            /\ UNCHANGED <<queue, busy, made, conn, jammed>>

\* Lines 34-35: the wait has no predicate.
Wait(c) == /\ ~jammed
           /\ Goto(c, {"toWait"}, "waiting")
           /\ UNCHANGED <<queue, busy, made, conn, jammed>>

Resume(c) == /\ ~jammed
             /\ Goto(c, {"woken"}, "toTake")
             /\ UNCHANGED <<queue, busy, made, conn, jammed>>

\* Lines 38-42: an idle connection is taken first, if there is one.
Popped == queue # <<>>

\* Faulty variant: the idle connection is used but stays in the queue.
QueueAfterPop_Kept == queue

QueueAfterPop == IF Popped THEN Tail(queue) ELSE queue

BusyAfterPop == IF Popped THEN busy + 1 ELSE busy

\* Line 43, tested after the pop as well.
MustCreate == QueueAfterPop = <<>> /\ BusyAfterPop < Max

TakeIdle(c) ==
    /\ ~jammed /\ Popped /\ ~MustCreate
    /\ Goto(c, {"toTake"}, "holding")
    /\ conn' = [conn EXCEPT ![c] = Head(queue)]
    /\ queue' = QueueAfterPop /\ busy' = BusyAfterPop
    /\ UNCHANGED <<made, jammed>>

\* Lines 44-46; the connection popped before, if any, is in no queue any more.
TakeNew(c) ==
    /\ ~jammed /\ MustCreate
    /\ Goto(c, {"toTake"}, "holding")
    /\ made' = made + 1
    /\ conn' = [conn EXCEPT ![c] = made + 1]
    /\ queue' = QueueAfterPop /\ busy' = BusyAfterPop + 1
    /\ UNCHANGED jammed

ConnectThrows(c) ==
    /\ ConnectFails
    /\ ~jammed /\ MustCreate
    /\ Goto(c, {"toTake"}, "threw")
    /\ jammed' = TRUE
    /\ queue' = QueueAfterPop /\ busy' = BusyAfterPop
    /\ UNCHANGED <<made, conn>>

TakeNone(c) ==
    /\ ~jammed /\ ~Popped /\ ~MustCreate
    /\ Goto(c, {"toTake"}, "again")
    /\ UNCHANGED <<queue, busy, made, conn, jammed>>

---------------------------------------------------------------------------
(* freeConnect(): lines 53-60 *)

\* Faulty variant: the connection comes back but stays counted.
BusyAfterFree_Kept == busy

BusyAfterFree == busy - 1

Free(c) ==
    /\ ~jammed
    /\ Goto(c, {"holding"}, "notify")
    /\ queue' = Append(queue, conn[c])
    /\ busy' = BusyAfterFree
    /\ UNCHANGED <<made, conn, jammed>>

\* notify_all, after the unlock.
NotifyAll(c) ==
    /\ pc[c] = "notify"
    /\ pc' = [d \in Callers |-> IF d = c THEN "idle"
                                ELSE IF pc[d] = "waiting" THEN "woken" ELSE pc[d]]
    /\ UNCHANGED <<queue, busy, made, conn, jammed>>

\* A condition variable may wake a waiter that nobody notified.
SpuriousWake(c) ==
    /\ Goto(c, {"waiting"}, "woken")
    /\ UNCHANGED <<queue, busy, made, conn, jammed>>

Next == \E c \in Callers :
           \/ Check(c) \/ Wait(c) \/ Resume(c)
           \/ TakeIdle(c) \/ TakeNew(c) \/ ConnectThrows(c) \/ TakeNone(c)
           \/ Free(c) \/ NotifyAll(c) \/ SpuriousWake(c)

Spec == Init /\ [][Next]_vars

---------------------------------------------------------------------------
(* Properties *)

(* Every variable has its type; m_busyCount is unsigned and never wraps.    *)
TypeOK ==
    /\ queue \in Seq(1 .. made) /\ busy \in Nat /\ made \in Nat /\ jammed \in BOOLEAN
    /\ pc \in [Callers -> {"idle", "again", "toWait", "waiting", "woken", "toTake",
                           "holding", "notify", "threw"}]
    /\ conn \in [Callers -> 0 .. made]

Holders == {c \in Callers : pc[c] = "holding"}

(* Although it forgets connections, the pool never makes more than m_max:   *)
(* a forgotten one stays counted as busy for ever (lines 41 and 46).        *)
ConnectionsBounded == made = busy + Len(queue) /\ made <= Max

(* Forgetting them never exhausts the pool: as long as its mutex works, a   *)
(* full pool has a connection that somebody will free (lines 38-47).        *)
NeverExhausted == ~jammed /\ busy >= Max => Holders # {}

(* No connection is handed to two callers, or handed out while it is in the *)
(* queue, through every interleaving of connect() and freeConnect().        *)
AsPool == INSTANCE ResourcePool WITH
             Users <- Callers, Capacity <- Max,
             idle <- {queue[i] : i \in DOMAIN queue},
             inUse <- [c \in Callers |-> IF c \in Holders THEN {conn[c]} ELSE {}]
ImplementsPool == AsPool!Spec
===========================================================================
