------------------------------ MODULE Channel ------------------------------
(***************************************************************************)
(* commuchannel::CChannel<T> (header/commuchannel/commuchannel.h), the     *)
(* bounded queue under workqueue::CSingleQueue and under the connection    *)
(* handshake of websocket::CClient.                                        *)
(*                                                                         *)
(* Threads of Writers call write(), threads of Readers call read() in its  *)
(* blocking or its timed form.  Every critical section of m_mutex is one   *)
(* step, because no thread keeps m_mutex across two of them; what lies     *)
(* between two critical sections, and between the last one and             *)
(* notify_one(), is a state of its own.  An item is named by the order in  *)
(* which it was pushed; its contents play no part.                         *)
(*                                                                         *)
(* Life of a call, by the value of pc:                                     *)
(*   write:  idle -> pushed -> (blocked -> woken)* -> notify -> idle       *)
(*   read:   idle -> (blocked -> woken)* -> passed -> notify -> idle       *)
(* "blocked" is the wait set of m_cv: one condition variable for writers   *)
(* and readers alike.                                                      *)
(***************************************************************************)
EXTENDS Integers, Sequences, FiniteSets

CONSTANTS Writers,    \* threads that call write / push
          Readers,    \* threads that call read / pop
          Size,       \* m_size, the constructor's argument
          MaxItems    \* bound: how many items are ever written

ASSUME ThreadsAssumption == /\ IsFiniteSet(Writers)
                            /\ IsFiniteSet(Readers)
                            /\ Writers \cap Readers = {}
ASSUME SizeAssumption == Size \in Nat \ {0}
ASSUME MaxItemsAssumption == MaxItems \in Nat

VARIABLES queue,      \* m_queue
          pc,         \* where each thread is, see above
          timed,      \* the readers whose current call is the timed overload
          pushed,     \* how many items were ever pushed
          undefined   \* front()/pop() was called on an empty std::queue

vars == <<queue, pc, timed, pushed, undefined>>

Threads == Writers \cup Readers
Labels == {"idle", "pushed", "blocked", "woken", "passed", "notify"}

Waiters == {t \in Threads : pc[t] = "blocked"}

\* Nothing can be said of a program after undefined behaviour: it stops here.
Goto(t, label) == ~undefined /\ pc' = [pc EXCEPT ![t] = label]

Init == /\ queue = <<>>
        /\ pc = [t \in Threads |-> "idle"]
        /\ timed = {}
        /\ pushed = 0
        /\ undefined = FALSE

---------------------------------------------------------------------------
(* write(): lines 29-40 *)

\* The data of the next write: its place in the order of pushes.
Item == pushed + 1

\* lock; m_queue.push(data); unlock.  The item is in before room is checked.
Push(w) ==
    /\ pc[w] = "idle"
    /\ pushed < MaxItems
    /\ queue' = Append(queue, Item)
    /\ pushed' = pushed + 1
    /\ Goto(w, "pushed")
    /\ UNCHANGED <<timed, undefined>>

\* Faulty variant: one item too many is let through.
HasRoom_OffByOne == Len(queue) <= Size + 1

\* The test of the while loop, m_mutex held, on entry and after every wake-up.
HasRoom == Len(queue) <= Size

WriteBlock(w) ==
    /\ pc[w] \in {"pushed", "woken"}
    /\ ~HasRoom
    /\ Goto(w, "blocked")
    /\ UNCHANGED <<queue, timed, pushed, undefined>>

WriteLeave(w) ==
    /\ pc[w] \in {"pushed", "woken"}
    /\ HasRoom
    /\ Goto(w, "notify")
    /\ UNCHANGED <<queue, timed, pushed, undefined>>

---------------------------------------------------------------------------
(* read(data) and read(data, timeoutMS): lines 41-71 *)

\* Faulty variant: a wake-up is taken for an item (`if` instead of `while`).
SeesItem_NoRetest(r) == queue # <<>> \/ pc[r] = "woken"

\* The test of the while loop, m_mutex held, on entry and after every wake-up.
SeesItem(r) == queue # <<>>

\* Faulty variant: the newest item is taken instead of the oldest.
Rest_OfNewest == SubSeq(queue, 1, Len(queue) - 1)

\* What pop() leaves.
Rest == Tail(queue)

Reading(r) == pc[r] \in {"idle", "woken"}

\* Which overload this call is; a call that was woken is the same call.
ChooseOverload(r) ==
    IF pc[r] = "idle" THEN timed' \in {timed \ {r}, timed \cup {r}}
                      ELSE UNCHANGED timed

ReadBlock(r) ==
    /\ Reading(r)
    /\ ~SeesItem(r)
    /\ ChooseOverload(r)
    /\ Goto(r, "blocked")
    /\ UNCHANGED <<queue, pushed, undefined>>

\* The queue was seen non-empty and the lock is dropped: lk.unlock().
ReadPass(r) ==
    /\ Reading(r)
    /\ SeesItem(r)
    /\ ChooseOverload(r)
    /\ Goto(r, "passed")
    /\ UNCHANGED <<queue, pushed, undefined>>

\* wait_for ran out: the call returns false without looking at the queue again,
\* even when a notification reached it first (it then asks only for the time).
TimedOut(r) ==
    /\ pc[r] \in {"blocked", "woken"}
    /\ r \in timed
    /\ Goto(r, "idle")
    /\ UNCHANGED <<queue, timed, pushed, undefined>>

\* The lock is taken a second time and front()/pop() run with no second test.
Pop(r) ==
    /\ pc[r] = "passed"
    /\ queue # <<>>
    /\ queue' = Rest
    /\ Goto(r, "notify")
    /\ UNCHANGED <<timed, pushed, undefined>>

PopEmpty(r) ==
    /\ pc[r] = "passed"
    /\ queue = <<>>
    /\ undefined' = TRUE
    /\ Goto(r, "passed")
    /\ UNCHANGED <<queue, timed, pushed>>

---------------------------------------------------------------------------
(* The condition variable *)

\* Faulty variant: a writer forgets to notify.
MayWake_NotByWriter(t) == IF t \in Readers THEN Waiters ELSE {}

\* Who a notify_one() of t can reach: any waiter, writer or reader.
MayWake(t) == Waiters

\* m_cv.notify_one() after unlocking: one waiter, if there is any.
Notify(t) ==
    /\ pc[t] = "notify"
    /\ ~undefined
    /\ \/ /\ MayWake(t) = {}
          /\ pc' = [pc EXCEPT ![t] = "idle"]
       \/ \E u \in MayWake(t) : pc' = [pc EXCEPT ![t] = "idle", ![u] = "woken"]
    /\ UNCHANGED <<queue, timed, pushed, undefined>>

\* A condition variable may wake a waiter that nobody notified.
SpuriousWake(t) ==
    /\ pc[t] = "blocked"
    /\ Goto(t, "woken")
    /\ UNCHANGED <<queue, timed, pushed, undefined>>

---------------------------------------------------------------------------

Write(w) == Push(w) \/ WriteBlock(w) \/ WriteLeave(w)
Read(r)  == ReadBlock(r) \/ ReadPass(r) \/ TimedOut(r) \/ Pop(r) \/ PopEmpty(r)

Next == \/ \E w \in Writers : Write(w)
        \/ \E r \in Readers : Read(r)
        \/ \E t \in Threads : Notify(t) \/ SpuriousWake(t)

Spec == Init /\ [][Next]_vars

(***************************************************************************)
(* A thread that is not waiting keeps running, and readers call read()     *)
(* again and again, as the loops of the tests do.  Nothing forces another  *)
(* write, a timeout or a spurious wake-up.                                 *)
(***************************************************************************)
Fairness ==
    /\ \A w \in Writers : WF_vars(WriteBlock(w) \/ WriteLeave(w) \/ Notify(w))
    /\ \A r \in Readers :
          WF_vars(ReadBlock(r) \/ ReadPass(r) \/ Pop(r) \/ Notify(r))

FairSpec == Spec /\ Fairness

---------------------------------------------------------------------------
(* Properties *)

(* Every variable has its type. *)
TypeOK ==
    /\ queue \in Seq(Nat)
    /\ pc \in [Threads -> Labels]
    /\ timed \in SUBSET Readers
    /\ pushed \in Nat
    /\ undefined \in BOOLEAN

\* Writers that pushed and have not yet seen the queue with room.
Overshooting == {w \in Writers : pc[w] \in {"pushed", "blocked", "woken"}}

(* write() pushes before it waits, so m_size does not bound the queue; what *)
(* does bound it is m_size plus one item for each writer still inside       *)
(* write() (commuchannel.h:31-37).                                          *)
OvershootBound == Len(queue) <= Size + Cardinality(Overshooting)

(* A single reader that saw the queue non-empty (commuchannel.h:44) still   *)
(* finds it non-empty when it takes the lock again to pop (lines 47-50).    *)
ReaderFindsItem ==
    Cardinality(Readers) = 1 => ~undefined /\ \A r \in Readers : pc[r] = "passed" => queue # <<>>

(* One writer and one reader never wait for each other: a reader waits with *)
(* an item in the queue only while the writer is on its way to notify, and  *)
(* a writer waits with room only while the reader is on its way to notify.  *)
NoLostWakeup ==
    \A w \in Writers, r \in Readers : Writers = {w} /\ Readers = {r} =>
        /\ pc[r] = "blocked" /\ queue # <<>> => pc[w] \in {"pushed", "notify"}
        /\ pc[w] = "blocked" /\ HasRoom => pc[r] = "notify"

(* The channel is a FIFO in which at most Size items plus one per writer    *)
(* are in transit, whatever the number of threads: it never loses, repeats  *)
(* or reorders an item, up to the undefined pop.                            *)
AsFifo == INSTANCE Fifo WITH Capacity <- Size + Cardinality(Writers),
                             inTransit <- queue,
                             accepted <- pushed
ImplementsFifo == AsFifo!Spec

(* With one writer and one reader, every item pushed is eventually popped:  *)
(* the producer/consumer pairs of commuchannel_test and workqueue_test.     *)
EveryItemRead == \A n \in 1..MaxItems :
    pushed >= n ~> pushed - Len(queue) >= n
===========================================================================
