--------------------------- MODULE BroadcastQueue ---------------------------
(***************************************************************************)
(* The broadcast queue of websocket::CMsgCommunication                     *)
(* (ws_server/source/communication.cpp): threads of Pushers call           *)
(* pushBroadcastMessage(), one broadcast thread runs broadcastHandler(),   *)
(* and the destructor stops it.  All of them share m_msgQueueMutex and one *)
(* condition variable, m_msgQueueCv.                                       *)
(*                                                                         *)
(* A critical section is one step, and so is what lies between two.        *)
(* Messages are named by the order in which they entered the queue.  Who   *)
(* receives a message is the subject of module Subscriptions: here a       *)
(* message has subscribers or not, and sending it may throw.               *)
(*                                                                         *)
(*   pusher:       idle -> called -> (wait ->) push -> notify -> idle      *)
(*   broadcaster:  test -> looped -> (wait -> woken ->) taken -> send ->   *)
(*                 notify -> test, or ended                                *)
(*   destructor:   up -> flagged -> join -> gone                           *)
(*                                                                         *)
(* WsBroadcast, which uses it, states what it assumes of the constants.    *)
(***************************************************************************)
EXTENDS Integers, Sequences, FiniteSets

CONSTANTS Pushers,     \* threads that call pushBroadcastMessage
          Broadcaster, \* the thread of startBroadcastThread
          QueueMax,    \* m_msgQueueMax
          MaxPushed    \* bound: how many messages are ever pushed

VARIABLES queue,     \* m_msgQueue
          pushed,    \* how many messages ever entered it
          pc,        \* where each thread is, see above
          running,   \* m_isRunBroadcast
          close,     \* how far the destructor is
          status,    \* "alive"; "undefined" after front() of an empty queue;
                     \* "terminated" after an exception left the thread
          used,      \* history: the threads that ever pushed
          spurious,  \* history: a wait returned unnotified
          unheard    \* history: a message found no subscribers

threadVars == <<queue, pushed, pc>>
closeVars == <<running, close>>
history == <<used, spurious, unheard>>
vars == <<threadVars, closeVars, status, history>>

Threads == Pushers \cup {Broadcaster}
Labels(t) ==
    IF t = Broadcaster
    THEN {"test", "looped", "wait", "woken", "taken", "send", "notify", "ended"}
    ELSE {"idle", "called", "wait", "push", "notify"}
AllLabels == {"idle", "called", "wait", "push", "notify",
              "test", "looped", "woken", "taken", "send", "ended"}
Waiters == {t \in Threads : pc[t] = "wait"}

\* A program that ran into undefined behaviour or std::terminate stops here.
Goto(t, label) == status = "alive" /\ pc' = [pc EXCEPT ![t] = label]

Init == /\ queue = <<>>
        /\ pushed = 0
        /\ pc = [t \in Threads |-> IF t = Broadcaster THEN "test" ELSE "idle"]
        /\ running = TRUE
        /\ close = "up"
        /\ status = "alive"
        /\ used = {}
        /\ spurious = FALSE
        /\ unheard = FALSE

---------------------------------------------------------------------------
(* pushBroadcastMessage(): lines 117-134 *)

Inside == {p \in Pushers : pc[p] # "idle"}

Call(p) ==
    /\ pc[p] = "idle"
    /\ close = "up"
    /\ pushed + Cardinality(Inside) < MaxPushed
    /\ Goto(p, "called")
    /\ used' = used \cup {p}
    /\ UNCHANGED <<queue, pushed, closeVars, status, spurious, unheard>>

Full == Len(queue) > QueueMax

\* An `if`: a thread that is woken pushes without looking again.
Enter(p) ==
    /\ pc[p] = "called"
    /\ Goto(p, IF Full THEN "wait" ELSE "push")
    /\ UNCHANGED <<queue, pushed, closeVars, status, history>>

Push(p) ==
    /\ pc[p] = "push"
    /\ queue' = Append(queue, pushed + 1)
    /\ pushed' = pushed + 1
    /\ Goto(p, "notify")
    /\ UNCHANGED <<closeVars, status, history>>

---------------------------------------------------------------------------
(* broadcastHandler(): lines 86-107 *)

LoopTest ==
    /\ pc[Broadcaster] = "test"
    /\ Goto(Broadcaster, IF running THEN "looped" ELSE "ended")
    /\ UNCHANGED <<queue, pushed, closeVars, status, history>>

Sleep ==
    /\ pc[Broadcaster] = "looped"
    /\ queue = <<>>
    /\ Goto(Broadcaster, "wait")
    /\ UNCHANGED <<queue, pushed, closeVars, status, history>>

\* Faulty variant: front() is copied and nothing popped.
Rest_Kept == queue

\* Faulty variant: the newest message is popped.
Rest_WithoutNewest == SubSeq(queue, 1, Len(queue) - 1)

Rest == Tail(queue)

Take ==
    /\ pc[Broadcaster] \in {"looped", "woken"}
    /\ queue # <<>>
    /\ queue' = Rest
    /\ Goto(Broadcaster, "taken")
    /\ UNCHANGED <<pushed, closeVars, status, history>>

\* The `if` again: a wake-up is taken for a message.
TakeNothing ==
    /\ pc[Broadcaster] = "woken"
    /\ queue = <<>>
    /\ Goto(Broadcaster, "woken")
    /\ status' = "undefined"
    /\ UNCHANGED <<queue, pushed, closeVars, history>>

\* findSubscribers() finds some ...
Heard ==
    /\ pc[Broadcaster] = "taken"
    /\ Goto(Broadcaster, "send")
    /\ UNCHANGED <<queue, pushed, closeVars, status, history>>

\* ... or none, and the loop goes round without a notification.
Unheard ==
    /\ pc[Broadcaster] = "taken"
    /\ Goto(Broadcaster, "test")
    /\ unheard' = TRUE
    /\ UNCHANGED <<queue, pushed, closeVars, status, used, spurious>>

\* broadcast() sends to every subscriber; send() throws for one that closed.
Send ==
    /\ pc[Broadcaster] = "send"
    /\ Goto(Broadcaster, "notify")
    /\ UNCHANGED <<queue, pushed, closeVars, status, history>>

SendThrows ==
    /\ pc[Broadcaster] = "send"
    /\ Goto(Broadcaster, "ended")
    /\ status' = "terminated"
    /\ UNCHANGED <<queue, pushed, closeVars, history>>

---------------------------------------------------------------------------
(* m_msgQueueCv *)

\* What a thread does after its wait(), and after its notify_one().
Resumed(t) == IF t = Broadcaster THEN "woken" ELSE "push"

After(t) == IF t = Broadcaster THEN "test" ELSE "idle"

\* Faulty variants: the notification of one side is forgotten.
MayWake_NotByPusher(t) == IF t \in Pushers THEN {} ELSE Waiters
MayWake_NotByBroadcaster(t) == IF t = Broadcaster THEN {} ELSE Waiters

\* Whom a notify_one() of t can reach: pushers and broadcaster alike.
MayWake(t) == Waiters

Notify(t) ==
    /\ pc[t] = "notify"
    /\ status = "alive"
    /\ \/ /\ MayWake(t) = {}
          /\ pc' = [pc EXCEPT ![t] = After(t)]
       \/ \E u \in MayWake(t) :
             pc' = [pc EXCEPT ![t] = After(t), ![u] = Resumed(u)]
    /\ UNCHANGED <<queue, pushed, closeVars, status, history>>

SpuriousWake(t) ==
    /\ pc[t] = "wait"
    /\ Goto(t, Resumed(t))
    /\ spurious' = TRUE
    /\ UNCHANGED <<queue, pushed, closeVars, status, used, unheard>>

---------------------------------------------------------------------------
(* ~CMsgCommunication(): lines 79-84, once nobody pushes any more *)

CloseFlag ==
    /\ close = "up"
    /\ Inside = {}
    /\ status = "alive"
    /\ close' = "flagged"
    /\ running' = FALSE
    /\ UNCHANGED <<threadVars, status, history>>

\* notify_all(), no mutex held: it wakes a broadcaster that already waits.
CloseNotify ==
    /\ close = "flagged"
    /\ status = "alive"
    /\ close' = "join"
    /\ pc' = [t \in Threads |-> IF t \in Waiters THEN Resumed(t) ELSE pc[t]]
    /\ UNCHANGED <<queue, pushed, running, status, history>>

CloseJoin ==
    /\ close = "join"
    /\ status = "alive"
    /\ pc[Broadcaster] = "ended"
    /\ close' = "gone"
    /\ UNCHANGED <<threadVars, running, status, history>>

---------------------------------------------------------------------------

PusherStep(p) == Enter(p) \/ Push(p) \/ Notify(p)

BroadcasterStep == \/ LoopTest \/ Sleep \/ Take \/ TakeNothing
                   \/ Heard \/ Unheard \/ Send \/ SendThrows
                   \/ Notify(Broadcaster)

Next == \/ \E p \in Pushers : Call(p) \/ PusherStep(p)
        \/ BroadcasterStep
        \/ \E t \in Threads : SpuriousWake(t)
        \/ CloseFlag \/ CloseNotify \/ CloseJoin

Spec == Init /\ [][Next]_vars

(***************************************************************************)
(* A thread that does not wait keeps running.  Nothing forces a call, a    *)
(* spurious wake-up or the destructor.                                     *)
(***************************************************************************)
Fairness == /\ WF_vars(BroadcasterStep)
            /\ \A p \in Pushers : WF_vars(PusherStep(p))

FairSpec == Spec /\ Fairness

---------------------------------------------------------------------------
(* Properties *)

(* Every variable has its type. *)
TypeOK ==
    /\ queue \in Seq(Nat)
    /\ pushed \in Nat
    /\ pc \in [Threads -> AllLabels] /\ \A t \in Threads : pc[t] \in Labels(t)
    /\ running \in BOOLEAN
    /\ close \in {"up", "flagged", "join", "gone"}
    /\ status \in {"alive", "undefined", "terminated"}
    /\ used \in SUBSET Pushers
    /\ spurious \in BOOLEAN
    /\ unheard \in BOOLEAN

(* A message is never forgotten: while the broadcaster waits with messages  *)
(* in the queue, some pusher is still going to notify, although the single  *)
(* notification of a push (line 133) may have woken another pusher instead. *)
BroadcasterNotForgotten ==
    pc[Broadcaster] = "wait" /\ queue # <<>> =>
        \E p \in Pushers : pc[p] \in {"push", "notify"}

\* The broadcaster has a message in hand and may still notify (line 114).
Delivering == pc[Broadcaster] \in {"taken", "send", "notify"}

(* As long as every message had subscribers, a pusher waits on an empty     *)
(* queue only while the broadcaster is delivering or another pusher is      *)
(* about to push (lines 114, 121, 133).  A message nobody hears (line 103)  *)
(* takes that away: then all may wait on an empty queue.                    *)
PusherNotForgotten ==
    /\ status = "alive" /\ queue = <<>> /\ ~unheard
    /\ \E p \in Pushers : pc[p] = "wait"
    => Delivering \/ \E p \in Pushers : pc[p] = "push"

(* m_msgQueueMax bounds the queue only for a single pushing thread, and     *)
(* two above: one for the `>` of line 120, one for a stale notification.    *)
(* Two pushing threads can wake each other past any length.                 *)
SinglePusherBound ==
    Cardinality(used) <= 1 /\ ~spurious => Len(queue) <= QueueMax + 2

(* The broadcaster takes the messages in the order of their pushes, each    *)
(* once and none left out.                                                  *)
AsFifo == INSTANCE Fifo WITH Capacity <- MaxPushed,
                             inTransit <- queue,
                             accepted <- pushed
ImplementsFifo == AsFifo!Spec

Stopped == status # "alive" \/ ~running

(* Every message pushed is taken, unless the process fails or closes. *)
EveryMessageTaken == \A n \in 1..MaxPushed :
    pushed >= n ~> pushed - Len(queue) >= n \/ Stopped
=============================================================================
