---------------------------- MODULE CurlConnMgr ----------------------------
(***************************************************************************)
(* http::CCurlConnMgr and the life of a connection in CCurlConnect::send   *)
(* (src/curl_client).                                                      *)
(*                                                                         *)
(* create() takes an idle connection under m_mutex; when there is none it  *)
(* compares m_count with m_max and increments it with no lock at all, or   *)
(* sleeps and tries again.  send() gives its own connection back at its    *)
(* end; on a redirection it first takes a second connection and sends the  *)
(* request on that, which gives the second one back.                       *)
(*                                                                         *)
(*   caller: idle -> pop -> sending -> give -> idle                         *)
(*           pop -> limit -> creating -> counting -> sending                *)
(*           limit -> pop (to sleep and try again)                          *)
(*           sending -> pop (for the redirection)                           *)
(***************************************************************************)
EXTENDS Integers, Sequences, FiniteSets, SequencesExt

CONSTANTS Callers,      \* threads that send requests
          MaxConn,      \* m_max
          Redirects,    \* whether a response may be a redirection to follow
          MaxSends      \* bound: how many requests are ever sent

VARIABLES queue,      \* m_queue: the idle connections
          count,      \* m_count
          made,       \* how many connections were created; they are numbered
          pc,         \* control of each caller
          held,       \* the connections of each caller, the inner send's last
          seen,       \* m_count as the increment of each caller has read it
          sends       \* how many requests were ever sent

vars == <<queue, count, made, pc, held, seen, sends>>

Goto(c, from, to) == pc[c] = from /\ pc' = [pc EXCEPT ![c] = to]

Init == /\ queue = <<>> /\ count = 0 /\ made = 0 /\ sends = 0
        /\ pc = [c \in Callers |-> "idle"]
        /\ held = [c \in Callers |-> <<>>]
        /\ seen = [c \in Callers |-> 0]

Send(c) == /\ sends < MaxSends /\ sends' = sends + 1
           /\ Goto(c, "idle", "pop")
           /\ UNCHANGED <<queue, count, made, held, seen>>

---------------------------------------------------------------------------
(* create(): curl_conn_mgr.cpp:46-73 *)

\* Faulty variant: front() without pop_front().
QueueAfterPop_Kept == queue

QueueAfterPop == Tail(queue)

PopIdle(c) == /\ queue # <<>>
              /\ Goto(c, "pop", "sending")
              /\ held' = [held EXCEPT ![c] = Append(@, Head(queue))]
              /\ queue' = QueueAfterPop
              /\ UNCHANGED <<count, made, seen, sends>>

PopNone(c) == /\ queue = <<>>
              /\ Goto(c, "pop", "limit")
              /\ UNCHANGED <<queue, count, made, held, seen, sends>>

\* Line 58, with no lock: other callers may be past the test already.
BelowLimit == count < MaxConn

\* Those that pass it here may all create a connection.
Admit(c) == /\ BelowLimit
            /\ Goto(c, "limit", "creating")
            /\ UNCHANGED <<queue, count, made, held, seen, sends>>

\* new CCurlConnect, and the first half of ++m_count.
Create(c) == /\ Goto(c, "creating", "counting")
             /\ made' = made + 1
             /\ held' = [held EXCEPT ![c] = Append(@, made + 1)]
             /\ seen' = [seen EXCEPT ![c] = count]
             /\ UNCHANGED <<queue, count, sends>>

Incremented(c) == seen[c] + 1

\* The second half of ++m_count; increments may overwrite one another.
CountUp(c) == /\ Goto(c, "counting", "sending")
              /\ count' = Incremented(c)
              /\ UNCHANGED <<queue, made, held, seen, sends>>

\* Lines 66-69: sleep, then the next round.
Sleep(c) == /\ ~BelowLimit
            /\ Goto(c, "limit", "pop")
            /\ UNCHANGED <<queue, count, made, held, seen, sends>>

---------------------------------------------------------------------------
(* send(): curl_connect.cpp:222-271 *)

\* The inner send, of a redirection, is told not to follow another.
Redirect(c) == /\ Redirects /\ Len(held[c]) = 1
               /\ Goto(c, "sending", "pop")
               /\ UNCHANGED <<queue, count, made, held, seen, sends>>

Finish(c) == /\ Goto(c, "sending", "give")
             /\ UNCHANGED <<queue, count, made, held, seen, sends>>

\* Faulty variant: the connection is not given back.
QueueAfterGive_Lost(c) == queue

QueueAfterGive(c) == Append(queue, Last(held[c]))

\* disconnect(): the inner send gives its connection back before the outer one.
Give(c) == /\ Goto(c, "give", IF Len(held[c]) = 1 THEN "idle" ELSE "give")
           /\ queue' = QueueAfterGive(c)
           /\ held' = [held EXCEPT ![c] = Front(@)]
           /\ UNCHANGED <<count, made, seen, sends>>

Working(c) == \/ PopIdle(c) \/ PopNone(c) \/ Admit(c) \/ Create(c) \/ CountUp(c)
              \/ Sleep(c) \/ Redirect(c) \/ Finish(c) \/ Give(c)

Next == \E c \in Callers : Send(c) \/ Working(c)

Spec == Init /\ [][Next]_vars

\* Threads run, requests end (curl's timeouts) and sleeps are over in time.
Fairness == \A c \in Callers : WF_vars(Working(c))

FairSpec == Spec /\ Fairness

---------------------------------------------------------------------------
(* Properties *)

(* Every variable has its type. *)
TypeOK ==
    /\ queue \in Seq(1 .. made) /\ made \in Nat /\ sends \in 0 .. MaxSends
    /\ count \in 0 .. made
    /\ pc \in [Callers -> {"idle", "pop", "limit", "creating", "counting", "sending", "give"}]
    /\ held \in [Callers -> Seq(1 .. made)] /\ seen \in [Callers -> 0 .. made]

\* How many connections one caller can hold.
Nesting == IF Redirects THEN 2 ELSE 1

Creating == {c \in Callers : pc[c] \in {"limit", "creating"}}

(* m_max is tested with no lock and m_count may lose increments, so m_max   *)
(* does not bound the connections; what does is that one is created only    *)
(* for want of an idle one: never more than the callers can hold at once.   *)
MadeWithinDemand == made + Cardinality(Creating) <= Nesting * Cardinality(Callers)

(* No connection is used by two sends at once, through every interleaving,  *)
(* redirections included.                                                   *)
AsPool == INSTANCE ResourcePool WITH
             Users <- Callers, Capacity <- Nesting * Cardinality(Callers),
             idle <- {queue[i] : i \in DOMAIN queue},
             inUse <- [c \in Callers |-> {held[c][i] : i \in DOMAIN held[c]}]
ImplementsPool == AsPool!Spec

(* Every request ends when there is a connection more than there are        *)
(* callers; with fewer, redirected requests wait for each other for ever.   *)
EverySendEnds ==
    MaxConn > Cardinality(Callers) => \A c \in Callers : pc[c] = "pop" ~> pc[c] = "idle"
===========================================================================
