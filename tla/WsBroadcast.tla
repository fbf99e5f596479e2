---------------------------- MODULE WsBroadcast ----------------------------
(***************************************************************************)
(* The broadcasts of websocket::CServer as a whole: the queue of           *)
(* BroadcastQueue feeds the broadcast thread, which looks its subscribers  *)
(* up in the maps of Subscriptions.  The two share that thread, and the    *)
(* process they both can bring down.  Message n is about TopicOf[n].       *)
(***************************************************************************)
EXTENDS Integers, Sequences, FiniteSets

CONSTANTS Pushers, Broadcaster, QueueMax, MaxPushed,
          Conns, Urls, Topics, Matches, Rank, MaxRequests,
          TopicOf     \* the topic of the n-th message

ASSUME ThreadsAssumption == IsFiniteSet(Pushers) /\ Broadcaster \notin Pushers
ASSUME BoundsAssumption == QueueMax \in Nat /\ MaxPushed \in Nat /\ MaxRequests \in Nat
ASSUME MatchesAssumption == Matches \subseteq Topics \X Urls
ASSUME RankAssumption == /\ Rank \in [Urls -> Nat]
                         /\ \A u, v \in Urls : Rank[u] = Rank[v] => u = v
ASSUME TopicOfAssumption == TopicOf \in [1..MaxPushed -> Topics]

VARIABLES queue, pushed, pc, running, close, used, spurious, unheard,
          conn, subs, urls, fresh, held, received, stage, topic, found, left,
          torn, raced, several, late,
          status,
          now,     \* the message the broadcast thread took last, 0 at first
          owed,    \* history: <<c, n>>: c is to receive message n, see Entitled
          got      \* history: what each connection received

Q == INSTANCE BroadcastQueue
S == INSTANCE Subscriptions

queueVars == <<queue, pushed, pc, running, close, used, spurious, unheard>>
subsVars == <<conn, subs, urls, fresh, held, received, stage, topic, found, left,
              torn, raced, several, late>>
vars == <<queueVars, subsVars, status, now, owed, got>>

Init == /\ Q!Init
        /\ S!Init
        /\ now = 0
        /\ owed = {}
        /\ got = [c \in Conns |-> <<>>]

---------------------------------------------------------------------------
(* Steps of one part *)

\* The connections that are entitled to the next message: open, subscribed,
\* and to the only URL that its topic can match.
Entitled(n) ==
    {c \in Conns : /\ conn[c] = "open"
                   /\ \E u \in S!SubsOf(c) :
                         \A v \in Urls : <<TopicOf[n], v>> \in Matches <=> v = u}

Push(p) ==
    /\ Q!Push(p)
    /\ owed' = owed \cup (Entitled(pushed') \X {pushed'})
    /\ UNCHANGED <<subsVars, now, got>>

QueueStep ==
    /\ \/ \E p \in Pushers : Q!Call(p) \/ Q!Enter(p)
       \/ \E t \in Pushers \cup {Broadcaster} : Q!Notify(t) \/ Q!SpuriousWake(t)
       \/ Q!LoopTest \/ Q!Sleep \/ Q!TakeNothing
       \/ Q!CloseFlag \/ Q!CloseNotify \/ Q!CloseJoin
    /\ UNCHANGED <<subsVars, now, owed, got>>

\* A change of subscriptions or connections: who lost what it is owed?
Forfeit == owed' = {o \in owed : /\ conn'[o[1]] = "open"
                                 /\ S!SubsOf(o[1]) \subseteq S!SubsOf(o[1])'}

SubsStep ==
    /\ S!RequestStep \/ S!ConnStep \/ S!ReadTorn
    /\ Forfeit
    /\ UNCHANGED <<queueVars, now, got>>

---------------------------------------------------------------------------
(* Steps of the broadcast thread that concern both *)

Take ==
    /\ Q!Take
    /\ now' = Head(queue)
    /\ UNCHANGED <<subsVars, owed, got>>

Lookup ==
    /\ pc[Broadcaster] = "taken"
    /\ S!Match(TopicOf[now]) \/ (\E u \in Urls : S!MatchFound(u))
    /\ UNCHANGED <<queueVars, now, owed, got>>

Found ==
    /\ Q!Heard
    /\ \E s \in SUBSET Conns : S!CopySubscribers(s)
    /\ UNCHANGED <<now, owed, got>>

NobodyFound ==
    /\ Q!Unheard
    /\ S!NobodyFound
    /\ UNCHANGED <<now, owed, got>>

SendTo(c) ==
    /\ pc[Broadcaster] = "send"
    /\ S!SendTo(c)
    /\ got' = [got EXCEPT ![c] = Append(@, now)]
    /\ UNCHANGED <<queueVars, now, owed>>

SendThrows ==
    /\ Q!SendThrows
    /\ \E c \in Conns : S!SendThrows(c)
    /\ UNCHANGED <<now, owed, got>>

SendDone ==
    /\ Q!Send
    /\ S!SendDone
    /\ UNCHANGED <<now, owed, got>>

Next == \/ \E p \in Pushers : Push(p)
        \/ QueueStep
        \/ SubsStep
        \/ Take
        \/ Lookup
        \/ Found
        \/ NobodyFound
        \/ \E c \in Conns : SendTo(c)
        \/ SendThrows
        \/ SendDone

Spec == Init /\ [][Next]_vars

---------------------------------------------------------------------------
(* Properties *)

(* Every variable has its type. *)
TypeOK == /\ Q!TypeOK
          /\ S!TypeOK
          /\ now \in 0..MaxPushed
          /\ owed \in SUBSET (Conns \X (1..MaxPushed))
          /\ got \in [Conns -> Seq(1..MaxPushed)]

(* Of the queue by itself: no pusher is forgotten, and the messages are     *)
(* taken in the order of their pushes (communication.cpp:95-134).           *)
PusherNotForgotten == Q!PusherNotForgotten
ImplementsFifo == Q!ImplementsFifo

RegistryAgrees == S!RegistryAgrees
ClosedUnsubscribed == S!ClosedUnsubscribed

Received(c, n) == \E i \in DOMAIN got[c] : got[c][i] = n

\* Message n is through: the broadcast thread has gone on to something else.
Through(n) == n <= now /\ (n = now => pc[Broadcaster] \notin {"taken", "send"})

(* A connection that is open and subscribed when a message enters the queue *)
(* and stays so receives it, whatever other connections and topics do       *)
(* meanwhile, unless a data race made findSubscribers() return nonsense     *)
(* (lines 131, 95-105, 195-209).                                            *)
LoyalSubscriberServed ==
    status = "alive" /\ ~raced =>
        \A o \in owed : Through(o[2]) => Received(o[1], o[2])

(* No connection receives a message twice, or after a later one. *)
ReceivedInOrder ==
    \A c \in Conns : \A i, j \in DOMAIN got[c] : i < j => got[c][i] < got[c][j]
=============================================================================
