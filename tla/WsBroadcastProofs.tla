------------------------- MODULE WsBroadcastProofs -------------------------
(***************************************************************************)
(* Proofs about WsBroadcast for any connections, topics, URLs, pushing     *)
(* threads and numbers of messages and requests, and any m_msgQueueMax.    *)
(***************************************************************************)
EXTENDS WsBroadcast, FiniteSetTheorems, TLAPS

mapState == <<conn, subs, urls, held, several, late>>

\* What the maps need of the types.
MapType == /\ conn \in [Conns -> {"open", "lost", "closed"}]
           /\ subs \in [Urls -> SUBSET Conns]
           /\ urls \in SUBSET Urls
           /\ held \in SUBSET S!Requests

\* Apart from requests and connections nothing changes a subscription.
LEMMA OtherSteps ==
    ASSUME [Next]_vars, ~(S!RequestStep \/ S!ConnStep)
    PROVE  UNCHANGED mapState
<1> USE DEF mapState, subsVars
<1>1. ASSUME NEW p \in Pushers, Push(p) PROVE UNCHANGED mapState
  BY <1>1 DEF Push
<1>2. CASE QueueStep
  BY <1>2 DEF QueueStep
<1>3. CASE SubsStep
  <2>1. S!ReadTorn
    BY <1>3 DEF SubsStep
  <2>2. QED BY <2>1 DEF S!ReadTorn, S!connVars, S!mapVars, S!requestVars
<1>4. CASE Take
  BY <1>4 DEF Take
<1>5. CASE Lookup
  BY <1>5 DEF Lookup, S!Match, S!MatchFound, S!connVars, S!mapVars, S!requestVars
<1>6. CASE Found \/ NobodyFound
  BY <1>6 DEF Found, NobodyFound, S!CopySubscribers, S!NobodyFound,
              S!connVars, S!mapVars, S!requestVars
<1>7. ASSUME NEW c \in Conns, SendTo(c) PROVE UNCHANGED mapState
  BY <1>7 DEF SendTo, S!SendTo, S!connVars, S!mapVars, S!requestVars
<1>8. CASE SendThrows \/ SendDone
  BY <1>8 DEF SendThrows, SendDone, S!SendThrows, S!SendDone,
              S!connVars, S!mapVars, S!requestVars
<1>9. CASE UNCHANGED vars
  BY <1>9 DEF vars
<1>10. QED BY <1>1, <1>2, <1>3, <1>4, <1>5, <1>6, <1>7, <1>8, <1>9 DEF Next

---------------------------------------------------------------------------
(* The registry and the subscriptions agree *)

MapInv == MapType /\ RegistryAgrees

\* One removal, whichever function makes it.
LEMMA RemoveKeeps ==
    ASSUME MapInv, NEW c \in Conns, NEW u \in Urls, S!Remove(c, u)
    PROVE  /\ subs' \in [Urls -> SUBSET Conns]
           /\ urls' = {v \in Urls : subs'[v] # {}}
           /\ urls' \in SUBSET Urls
  BY DEF MapInv, MapType, RegistryAgrees, S!RegistryAgrees, S!Remove, S!UrlsWithout

LEMMA MapStep == MapInv /\ [Next]_vars => MapInv'
<1> SUFFICES ASSUME MapInv, [Next]_vars PROVE MapInv'
  OBVIOUS
<1> USE DEF MapInv, MapType, RegistryAgrees, S!RegistryAgrees
<1>1. CASE ~(S!RequestStep \/ S!ConnStep)
  BY <1>1, OtherSteps DEF mapState
<1>2. ASSUME NEW r \in S!Requests, S!Receive(r) \/ S!GetConnection(r) \/ S!GetExpired(r)
      PROVE  MapInv'
  BY <1>2 DEF S!Receive, S!GetConnection, S!GetExpired, S!connVars, S!mapVars
<1>3. ASSUME NEW r \in S!Requests, S!SubscribeBroadcast(r) PROVE MapInv'
  <2>1. r.conn \in Conns /\ r.url \in Urls
    BY DEF S!Requests
  <2>2. /\ subs' = [subs EXCEPT ![r.url] = @ \cup {r.conn}]
        /\ urls' = urls \cup {r.url}
        /\ held' = held \ {r} /\ conn' = conn
    BY <1>3 DEF S!SubscribeBroadcast, S!connVars
  <2>3. QED BY <2>1, <2>2
<1>4. ASSUME NEW r \in S!Requests, S!UnSubscribeBroadcast(r) PROVE MapInv'
  <2>1. r.conn \in Conns /\ r.url \in Urls
    BY DEF S!Requests
  <2>2. conn' = conn /\ held' = held \ {r}
    BY <1>4 DEF S!UnSubscribeBroadcast, S!connVars
  <2>3. CASE r.conn \in subs[r.url]
    <3>1. S!Remove(r.conn, r.url)
      BY <1>4, <2>3 DEF S!UnSubscribeBroadcast
    <3>2. QED BY <2>1, <2>2, <3>1, RemoveKeeps
  <2>4. CASE r.conn \notin subs[r.url]
    BY <1>4, <2>2, <2>4 DEF S!UnSubscribeBroadcast, S!mapVars
  <2>5. QED BY <2>3, <2>4
<1>5. ASSUME NEW c \in Conns, S!Lose(c) PROVE MapInv'
  BY <1>5 DEF S!Lose, S!mapVars, S!requestVars
<1>6. ASSUME NEW c \in Conns, S!OnClose(c) PROVE MapInv'
  <2>1. conn' \in [Conns -> {"open", "lost", "closed"}] /\ held' = held
    BY <1>6 DEF S!OnClose, S!requestVars
  <2>2. CASE S!Dropped(c) = {}
    BY <1>6, <2>1, <2>2 DEF S!OnClose, S!mapVars
  <2>3. CASE S!Dropped(c) # {}
    <3>1. PICK u \in S!Dropped(c) : S!Remove(c, u)
      BY <1>6, <2>3 DEF S!OnClose
    <3>2. u \in Urls
      BY DEF S!Dropped, S!SubsOf
    <3>3. QED BY <2>1, <3>1, <3>2, RemoveKeeps
  <2>4. QED BY <2>2, <2>3
<1>7. QED BY <1>1, <1>2, <1>3, <1>4, <1>5, <1>6 DEF S!RequestStep, S!ConnStep

LEMMA MapInvariant == Spec => []MapInv
<1>1. Init => MapInv
  BY DEF Init, S!Init, MapInv, MapType, RegistryAgrees, S!RegistryAgrees
<1>2. QED BY <1>1, MapStep, PTL DEF Spec

(* A URL is registered exactly while somebody subscribes to it, through any *)
(* interleaving of requests, closing connections and broadcasts             *)
(* (communication.cpp:141-193).                                             *)
THEOREM RegistryInStep == Spec => []RegistryAgrees
<1>1. MapInv => RegistryAgrees
  BY DEF MapInv
<1>2. QED BY <1>1, MapInvariant, PTL

---------------------------------------------------------------------------
(* Closed connections *)

\* With at most one subscription the first hit of the loop is all there is.
LEMMA OnlyOneDropped ==
    ASSUME NEW c \in Conns, \A u, v \in S!SubsOf(c) : u = v
    PROVE  S!Dropped(c) = S!SubsOf(c)
<1>1. \A u \in S!SubsOf(c) : Rank[u] <= Rank[u]
  BY RankAssumption DEF S!SubsOf
<1>2. QED BY <1>1 DEF S!Dropped

\* What a removal does to the subscriptions of c and of the others.
LEMMA RemoveEffect ==
    ASSUME MapInv, NEW c \in Conns, NEW u \in Urls, S!Remove(c, u)
    PROVE  /\ S!SubsOf(c)' = S!SubsOf(c) \ {u}
           /\ \A d \in Conns \ {c} : S!SubsOf(d)' = S!SubsOf(d)
  BY DEF MapInv, MapType, S!Remove, S!SubsOf

LEMMA ClosedStep == MapInv /\ ClosedUnsubscribed /\ [Next]_vars => ClosedUnsubscribed'
<1> SUFFICES ASSUME MapInv, ClosedUnsubscribed, [Next]_vars,
                    NEW d \in Conns, d \notin several', d \notin late', conn'[d] = "closed"
             PROVE  S!SubsOf(d)' = {}
  BY DEF ClosedUnsubscribed, S!ClosedUnsubscribed
<1>0. d \notin several /\ d \notin late /\ conn[d] = "closed" => S!SubsOf(d) = {}
  BY DEF ClosedUnsubscribed, S!ClosedUnsubscribed
<1>1. CASE ~(S!RequestStep \/ S!ConnStep)
  BY <1>0, <1>1, OtherSteps DEF mapState, S!SubsOf
<1>2. ASSUME NEW r \in S!Requests, S!Receive(r) \/ S!GetConnection(r) \/ S!GetExpired(r)
      PROVE  S!SubsOf(d)' = {}
  BY <1>0, <1>2 DEF S!Receive, S!GetConnection, S!GetExpired, S!connVars, S!mapVars, S!SubsOf
<1>3. ASSUME NEW r \in S!Requests, S!SubscribeBroadcast(r) PROVE S!SubsOf(d)' = {}
  <2>1. r.conn \in Conns /\ r.url \in Urls
    BY DEF S!Requests
  <2>2. conn[d] = "closed" /\ d \notin several /\ d \notin late
    BY <1>3 DEF S!SubscribeBroadcast, S!connVars
  <2>3. r.conn # d
    BY <1>3, <2>2 DEF S!SubscribeBroadcast
  <2>4. S!SubsOf(d)' = S!SubsOf(d)
    BY <1>3, <2>1, <2>3 DEF S!SubscribeBroadcast, S!SubsOf, MapInv, MapType
  <2>5. QED BY <1>0, <2>2, <2>4
<1>4. ASSUME NEW r \in S!Requests, S!UnSubscribeBroadcast(r) PROVE S!SubsOf(d)' = {}
  <2>1. r.conn \in Conns /\ r.url \in Urls
    BY DEF S!Requests
  <2>2. S!SubsOf(d) = {}
    BY <1>0, <1>4 DEF S!UnSubscribeBroadcast, S!connVars
  <2>3. CASE r.conn \in subs[r.url]
    <3>1. S!Remove(r.conn, r.url)
      BY <1>4, <2>3 DEF S!UnSubscribeBroadcast
    <3>2. QED BY <2>1, <2>2, <3>1, RemoveEffect
  <2>4. CASE r.conn \notin subs[r.url]
    BY <1>4, <2>2, <2>4 DEF S!UnSubscribeBroadcast, S!mapVars, S!SubsOf
  <2>5. QED BY <2>3, <2>4
<1>5. ASSUME NEW c \in Conns, S!Lose(c) PROVE S!SubsOf(d)' = {}
  <2>1. conn[d] = "closed" /\ several' = several /\ late' = late /\ subs' = subs
    BY <1>5 DEF S!Lose, S!mapVars, S!requestVars, MapInv, MapType
  <2>2. QED BY <1>0, <2>1 DEF S!SubsOf
<1>6. ASSUME NEW c \in Conns, S!OnClose(c) PROVE S!SubsOf(d)' = {}
  <2>1. several \subseteq several' /\ late' = late
    BY <1>6 DEF S!OnClose, S!requestVars
  <2>2. CASE c = d
    <3>1. \A u, v \in S!SubsOf(c) : u = v
      BY <1>6, <2>2 DEF S!OnClose
    <3>2. S!Dropped(c) = S!SubsOf(c)
      BY <3>1, OnlyOneDropped
    <3>3. CASE S!Dropped(c) = {}
      BY <1>6, <2>2, <3>2, <3>3 DEF S!OnClose, S!mapVars, S!SubsOf
    <3>4. CASE S!Dropped(c) # {}
      <4>1. PICK u \in S!Dropped(c) : S!Remove(c, u)
        BY <1>6, <3>4 DEF S!OnClose
      <4>2. u \in Urls
        BY DEF S!Dropped, S!SubsOf
      <4>3. S!SubsOf(c) = {u}
        BY <3>1, <3>2, <4>1
      <4>4. QED BY <2>2, <4>1, <4>2, <4>3, RemoveEffect
    <3>5. QED BY <3>3, <3>4
  <2>3. CASE c # d
    <3>1. S!SubsOf(d) = {}
      BY <1>0, <1>6, <2>1, <2>3 DEF S!OnClose, MapInv, MapType
    <3>2. CASE S!Dropped(c) = {}
      BY <1>6, <3>1, <3>2 DEF S!OnClose, S!mapVars, S!SubsOf
    <3>3. CASE S!Dropped(c) # {}
      <4>1. PICK u \in S!Dropped(c) : S!Remove(c, u)
        BY <1>6, <3>3 DEF S!OnClose
      <4>2. u \in Urls
        BY DEF S!Dropped, S!SubsOf
      <4>3. QED BY <2>3, <3>1, <4>1, <4>2, RemoveEffect
    <3>4. QED BY <3>2, <3>3
  <2>4. QED BY <2>2, <2>3
<1>7. QED BY <1>1, <1>2, <1>3, <1>4, <1>5, <1>6 DEF S!RequestStep, S!ConnStep

(* A closed connection has no subscription left, unless it had several or a *)
(* late request brought one back (communication.cpp:179-193).               *)
THEOREM ClosedStayUnsubscribed == Spec => []ClosedUnsubscribed
<1>1. Init => ClosedUnsubscribed
  BY DEF Init, S!Init, ClosedUnsubscribed, S!ClosedUnsubscribed
<1>2. QED BY <1>1, ClosedStep, MapInvariant, PTL DEF Spec
---------------------------------------------------------------------------
(* The order of messages *)

\* Message `now` was taken last, and the queue holds the ones after it.
QueueInv == /\ queue \in Seq(Nat) /\ pushed \in Nat /\ now \in Nat
            /\ pushed = now + Len(queue)
            /\ \A i \in 1..Len(queue) : queue[i] = now + i

PcType == pc \in [Pushers \cup {Broadcaster} -> Q!AllLabels]

\* Whoever message `now` may still be sent to has received older ones only.
Fresh(c) == pc[Broadcaster] = "taken" \/ c \in left

GotInv == /\ left \subseteq Conns
          /\ got \in [Conns -> Seq(Nat)]
          /\ \A c \in Conns : \A i \in 1..Len(got[c]) :
                got[c][i] <= now /\ (Fresh(c) => got[c][i] < now)
          /\ \A c \in Conns : \A i, j \in 1..Len(got[c]) : i < j => got[c][i] < got[c][j]

OrderInv == QueueInv /\ PcType /\ GotInv

\* Steps of the queue that neither add nor take a message.
LEMMA QueueStepEffect ==
    ASSUME PcType, QueueStep
    PROVE  /\ UNCHANGED <<queue, pushed, now, got, left>>
           /\ PcType'
           /\ pc'[Broadcaster] = "taken" => pc[Broadcaster] = "taken"
<1> USE ThreadsAssumption DEF PcType, Q!AllLabels, Q!Threads, Q!Goto, Q!closeVars, Q!history, subsVars
<1>0. UNCHANGED <<now, got, left>>
  BY DEF QueueStep
<1>1. ASSUME NEW p \in Pushers, Q!Call(p) \/ Q!Enter(p)
      PROVE  UNCHANGED <<queue, pushed>> /\ PcType' /\ (pc'[Broadcaster] = "taken" => pc[Broadcaster] = "taken")
  BY <1>1 DEF Q!Call, Q!Enter
<1>2. ASSUME NEW t \in Pushers \cup {Broadcaster}, Q!Notify(t)
      PROVE  UNCHANGED <<queue, pushed>> /\ PcType' /\ (pc'[Broadcaster] = "taken" => pc[Broadcaster] = "taken")
  BY <1>2 DEF Q!Notify, Q!MayWake, Q!Waiters, Q!After, Q!Resumed
<1>3. ASSUME NEW t \in Pushers \cup {Broadcaster}, Q!SpuriousWake(t)
      PROVE  UNCHANGED <<queue, pushed>> /\ PcType' /\ (pc'[Broadcaster] = "taken" => pc[Broadcaster] = "taken")
  BY <1>3 DEF Q!SpuriousWake, Q!Resumed
<1>4. ASSUME Q!LoopTest \/ Q!Sleep \/ Q!TakeNothing
      PROVE  UNCHANGED <<queue, pushed>> /\ PcType' /\ (pc'[Broadcaster] = "taken" => pc[Broadcaster] = "taken")
  BY <1>4 DEF Q!LoopTest, Q!Sleep, Q!TakeNothing
<1>5. ASSUME Q!CloseFlag \/ Q!CloseJoin
      PROVE  UNCHANGED <<queue, pushed>> /\ PcType' /\ (pc'[Broadcaster] = "taken" => pc[Broadcaster] = "taken")
  BY <1>5 DEF Q!CloseFlag, Q!CloseJoin, Q!threadVars
<1>6. ASSUME Q!CloseNotify
      PROVE  UNCHANGED <<queue, pushed>> /\ PcType' /\ (pc'[Broadcaster] = "taken" => pc[Broadcaster] = "taken")
  BY <1>6 DEF Q!CloseNotify, Q!Waiters, Q!Resumed
<1>7. QED BY <1>0, <1>1, <1>2, <1>3, <1>4, <1>5, <1>6 DEF QueueStep

\* A step that adds no message, sends none and begins none changes nothing.
LEMMA OrderFrame ==
    ASSUME OrderInv, UNCHANGED <<queue, pushed, now, got>>, PcType',
           left' \subseteq Conns, \A c \in Conns : Fresh(c)' => Fresh(c)
    PROVE  OrderInv'
<1>1. QueueInv'
  BY DEF OrderInv, QueueInv
<1>2. GotInv'
  BY DEF OrderInv, GotInv
<1>3. QED BY <1>1, <1>2 DEF OrderInv

LEMMA OrderStep == OrderInv /\ [Next]_vars => OrderInv'
<1> SUFFICES ASSUME OrderInv, [Next]_vars PROVE OrderInv'
  OBVIOUS
<1>pc. PcType /\ left \subseteq Conns
  BY DEF OrderInv, GotInv
<1>1. ASSUME NEW p \in Pushers, Push(p) PROVE OrderInv'
  <2>1. /\ queue' = Append(queue, pushed + 1) /\ pushed' = pushed + 1
        /\ pc' = [pc EXCEPT ![p] = "notify"]
        /\ now' = now /\ got' = got /\ left' = left
    BY <1>1 DEF Push, Q!Push, Q!Goto, subsVars
  <2>2. QueueInv'
    <3>1. queue' \in Seq(Nat) /\ Len(queue') = Len(queue) + 1
      BY <2>1 DEF OrderInv, QueueInv
    <3>2. ASSUME NEW i \in 1..Len(queue') PROVE queue'[i] = now + i
      <4>1. Len(queue) \in Nat /\ pushed = now + Len(queue) /\ now \in Nat
        BY DEF OrderInv, QueueInv
      <4>2. CASE i \in 1..Len(queue)
        <5>1. queue'[i] = queue[i]
          BY <2>1, <4>2 DEF OrderInv, QueueInv
        <5>2. QED BY <4>2, <5>1 DEF OrderInv, QueueInv
      <4>3. CASE i = Len(queue) + 1
        <5>1. queue'[i] = pushed + 1
          BY <2>1, <4>3 DEF OrderInv, QueueInv
        <5>2. QED BY <4>1, <4>3, <5>1
      <4>4. QED BY <3>1, <4>1, <4>2, <4>3
    <3>3. QED BY <2>1, <3>1, <3>2 DEF OrderInv, QueueInv
  <2>3. PcType' /\ pc'[Broadcaster] = pc[Broadcaster]
    BY <1>pc, <2>1, ThreadsAssumption DEF PcType, Q!AllLabels
  <2>4. GotInv'
    BY <2>1, <2>3 DEF OrderInv, GotInv, Fresh
  <2>5. QED BY <2>2, <2>3, <2>4 DEF OrderInv
<1>2. CASE QueueStep
  BY <1>2, <1>pc, QueueStepEffect, OrderFrame DEF Fresh
<1>3. CASE SubsStep
  <2>1. UNCHANGED <<queue, pushed, now, got, pc>>
    BY <1>3 DEF SubsStep, queueVars
  <2>2. left' = left
    BY <1>3 DEF SubsStep, S!RequestStep, S!ConnStep, S!Receive, S!GetConnection, S!GetExpired,
                S!SubscribeBroadcast, S!UnSubscribeBroadcast, S!Lose, S!OnClose, S!ReadTorn, S!readerVars
  <2>3. QED BY <2>1, <2>2, <1>pc, OrderFrame DEF Fresh, PcType
<1>4. CASE Take
  <2>1. /\ queue # <<>> /\ queue' = Tail(queue) /\ pushed' = pushed
        /\ now' = Head(queue) /\ got' = got /\ left' = left
        /\ pc' = [pc EXCEPT ![Broadcaster] = "taken"]
    BY <1>4 DEF Take, Q!Take, Q!Rest, Q!Goto, subsVars
  <2>2. /\ queue' \in Seq(Nat) /\ Len(queue) \in Nat /\ Len(queue) # 0
        /\ Len(queue') = Len(queue) - 1
        /\ \A i \in 1..Len(queue') : queue'[i] = queue[i + 1]
        /\ Head(queue) = queue[1]
    BY <2>1 DEF OrderInv, QueueInv
  <2>3. now' = now + 1
    BY <2>1, <2>2 DEF OrderInv, QueueInv
  <2>4. QueueInv'
    <3>1. ASSUME NEW i \in 1..Len(queue') PROVE queue'[i] = now' + i
      <4>1. i + 1 \in 1..Len(queue)
        BY <2>2
      <4>2. queue[i + 1] = now + (i + 1)
        BY <4>1 DEF OrderInv, QueueInv
      <4>3. now \in Nat /\ i \in Nat
        BY <2>2 DEF OrderInv, QueueInv
      <4>4. QED BY <2>2, <2>3, <4>2, <4>3
    <3>2. QED BY <2>1, <2>2, <2>3, <3>1 DEF OrderInv, QueueInv
  <2>5. PcType'
    BY <1>pc, <2>1 DEF PcType, Q!AllLabels
  <2>6. GotInv'
    <3>1. now \in Nat /\ \A c \in Conns : got[c] \in Seq(Nat)
      BY DEF OrderInv, QueueInv, GotInv
    <3>2. ASSUME NEW c \in Conns, NEW i \in 1..Len(got[c]) PROVE got[c][i] < now'
      <4>1. got[c][i] <= now /\ got[c][i] \in Nat
        BY <3>1 DEF OrderInv, GotInv
      <4>2. QED BY <2>3, <3>1, <4>1
    <3>3. ASSUME NEW c \in Conns, NEW i \in 1..Len(got[c]) PROVE got[c][i] <= now'
      <4>1. got[c][i] <= now /\ got[c][i] \in Nat
        BY <3>1 DEF OrderInv, GotInv
      <4>2. QED BY <2>3, <3>1, <4>1
    <3>4. QED BY <2>1, <3>2, <3>3 DEF OrderInv, GotInv
  <2>7. QED BY <2>4, <2>5, <2>6 DEF OrderInv
<1>5. CASE Lookup
  <2>1. UNCHANGED <<queue, pushed, now, got, pc>>
    BY <1>5 DEF Lookup, queueVars
  <2>2. left' = left
    BY <1>5 DEF Lookup, S!Match, S!MatchFound
  <2>3. QED BY <2>1, <2>2, <1>pc, OrderFrame DEF Fresh, PcType
<1>6. CASE Found
  <2>1. UNCHANGED <<queue, pushed, now, got>> /\ left' \subseteq Conns
    BY <1>6 DEF Found, Q!Heard, S!CopySubscribers
  <2>2. pc[Broadcaster] = "taken" /\ PcType'
    BY <1>6, <1>pc DEF Found, Q!Heard, Q!Goto, PcType, Q!AllLabels
  <2>3. QED BY <2>1, <2>2, OrderFrame DEF Fresh
<1>7. CASE NobodyFound
  <2>1. UNCHANGED <<queue, pushed, now, got, left>>
    BY <1>7 DEF NobodyFound, Q!Unheard, S!NobodyFound
  <2>2. pc[Broadcaster] = "taken" /\ PcType'
    BY <1>7, <1>pc DEF NobodyFound, Q!Unheard, Q!Goto, PcType, Q!AllLabels
  <2>3. QED BY <2>1, <2>2, <1>pc, OrderFrame DEF Fresh
<1>8. ASSUME NEW c \in Conns, SendTo(c) PROVE OrderInv'
  <2>1. /\ UNCHANGED <<queue, pushed, now, pc>>
        /\ c \in left /\ left' = left \ {c} /\ pc[Broadcaster] = "send"
        /\ got' = [got EXCEPT ![c] = Append(@, now)]
    BY <1>8 DEF SendTo, S!SendTo, queueVars
  <2>2. now \in Nat /\ got \in [Conns -> Seq(Nat)]
    BY DEF OrderInv, QueueInv, GotInv
  <2>3. got' \in [Conns -> Seq(Nat)]
    BY <2>1, <2>2
  <2>4. \A d \in Conns \ {c} : got'[d] = got[d]
    BY <2>1, <2>2
  <2>5. /\ Len(got'[c]) = Len(got[c]) + 1
        /\ got'[c][Len(got[c]) + 1] = now
        /\ \A i \in 1..Len(got[c]) : got'[c][i] = got[c][i]
        /\ Len(got[c]) \in Nat
    BY <2>1, <2>2
  <2>6. \A i \in 1..Len(got[c]) : got[c][i] < now
    BY <2>1 DEF OrderInv, GotInv, Fresh
  <2>7. ASSUME NEW d \in Conns, NEW i \in 1..Len(got'[d])
        PROVE  got'[d][i] <= now /\ (Fresh(d)' => got'[d][i] < now)
    <3>1. CASE d # c
      <4>1. Fresh(d)' => Fresh(d)
        BY <2>1, <3>1 DEF Fresh
      <4>2. got'[d] = got[d]
        BY <2>4, <3>1
      <4>3. QED BY <4>1, <4>2 DEF OrderInv, GotInv
    <3>2. CASE d = c
      <4>1. pc[Broadcaster] # "taken" /\ ~Fresh(d)'
        BY <2>1, <3>2 DEF Fresh
      <4>2. i \in 1..Len(got[c]) \/ i = Len(got[c]) + 1
        BY <2>5, <3>2
      <4>3. got'[c][i] <= now
        BY <2>2, <2>5, <2>6, <4>2
      <4>4. QED BY <3>2, <4>1, <4>3
    <3>3. QED BY <3>1, <3>2
  <2>8. ASSUME NEW d \in Conns, NEW i \in 1..Len(got'[d]), NEW j \in 1..Len(got'[d]), i < j
        PROVE  got'[d][i] < got'[d][j]
    <3>1. CASE d # c
      BY <2>4, <2>8, <3>1 DEF OrderInv, GotInv
    <3>2. CASE d = c
      <4>1. i \in 1..Len(got[c])
        BY <2>5, <2>8, <3>2
      <4>2. CASE j \in 1..Len(got[c])
        <5>1. got[c][i] < got[c][j]
          BY <2>8, <4>1, <4>2 DEF OrderInv, GotInv
        <5>2. QED BY <2>5, <3>2, <4>1, <4>2, <5>1
      <4>3. CASE j = Len(got[c]) + 1
        <5>1. got[c][i] < now
          BY <2>6, <4>1
        <5>2. QED BY <2>5, <3>2, <4>1, <4>3, <5>1
      <4>4. QED BY <2>5, <3>2, <4>2, <4>3
    <3>3. QED BY <3>1, <3>2
  <2>9. left' \subseteq Conns
    BY <2>1 DEF OrderInv, GotInv
  <2>10. GotInv'
    BY <2>1, <2>3, <2>7, <2>8, <2>9 DEF GotInv
  <2>11. QueueInv' /\ PcType'
    BY <1>pc, <2>1 DEF OrderInv, QueueInv, PcType
  <2>12. QED BY <2>10, <2>11 DEF OrderInv
<1>9. CASE SendThrows
  <2>1. UNCHANGED <<queue, pushed, now, got, left>>
    BY <1>9 DEF SendThrows, Q!SendThrows, S!SendThrows, S!readerVars
  <2>2. pc' = [pc EXCEPT ![Broadcaster] = "ended"]
    BY <1>9 DEF SendThrows, Q!SendThrows, Q!Goto
  <2>3. QED BY <2>1, <2>2, <1>pc, OrderFrame DEF Fresh, PcType, Q!AllLabels
<1>10. CASE SendDone
  <2>1. UNCHANGED <<queue, pushed, now, got, left>>
    BY <1>10 DEF SendDone, Q!Send, S!SendDone
  <2>2. pc' = [pc EXCEPT ![Broadcaster] = "notify"]
    BY <1>10 DEF SendDone, Q!Send, Q!Goto
  <2>3. QED BY <2>1, <2>2, <1>pc, OrderFrame DEF Fresh, PcType, Q!AllLabels
<1>11. CASE UNCHANGED vars
  BY <1>11, <1>pc, OrderFrame DEF vars, queueVars, subsVars, Fresh, PcType
<1>12. QED BY <1>1, <1>2, <1>3, <1>4, <1>5, <1>6, <1>7, <1>8, <1>9, <1>10, <1>11 DEF Next

LEMMA OrderInvariant == Spec => []OrderInv
<1>1. Init => OrderInv
  <2> SUFFICES ASSUME Init PROVE OrderInv
    OBVIOUS
  <2>1. queue = <<>> /\ pushed = 0 /\ now = 0 /\ left = {} /\ got = [c \in Conns |-> <<>>]
    BY DEF Init, Q!Init, S!Init
  <2>2. PcType
    BY ThreadsAssumption DEF Init, Q!Init, PcType, Q!AllLabels, Q!Threads
  <2>3. QueueInv
    BY <2>1 DEF QueueInv
  <2>4. GotInv
    BY <2>1 DEF GotInv
  <2>5. QED BY <2>2, <2>3, <2>4 DEF OrderInv
<1>2. QED BY <1>1, OrderStep, PTL DEF Spec

(* Every connection receives messages in the order in which they were       *)
(* pushed, none of them twice, whatever happens to connections, requests    *)
(* and subscriptions meanwhile (communication.cpp:86-113).                  *)
THEOREM ReceivedInPushOrder == Spec => []ReceivedInOrder
<1>1. OrderInv => ReceivedInOrder
  BY DEF OrderInv, GotInv, ReceivedInOrder
<1>2. QED BY <1>1, OrderInvariant, PTL

---------------------------------------------------------------------------
(* The loyal are served *)

BC == pc[Broadcaster]
Clean == status = "alive" /\ ~raced

\* Undefined behaviour, termination and races are for good.
LEMMA CleanBefore ==
    ASSUME [Next]_vars, Clean'
    PROVE  Clean
<1> USE DEF Clean, Q!Goto, Q!history, subsVars
<1>1. ASSUME NEW p \in Pushers, Push(p) PROVE Clean
  BY <1>1 DEF Push, Q!Push
<1>2. CASE QueueStep
  BY <1>2 DEF QueueStep, Q!Call, Q!Enter, Q!Notify, Q!SpuriousWake, Q!LoopTest, Q!Sleep, Q!TakeNothing,
              Q!CloseFlag, Q!CloseNotify, Q!CloseJoin
<1>3. CASE SubsStep
  BY <1>3 DEF SubsStep, S!RequestStep, S!ConnStep, S!Receive, S!GetConnection, S!GetExpired,
              S!SubscribeBroadcast, S!UnSubscribeBroadcast, S!Lose, S!OnClose, S!Remove, S!Touch, S!ReadTorn
<1>4. CASE Take \/ Lookup
  BY <1>4 DEF Take, Q!Take, Lookup, S!Match, S!MatchFound
<1>5. CASE Found \/ NobodyFound
  BY <1>5 DEF Found, NobodyFound, S!CopySubscribers, S!NobodyFound
<1>6. ASSUME NEW c \in Conns, SendTo(c) PROVE Clean
  BY <1>6 DEF SendTo, S!SendTo
<1>7. CASE SendThrows \/ SendDone
  BY <1>7 DEF SendThrows, SendDone, S!SendThrows, S!SendDone
<1>8. CASE UNCHANGED vars
  BY <1>8 DEF vars
<1> QED BY <1>1, <1>2, <1>3, <1>4, <1>5, <1>6, <1>7, <1>8 DEF Next

(***************************************************************************)
(* The broadcast thread looks up and sends the message it took last; the   *)
(* URL it found matches that message's topic.                              *)
(***************************************************************************)
ReaderInv ==
    Clean =>
        /\ ~torn /\ stage \in {"idle", "match", "copy", "send"}
        /\ stage = "send" <=> BC = "send"
        /\ stage \in {"match", "copy"} => BC = "taken" /\ topic = TopicOf[now]
        /\ stage = "copy" => found \in Urls /\ <<topic, found>> \in Matches

\* u is the only URL that message n can match.
Only(n, u) == \A v \in Urls : <<TopicOf[n], v>> \in Matches <=> v = u

(***************************************************************************)
(* Who is owed a message subscribes to the one URL that matches it.        *)
(***************************************************************************)
OwedInv ==
    \A o \in owed : /\ o[1] \in Conns /\ o[2] \in 1 .. pushed
                   /\ \E u \in S!SubsOf(o[1]) : Only(o[2], u)

(***************************************************************************)
(* ... and, once the message is being sent, has it or is still to get it.  *)
(***************************************************************************)
ServedInv ==
    Clean => \A o \in owed :
        /\ Through(o[2]) => Received(o[1], o[2])
        /\ o[2] = now /\ BC = "send" => o[1] \in left \/ Received(o[1], o[2])

ServeInv == ReaderInv /\ OwedInv /\ ServedInv

\* The steps of the queue that do not concern the subscriptions keep the
\* broadcast thread where it is, as far as a message in hand goes.
LEMMA QueueStepKeeps ==
    ASSUME PcType, QueueStep, Clean'
    PROVE  \A label \in {"taken", "send"} : BC' = label <=> BC = label
<1> USE ThreadsAssumption DEF PcType, BC, Clean, Q!Threads, Q!Goto, Q!closeVars, Q!history
<1> DEFINE Kept == \A label \in {"taken", "send"} : BC' = label <=> BC = label
<1>1. ASSUME NEW p \in Pushers, Q!Call(p) \/ Q!Enter(p) PROVE Kept
  BY <1>1 DEF Q!Call, Q!Enter
<1>2. ASSUME NEW t \in Pushers \cup {Broadcaster}, Q!Notify(t) PROVE Kept
  BY <1>2 DEF Q!Notify, Q!MayWake, Q!Waiters, Q!After, Q!Resumed
<1>3. ASSUME NEW t \in Pushers \cup {Broadcaster}, Q!SpuriousWake(t) PROVE Kept
  BY <1>3 DEF Q!SpuriousWake, Q!Resumed
<1>4. CASE Q!LoopTest \/ Q!Sleep \/ Q!TakeNothing
  BY <1>4 DEF Q!LoopTest, Q!Sleep, Q!TakeNothing
<1>5. CASE Q!CloseFlag \/ Q!CloseJoin
  BY <1>5 DEF Q!CloseFlag, Q!CloseJoin, Q!threadVars
<1>6. CASE Q!CloseNotify
  BY <1>6 DEF Q!CloseNotify, Q!Waiters, Q!Resumed
<1> QED BY <1>1, <1>2, <1>3, <1>4, <1>5, <1>6 DEF QueueStep

\* A step that changes neither subscriptions nor what is owed.
LEMMA OwedKept ==
    ASSUME OwedInv, UNCHANGED <<subs, owed, pushed>>
    PROVE  OwedInv'
  BY DEF OwedInv, S!SubsOf, Only

LEMMA ServeStep == MapInv /\ OrderInv /\ ServeInv /\ [Next]_vars => ServeInv'
<1> SUFFICES ASSUME MapInv, OrderInv, ServeInv, [Next]_vars PROVE ServeInv'
  OBVIOUS
<1>cl. Clean' => Clean
  BY CleanBefore
<1>pc. PcType /\ PcType' /\ now \in Nat /\ pushed \in Nat /\ now <= pushed /\ got \in [Conns -> Seq(Nat)]
  BY OrderStep DEF OrderInv, QueueInv, GotInv
<1>inv. ReaderInv /\ OwedInv /\ ServedInv
  BY DEF ServeInv
<1>1. ASSUME NEW p \in Pushers, Push(p) PROVE ServeInv'
  <2>1. /\ UNCHANGED <<subsVars, now, got, status>> /\ pushed' = pushed + 1 /\ BC' = BC
        /\ owed' = owed \cup (Entitled(pushed') \X {pushed'})
    BY <1>1, <1>pc, ThreadsAssumption DEF Push, Q!Push, Q!Goto, PcType, BC
  <2>2. ReaderInv'
    BY <1>inv, <2>1 DEF ReaderInv, Clean, subsVars
  <2>3. ASSUME NEW o \in owed' PROVE o \in owed \/ (o[1] \in Entitled(pushed') /\ o[2] = pushed')
    BY <2>1
  <2>4. OwedInv'
    <3>1. ASSUME NEW o \in owed
          PROVE  /\ o[1] \in Conns /\ o[2] \in 1 .. pushed'
                 /\ \E u \in S!SubsOf(o[1])' : Only(o[2], u)
      BY <1>inv, <1>pc, <2>1 DEF OwedInv, S!SubsOf, subsVars
    <3>2. ASSUME NEW o \in owed', o[1] \in Entitled(pushed'), o[2] = pushed'
          PROVE  /\ o[1] \in Conns /\ o[2] \in 1 .. pushed'
                 /\ \E u \in S!SubsOf(o[1])' : Only(o[2], u)
      BY <1>pc, <2>1, <3>2 DEF Entitled, Only, S!SubsOf, subsVars
    <3> QED BY <2>3, <3>1, <3>2 DEF OwedInv, Only
  <2>5. ServedInv'
    <3>1. ~Through(pushed') /\ pushed' # now
      BY <1>pc, <2>1 DEF Through
    <3> QED BY <1>inv, <2>1, <2>3, <3>1 DEF ServedInv, Through, Received, Clean, BC, subsVars
  <2> QED BY <2>2, <2>4, <2>5 DEF ServeInv
<1>2. CASE QueueStep
  <2>1. UNCHANGED <<subsVars, now, owed, got, pushed>>
    BY <1>2, <1>pc, QueueStepEffect DEF QueueStep
  <2>2. Clean' => ((BC' = "taken" <=> BC = "taken") /\ (BC' = "send" <=> BC = "send"))
    BY <1>2, <1>pc, QueueStepKeeps
  <2>3. ReaderInv'
    BY <1>cl, <1>inv, <2>1, <2>2 DEF ReaderInv, subsVars
  <2>4. OwedInv'
    BY <1>inv, <2>1, OwedKept DEF subsVars
  <2>5. ServedInv'
    BY <1>cl, <1>inv, <2>1, <2>2 DEF ServedInv, Through, Received, BC, subsVars
  <2> QED BY <2>3, <2>4, <2>5 DEF ServeInv
<1>3. CASE SubsStep
  <2>1. UNCHANGED <<pushed, pc, now, got>> /\ Forfeit
    BY <1>3 DEF SubsStep, queueVars
  <2>2. UNCHANGED <<stage, topic, found, left>>
    BY <1>3 DEF SubsStep, S!RequestStep, S!ConnStep, S!Receive, S!GetConnection, S!GetExpired,
                S!SubscribeBroadcast, S!UnSubscribeBroadcast, S!Lose, S!OnClose, S!ReadTorn, S!readerVars
  <2>3. torn' => torn \/ raced'
    BY <1>3 DEF SubsStep, S!RequestStep, S!ConnStep, S!Receive, S!GetConnection, S!GetExpired,
                S!SubscribeBroadcast, S!UnSubscribeBroadcast, S!Lose, S!OnClose, S!Remove, S!Touch, S!ReadTorn
  <2>4. \A o \in owed' : o \in owed /\ S!SubsOf(o[1]) \subseteq S!SubsOf(o[1])'
    BY <2>1 DEF Forfeit
  <2>5. ReaderInv'
    BY <1>cl, <1>inv, <2>1, <2>2, <2>3 DEF ReaderInv, Clean, BC
  <2>6. OwedInv'
    BY <1>inv, <2>1, <2>4 DEF OwedInv, Only
  <2>7. ServedInv'
    BY <1>cl, <1>inv, <2>1, <2>2, <2>4 DEF ServedInv, Through, Received, BC
  <2> QED BY <2>5, <2>6, <2>7 DEF ServeInv
<1>4. CASE Take
  <2>1. /\ UNCHANGED <<subsVars, owed, got, pushed, status>> /\ now' = now + 1
        /\ BC \in {"looped", "woken"} /\ BC' = "taken"
    <3>1. UNCHANGED <<subsVars, owed, got, pushed, status>> /\ now' = Head(queue) /\ queue # <<>>
      BY <1>4 DEF Take, Q!Take
    <3>2. Head(queue) = now + 1
      BY <3>1 DEF OrderInv, QueueInv
    <3>3. BC \in {"looped", "woken"} /\ BC' = "taken"
      BY <1>4, <1>pc DEF Take, Q!Take, Q!Goto, PcType, BC
    <3> QED BY <3>1, <3>2, <3>3
  <2>2. ReaderInv'
    BY <1>inv, <2>1 DEF ReaderInv, Clean, subsVars
  <2>3. OwedInv'
    BY <1>inv, <2>1, OwedKept DEF subsVars
  <2>4. ServedInv'
    <3> SUFFICES ASSUME Clean', NEW o \in owed, Through(o[2])' PROVE Received(o[1], o[2])'
      BY <2>1 DEF ServedInv
    <3>1. o[2] \in Nat /\ o[2] <= now
      <4>1. o[2] \in Nat
        BY <1>inv, <1>pc DEF OwedInv
      <4>2. o[2] <= now + 1 /\ o[2] # now + 1
        BY <2>1 DEF Through, BC
      <4> QED BY <1>pc, <4>1, <4>2
    <3>2. Received(o[1], o[2])
      BY <1>cl, <1>inv, <2>1, <3>1 DEF ServedInv, Through, BC
    <3> QED BY <2>1, <3>2 DEF Received
  <2> QED BY <2>2, <2>3, <2>4 DEF ServeInv
<1>5. CASE Lookup
  <2>1. UNCHANGED <<pc, pushed, now, owed, got, subs, left, status, raced>> /\ BC = "taken"
    BY <1>5 DEF Lookup, queueVars, BC, S!Match, S!MatchFound, S!mapVars
  <2>2. ReaderInv'
    <3>1. CASE S!Match(TopicOf[now])
      BY <1>inv, <2>1, <3>1 DEF S!Match, ReaderInv, Clean, BC
    <3>2. ASSUME NEW u \in Urls, S!MatchFound(u) PROVE ReaderInv'
      BY <1>inv, <2>1, <3>2 DEF S!MatchFound, S!Hits, ReaderInv, Clean, BC
    <3> QED BY <1>5, <3>1, <3>2 DEF Lookup
  <2>3. OwedInv'
    BY <1>inv, <2>1, OwedKept
  <2>4. ServedInv'
    BY <1>inv, <2>1 DEF ServedInv, Clean, Through, Received, BC
  <2> QED BY <2>2, <2>3, <2>4 DEF ServeInv
<1>6. CASE Found
  <2>1. /\ UNCHANGED <<pushed, now, owed, got, subs, raced, status>>
        /\ BC = "taken" /\ BC' = "send" /\ stage = "copy" /\ stage' = "send" /\ ~torn'
        /\ torn \/ left' = subs[found]
    BY <1>6, <1>pc DEF Found, Q!Heard, Q!Goto, Q!history, PcType, BC, S!CopySubscribers, S!mapVars
  <2>2. ReaderInv'
    BY <1>inv, <2>1 DEF ReaderInv, Clean
  <2>3. OwedInv'
    BY <1>inv, <2>1, OwedKept
  <2>4. ASSUME Clean, NEW o \in owed, o[2] = now PROVE o[1] \in left'
    <3>1. PICK u \in S!SubsOf(o[1]) : Only(now, u)
      BY <1>inv, <2>4 DEF OwedInv
    <3>2. found = u /\ ~torn
      BY <1>inv, <2>1, <2>4, <3>1 DEF ReaderInv, Only
    <3> QED BY <2>1, <3>1, <3>2 DEF S!SubsOf
  <2>5. ServedInv'
    BY <1>inv, <2>1, <2>4 DEF ServedInv, Clean, Through, Received, BC
  <2> QED BY <2>2, <2>3, <2>5 DEF ServeInv
<1>7. CASE NobodyFound
  <2>1. /\ UNCHANGED <<pushed, now, owed, got, subs, left, raced, status>>
        /\ BC = "taken" /\ BC' = "test" /\ stage' = "idle" /\ ~torn'
    BY <1>7, <1>pc DEF NobodyFound, Q!Unheard, Q!Goto, PcType, BC, S!NobodyFound, S!mapVars
  <2>2. ReaderInv'
    BY <1>inv, <2>1 DEF ReaderInv, Clean
  <2>3. OwedInv'
    BY <1>inv, <2>1, OwedKept
  <2>4. ASSUME Clean, NEW o \in owed PROVE o[2] # now
    <3> SUFFICES ASSUME o[2] = now PROVE FALSE
      OBVIOUS
    <3>1. PICK u \in S!SubsOf(o[1]) : Only(now, u)
      BY <1>inv DEF OwedInv
    <3>2. u \in Urls /\ o[1] \in subs[u] /\ u \in urls /\ <<TopicOf[now], u>> \in Matches
      BY <3>1 DEF S!SubsOf, Only, MapInv, RegistryAgrees, S!RegistryAgrees
    <3>3. \/ stage = "match" /\ S!Hits(topic) = {}
          \/ stage = "copy" /\ subs[found] = {}
      BY <1>7, <1>inv, <2>4 DEF NobodyFound, S!NobodyFound, ReaderInv
    <3>4. CASE stage = "match" /\ S!Hits(topic) = {}
      BY <1>inv, <2>4, <3>2, <3>4 DEF ReaderInv, S!Hits
    <3>5. CASE stage = "copy" /\ subs[found] = {}
      BY <1>inv, <2>4, <3>1, <3>2, <3>5 DEF ReaderInv, Only
    <3> QED BY <3>3, <3>4, <3>5
  <2>5. ServedInv'
    BY <1>inv, <2>1, <2>4 DEF ServedInv, Clean, Through, Received, BC
  <2> QED BY <2>2, <2>3, <2>5 DEF ServeInv
<1>8. ASSUME NEW c \in Conns, SendTo(c) PROVE ServeInv'
  <2>1. /\ UNCHANGED <<pc, pushed, now, owed, subs, stage, topic, found, torn, raced, status>>
        /\ left' = left \ {c} /\ got' = [got EXCEPT ![c] = Append(@, now)] /\ BC = "send"
    BY <1>8 DEF SendTo, S!SendTo, S!mapVars, queueVars, BC
  <2>2. ReaderInv'
    BY <1>inv, <2>1 DEF ReaderInv, Clean, BC
  <2>3. OwedInv'
    BY <1>inv, <2>1, OwedKept
  <2>4. \A d \in Conns, n \in Nat : Received(d, n) => Received(d, n)'
    <3>1. ASSUME NEW d \in Conns, NEW i \in DOMAIN got[d]
          PROVE  i \in DOMAIN got'[d] /\ got'[d][i] = got[d][i]
      BY <1>pc, <2>1, <3>1
    <3> QED BY <3>1 DEF Received
  <2>5. Received(c, now)'
    <3>1. Len(got[c]) + 1 \in DOMAIN got'[c] /\ got'[c][Len(got[c]) + 1] = now
      BY <1>pc, <2>1
    <3> QED BY <2>1, <3>1 DEF Received
  <2>6. \A o \in owed : o[1] \in Conns /\ o[2] \in Nat
    BY <1>inv, <1>pc DEF OwedInv
  <2>7. ServedInv'
    <3> SUFFICES ASSUME Clean', NEW o \in owed
                 PROVE  /\ Through(o[2])' => Received(o[1], o[2])'
                        /\ o[2] = now /\ BC' = "send" => o[1] \in left' \/ Received(o[1], o[2])'
      BY <2>1 DEF ServedInv
    <3>1. /\ Through(o[2]) => Received(o[1], o[2])
          /\ o[2] = now => o[1] \in left \/ Received(o[1], o[2])
      BY <1>cl, <1>inv, <2>1 DEF ServedInv
    <3>2. Through(o[2])' => Through(o[2])
      BY <2>1 DEF Through
    <3> QED BY <2>1, <2>4, <2>5, <2>6, <3>1, <3>2
  <2> QED BY <2>2, <2>3, <2>7 DEF ServeInv
<1>9. CASE SendThrows
  <2>1. UNCHANGED <<subs, owed, pushed>> /\ ~Clean'
    BY <1>9 DEF SendThrows, Q!SendThrows, S!SendThrows, S!mapVars, Clean
  <2> QED BY <1>inv, <2>1, OwedKept DEF ServeInv, ReaderInv, ServedInv
<1>10. CASE SendDone
  <2>1. /\ UNCHANGED <<pushed, now, owed, got, subs, left, torn, raced, status>>
        /\ BC = "send" /\ BC' = "notify" /\ stage' = "idle" /\ left = {}
    BY <1>10, <1>pc DEF SendDone, Q!Send, Q!Goto, PcType, BC, S!SendDone, S!mapVars
  <2>2. ReaderInv'
    BY <1>inv, <2>1 DEF ReaderInv, Clean
  <2>3. OwedInv'
    BY <1>inv, <2>1, OwedKept
  <2>4. ServedInv'
    BY <1>inv, <2>1 DEF ServedInv, Clean, Through, Received, BC
  <2> QED BY <2>2, <2>3, <2>4 DEF ServeInv
<1>11. CASE UNCHANGED vars
  <2>1. UNCHANGED <<queueVars, subsVars, status, now, owed, got>>
    BY <1>11 DEF vars
  <2>2. ReaderInv' /\ ServedInv'
    BY <1>inv, <2>1 DEF ReaderInv, ServedInv, Clean, Through, Received, BC, queueVars, subsVars
  <2>3. OwedInv'
    BY <1>inv, <2>1, OwedKept DEF queueVars, subsVars
  <2> QED BY <2>2, <2>3 DEF ServeInv
<1> QED BY <1>1, <1>2, <1>3, <1>4, <1>5, <1>6, <1>7, <1>8, <1>9, <1>10, <1>11 DEF Next

(* A connection that is open and subscribed when a message enters the queue *)
(* and stays so receives it, unless there was a data race                   *)
(* (communication.cpp:95-105, 131, 195-209).                                *)
THEOREM LoyalAreServed == Spec => []LoyalSubscriberServed
<1>1. Init => ServeInv
  <2> SUFFICES ASSUME Init PROVE ServeInv
    OBVIOUS
  <2>1. owed = {} /\ stage = "idle" /\ ~torn /\ BC = "test"
    BY DEF Init, Q!Init, S!Init, Q!Threads, BC
  <2> QED BY <2>1 DEF ServeInv, ReaderInv, OwedInv, ServedInv
<1>2. ServeInv => LoyalSubscriberServed
  BY DEF ServeInv, ServedInv, Clean, LoyalSubscriberServed
<1> QED BY <1>1, <1>2, ServeStep, MapInvariant, OrderInvariant, PTL DEF Spec

---------------------------------------------------------------------------
(* The broadcast queue: types *)

\* The Cardinality of the instance is the one of the library's theorems.
LEMMA SameCardinality == \A T : Q!Cardinality(T) = Cardinality(T)
  BY DEF Q!Cardinality, Cardinality

LEMMA QueueTypeInit == Q!Init => Q!TypeOK
<1> SUFFICES ASSUME Q!Init PROVE Q!TypeOK
  OBVIOUS
<1>1. queue \in Seq(Nat) /\ pushed \in Nat /\ used \in SUBSET Pushers
  BY DEF Q!Init
<1>2. pc \in [Q!Threads -> Q!AllLabels] /\ \A t \in Q!Threads : pc[t] \in Q!Labels(t)
  BY ThreadsAssumption DEF Q!Init, Q!Threads, Q!Labels, Q!AllLabels
<1>3. running \in BOOLEAN /\ spurious \in BOOLEAN /\ unheard \in BOOLEAN
  BY DEF Q!Init
<1>4. status = "alive" /\ close = "up"
  BY DEF Q!Init
<1>5. QED BY <1>1, <1>2, <1>3, <1>4 DEF Q!TypeOK

LEMMA QueueTypeStep ==
    Q!TypeOK /\ [Q!Next]_(Q!vars) => Q!TypeOK'
<1> SUFFICES ASSUME Q!TypeOK, [Q!Next]_(Q!vars) PROVE Q!TypeOK'
  OBVIOUS
<1> USE ThreadsAssumption DEF Q!TypeOK, Q!Labels, Q!AllLabels, Q!Threads, Q!Goto, Q!closeVars, Q!history
<1>1. ASSUME NEW p \in Pushers, Q!Call(p) PROVE Q!TypeOK'
  BY <1>1 DEF Q!Call
<1>2. ASSUME NEW p \in Pushers, Q!Enter(p) PROVE Q!TypeOK'
  BY <1>2 DEF Q!Enter
<1>3. ASSUME NEW p \in Pushers, Q!Push(p) PROVE Q!TypeOK'
  BY <1>3 DEF Q!Push
<1>4. CASE Q!LoopTest \/ Q!Sleep
  BY <1>4 DEF Q!LoopTest, Q!Sleep
<1>5. CASE Q!Take \/ Q!TakeNothing
  <2>1. \A q \in Seq(Nat) : q # <<>> => Tail(q) \in Seq(Nat)
    OBVIOUS
  <2>2. CASE Q!Take
    <3>1. queue' \in Seq(Nat)
      BY <2>1, <2>2 DEF Q!Take, Q!Rest
    <3>2. QED BY <2>2, <3>1 DEF Q!Take
  <2>3. CASE Q!TakeNothing
    BY <2>3 DEF Q!TakeNothing
  <2>4. QED BY <1>5, <2>2, <2>3
<1>6. CASE Q!Heard \/ Q!Unheard \/ Q!Send \/ Q!SendThrows
  BY <1>6 DEF Q!Heard, Q!Unheard, Q!Send, Q!SendThrows
<1>7. ASSUME NEW t \in Q!Threads, Q!Notify(t) PROVE Q!TypeOK'
  BY <1>7 DEF Q!Notify, Q!After, Q!Resumed, Q!MayWake, Q!Waiters
<1>8. ASSUME NEW t \in Q!Threads, Q!SpuriousWake(t) PROVE Q!TypeOK'
  BY <1>8 DEF Q!SpuriousWake, Q!Resumed
<1>9. CASE Q!CloseFlag \/ Q!CloseJoin
  BY <1>9 DEF Q!CloseFlag, Q!CloseJoin, Q!threadVars
<1>10. CASE Q!CloseNotify
  BY <1>10 DEF Q!CloseNotify, Q!Resumed, Q!Waiters
<1>11. CASE UNCHANGED Q!vars
  BY <1>11 DEF Q!vars, Q!threadVars
<1>12. QED
  BY <1>1, <1>2, <1>3, <1>4, <1>5, <1>6, <1>7, <1>8, <1>9, <1>10, <1>11
  DEF Q!Next, Q!PusherStep, Q!BroadcasterStep

---------------------------------------------------------------------------
(* The broadcast queue: nobody is forgotten *)

\* A notification that wakes a pusher instead of the broadcaster is passed on
\* by that pusher.
LEMMA BroadcasterStepKeeps ==
    Q!TypeOK /\ Q!BroadcasterNotForgotten /\ [Q!Next]_(Q!vars) => Q!BroadcasterNotForgotten'
<1> SUFFICES ASSUME Q!TypeOK, Q!BroadcasterNotForgotten, [Q!Next]_(Q!vars)
             PROVE  Q!BroadcasterNotForgotten'
  OBVIOUS
<1> USE ThreadsAssumption
    DEF Q!TypeOK, Q!BroadcasterNotForgotten, Q!Threads, Q!Goto, Q!closeVars, Q!history
<1>1. ASSUME NEW p \in Pushers, Q!Call(p) \/ Q!Enter(p) PROVE Q!BroadcasterNotForgotten'
  BY <1>1 DEF Q!Call, Q!Enter
<1>2. ASSUME NEW p \in Pushers, Q!Push(p) PROVE Q!BroadcasterNotForgotten'
  BY <1>2 DEF Q!Push
<1>3. CASE Q!LoopTest \/ Q!Sleep
  BY <1>3 DEF Q!LoopTest, Q!Sleep
<1>4. CASE Q!Take \/ Q!TakeNothing \/ Q!Heard \/ Q!Unheard \/ Q!Send \/ Q!SendThrows
  BY <1>4 DEF Q!Take, Q!TakeNothing, Q!Heard, Q!Unheard, Q!Send, Q!SendThrows
<1>5. ASSUME NEW t \in Q!Threads, Q!Notify(t) PROVE Q!BroadcasterNotForgotten'
  <2> SUFFICES ASSUME pc'[Broadcaster] = "wait", queue # <<>>
               PROVE  \E p \in Pushers : pc'[p] \in {"push", "notify"}
    BY <1>5 DEF Q!Notify
  <2>1. Broadcaster \in Q!Waiters
    BY <1>5 DEF Q!Notify, Q!After, Q!Resumed, Q!Waiters
  <2>2. PICK u \in Q!Waiters : pc' = [pc EXCEPT ![t] = Q!After(t), ![u] = Q!Resumed(u)]
    BY <1>5, <2>1 DEF Q!Notify, Q!MayWake
  <2>3. u \in Pushers /\ pc'[u] = "push"
    BY <2>2 DEF Q!Resumed, Q!Waiters
  <2>4. QED BY <2>3
<1>6. ASSUME NEW t \in Q!Threads, Q!SpuriousWake(t) PROVE Q!BroadcasterNotForgotten'
  BY <1>6 DEF Q!SpuriousWake, Q!Resumed
<1>7. CASE Q!CloseFlag \/ Q!CloseJoin \/ UNCHANGED Q!vars
  BY <1>7 DEF Q!CloseFlag, Q!CloseJoin, Q!vars, Q!threadVars
<1>8. CASE Q!CloseNotify
  BY <1>8 DEF Q!CloseNotify, Q!Resumed, Q!Waiters
<1>9. QED BY <1>1, <1>2, <1>3, <1>4, <1>5, <1>6, <1>7, <1>8
          DEF Q!Next, Q!PusherStep, Q!BroadcasterStep

\* A full queue is not an empty one.
LEMMA FullIsNotEmpty == Q!Full => queue # <<>>
<1>1. \A q : q = <<>> => Len(q) = 0
  OBVIOUS
<1>2. QED BY <1>1, BoundsAssumption DEF Q!Full

LEMMA PusherStepKeeps ==
    Q!TypeOK /\ Q!PusherNotForgotten /\ [Q!Next]_(Q!vars) => Q!PusherNotForgotten'
<1> SUFFICES ASSUME Q!TypeOK, Q!PusherNotForgotten, [Q!Next]_(Q!vars)
             PROVE  Q!PusherNotForgotten'
  OBVIOUS
<1> USE ThreadsAssumption
    DEF Q!TypeOK, Q!PusherNotForgotten, Q!Delivering, Q!Threads, Q!Goto, Q!closeVars, Q!history
<1>1. ASSUME NEW p \in Pushers, Q!Call(p) PROVE Q!PusherNotForgotten'
  BY <1>1 DEF Q!Call
<1>2. ASSUME NEW p \in Pushers, Q!Enter(p) PROVE Q!PusherNotForgotten'
  BY <1>2, FullIsNotEmpty DEF Q!Enter
<1>3. ASSUME NEW p \in Pushers, Q!Push(p) PROVE Q!PusherNotForgotten'
  BY <1>3 DEF Q!Push
<1>4. CASE Q!LoopTest \/ Q!Sleep
  BY <1>4 DEF Q!LoopTest, Q!Sleep
<1>5. CASE Q!Take \/ Q!TakeNothing
  BY <1>5 DEF Q!Take, Q!TakeNothing
<1>6. CASE Q!Heard \/ Q!Unheard \/ Q!Send \/ Q!SendThrows
  BY <1>6 DEF Q!Heard, Q!Unheard, Q!Send, Q!SendThrows
<1>7. ASSUME NEW t \in Q!Threads, Q!Notify(t) PROVE Q!PusherNotForgotten'
  <2> SUFFICES ASSUME status = "alive", queue = <<>>, ~unheard,
                      NEW q \in Pushers, pc'[q] = "wait"
               PROVE  Q!Delivering' \/ \E p \in Pushers : pc'[p] = "push"
    BY <1>7 DEF Q!Notify
  <2>1. q \in Q!Waiters
    BY <1>7 DEF Q!Notify, Q!After, Q!Resumed, Q!Waiters
  <2>2. PICK u \in Q!Waiters : pc' = [pc EXCEPT ![t] = Q!After(t), ![u] = Q!Resumed(u)]
    BY <1>7, <2>1 DEF Q!Notify, Q!MayWake
  <2>3. CASE u \in Pushers
    BY <2>2, <2>3 DEF Q!Resumed, Q!Waiters
  <2>4. CASE u = Broadcaster
    <3>1. pc[Broadcaster] = "wait" /\ pc[q] = "wait" /\ t # Broadcaster
      BY <1>7, <2>1, <2>4 DEF Q!Waiters, Q!Notify
    <3>2. PICK p \in Pushers : pc[p] = "push"
      BY <3>1
    <3>3. p # t /\ p # u
      BY <1>7, <2>4, <3>2 DEF Q!Notify
    <3>4. QED BY <2>2, <3>2, <3>3
  <2>5. QED BY <2>3, <2>4 DEF Q!Waiters
<1>8. ASSUME NEW t \in Q!Threads, Q!SpuriousWake(t) PROVE Q!PusherNotForgotten'
  BY <1>8 DEF Q!SpuriousWake, Q!Resumed
<1>9. CASE Q!CloseFlag \/ Q!CloseJoin \/ UNCHANGED Q!vars
  BY <1>9 DEF Q!CloseFlag, Q!CloseJoin, Q!vars, Q!threadVars
<1>10. CASE Q!CloseNotify
  BY <1>10 DEF Q!CloseNotify, Q!Resumed, Q!Waiters
<1>11. QED BY <1>1, <1>2, <1>3, <1>4, <1>5, <1>6, <1>7, <1>8, <1>9, <1>10
          DEF Q!Next, Q!PusherStep, Q!BroadcasterStep

---------------------------------------------------------------------------
(* The broadcast queue of a single pushing thread *)

(***************************************************************************)
(* SinglePusherBound is not inductive: a delivery under way may still wake *)
(* the pusher, so it counts as a message, and so does a pusher past its    *)
(* test.  Its premises only ever turn false.                               *)
(***************************************************************************)
Weight == Len(queue) + (IF Q!Delivering THEN 1 ELSE 0)

UsedInv == /\ \A p \in Pushers : pc[p] # "idle" => p \in used
           /\ close # "up" => Q!Inside = {}

AlonePremise == (\A p, q \in used : p = q) /\ ~spurious

BoundInv == AlonePremise => /\ Weight <= QueueMax + 2
                            /\ \A p \in Pushers : pc[p] = "push" => Weight <= QueueMax + 1

LEMMA UsedStep == Q!TypeOK /\ UsedInv /\ [Q!Next]_(Q!vars) => UsedInv'
<1> SUFFICES ASSUME Q!TypeOK, UsedInv, [Q!Next]_(Q!vars) PROVE UsedInv'
  OBVIOUS
<1> USE ThreadsAssumption
    DEF Q!TypeOK, UsedInv, Q!Inside, Q!Threads, Q!Goto, Q!closeVars, Q!history
<1>1. ASSUME NEW p \in Pushers, Q!Call(p) PROVE UsedInv'
  BY <1>1 DEF Q!Call
<1>2. ASSUME NEW p \in Pushers, Q!Enter(p) \/ Q!Push(p) PROVE UsedInv'
  BY <1>2 DEF Q!Enter, Q!Push
<1>3. CASE Q!LoopTest \/ Q!Sleep \/ Q!Take \/ Q!TakeNothing
  BY <1>3 DEF Q!LoopTest, Q!Sleep, Q!Take, Q!TakeNothing
<1>4. CASE Q!Heard \/ Q!Unheard \/ Q!Send \/ Q!SendThrows
  BY <1>4 DEF Q!Heard, Q!Unheard, Q!Send, Q!SendThrows
<1>5. ASSUME NEW t \in Q!Threads, Q!Notify(t) \/ Q!SpuriousWake(t) PROVE UsedInv'
  BY <1>5 DEF Q!Notify, Q!SpuriousWake, Q!After, Q!Resumed, Q!MayWake, Q!Waiters
<1>6. CASE Q!CloseFlag \/ Q!CloseJoin \/ UNCHANGED Q!vars
  BY <1>6 DEF Q!CloseFlag, Q!CloseJoin, Q!vars, Q!threadVars
<1>7. CASE Q!CloseNotify
  BY <1>7 DEF Q!CloseNotify, Q!Waiters, Q!Resumed
<1>8. QED BY <1>1, <1>2, <1>3, <1>4, <1>5, <1>6, <1>7
          DEF Q!Next, Q!PusherStep, Q!BroadcasterStep

\* Facts about lengths, kept apart from the rest of the state.
LEMMA LengthFacts ==
    ASSUME Q!TypeOK
    PROVE  /\ Len(queue) \in Nat
           /\ Len(Append(queue, pushed + 1)) = Len(queue) + 1
           /\ queue # <<>> => Len(Tail(queue)) = Len(queue) - 1
  BY DEF Q!TypeOK

LEMMA BoundStep == Q!TypeOK /\ UsedInv /\ BoundInv /\ [Q!Next]_(Q!vars) => BoundInv'
<1> SUFFICES ASSUME Q!TypeOK, UsedInv, BoundInv, [Q!Next]_(Q!vars), AlonePremise'
             PROVE  /\ Weight' <= QueueMax + 2
                    /\ \A p \in Pushers : pc'[p] = "push" => Weight' <= QueueMax + 1
  BY DEF BoundInv
<1>1. AlonePremise
  <2>1. used \subseteq used' /\ (spurious => spurious')
    BY DEF Q!Next, Q!vars, Q!threadVars, Q!closeVars, Q!history, Q!PusherStep, Q!BroadcasterStep, Q!Call, Q!Enter, Q!Push,
           Q!LoopTest, Q!Sleep, Q!Take, Q!TakeNothing, Q!Heard, Q!Unheard, Q!Send, Q!SendThrows,
           Q!Notify, Q!SpuriousWake, Q!CloseFlag, Q!CloseNotify, Q!CloseJoin
  <2>2. QED BY <2>1 DEF AlonePremise
<1>2. /\ Weight <= QueueMax + 2
      /\ \A p \in Pushers : pc[p] = "push" => Weight <= QueueMax + 1
  BY <1>1 DEF BoundInv
<1>len. Len(queue) \in Nat /\ QueueMax \in Nat
  BY LengthFacts, BoundsAssumption
<1>alone. \A p, q \in Pushers : pc[p] # "idle" /\ pc[q] # "idle" => p = q
  BY <1>1 DEF AlonePremise, UsedInv
<1> USE <1>2, <1>len, ThreadsAssumption
    DEF Q!TypeOK, Weight, Q!Delivering, Q!Threads, Q!Goto, Q!closeVars, Q!history
<1> DEFINE Goal == /\ Weight' <= QueueMax + 2
                   /\ \A p \in Pushers : pc'[p] = "push" => Weight' <= QueueMax + 1
<1>3. ASSUME NEW p \in Pushers, Q!Call(p) PROVE Goal
  BY <1>3 DEF Q!Call
<1>4. ASSUME NEW p \in Pushers, Q!Enter(p) PROVE Goal
  <2>1. Weight' = Weight /\ queue' = queue
    BY <1>4 DEF Q!Enter
  <2>2. ASSUME NEW q \in Pushers, pc'[q] = "push" PROVE Weight <= QueueMax + 1
    <3>1. CASE q = p
      <4>1. ~Q!Full
        BY <1>4, <2>2, <3>1 DEF Q!Enter
      <4>2. Len(queue) <= QueueMax
        BY <4>1 DEF Q!Full
      <4>3. QED BY <4>2
    <3>2. CASE q # p
      <4>1. pc[q] = "push"
        BY <1>4, <2>2, <3>2 DEF Q!Enter
      <4>2. QED BY <4>1
    <3>3. QED BY <3>1, <3>2
  <2>3. QED BY <2>1, <2>2
<1>5. ASSUME NEW p \in Pushers, Q!Push(p) PROVE Goal
  <2>1. pc[p] = "push" /\ pc' = [pc EXCEPT ![p] = "notify"]
    BY <1>5 DEF Q!Push
  <2>2. Weight' = Weight + 1
    <3>1. Len(queue') = Len(queue) + 1
      BY <1>5, LengthFacts DEF Q!Push
    <3>2. Q!Delivering' = Q!Delivering
      BY <2>1
    <3>3. QED BY <3>1, <3>2
  <2>3. \A q \in Pushers : pc'[q] # "push"
    BY <2>1, <1>alone
  <2>4. Weight <= QueueMax + 1
    BY <2>1
  <2>5. QED BY <2>2, <2>3, <2>4
<1>6. CASE Q!LoopTest \/ Q!Sleep
  BY <1>6 DEF Q!LoopTest, Q!Sleep
<1>7. CASE Q!Take
  <2>1. Len(queue') = Len(queue) - 1
    BY <1>7, LengthFacts DEF Q!Take, Q!Rest
  <2>2. ~Q!Delivering /\ Q!Delivering' /\ \A q \in Pushers : pc'[q] = pc[q]
    BY <1>7 DEF Q!Take
  <2>3. Weight' = Weight
    BY <2>1, <2>2
  <2>4. QED BY <2>2, <2>3
<1>8. CASE Q!TakeNothing \/ Q!Heard \/ Q!Send
  BY <1>8 DEF Q!TakeNothing, Q!Heard, Q!Send
<1>9. CASE Q!Unheard \/ Q!SendThrows
  BY <1>9 DEF Q!Unheard, Q!SendThrows
<1>10. ASSUME NEW p \in Pushers, Q!Notify(p) PROVE Goal
  <2>1. \A q \in Pushers : pc[q] # "wait"
    BY <1>10, <1>alone DEF Q!Notify
  <2>2. /\ \A q \in Pushers : pc'[q] = "push" => pc[q] = "push"
        /\ Q!Delivering' = Q!Delivering
        /\ queue' = queue
    BY <1>10, <2>1 DEF Q!Notify, Q!MayWake, Q!Waiters, Q!After, Q!Resumed
  <2>3. Weight' = Weight
    BY <2>2
  <2>4. QED BY <2>2, <2>3
<1>11. CASE Q!Notify(Broadcaster)
  <2>1. Q!Delivering /\ ~Q!Delivering' /\ queue' = queue
    BY <1>11 DEF Q!Notify, Q!MayWake, Q!Waiters, Q!After, Q!Resumed
  <2>2. Weight' = Weight - 1
    BY <2>1
  <2>3. QED BY <2>2
<1>12. ASSUME NEW t \in Q!Threads, Q!SpuriousWake(t) PROVE Goal
  BY <1>12 DEF Q!SpuriousWake, AlonePremise
<1>13. CASE Q!CloseFlag \/ Q!CloseJoin \/ UNCHANGED Q!vars
  BY <1>13 DEF Q!CloseFlag, Q!CloseJoin, Q!vars, Q!threadVars
<1>14. CASE Q!CloseNotify
  <2>1. \A q \in Pushers : pc'[q] = pc[q]
    BY <1>14 DEF Q!CloseNotify, Q!Waiters, UsedInv, Q!Inside
  <2>2. Q!Delivering' = Q!Delivering /\ queue' = queue
    BY <1>14 DEF Q!CloseNotify, Q!Waiters, Q!Resumed
  <2>3. QED BY <2>1, <2>2
<1>15. QED
  BY <1>3, <1>4, <1>5, <1>6, <1>7, <1>8, <1>9, <1>10, <1>11, <1>12, <1>13, <1>14
  DEF Q!Next, Q!PusherStep, Q!BroadcasterStep

LEMMA BoundSuffices ==
    Q!TypeOK /\ BoundInv => Q!SinglePusherBound
<1> SUFFICES ASSUME Q!TypeOK, BoundInv, Cardinality(used) <= 1, ~spurious
             PROVE  Len(queue) <= QueueMax + 2
  BY SameCardinality DEF Q!SinglePusherBound
<1>1. ASSUME NEW p \in used, NEW q \in used, p # q PROVE FALSE
  <2>1. IsFiniteSet(used)
    BY ThreadsAssumption, FS_Subset DEF Q!TypeOK
  <2>2. Cardinality({p, q}) <= Cardinality(used)
    BY <2>1, FS_Subset, {p, q} \subseteq used
  <2>3. Cardinality({p, q}) = 2
    <3>1. IsFiniteSet({p}) /\ Cardinality({p}) = 1
      BY FS_Singleton
    <3>2. {p} \cup {q} = {p, q} /\ q \notin {p}
      BY <1>1
    <3>3. QED BY <3>1, <3>2, FS_AddElement
  <2>4. Cardinality(used) \in Nat
    BY <2>1, FS_CardinalityType
  <2>5. QED BY <2>2, <2>3, <2>4
<1>2. Weight <= QueueMax + 2
  BY <1>1 DEF BoundInv, AlonePremise
<1>3. QED BY <1>2, LengthFacts, BoundsAssumption DEF Weight

---------------------------------------------------------------------------
(* The broadcast queue is a FIFO *)

\* The pushers whose message has not entered the queue yet.
Unpushed == {p \in Pushers : pc[p] \in {"called", "wait", "push"}}

\* No more messages enter than calls were allowed to begin.
DemandInv == /\ Len(queue) <= pushed
             /\ pushed + Cardinality(Unpushed) <= MaxPushed

LEMMA UnpushedFinite ==
    ASSUME NEW T, T \subseteq Pushers
    PROVE  IsFiniteSet(T) /\ Cardinality(T) \in Nat
  BY ThreadsAssumption, FS_Subset, FS_CardinalityType

LEMMA DemandStep == Q!TypeOK /\ DemandInv /\ [Q!Next]_(Q!vars) => DemandInv'
<1> SUFFICES ASSUME Q!TypeOK, DemandInv, [Q!Next]_(Q!vars) PROVE DemandInv'
  OBVIOUS
<1> DEFINE U == Unpushed
<1>len. Len(queue) \in Nat /\ pushed \in Nat /\ MaxPushed \in Nat
  BY LengthFacts, BoundsAssumption DEF Q!TypeOK
<1>fin. IsFiniteSet(U) /\ Cardinality(U) \in Nat
  BY UnpushedFinite DEF Unpushed
<1>fin2. U' \subseteq Pushers /\ IsFiniteSet(U') /\ Cardinality(U') \in Nat
  <2>1. U' \subseteq Pushers
    BY DEF Unpushed
  <2>2. QED BY <2>1, UnpushedFinite
<1>inv. Len(queue) <= pushed /\ pushed + Cardinality(U) <= MaxPushed
  BY DEF DemandInv
<1>same. ASSUME U' = U, pushed' = pushed, Len(queue') <= Len(queue), Len(queue') \in Nat
         PROVE  DemandInv'
  BY <1>same, <1>len, <1>fin, <1>inv DEF DemandInv
<1> USE ThreadsAssumption DEF Q!TypeOK, Q!Threads, Q!Goto, Q!closeVars, Q!history
<1>1. ASSUME NEW p \in Pushers, Q!Call(p) PROVE DemandInv'
  <2>1. U' = U \cup {p} /\ p \notin U
    BY <1>1 DEF Q!Call, Unpushed
  <2>2. Cardinality(U') = Cardinality(U) + 1
    BY <2>1, <1>fin, FS_AddElement
  <2>3. Cardinality(U) <= Cardinality(Q!Inside) /\ Cardinality(Q!Inside) \in Nat
    <3>1. U \subseteq Q!Inside /\ Q!Inside \subseteq Pushers
      BY DEF Unpushed, Q!Inside
    <3>2. IsFiniteSet(Q!Inside) /\ Cardinality(Q!Inside) \in Nat
      BY <3>1, UnpushedFinite
    <3>3. QED BY <3>1, <3>2, FS_Subset
  <2>4. pushed + Cardinality(Q!Inside) < MaxPushed /\ pushed' = pushed /\ queue' = queue
    BY <1>1, SameCardinality DEF Q!Call
  <2>5. pushed + Cardinality(U') <= MaxPushed
    BY ONLY <2>2, <2>3, <2>4, <1>len, <1>fin
  <2>6. QED BY <2>4, <2>5, <1>inv DEF DemandInv
<1>2. ASSUME NEW p \in Pushers, Q!Enter(p) PROVE DemandInv'
  <2>1. U' = U /\ pushed' = pushed /\ queue' = queue
    BY <1>2 DEF Q!Enter, Unpushed
  <2>2. QED BY <2>1, <1>same, <1>len
<1>3. ASSUME NEW p \in Pushers, Q!Push(p) PROVE DemandInv'
  <2>1. U' = U \ {p} /\ p \in U
    BY <1>3 DEF Q!Push, Unpushed
  <2>2. Cardinality(U') = Cardinality(U) - 1
    BY <2>1, <1>fin, FS_RemoveElement
  <2>3. Len(queue') = Len(queue) + 1 /\ pushed' = pushed + 1
    BY <1>3, LengthFacts DEF Q!Push
  <2>4. QED BY <2>2, <2>3, <1>inv, <1>len, <1>fin DEF DemandInv
<1>4. CASE Q!Take
  <2>1. U' = U /\ pushed' = pushed
    BY <1>4 DEF Q!Take, Unpushed
  <2>2. Len(queue') = Len(queue) - 1 /\ queue # <<>>
    BY <1>4, LengthFacts DEF Q!Take, Q!Rest
  <2>3. Len(queue') \in Nat
    <3>1. \A q \in Seq(Nat) : q # <<>> => Len(Tail(q)) \in Nat
      OBVIOUS
    <3>2. QED BY <1>4, <3>1 DEF Q!Take, Q!Rest
  <2>4. QED BY <2>1, <2>2, <2>3, <1>same, <1>len
<1>5. CASE Q!LoopTest \/ Q!Sleep \/ Q!TakeNothing \/ Q!Heard \/ Q!Unheard \/ Q!Send \/ Q!SendThrows
  <2>1. U' = U /\ pushed' = pushed /\ queue' = queue
    BY <1>5 DEF Q!LoopTest, Q!Sleep, Q!TakeNothing, Q!Heard, Q!Unheard, Q!Send, Q!SendThrows, Unpushed
  <2>2. QED BY <2>1, <1>same, <1>len
<1>6. ASSUME NEW t \in Q!Threads, Q!Notify(t) \/ Q!SpuriousWake(t) PROVE DemandInv'
  <2>1. U' = U /\ pushed' = pushed /\ queue' = queue
    BY <1>6 DEF Q!Notify, Q!SpuriousWake, Q!MayWake, Q!Waiters, Q!After, Q!Resumed, Unpushed
  <2>2. QED BY <2>1, <1>same, <1>len
<1>7. CASE Q!CloseFlag \/ Q!CloseNotify \/ Q!CloseJoin \/ UNCHANGED Q!vars
  <2>1. U' = U /\ pushed' = pushed /\ queue' = queue
    BY <1>7 DEF Q!CloseFlag, Q!CloseNotify, Q!CloseJoin, Q!Waiters, Q!Resumed, Unpushed, Q!vars, Q!threadVars
  <2>2. QED BY <2>1, <1>same, <1>len
<1>8. QED BY <1>1, <1>2, <1>3, <1>4, <1>5, <1>6, <1>7
          DEF Q!Next, Q!PusherStep, Q!BroadcasterStep

LEMMA DemandInit == Q!Init => DemandInv
<1> SUFFICES ASSUME Q!Init PROVE DemandInv
  OBVIOUS
<1>1. Unpushed = {}
  BY ThreadsAssumption DEF Q!Init, Unpushed, Q!Threads
<1>2. Cardinality(Unpushed) = 0
  BY <1>1, FS_EmptySet
<1>3. Len(queue) = 0 /\ pushed = 0
  BY DEF Q!Init
<1>4. QED BY <1>2, <1>3, BoundsAssumption DEF DemandInv

LEMMA FifoStep ==
    Q!TypeOK /\ DemandInv /\ [Q!Next]_(Q!vars) => [Q!AsFifo!Next]_(Q!AsFifo!vars)
<1> SUFFICES ASSUME Q!TypeOK, DemandInv, Q!Next PROVE [Q!AsFifo!Next]_(Q!AsFifo!vars)
  BY DEF Q!vars, Q!threadVars, Q!AsFifo!vars
<1> USE DEF Q!AsFifo!Next, Q!AsFifo!vars, Q!AsFifo!Put, Q!AsFifo!Take
<1>1. ASSUME NEW p \in Pushers, Q!Push(p) PROVE Q!AsFifo!Next
  <2>1. p \in Unpushed /\ IsFiniteSet(Unpushed) /\ Cardinality(Unpushed) \in Nat
    BY <1>1, UnpushedFinite DEF Q!Push, Unpushed
  <2>2. Cardinality(Unpushed) # 0
    BY <2>1, FS_EmptySet
  <2>3. Len(queue) \in Nat /\ pushed \in Nat
    BY LengthFacts DEF Q!TypeOK
  <2>4. Len(queue) < MaxPushed
    BY <2>1, <2>2, <2>3, BoundsAssumption DEF DemandInv
  <2>5. QED BY <1>1, <2>4 DEF Q!Push
<1>2. CASE Q!Take
  BY <1>2 DEF Q!Take, Q!Rest
<1>3. ASSUME NEW p \in Pushers, Q!Call(p) \/ Q!Enter(p) PROVE UNCHANGED <<queue, pushed>>
  BY <1>3 DEF Q!Call, Q!Enter
<1>4. CASE Q!LoopTest \/ Q!Sleep \/ Q!TakeNothing \/ Q!Heard \/ Q!Unheard \/ Q!Send \/ Q!SendThrows
  BY <1>4 DEF Q!LoopTest, Q!Sleep, Q!TakeNothing, Q!Heard, Q!Unheard, Q!Send, Q!SendThrows
<1>5. ASSUME NEW t \in Q!Threads, Q!Notify(t) \/ Q!SpuriousWake(t) PROVE UNCHANGED <<queue, pushed>>
  BY <1>5 DEF Q!Notify, Q!SpuriousWake
<1>6. CASE Q!CloseFlag \/ Q!CloseNotify \/ Q!CloseJoin
  BY <1>6 DEF Q!CloseFlag, Q!CloseNotify, Q!CloseJoin, Q!threadVars
<1>7. QED BY <1>1, <1>2, <1>3, <1>4, <1>5, <1>6 DEF Q!Next, Q!PusherStep, Q!BroadcasterStep, Q!Threads

---------------------------------------------------------------------------
(* The broadcast queue by itself, and within the whole *)

QueueKept == /\ Q!TypeOK /\ Q!BroadcasterNotForgotten /\ Q!PusherNotForgotten
             /\ UsedInv /\ BoundInv /\ DemandInv

LEMMA QueueKeptInit == Q!Init => QueueKept
<1>1. Q!Init => Q!BroadcasterNotForgotten /\ Q!PusherNotForgotten
  BY ThreadsAssumption DEF Q!Init, Q!BroadcasterNotForgotten, Q!PusherNotForgotten, Q!Threads
<1>2. Q!Init => UsedInv /\ BoundInv
  BY BoundsAssumption, ThreadsAssumption
  DEF Q!Init, UsedInv, BoundInv, Weight, Q!Delivering, Q!Threads, Q!Inside
<1> QED BY <1>1, <1>2, QueueTypeInit, DemandInit DEF QueueKept

LEMMA QueueKeptStep == QueueKept /\ [Q!Next]_(Q!vars) => QueueKept'
  BY QueueTypeStep, BroadcasterStepKeeps, PusherStepKeeps, UsedStep, BoundStep, DemandStep
  DEF QueueKept

LEMMA QueueKeptAlone == Q!Spec => []QueueKept
  BY QueueKeptInit, QueueKeptStep, PTL DEF Q!Spec

(* Type correctness of the broadcast queue (communication.cpp:66-134). *)
THEOREM BroadcastQueueTypeCorrect == Q!Spec => []Q!TypeOK
<1>1. QueueKept => Q!TypeOK
  BY DEF QueueKept
<1> QED BY <1>1, QueueKeptAlone, PTL

(* A waiting broadcaster is never left with messages in the queue, however  *)
(* many pushing threads share the condition variable (communication.cpp     *)
(* 121-133).                                                                *)
THEOREM BroadcasterRemembered == Q!Spec => []Q!BroadcasterNotForgotten
<1>1. QueueKept => Q!BroadcasterNotForgotten
  BY DEF QueueKept
<1> QED BY <1>1, QueueKeptAlone, PTL

(* A pusher is never left waiting on an empty queue, provided every message *)
(* found subscribers (communication.cpp:99-105, 114).                       *)
THEOREM PusherRemembered == Q!Spec => []PusherNotForgotten
<1>1. QueueKept => PusherNotForgotten
  BY DEF QueueKept, PusherNotForgotten
<1> QED BY <1>1, QueueKeptAlone, PTL

(* For a single pushing thread the queue never exceeds m_msgQueueMax by     *)
(* more than two (communication.cpp:120).                                   *)
THEOREM SinglePusherBounded == Q!Spec => []Q!SinglePusherBound
<1>1. QueueKept => Q!SinglePusherBound
  BY BoundSuffices DEF QueueKept
<1> QED BY <1>1, QueueKeptAlone, PTL

(* The broadcaster takes every message once, in the order of the pushes     *)
(* (communication.cpp:95-96, 131).                                          *)
THEOREM BroadcastQueueIsFifo == Q!Spec => ImplementsFifo
<1>1. Q!Init => Q!AsFifo!Init
  BY DEF Q!Init, Q!AsFifo!Init
<1>2. QueueKept /\ [Q!Next]_(Q!vars) => [Q!AsFifo!Next]_(Q!AsFifo!vars)
  BY FifoStep DEF QueueKept
<1> QED BY <1>1, <1>2, QueueKeptAlone, PTL
        DEF Q!Spec, ImplementsFifo, Q!ImplementsFifo, Q!AsFifo!Spec

\* What a step of the whole is to the queue: a step of its own, or none, after
\* which the process may have come down.
Aside == UNCHANGED queueVars /\ status' \in {status, "undefined", "terminated"}

LEMMA QueueOrAside == [Next]_vars => [Q!Next]_(Q!vars) \/ Aside
<1> SUFFICES ASSUME [Next]_vars PROVE Q!Next \/ Aside
  OBVIOUS
<1>1. ASSUME NEW p \in Pushers, Push(p) PROVE Q!Next
  BY <1>1 DEF Push, Q!Next, Q!PusherStep
<1>2. CASE QueueStep
  BY <1>2 DEF QueueStep, Q!Next, Q!PusherStep, Q!BroadcasterStep, Q!Threads
<1>3. CASE SubsStep
  <2>1. status' \in {status, "undefined", "terminated"}
    BY <1>3 DEF SubsStep, S!RequestStep, S!ConnStep, S!Receive, S!GetConnection, S!GetExpired,
                S!SubscribeBroadcast, S!UnSubscribeBroadcast, S!Lose, S!OnClose, S!ReadTorn
  <2> QED BY <1>3, <2>1 DEF SubsStep, Aside
<1>4. CASE Take
  BY <1>4 DEF Take, Q!Next, Q!BroadcasterStep
<1>5. CASE Lookup
  BY <1>5 DEF Lookup, Aside, S!Match, S!MatchFound
<1>6. CASE Found \/ NobodyFound
  BY <1>6 DEF Found, NobodyFound, Q!Next, Q!BroadcasterStep
<1>7. ASSUME NEW c \in Conns, SendTo(c) PROVE Aside
  BY <1>7 DEF SendTo, Aside, S!SendTo
<1>8. CASE SendThrows \/ SendDone
  BY <1>8 DEF SendThrows, SendDone, Q!Next, Q!BroadcasterStep
<1>9. CASE UNCHANGED vars
  BY <1>9 DEF vars, Aside
<1> QED BY <1>1, <1>2, <1>3, <1>4, <1>5, <1>6, <1>7, <1>8, <1>9 DEF Next

LEMMA AsideKeeps == QueueKept /\ Aside => QueueKept'
<1> SUFFICES ASSUME QueueKept, Aside PROVE QueueKept'
  OBVIOUS
<1> USE DEF QueueKept, Aside, queueVars
<1>1. Q!TypeOK'
  BY DEF Q!TypeOK
<1>2. Q!BroadcasterNotForgotten'
  BY DEF Q!BroadcasterNotForgotten
<1>3. Q!PusherNotForgotten'
  BY DEF Q!PusherNotForgotten, Q!Delivering
<1>4. UsedInv'
  BY DEF UsedInv, Q!Inside
<1>5. BoundInv'
  BY DEF BoundInv, AlonePremise, Weight, Q!Delivering
<1>6. DemandInv'
  BY DEF DemandInv, Unpushed
<1> QED BY <1>1, <1>2, <1>3, <1>4, <1>5, <1>6

LEMMA QueueKeptInWhole == Spec => []QueueKept
<1>1. Init => QueueKept
  BY QueueKeptInit DEF Init
<1>2. QueueKept /\ [Next]_vars => QueueKept'
  BY QueueKeptStep, QueueOrAside, AsideKeeps
<1> QED BY <1>1, <1>2, PTL DEF Spec

(* The queue keeps its promises within the whole, where subscriptions,      *)
(* connections and races decide what is heard and can bring the process     *)
(* down (communication.cpp:86-134, 195-209): nobody waiting is forgotten,   *)
(* and a single pushing thread stays within its bound.                      *)
THEOREM NobodyForgottenInWhole ==
    Spec => [](Q!BroadcasterNotForgotten /\ PusherNotForgotten /\ Q!SinglePusherBound)
<1>1. QueueKept => Q!BroadcasterNotForgotten /\ PusherNotForgotten /\ Q!SinglePusherBound
  BY BoundSuffices DEF QueueKept, PusherNotForgotten
<1> QED BY <1>1, QueueKeptInWhole, PTL

(* And within the whole, too, every message is taken once and in order      *)
(* (communication.cpp:95-96, 131).                                          *)
THEOREM FifoInWhole == Spec => ImplementsFifo
<1>1. Init => Q!AsFifo!Init
  BY DEF Init, Q!Init, Q!AsFifo!Init
<1>2. QueueKept /\ [Next]_vars => [Q!AsFifo!Next]_(Q!AsFifo!vars)
  BY FifoStep, QueueOrAside DEF QueueKept, Aside, queueVars, Q!AsFifo!vars
<1> QED BY <1>1, <1>2, QueueKeptInWhole, PTL
        DEF Spec, ImplementsFifo, Q!ImplementsFifo, Q!AsFifo!Spec

---------------------------------------------------------------------------
(* The types of the whole *)

\* The broadcast thread looks up and sends only what it has taken.
Busy == pc[Broadcaster] \in {"taken", "send"} => now >= 1

WholeType == /\ S!TypeOK
             /\ owed \in SUBSET (Conns \X (1..MaxPushed))
             /\ got \in [Conns -> Seq(1..MaxPushed)]
             /\ Busy

LEMMA MessagesBounded ==
    QueueKept /\ OrderInv => pushed \in 0..MaxPushed /\ now \in 0..MaxPushed
<1> SUFFICES ASSUME QueueKept, OrderInv
             PROVE  pushed \in 0..MaxPushed /\ now \in 0..MaxPushed
  OBVIOUS
<1>1. Cardinality(Unpushed) \in Nat
  BY UnpushedFinite DEF Unpushed
<1>2. pushed \in Nat /\ now \in Nat /\ Len(queue) \in Nat /\ pushed = now + Len(queue)
  BY DEF OrderInv, QueueInv
<1>3. pushed + Cardinality(Unpushed) <= MaxPushed
  BY DEF QueueKept, DemandInv
<1>4. pushed <= MaxPushed /\ now <= MaxPushed
  BY <1>1, <1>2, <1>3, BoundsAssumption
<1> QED BY <1>2, <1>4, BoundsAssumption

LEMMA SubsTypeStep == S!TypeOK /\ S!Next => S!TypeOK'
<1> SUFFICES ASSUME S!TypeOK, S!Next PROVE S!TypeOK'
  OBVIOUS
<1> USE DEF S!TypeOK, S!connVars, S!mapVars, S!requestVars, S!readerVars
<1>touch. ASSUME NEW u \in Urls, NEW b \in BOOLEAN, S!Touch(u, b)
          PROVE  torn' \in BOOLEAN /\ raced' \in BOOLEAN
  BY <1>touch DEF S!Touch
<1>remove. ASSUME NEW c \in Conns, NEW u \in Urls, S!Remove(c, u)
           PROVE  /\ subs' \in [Urls -> SUBSET Conns] /\ urls' \in SUBSET Urls
                  /\ torn' \in BOOLEAN /\ raced' \in BOOLEAN
  <2>1. torn' \in BOOLEAN /\ raced' \in BOOLEAN
    BY <1>remove, <1>touch DEF S!Remove
  <2>2. subs' \in [Urls -> SUBSET Conns] /\ urls' \in SUBSET Urls
    BY <1>remove DEF S!Remove, S!UrlsWithout
  <2> QED BY <2>1, <2>2
<1>1. ASSUME NEW r \in S!Requests, S!Receive(r) \/ S!GetConnection(r) \/ S!GetExpired(r)
      PROVE  S!TypeOK'
  BY <1>1 DEF S!Receive, S!GetConnection, S!GetExpired
<1>2. ASSUME NEW r \in S!Requests, S!SubscribeBroadcast(r) PROVE S!TypeOK'
  <2>1. r.conn \in Conns /\ r.url \in Urls
    BY DEF S!Requests
  <2>2. torn' \in BOOLEAN /\ raced' \in BOOLEAN
    BY <1>2, <2>1, <1>touch DEF S!SubscribeBroadcast
  <2>3. subs' \in [Urls -> SUBSET Conns] /\ urls' \in SUBSET Urls
    BY <1>2, <2>1 DEF S!SubscribeBroadcast
  <2>4. late' \in SUBSET Conns /\ held' \in SUBSET S!Requests
    BY <1>2, <2>1 DEF S!SubscribeBroadcast
  <2> QED BY <1>2, <2>2, <2>3, <2>4 DEF S!SubscribeBroadcast
<1>3. ASSUME NEW r \in S!Requests, S!UnSubscribeBroadcast(r) PROVE S!TypeOK'
  <2>1. r.conn \in Conns /\ r.url \in Urls
    BY DEF S!Requests
  <2>2. /\ subs' \in [Urls -> SUBSET Conns] /\ urls' \in SUBSET Urls
        /\ torn' \in BOOLEAN /\ raced' \in BOOLEAN
    BY <1>3, <2>1, <1>remove DEF S!UnSubscribeBroadcast
  <2> QED BY <1>3, <2>2 DEF S!UnSubscribeBroadcast
<1>4. ASSUME NEW c \in Conns, S!Lose(c) PROVE S!TypeOK'
  BY <1>4 DEF S!Lose
<1>5. ASSUME NEW c \in Conns, S!OnClose(c) PROVE S!TypeOK'
  <2>1. /\ subs' \in [Urls -> SUBSET Conns] /\ urls' \in SUBSET Urls
        /\ torn' \in BOOLEAN /\ raced' \in BOOLEAN
    <3>1. S!Dropped(c) \subseteq Urls
      BY DEF S!Dropped, S!SubsOf
    <3> QED BY <1>5, <3>1, <1>remove DEF S!OnClose
  <2>2. several' \in SUBSET Conns /\ conn' \in [Conns -> {"open", "lost", "closed"}]
    BY <1>5 DEF S!OnClose
  <2> QED BY <1>5, <2>1, <2>2 DEF S!OnClose
<1>6. ASSUME NEW t \in Topics, S!Match(t) PROVE S!TypeOK'
  BY <1>6 DEF S!Match
<1>7. ASSUME NEW u \in Urls, S!MatchFound(u) PROVE S!TypeOK'
  BY <1>7 DEF S!MatchFound
<1>8. CASE S!NobodyFound
  BY <1>8 DEF S!NobodyFound
<1>9. ASSUME NEW s \in SUBSET Conns, S!CopySubscribers(s) PROVE S!TypeOK'
  BY <1>9 DEF S!CopySubscribers
<1>10. CASE S!ReadTorn
  BY <1>10 DEF S!ReadTorn
<1>11. ASSUME NEW c \in Conns, S!SendTo(c) \/ S!SendThrows(c) PROVE S!TypeOK'
  BY <1>11 DEF S!SendTo, S!SendThrows
<1>12. CASE S!SendDone
  BY <1>12 DEF S!SendDone
<1> QED BY <1>1, <1>2, <1>3, <1>4, <1>5, <1>6, <1>7, <1>8, <1>9, <1>10, <1>11, <1>12
        DEF S!Next, S!RequestStep, S!ConnStep

\* A step of the queue alone may only end the process, as far as the maps see.
LEMMA SubsTypeFrame ==
    ASSUME S!TypeOK, Q!TypeOK', UNCHANGED subsVars PROVE S!TypeOK'
  BY DEF S!TypeOK, Q!TypeOK, subsVars

LEMMA WholeTypeStep ==
    ASSUME QueueKept, QueueKept', OrderInv, OrderInv', WholeType, [Next]_vars
    PROVE  WholeType'
<1> DEFINE Numbers == 1..MaxPushed
<1>q. Q!TypeOK /\ Q!TypeOK'
  BY DEF QueueKept
<1>n. now \in 0..MaxPushed /\ pushed' \in 0..MaxPushed
  <2>1. (QueueKept /\ OrderInv => pushed \in 0..MaxPushed /\ now \in 0..MaxPushed)'
    BY MessagesBounded, PTL
  <2> QED BY <2>1, MessagesBounded
<1>pc. /\ pc \in [Pushers \cup {Broadcaster} -> Q!AllLabels]
       /\ Broadcaster \notin Pushers
  BY ThreadsAssumption DEF OrderInv, PcType
<1>w. S!TypeOK /\ owed \in SUBSET (Conns \X Numbers) /\ got \in [Conns -> Seq(Numbers)] /\ Busy
  BY DEF WholeType
<1> HIDE DEF Numbers
\* What is left to show, and how: the maps step or only the process ends.
<1>goal. ASSUME S!TypeOK', owed' \in SUBSET (Conns \X Numbers), got' \in [Conns -> Seq(Numbers)], Busy'
         PROVE  WholeType'
  BY <1>goal DEF WholeType, Numbers
<1>1. ASSUME NEW p \in Pushers, Push(p) PROVE WholeType'
  <2>1. S!TypeOK'
    BY <1>1, <1>q, <1>w, SubsTypeFrame DEF Push
  <2>2. pushed' = pushed + 1 /\ pushed \in Nat
    BY <1>1, <1>q DEF Push, Q!Push, Q!TypeOK
  <2>3. pushed' \in Numbers
    BY <2>2, <1>n DEF Numbers
  <2>4. Entitled(pushed') \subseteq Conns
    BY DEF Entitled
  <2>5. owed' \in SUBSET (Conns \X Numbers)
    BY <1>1, <1>w, <2>3, <2>4 DEF Push
  <2>6. pc'[Broadcaster] = pc[Broadcaster] /\ now' = now /\ got' = got
    BY <1>1, <1>pc DEF Push, Q!Push, Q!Goto
  <2>7. Busy'
    BY <2>6, <1>w DEF Busy
  <2> QED BY <2>1, <2>5, <2>6, <2>7, <1>w, <1>goal
<1>2. CASE QueueStep
  <2>1. S!TypeOK'
    BY <1>2, <1>q, <1>w, SubsTypeFrame DEF QueueStep
  <2>2. now' = now /\ owed' = owed /\ got' = got
    BY <1>2 DEF QueueStep
  <2>3. pc'[Broadcaster] \in {"taken", "send"} => pc[Broadcaster] \in {"taken", "send"}
    <3> USE <1>pc DEF Q!Goto, Q!AllLabels, Q!Threads
    <3>1. ASSUME NEW p \in Pushers, Q!Call(p) \/ Q!Enter(p) PROVE pc'[Broadcaster] = pc[Broadcaster]
      BY <3>1 DEF Q!Call, Q!Enter
    <3>2. ASSUME NEW t \in Pushers \cup {Broadcaster}, Q!Notify(t) \/ Q!SpuriousWake(t)
          PROVE  pc'[Broadcaster] \in {"taken", "send"} => pc[Broadcaster] \in {"taken", "send"}
      BY <3>2 DEF Q!Notify, Q!SpuriousWake, Q!MayWake, Q!Waiters, Q!After, Q!Resumed
    <3>3. CASE Q!LoopTest \/ Q!Sleep \/ Q!TakeNothing
      BY <3>3 DEF Q!LoopTest, Q!Sleep, Q!TakeNothing
    <3>4. CASE Q!CloseFlag \/ Q!CloseNotify \/ Q!CloseJoin
      BY <3>4 DEF Q!CloseFlag, Q!CloseNotify, Q!CloseJoin, Q!threadVars, Q!Waiters, Q!Resumed
    <3> QED BY <1>2, <3>1, <3>2, <3>3, <3>4 DEF QueueStep
  <2>4. Busy'
    BY <2>2, <2>3, <1>w DEF Busy
  <2> QED BY <2>1, <2>2, <2>4, <1>w, <1>goal
<1>3. CASE SubsStep
  <2>1. S!TypeOK'
    BY <1>3, <1>w, SubsTypeStep DEF SubsStep, S!Next
  <2>2. owed' \subseteq owed
    BY <1>3 DEF SubsStep, Forfeit
  <2>3. now' = now /\ got' = got /\ pc' = pc
    BY <1>3 DEF SubsStep, queueVars
  <2> QED BY <2>1, <2>2, <2>3, <1>w, <1>goal DEF Busy
<1>4. CASE Take
  <2>1. S!TypeOK'
    BY <1>4, <1>q, <1>w, SubsTypeFrame DEF Take
  <2>2. now' = Head(queue) /\ queue # <<>> /\ owed' = owed /\ got' = got
    BY <1>4 DEF Take, Q!Take
  <2>3. Busy'
    <3>1. now \in Nat /\ queue \in Seq(Nat) /\ \A i \in 1..Len(queue) : queue[i] = now + i
      BY DEF OrderInv, QueueInv
    <3>2. Head(queue) = now + 1
      BY <2>2, <3>1
    <3> QED BY <2>2, <3>1, <3>2 DEF Busy
  <2> QED BY <2>1, <2>2, <2>3, <1>w, <1>goal
<1>5. CASE Lookup
  <2>1. now \in 1..MaxPushed
    BY <1>5, <1>n, <1>w DEF Lookup, Busy
  <2>2. TopicOf[now] \in Topics
    BY <2>1, TopicOfAssumption
  <2>3. S!Next
    BY <1>5, <2>2 DEF Lookup, S!Next
  <2>4. S!TypeOK'
    BY <2>3, <1>w, SubsTypeStep
  <2>5. now' = now /\ owed' = owed /\ got' = got /\ pc' = pc
    BY <1>5 DEF Lookup, queueVars
  <2> QED BY <2>4, <2>5, <1>w, <1>goal DEF Busy
<1>6. CASE Found \/ NobodyFound
  <2>1. S!Next /\ now' = now /\ owed' = owed /\ got' = got
    BY <1>6 DEF Found, NobodyFound, S!Next
  <2>2. pc[Broadcaster] = "taken"
    BY <1>6 DEF Found, NobodyFound, Q!Heard, Q!Unheard
  <2> QED BY <2>1, <2>2, <1>w, <1>goal, SubsTypeStep DEF Busy
<1>7. ASSUME NEW c \in Conns, SendTo(c) PROVE WholeType'
  <2>1. S!Next /\ now' = now /\ owed' = owed /\ pc' = pc
    BY <1>7 DEF SendTo, S!Next, queueVars
  <2>2. now \in Numbers
    BY <1>7, <1>n, <1>w DEF SendTo, Busy, Numbers
  <2>3. got' \in [Conns -> Seq(Numbers)]
    BY <1>7, <2>2, <1>w DEF SendTo
  <2>4. Busy'
    BY <2>1, <1>w DEF Busy
  <2> QED BY <2>1, <2>3, <2>4, <1>w, <1>goal, SubsTypeStep
<1>8. CASE SendThrows \/ SendDone
  <2>1. S!Next /\ now' = now /\ owed' = owed /\ got' = got
    BY <1>8 DEF SendThrows, SendDone, S!Next
  <2>2. pc[Broadcaster] = "send"
    BY <1>8 DEF SendThrows, SendDone, Q!SendThrows, Q!Send
  <2> QED BY <2>1, <2>2, <1>w, <1>goal, SubsTypeStep DEF Busy
<1>9. CASE UNCHANGED vars
  <2>1. S!TypeOK'
    BY <1>9, <1>q, <1>w, SubsTypeFrame DEF vars
  <2> QED BY <2>1, <1>9, <1>w, <1>goal DEF vars, queueVars, Busy
<1> QED BY <1>1, <1>2, <1>3, <1>4, <1>5, <1>6, <1>7, <1>8, <1>9 DEF Next

(* Type correctness of the whole: the broadcast thread only looks up the    *)
(* topic of a message that was pushed, and every message that is owed or    *)
(* received is one of them (communication.cpp:86-134, 195-209).             *)
THEOREM WholeTypeCorrect == Spec => []TypeOK
<1>1. Init => WholeType
  <2> SUFFICES ASSUME Init PROVE WholeType
    OBVIOUS
  <2>1. S!TypeOK
    BY DEF Init, Q!Init, S!Init, S!TypeOK
  <2>2. Busy
    BY ThreadsAssumption DEF Init, Q!Init, Busy, Q!Threads
  <2> QED BY <2>1, <2>2 DEF Init, WholeType
<1>2. QueueKept /\ QueueKept' /\ OrderInv /\ OrderInv' /\ WholeType /\ [Next]_vars => WholeType'
  BY WholeTypeStep
<1>3. Spec => []WholeType
  BY <1>1, <1>2, QueueKeptInWhole, OrderInvariant, PTL DEF Spec
<1>4. QueueKept /\ OrderInv /\ WholeType => TypeOK
  BY MessagesBounded DEF QueueKept, WholeType, TypeOK
<1> QED BY <1>3, <1>4, QueueKeptInWhole, OrderInvariant, PTL
=============================================================================
