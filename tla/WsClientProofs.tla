--------------------------- MODULE WsClientProofs ---------------------------
(***************************************************************************)
(* Proofs about WsClient, for any senders, connections and bounds.         *)
(***************************************************************************)
EXTENDS WsClient, FiniteSetTheorems, TLAPS

(***************************************************************************)
(* Which actions change what.                                              *)
(***************************************************************************)
LEMMA SendChanges ==
    ASSUME [Next]_vars
    PROVE  \/ UNCHANGED sendVars
           \/ \E k \in Links : Close(k)
           \/ IoReceives \/ IoHandles
           \/ \E s \in Senders : Call(s) \/ SendStep(s)
<1>1. ConnectorStep \/ ReadTimedOut \/ CvEnds => UNCHANGED sendVars
  BY DEF ConnectorStep, Connect, ReadChannel, CvWait, SetFlags, LoopEnds, ReadTimedOut, CvEnds
<1>2. IoWrites \/ ReaderNotifies \/ ChannelWakes => UNCHANGED sendVars
  BY DEF IoWrites, ReaderNotifies, ChannelWakes, ChannelOnly
<1>3. \A k \in Links : Open(k) \/ Fail(k) => UNCHANGED sendVars
  BY DEF Open, Fail
<1>4. RunEnds \/ Leave \/ OwnerStep \/ JoinTwice => UNCHANGED sendVars
  BY DEF RunEnds, Leave, OwnerStep, JoinConnector, CloseLink, JoinIo, JoinTwice
<1>5. UNCHANGED vars => UNCHANGED sendVars
  BY DEF vars
<1> QED BY <1>1, <1>2, <1>3, <1>4, <1>5 DEF Next

---------------------------------------------------------------------------
(* Every call gets its own answer *)

Registered == {"listed", "waiting", "woken"}

(***************************************************************************)
(* A message leads to a sender that still waits for it or has just         *)
(* stopped to, under the id of that sender's latest request; an answer     *)
(* carries the id of the request it answers.                               *)
(***************************************************************************)
AnswerInv ==
    /\ at \in [Senders -> {"idle", "sent", "erased"} \cup Registered]
    /\ asked \in [Senders -> Int] /\ response \in [Senders -> Int] /\ result \in [Senders -> Int]
    /\ sends \in Int
    /\ \A r \in outstanding : r.uuid = r.body
    /\ answer.uuid = answer.body
    /\ \A s \in Senders : \A u : <<u, s>> \in messages => u = asked[s] /\ at[s] \in Registered
    /\ \A s \in Senders : response[s] = 0
                       \/ (response[s] = asked[s] /\ at[s] \in Registered \cup {"erased"})
    /\ \A s \in Senders : at[s] = "idle" => result[s] \in {-1, 0, asked[s]}

LEMMA AnswerStep == AnswerInv /\ [Next]_vars => AnswerInv'
<1> SUFFICES ASSUME AnswerInv, [Next]_vars PROVE AnswerInv'
  OBVIOUS
<1> USE DEF AnswerInv, Registered
<1>1. CASE UNCHANGED sendVars
  BY <1>1 DEF sendVars
<1>2. ASSUME NEW k \in Links, Close(k) PROVE AnswerInv'
  BY <1>2 DEF Close
<1>3. CASE IoReceives
  <2>1. PICK r \in outstanding : S!Receive(r)
    BY <1>3 DEF IoReceives
  <2> QED BY <2>1 DEF S!Receive, S!senderVars
<1>4. CASE IoHandles
  <2>1. CASE S!Find
    BY <2>1 DEF S!Find, S!Idle, S!NoAnswer, S!senderVars
  <2>2. CASE S!Notify
    BY <2>2 DEF S!Notify, S!Woken, S!Listed
  <2>3. CASE S!Write
    <3>1. \A s \in S!Listed : s \in Senders /\ asked[s] = answer.body /\ at[s] \in Registered
      BY DEF S!Listed
    <3>2. response' \in [Senders -> Int]
      BY <2>3, <3>1 DEF S!Write
    <3> QED BY <2>3, <3>1, <3>2 DEF S!Write, S!Idle, S!NoAnswer
  <2>4. CASE S!Dangling
    BY <2>4 DEF S!Dangling, S!Idle, S!NoAnswer, S!senderVars
  <2> QED BY <1>4, <2>1, <2>2, <2>3, <2>4 DEF IoHandles, S!Handling
<1>5. ASSUME NEW s \in Senders, Call(s) PROVE AnswerInv'
  <2>1. CASE S!Send(s, cur)
    <3>1. asked'[s] = sends' /\ sends' \in Int
      BY <2>1 DEF S!Send
    <3> QED BY <2>1, <3>1 DEF S!Send, S!Uuid, S!Goto
  <2>2. CASE S!Refused(s)
    BY <2>2 DEF S!Refused
  <2> QED BY <1>5, <2>1, <2>2 DEF Call
<1>6. ASSUME NEW s \in Senders, SendStep(s) PROVE AnswerInv'
  <2>1. CASE S!Register(s)
    BY <2>1 DEF S!Register, S!Goto, S!Uuid
  <2>2. CASE S!Wait(s)
    BY <2>2 DEF S!Wait, S!Goto
  <2>3. CASE S!Erase(s)
    BY <2>3 DEF S!Erase, S!Goto, S!Uuid
  <2>4. CASE S!Return(s)
    BY <2>4 DEF S!Return, S!Goto
  <2>5. CASE S!WaitEnds(s)
    BY <2>5 DEF S!WaitEnds, S!Goto
  <2> QED BY <1>6, <2>1, <2>2, <2>3, <2>4, <2>5 DEF SendStep, S!Sending
<1> QED BY <1>1, <1>2, <1>3, <1>4, <1>5, <1>6, SendChanges

(* Senders that share a connection never get each other's answers, through  *)
(* late answers, closed and new connections (ws_client.cpp:154-184).        *)
THEOREM AnswersAreOwn == Spec => []AnswerIsOwn
<1>1. Init => AnswerInv
  BY DEF Init, S!Init, S!NoAnswer, AnswerInv, Registered
<1>2. AnswerInv => AnswerIsOwn
  BY DEF AnswerInv, AnswerIsOwn, S!AnswerIsOwn
<1> QED BY <1>1, <1>2, AnswerStep, PTL DEF Spec

---------------------------------------------------------------------------
(* Who is notified gets an answer *)

Gap(s) == io = "notified" /\ answer.body = asked[s]

(***************************************************************************)
(* A sender that was notified has its answer, or the I/O thread is about   *)
(* to write it; ids are never given twice, and a registered message is     *)
(* found under its id, so that it is written to that sender if at all.     *)
(***************************************************************************)
GapInv ==
    /\ sends \in Nat /\ asked \in [Senders -> 0 .. sends]
    /\ \A s, t \in Senders : asked[s] = asked[t] /\ asked[s] # 0 => s = t
    /\ \A s \in Senders : at[s] # "idle" => asked[s] # 0
    /\ \A s \in Senders : at[s] \in Registered => <<asked[s], s>> \in messages
    /\ status = "alive" => \A s \in Senders \ unasked :
          /\ at[s] \in {"woken", "erased"} => response[s] = asked[s] \/ Gap(s)
          /\ at[s] = "idle" /\ asked[s] # 0 /\ result[s] = 0 => Gap(s)

LEMMA GapStep == AnswerInv /\ GapInv /\ [Next]_vars => GapInv'
<1> SUFFICES ASSUME AnswerInv, GapInv, [Next]_vars PROVE GapInv'
  OBVIOUS
<1> USE DEF AnswerInv, GapInv, Gap, Registered
<1>1. CASE UNCHANGED sendVars
  BY <1>1 DEF sendVars
<1>2. ASSUME NEW k \in Links, Close(k) PROVE GapInv'
  BY <1>2 DEF Close
<1>3. CASE IoReceives
  <2>1. PICK r \in outstanding : S!Receive(r)
    BY <1>3 DEF IoReceives
  <2> QED BY <2>1 DEF S!Receive, S!senderVars
<1>4. CASE IoHandles
  <2>1. CASE S!Find
    BY <2>1 DEF S!Find, S!Idle, S!NoAnswer, S!senderVars
  <2>2. CASE S!Notify
    BY <2>2 DEF S!Notify, S!Woken, S!Listed
  <2>3. CASE S!Write
    <3>1. PICK t \in Senders : <<answer.uuid, t>> \in messages
      BY <2>3 DEF S!Write, S!Listed
    <3>2. asked[t] = answer.body /\ at[t] \in Registered /\ asked[t] # 0
      BY <3>1
    <3>3. ASSUME NEW s \in Senders, Gap(s) PROVE s = t
      BY <3>2, <3>3
    <3>4. \A s \in Senders : response'[s] = IF s = t THEN asked[t] ELSE response[s]
      BY <2>3, <3>1, <3>2 DEF S!Write, S!Listed
    <3> QED BY <2>3, <3>2, <3>3, <3>4 DEF S!Write
  <2>4. CASE S!Dangling
    BY <2>4 DEF S!Dangling, S!senderVars
  <2> QED BY <1>4, <2>1, <2>2, <2>3, <2>4 DEF IoHandles, S!Handling
<1>5. ASSUME NEW s \in Senders, Call(s) PROVE GapInv'
  <2>1. CASE S!Send(s, cur)
    BY <2>1 DEF S!Send, S!Goto
  <2>2. CASE S!Refused(s)
    BY <2>2 DEF S!Refused
  <2> QED BY <1>5, <2>1, <2>2 DEF Call
<1>6. ASSUME NEW s \in Senders, SendStep(s) PROVE GapInv'
  <2>1. CASE S!Register(s)
    BY <2>1 DEF S!Register, S!Goto, S!Uuid
  <2>2. CASE S!Wait(s)
    BY <2>2 DEF S!Wait, S!Goto
  <2>3. CASE S!Erase(s)
    BY <2>3 DEF S!Erase, S!Goto, S!Uuid
  <2>4. CASE S!Return(s)
    BY <2>4 DEF S!Return, S!Goto
  <2>5. CASE S!WaitEnds(s)
    BY <2>5 DEF S!WaitEnds, S!Goto
  <2> QED BY <1>6, <2>1, <2>2, <2>3, <2>4, <2>5 DEF SendStep, S!Sending
<1> QED BY <1>1, <1>2, <1>3, <1>4, <1>5, <1>6, SendChanges

(* A call that a notification ended has its answer, or the I/O thread is    *)
(* just between the notification and the assignment (ws_client.cpp:182).    *)
THEOREM NotifiedAreAnswered == Spec => []EmptyOnlyInTheGap
<1>1. Init => AnswerInv /\ GapInv
  BY DEF Init, S!Init, S!NoAnswer, AnswerInv, GapInv, Gap, Registered
<1>2. AnswerInv /\ GapInv => EmptyOnlyInTheGap
  BY DEF GapInv, Gap, EmptyOnlyInTheGap, S!EmptyOnlyInTheGap
<1> QED BY <1>1, <1>2, AnswerStep, GapStep, PTL DEF Spec

---------------------------------------------------------------------------
(* The connector finds what it saw *)

ChannelInv ==
    /\ pc \in [{"io", "connector"} -> Ch!Labels]
    /\ undefined = FALSE
    /\ pc["connector"] = "passed" => queue # <<>>

(***************************************************************************)
(* Only the callback of an open adds to the channel, only the connector    *)
(* takes from it.                                                          *)
(***************************************************************************)
LEMMA ChannelChanges ==
    ASSUME [Next]_vars
    PROVE  \/ UNCHANGED chanVars
           \/ ReadChannel \/ ReadTimedOut
           \/ IoWrites \/ ReaderNotifies \/ ChannelWakes
           \/ \E k \in Links : Open(k) /\ kind = "CClient" /\ Ch!Push("io")
<1>1. Connect \/ CvWait \/ SetFlags \/ LoopEnds \/ CvEnds => UNCHANGED chanVars
  BY DEF Connect, CvWait, SetFlags, LoopEnds, CvEnds
<1>2. \A k \in Links : Open(k) => UNCHANGED chanVars \/ (kind = "CClient" /\ Ch!Push("io"))
  BY DEF Open
<1>3. \A k \in Links : Fail(k) \/ Close(k) => UNCHANGED chanVars
  BY DEF Fail, Close, CloseSignal
<1>4. IoReceives \/ IoHandles \/ RunEnds \/ (\E s \in Senders : Call(s) \/ SendStep(s))
      => UNCHANGED chanVars
  BY DEF IoReceives, IoHandles, RunEnds, Call, SendStep
<1>5. Leave \/ OwnerStep \/ JoinTwice => UNCHANGED chanVars
  BY DEF Leave, OwnerStep, JoinConnector, CloseLink, JoinIo, JoinTwice
<1>6. UNCHANGED vars => UNCHANGED chanVars
  BY DEF vars
<1> QED BY <1>1, <1>2, <1>3, <1>4, <1>5, <1>6 DEF Next, ConnectorStep

LEMMA ChannelStep == ChannelInv /\ [Next]_vars => ChannelInv'
<1> SUFFICES ASSUME ChannelInv, [Next]_vars PROVE ChannelInv'
  OBVIOUS
<1> USE DEF ChannelInv, Ch!Labels, Ch!Goto
<1>1. CASE UNCHANGED chanVars
  BY <1>1 DEF chanVars
<1>2. CASE ReadChannel
  BY <1>2 DEF ReadChannel, Ch!ReadBlock, Ch!ReadPass, Ch!Pop, Ch!SeesItem
<1>3. CASE ReadTimedOut
  BY <1>3 DEF ReadTimedOut, Ch!TimedOut
<1>4. CASE IoWrites \/ ReaderNotifies
  <2>1. CASE Ch!WriteBlock("io") \/ Ch!WriteLeave("io")
    BY <2>1 DEF Ch!WriteBlock, Ch!WriteLeave
  <2>2. ASSUME NEW t \in {"io", "connector"}, Ch!Notify(t) PROVE ChannelInv'
    BY <2>2 DEF Ch!Notify, Ch!MayWake, Ch!Waiters, Ch!Threads
  <2> QED BY <1>4, <2>1, <2>2 DEF IoWrites, ReaderNotifies
<1>5. CASE ChannelWakes
  BY <1>5 DEF ChannelWakes, Ch!SpuriousWake
<1>6. CASE Ch!Push("io")
  <2>1. queue' # <<>>
    BY <1>6 DEF Ch!Push
  <2> QED BY <1>6, <2>1 DEF Ch!Push
<1> QED BY <1>1, <1>2, <1>3, <1>4, <1>5, <1>6, ChannelChanges

(* The connector that saw an item of m_connChannel finds it when it takes   *)
(* the lock again (ws_client.cpp:109).                                      *)
THEOREM ConnectorFindsItem == Spec => []ReaderFindsItem
<1>1. Init => ChannelInv
  BY DEF Init, Ch!Init, Ch!Threads, Ch!Labels, ChannelInv
<1>2. ChannelInv => ReaderFindsItem
  BY DEF ChannelInv, ReaderFindsItem, Ch!ReaderFindsItem
<1> QED BY <1>1, <1>2, ChannelStep, PTL DEF Spec
---------------------------------------------------------------------------
(* What the client believes *)

TypeInv ==
    /\ link \in [Links -> {"none", "opening", "open", "closing", "closed"}]
    /\ cur \in 0 .. MaxLinks /\ timeouts \in Nat /\ queue \in Seq(Int)
    /\ pushed \in Int /\ kind \in {"CClient", "CConnect"}

Opening == {k \in Links : link[k] = "opening"}

(***************************************************************************)
(* Every item of the channel, and every handshake that may still bring     *)
(* one, belongs to a handshake given up or to the one in progress.         *)
(***************************************************************************)
OpenInv ==
    IF kind = "CClient"
      THEN Len(queue) + Cardinality(Opening) <= timeouts + IF ctl = "reading" THEN 1 ELSE 0
      ELSE queue = <<>>

Opened == cur # 0 /\ (link[cur] \in {"open", "closing"} \/ early)

(***************************************************************************)
(* While no handshake was given up, all connections but the latest are     *)
(* closed, and what the connector has read or set is about the latest.     *)
(***************************************************************************)
LinkInv ==
    kind = "CClient" /\ timeouts = 0 =>
        /\ \A k \in Links : k < cur => link[k] = "closed"
        /\ \A k \in Links : k > cur => link[k] = "none"
        /\ ctl = "reading" /\ queue # <<>> => Opened
        /\ ctl = "got" \/ connected => Opened
        /\ ctl = "loop" /\ cur # 0 /\ ~connected => link[cur] = "closed"

LinkChanges == <<queue, pushed, link, cur, connected, timeouts, early, kind, ctl>>

(***************************************************************************)
(* What a step does to the channel, the connections and the flags.         *)
(***************************************************************************)
LEMMA LinkEffect ==
    ASSUME [Next]_vars
    PROVE  \/ UNCHANGED LinkChanges
           \/ Connect \/ ReadTimedOut \/ CvWait \/ CvEnds \/ SetFlags \/ LoopEnds
           \/ ReadChannel /\ Ch!Pop("connector") /\ ctl' = "got"
           \/ \E k \in Links : Open(k) \/ Fail(k) \/ Close(k)
           \/ CloseLink
<1> USE DEF LinkChanges, linkVars, chanVars
<1>1. ReadChannel => UNCHANGED LinkChanges \/ (Ch!Pop("connector") /\ ctl' = "got")
  BY DEF ReadChannel, Ch!ReadBlock, Ch!ReadPass
<1>2. IoWrites \/ ReaderNotifies \/ ChannelWakes => UNCHANGED LinkChanges
  BY DEF IoWrites, ReaderNotifies, ChannelWakes, ChannelOnly, Ch!WriteBlock, Ch!WriteLeave,
         Ch!Notify, Ch!SpuriousWake
<1>3. IoReceives \/ IoHandles \/ RunEnds \/ (\E s \in Senders : Call(s) \/ SendStep(s))
      => UNCHANGED LinkChanges
  BY DEF IoReceives, IoHandles, RunEnds, Call, SendStep
<1>4. Leave \/ JoinConnector \/ JoinIo \/ JoinTwice => UNCHANGED LinkChanges
  BY DEF Leave, JoinConnector, JoinIo, JoinTwice
<1>5. UNCHANGED vars => UNCHANGED LinkChanges
  BY DEF vars
<1> QED BY <1>1, <1>2, <1>3, <1>4, <1>5 DEF Next, ConnectorStep, OwnerStep

LEMMA TypeStep == TypeInv /\ [Next]_vars => TypeInv'
<1> SUFFICES ASSUME TypeInv, [Next]_vars PROVE TypeInv'
  OBVIOUS
<1> USE LinksAssumption DEF TypeInv
<1>1. CASE UNCHANGED LinkChanges
  BY <1>1 DEF LinkChanges
<1>2. CASE Connect
  <2>1. cur' \in Links /\ link' = [link EXCEPT ![cur'] = "opening"]
    BY <1>2 DEF Connect, Links
  <2> QED BY <1>2, <2>1 DEF Connect, chanVars, Links
<1>3. CASE ReadTimedOut \/ CvWait \/ CvEnds \/ SetFlags \/ LoopEnds
  BY <1>3 DEF ReadTimedOut, CvWait, CvEnds, SetFlags, LoopEnds, chanVars, linkVars, Ch!TimedOut
<1>4. CASE ReadChannel /\ Ch!Pop("connector")
  BY <1>4 DEF ReadChannel, linkVars, Ch!Pop, Ch!Rest
<1>5. ASSUME NEW k \in Links, Open(k) \/ Fail(k) \/ Close(k) PROVE TypeInv'
  <2>1. link' \in [Links -> {"none", "opening", "open", "closing", "closed"}]
    BY <1>5 DEF Open, Fail, Close
  <2>2. UNCHANGED chanVars \/ Ch!Push("io")
    BY <1>5 DEF Open, Fail, Close, CloseSignal
  <2>3. queue' \in Seq(Int) /\ pushed' \in Int
    <3>1. CASE UNCHANGED chanVars
      BY <3>1 DEF chanVars
    <3>2. CASE Ch!Push("io")
      <4>1. pushed' = pushed + 1 /\ queue' = Append(queue, pushed + 1)
        BY <3>2 DEF Ch!Push, Ch!Item
      <4> QED BY <4>1
    <3> QED BY <2>2, <3>1, <3>2
  <2>4. UNCHANGED <<cur, timeouts, kind>>
    BY <1>5 DEF Open, Fail, Close
  <2> QED BY <2>1, <2>3, <2>4
<1>6. CASE CloseLink
  BY <1>6 DEF CloseLink, chanVars
<1> QED BY <1>1, <1>2, <1>3, <1>4, <1>5, <1>6, LinkEffect

LEMMA OpeningFinite ==
    IsFiniteSet(Opening) /\ Cardinality(Opening) \in Nat
<1>1. IsFiniteSet(Links)
  BY LinksAssumption, FS_Interval DEF Links
<1> QED BY <1>1, FS_Subset, FS_CardinalityType DEF Opening

LEMMA OpenStep == TypeInv /\ OpenInv /\ [Next]_vars => OpenInv'
<1> SUFFICES ASSUME TypeInv, OpenInv, [Next]_vars PROVE OpenInv'
  OBVIOUS
<1> DEFINE N == Cardinality(Opening)
<1>0. IsFiniteSet(Opening) /\ N \in Nat /\ Len(queue) \in Nat
  BY OpeningFinite DEF TypeInv
<1>a. UNCHANGED link => N' = N
  BY DEF Opening
<1>1. CASE UNCHANGED LinkChanges
  BY <1>1, <1>a DEF LinkChanges, OpenInv
<1>2. CASE Connect
  <2>1. cur' \in Links /\ Opening' = Opening \cup {cur'}
    BY <1>2, LinksAssumption DEF Connect, Opening, Links, TypeInv
  <2>2. N' \in {N, N + 1}
    BY <1>0, <2>1, FS_AddElement
  <2> QED BY <1>0, <1>2, <2>2 DEF Connect, Move, OpenInv, TypeInv, chanVars
<1>3. CASE ReadTimedOut
  BY <1>0, <1>3, <1>a DEF ReadTimedOut, Move, Ch!TimedOut, OpenInv, TypeInv
<1>4. CASE CvWait \/ CvEnds \/ SetFlags \/ LoopEnds
  BY <1>0, <1>4, <1>a DEF CvWait, CvEnds, SetFlags, LoopEnds, Move, OpenInv, TypeInv,
                          chanVars, linkVars
<1>5. CASE ReadChannel /\ Ch!Pop("connector") /\ ctl' = "got"
  <2>1. Len(queue') = Len(queue) - 1
    BY <1>5 DEF Ch!Pop, Ch!Rest, TypeInv
  <2> QED BY <1>0, <1>5, <1>a, <2>1 DEF ReadChannel, OpenInv, TypeInv, linkVars
<1>6. ASSUME NEW k \in Links, Open(k) PROVE OpenInv'
  <2>1. k \in Opening /\ Opening' = Opening \ {k}
    BY <1>6 DEF Open, Opening, TypeInv
  <2>2. N' = N - 1
    BY <1>0, <2>1, FS_RemoveElement
  <2>3. kind = "CClient" => Len(queue') = Len(queue) + 1
    BY <1>6 DEF Open, Ch!Push, Ch!Item, TypeInv
  <2> QED BY <1>0, <1>6, <2>2, <2>3 DEF Open, OpenInv, TypeInv, chanVars
<1>7. ASSUME NEW k \in Links, Fail(k) \/ Close(k) PROVE OpenInv'
  <2>1. Opening' = Opening \ {k}
    BY <1>7 DEF Fail, Close, Opening, TypeInv
  <2>2. N' \in {N, N - 1}
    BY <1>0, <2>1, FS_RemoveElement
  <2>3. UNCHANGED <<queue, timeouts, ctl, kind>>
    BY <1>7 DEF Fail, Close, CloseSignal, chanVars
  <2> QED BY <1>0, <2>2, <2>3 DEF OpenInv, TypeInv
<1>8. CASE CloseLink
  <2>1. Opening' = Opening
    BY <1>8 DEF CloseLink, Opening, TypeInv
  <2> QED BY <1>8, <2>1 DEF CloseLink, OpenInv, chanVars
<1> QED BY <1>1, <1>2, <1>3, <1>4, <1>5, <1>6, <1>7, <1>8, LinkEffect

(***************************************************************************)
(* With no handshake given up, only a connector that is reading has one in *)
(* progress, and then there is nothing to read.                            *)
(***************************************************************************)
LEMMA NoneOpening ==
    ASSUME TypeInv, OpenInv, kind = "CClient", timeouts = 0, NEW k \in Links, link[k] = "opening"
    PROVE  ctl = "reading" /\ queue = <<>>
<1>1. Cardinality(Opening) # 0 /\ Cardinality(Opening) \in Nat
  BY OpeningFinite, FS_EmptySet DEF Opening
<1>2. Len(queue) \in Nat /\ (Len(queue) = 0 => queue = <<>>)
  BY DEF TypeInv
<1> QED BY <1>1, <1>2 DEF OpenInv

LEMMA LinkStep == TypeInv /\ OpenInv /\ LinkInv /\ [Next]_vars => LinkInv'
<1> SUFFICES ASSUME TypeInv, OpenInv, LinkInv, [Next]_vars,
                    kind' = "CClient", timeouts' = 0
             PROVE  LinkInv'
  BY DEF LinkInv
<1> USE DEF LinkInv, Opened, TypeInv, Links
<1>1. CASE UNCHANGED LinkChanges
  BY <1>1 DEF LinkChanges
<1>2. CASE Connect
  <2>1. timeouts = 0 /\ kind = "CClient" /\ cur' = cur + 1 /\ ctl = "loop"
    BY <1>2 DEF Connect, Move
  <2>2. cur # 0 => link[cur] = "closed" /\ ~connected
    BY <1>2, <2>1 DEF Connect, MustConnect
  <2>3. ~connected /\ connected' = connected
    BY <1>2, <2>1, <2>2 DEF Connect
  <2>4. cur' \in Links /\ link' = [link EXCEPT ![cur'] = "opening"]
    BY <1>2, LinksAssumption DEF Connect
  <2>5. \A k \in Links : k < cur' => link'[k] = "closed"
    BY <2>1, <2>2, <2>4
  <2>6. \A k \in Links : k > cur' => link'[k] = "none"
    BY <2>1, <2>4
  <2>7. queue = <<>>
    BY <2>1, OpeningFinite DEF OpenInv
  <2> QED BY <1>2, <2>1, <2>3, <2>5, <2>6, <2>7 DEF Connect, Move, chanVars
<1>3. CASE ReadTimedOut \/ CvEnds
  BY <1>3 DEF ReadTimedOut, CvEnds
<1>4. CASE CvWait
  <2>1. queue = <<>>
    BY <1>4, OpeningFinite DEF CvWait, Move, OpenInv, linkVars
  <2> QED BY <1>4, <2>1 DEF CvWait, Move, chanVars, linkVars
<1>5. CASE SetFlags \/ LoopEnds
  BY <1>5 DEF SetFlags, LoopEnds, Move, chanVars, linkVars
<1>6. CASE ReadChannel /\ Ch!Pop("connector") /\ ctl' = "got"
  BY <1>6 DEF ReadChannel, Ch!Pop, linkVars
<1>7. ASSUME NEW k \in Links, Open(k) PROVE LinkInv'
  <2>1. /\ timeouts = 0 /\ kind = "CClient" /\ link[k] = "opening"
        /\ link' = [link EXCEPT ![k] = "open"]
    BY <1>7 DEF Open
  <2>2. ctl = "reading" /\ k = cur
    BY <2>1, NoneOpening
  <2> QED BY <1>7, <2>1, <2>2 DEF Open
<1>8. ASSUME NEW k \in Links, Fail(k) PROVE LinkInv'
  <2>1. /\ timeouts = 0 /\ kind = "CClient" /\ link[k] = "opening"
        /\ link' = [link EXCEPT ![k] = "closed"]
    BY <1>8 DEF Fail
  <2>2. ctl = "reading" /\ queue = <<>> /\ k = cur
    BY <2>1, NoneOpening
  <2> QED BY <1>8, <2>1, <2>2 DEF Fail, chanVars
<1>9. ASSUME NEW k \in Links, Close(k) PROVE LinkInv'
  <2>1. timeouts = 0 /\ kind = "CClient" /\ link[k] \in {"open", "closing"} /\ k = cur
    BY <1>9 DEF Close
  <2> QED BY <1>9, <2>1 DEF Close, CloseSignal, chanVars
<1>10. CASE CloseLink
  BY <1>10 DEF CloseLink, chanVars
<1> QED BY <1>1, <1>2, <1>3, <1>4, <1>5, <1>6, <1>7, <1>8, <1>9, <1>10, LinkEffect

ClientInv == TypeInv /\ OpenInv /\ LinkInv

LEMMA ClientInvariant == Spec => []ClientInv
<1>1. Init => ClientInv
  <2> SUFFICES ASSUME Init PROVE ClientInv
    OBVIOUS
  <2>1. Opening = {} /\ queue = <<>>
    BY DEF Init, Ch!Init, Opening
  <2>2. TypeInv
    <3>1. link \in [Links -> {"none", "opening", "open", "closing", "closed"}]
      BY DEF Init
    <3>2. cur \in 0 .. MaxLinks /\ timeouts \in Nat /\ pushed \in Int
      BY LinksAssumption DEF Init, Ch!Init
    <3>3. queue \in Seq(Int)
      BY <2>1
    <3>4. kind \in {"CClient", "CConnect"}
      BY KindsAssumption DEF Init
    <3> QED BY <3>1, <3>2, <3>3, <3>4 DEF TypeInv
  <2>3. OpenInv
    BY <2>1, FS_EmptySet DEF Init, OpenInv
  <2> QED BY <2>1, <2>2, <2>3 DEF Init, ClientInv, LinkInv
<1>2. ClientInv /\ [Next]_vars => ClientInv'
  BY TypeStep, OpenStep, LinkStep DEF ClientInv
<1> QED BY <1>1, <1>2, PTL DEF Spec

(* The channel holds at most one item for each handshake that was given up  *)
(* and one for the handshake in progress (ws_client.cpp:109-114, 145).      *)
THEOREM StaleItemsCounted == Spec => []OpensAccounted
<1>1. ClientInv => OpensAccounted
  BY OpeningFinite DEF ClientInv, OpenInv, TypeInv, OpensAccounted
<1> QED BY <1>1, ClientInvariant, PTL

(* As long as no handshake was given up, a client that believes it is       *)
(* connected is, or its connection closed before connect() came to set the  *)
(* flag (ws_client.cpp:110-114, 150-151).                                   *)
THEOREM BelievesInOpened == Spec => []BelievesRightly
<1>1. ClientInv => BelievesRightly
  BY DEF ClientInv, LinkInv, Opened, BelievesRightly
<1> QED BY <1>1, ClientInvariant, PTL

---------------------------------------------------------------------------
(* The I/O thread that waits for room *)

(***************************************************************************)
(* A connector that waits leaves at most the one item about to be          *)
(* announced; an I/O thread that waits has two items before it or a        *)
(* connector that took one and is to notify.  Only a connector that is     *)
(* connecting reads.                                                       *)
(***************************************************************************)
PairInv ==
    /\ pc["connector"] = "blocked" /\ queue # <<>> =>
          Len(queue) = 1 /\ pc["io"] \in {"pushed", "notify"}
    /\ pc["io"] = "blocked" => Len(queue) > 1 \/ pc["connector"] = "notify"
    /\ pc["connector"] \in {"blocked", "woken", "passed"} => ctl = "reading"
    /\ pc["connector"] # "pushed" /\ (pc["connector"] # "idle" => kind = "CClient")

\* As long as fewer than two handshakes were given up, an I/O thread that waits
\* in onOpen() has a connector that is taking an item or about to notify.
IoIsExpected ==
    pc["io"] = "blocked" /\ timeouts < 2 =>
        \/ pc["connector"] = "notify"
        \/ ctl = "reading" /\ queue # <<>> /\ pc["connector"] \in {"idle", "woken", "passed"}

LEMMA PairStep ==
    ASSUME TypeInv, ChannelInv, PairInv, [Next]_vars
    PROVE  PairInv'
<1>0. /\ Len(queue) \in Nat /\ (queue = <<>> <=> Len(queue) = 0)
      /\ DOMAIN pc = {"io", "connector"} /\ undefined = FALSE
  BY DEF TypeInv, ChannelInv
<1> USE <1>0 DEF PairInv, Ch!Goto
<1>1. CASE UNCHANGED <<queue, pc, ctl, kind>>
  BY <1>1
<1>2. CASE Connect \/ SetFlags \/ LoopEnds \/ CvWait
  BY <1>2 DEF Connect, SetFlags, LoopEnds, CvWait, Move, chanVars, ownerVars
<1>3. CASE CvEnds
  BY <1>3, KindsAssumption DEF CvEnds, chanVars
<1>4. CASE ReadChannel
  <2>1. kind = "CClient" /\ ctl = "reading" /\ UNCHANGED kind
    BY <1>4 DEF ReadChannel, ownerVars
  <2>2. ASSUME Ch!ReadBlock("connector") \/ Ch!ReadPass("connector"), UNCHANGED ctl
        PROVE  PairInv'
    <3>1. UNCHANGED queue /\ pc["connector"] \in {"idle", "woken"}
      BY <2>2 DEF Ch!ReadBlock, Ch!ReadPass, Ch!Reading
    <3>2. \/ queue = <<>> /\ pc' = [pc EXCEPT !["connector"] = "blocked"]
          \/ pc' = [pc EXCEPT !["connector"] = "passed"]
      BY <2>2 DEF Ch!ReadBlock, Ch!ReadPass, Ch!SeesItem
    <3>3. pc'["io"] = pc["io"] /\ pc'["connector"] \in {"blocked", "passed"}
          /\ (pc'["connector"] = "blocked" => queue = <<>>)
      BY <1>0, <3>2
    <3> QED BY <2>1, <2>2, <3>1, <3>3
  <2>3. CASE Ch!Pop("connector")
    <3>1. pc' = [pc EXCEPT !["connector"] = "notify"]
      BY <2>3 DEF Ch!Pop
    <3>2. pc'["connector"] = "notify"
      BY <1>0, <3>1
    <3> QED BY <2>1, <3>2
  <2> QED BY <1>4, <2>2, <2>3 DEF ReadChannel
<1>5. CASE ReadTimedOut
  BY <1>5 DEF ReadTimedOut, Ch!TimedOut
<1>6. CASE IoWrites
  <2>1. CASE Ch!WriteBlock("io") \/ Ch!WriteLeave("io")
    <3>1. UNCHANGED <<queue, ctl, kind>>
      BY <1>6, <2>1 DEF IoWrites, ChannelOnly, Ch!WriteBlock, Ch!WriteLeave
    <3>2. \/ ~(Len(queue) <= 1) /\ pc' = [pc EXCEPT !["io"] = "blocked"]
          \/ pc' = [pc EXCEPT !["io"] = "notify"]
      BY <2>1 DEF Ch!WriteBlock, Ch!WriteLeave, Ch!HasRoom
    <3>3. pc'["connector"] = pc["connector"] /\ pc'["io"] \in {"blocked", "notify"}
          /\ (pc'["io"] = "blocked" => Len(queue) > 1 /\ Len(queue) # 1 /\ Len(queue) # 0)
      BY <1>0, <3>2
    <3> QED BY <1>0, <3>1, <3>3
  <2>2. CASE Ch!Notify("io")
    <3>1. pc'["io"] = "idle" /\ pc'["connector"] # "blocked" /\ UNCHANGED <<queue, ctl, kind>>
          /\ (pc'["connector"] = pc["connector"]
              \/ (pc["connector"] = "blocked" /\ pc'["connector"] = "woken"))
      BY <1>6, <2>2 DEF IoWrites, ChannelOnly, Ch!Notify, Ch!MayWake, Ch!Waiters, Ch!Threads
    <3> QED BY <3>1
  <2> QED BY <1>6, <2>1, <2>2 DEF IoWrites
<1>7. CASE ReaderNotifies
  <2>1. pc'["connector"] = "idle" /\ pc'["io"] # "blocked" /\ UNCHANGED <<queue, ctl, kind>>
    BY <1>7 DEF ReaderNotifies, ChannelOnly, Ch!Notify, Ch!MayWake, Ch!Waiters, Ch!Threads
  <2> QED BY <2>1
<1>8. CASE ChannelWakes
  BY <1>8 DEF ChannelWakes, ChannelOnly, Ch!SpuriousWake
<1>9. ASSUME NEW k \in Links, Open(k) PROVE PairInv'
  <2>1. CASE kind = "CClient" /\ Ch!Push("io") /\ UNCHANGED ctl
    <3>1. Len(queue') = Len(queue) + 1
      BY <2>1 DEF Ch!Push, Ch!Item, TypeInv
    <3>2. pc["io"] = "idle" /\ pc'["io"] = "pushed" /\ pc'["connector"] = pc["connector"]
          /\ UNCHANGED kind
      BY <1>9, <2>1 DEF Open, Ch!Push
    <3> QED BY <2>1, <3>1, <3>2
  <2>2. CASE kind = "CConnect" /\ UNCHANGED chanVars
    BY <1>9, <2>2 DEF Open, chanVars
  <2> QED BY <1>9, <2>1, <2>2 DEF Open
<1>10. ASSUME NEW k \in Links, Fail(k) \/ Close(k) PROVE UNCHANGED <<queue, pc, ctl, kind>>
  BY <1>10 DEF Fail, Close, CloseSignal, chanVars
<1>11. CASE IoReceives \/ IoHandles \/ RunEnds \/ \E s \in Senders : Call(s) \/ SendStep(s)
  BY <1>1, <1>11 DEF IoReceives, IoHandles, RunEnds, Call, SendStep, chanVars
<1>12. CASE Leave \/ OwnerStep \/ JoinTwice \/ UNCHANGED vars
  BY <1>1, <1>12 DEF Leave, OwnerStep, JoinConnector, CloseLink, JoinIo, JoinTwice, vars, chanVars
<1> QED
  BY <1>1, <1>2, <1>3, <1>4, <1>5, <1>6, <1>7, <1>8, <1>9, <1>10, <1>11, <1>12
  DEF Next, ConnectorStep

(* As long as fewer than two handshakes were given up, onOpen() never waits *)
(* for room in the channel unless the connector is at its read() and        *)
(* has an item to take, or has taken one and is about to notify             *)
(* (ws_client.cpp:109, 145): the I/O thread, and with it every answer, is   *)
(* not held up for good.                                                    *)
THEOREM IoThreadIsExpected == Spec => []IoIsExpected
<1>1. Init => ChannelInv /\ PairInv
  BY DEF Init, Ch!Init, Ch!Threads, Ch!Labels, ChannelInv, PairInv
<1>2. ASSUME ClientInv, ChannelInv, PairInv PROVE IoIsExpected
  <2> SUFFICES ASSUME pc["io"] = "blocked", timeouts < 2, pc["connector"] # "notify"
               PROVE  /\ ctl = "reading" /\ queue # <<>>
                      /\ pc["connector"] \in {"idle", "woken", "passed"}
    BY DEF IoIsExpected
  <2>0. Len(queue) \in Nat /\ (queue = <<>> <=> Len(queue) = 0)
    BY <1>2 DEF ClientInv, TypeInv
  <2>1. Len(queue) > 1 /\ queue # <<>> /\ Len(queue) # 1
    <3>1. Len(queue) > 1
      BY <1>2 DEF PairInv
    <3>2. \A n \in Nat : n > 1 => n # 0 /\ n # 1
      OBVIOUS
    <3> QED BY <2>0, <3>1, <3>2
  <2>2. ctl = "reading"
    BY <1>2, <2>1, OpeningFinite DEF ClientInv, OpenInv, TypeInv
  <2> QED BY <1>2, <2>1, <2>2 DEF PairInv, ChannelInv, Ch!Labels
<1>3. ClientInv /\ ChannelInv /\ PairInv /\ [Next]_vars => PairInv'
  BY PairStep DEF ClientInv
<1> QED BY <1>1, <1>2, <1>3, ChannelStep, ClientInvariant, PTL DEF Spec

---------------------------------------------------------------------------
(* Types *)

LEMMA SyncTypeStep ==
    ASSUME S!TypeOK, GapInv, cur \in 0 .. MaxLinks, [Next]_vars
    PROVE  S!TypeOK'
<1> USE LinksAssumption DEF S!TypeOK, S!Goto
<1>0. sends \in Nat /\ MaxSends \in Nat
  BY DEF GapInv
<1>1. CASE UNCHANGED sendVars
  BY <1>1 DEF sendVars
<1>2. ASSUME NEW k \in Links, Close(k) PROVE S!TypeOK'
  BY <1>2 DEF Close
<1>3. CASE IoReceives
  <2>1. PICK r \in outstanding : S!Receive(r)
    BY <1>3 DEF IoReceives
  <2> QED BY <2>1 DEF S!Receive, S!senderVars
<1>4. CASE IoHandles
  <2>1. S!NoAnswer \in [uuid : 0 .. sends, body : 0 .. sends]
    BY <1>0 DEF S!NoAnswer
  <2>2. CASE S!Find
    BY <2>1, <2>2 DEF S!Find, S!Idle, S!senderVars
  <2>3. CASE S!Notify
    BY <2>3 DEF S!Notify
  <2>4. CASE S!Write
    BY <2>1, <2>4 DEF S!Write, S!Idle
  <2>5. CASE S!Dangling
    BY <2>1, <2>5 DEF S!Dangling, S!Idle, S!senderVars
  <2> QED BY <1>4, <2>2, <2>3, <2>4, <2>5 DEF IoHandles, S!Handling
<1>5. ASSUME NEW s \in Senders, Call(s) PROVE S!TypeOK'
  <2>1. CASE S!Send(s, cur)
    <3>1. /\ sends' = sends + 1 /\ sends' \in 1 .. MaxSends /\ cur \in Links
          /\ at' = [at EXCEPT ![s] = "sent"] /\ asked' = [asked EXCEPT ![s] = sends']
          /\ UNCHANGED <<messages, response, result, unasked, io, answer, torn, status>>
      BY <1>0, <1>5, <2>1 DEF S!Send, Call, Built, Links
    <3>2. outstanding' = outstanding \cup {[uuid |-> sends', body |-> sends', link |-> cur]}
      BY <2>1, <3>1 DEF S!Send, S!Uuid
    <3>3. 0 .. sends \subseteq 0 .. sends' /\ 1 .. sends \subseteq 1 .. sends'
          /\ -1 .. sends \subseteq -1 .. sends'
      BY <1>0, <3>1
    <3>4. outstanding' \in SUBSET [uuid : 1 .. sends', body : 1 .. sends', link : Links]
      BY <3>1, <3>2, <3>3
    <3>5. messages' \in SUBSET ((1 .. sends') \X Senders)
      BY <3>1, <3>3
    <3>6. asked' \in [Senders -> 0 .. sends'] /\ response' \in [Senders -> 0 .. sends']
          /\ result' \in [Senders -> -1 .. sends'] /\ answer' \in [uuid : 0 .. sends', body : 0 .. sends']
      BY <3>1, <3>3
    <3>7. sends' \in 0 .. MaxSends
          /\ at' \in [Senders -> {"idle", "sent", "listed", "waiting", "woken", "erased"}]
      BY <3>1
    <3> QED BY <3>1, <3>4, <3>5, <3>6, <3>7
  <2>2. CASE S!Refused(s)
    BY <1>0, <2>2 DEF S!Refused
  <2> QED BY <1>5, <2>1, <2>2 DEF Call
<1>6. ASSUME NEW s \in Senders, SendStep(s) PROVE S!TypeOK'
  <2>1. CASE S!Register(s)
    <3>1. asked[s] \in 1 .. sends
      BY <1>0, <2>1 DEF S!Register, GapInv
    <3> QED BY <2>1, <3>1 DEF S!Register, S!Uuid, S!Searched
  <2>2. CASE S!Wait(s)
    BY <2>2 DEF S!Wait
  <2>3. CASE S!Erase(s)
    BY <2>3 DEF S!Erase, S!Searched
  <2>4. CASE S!Return(s)
    <3>1. response[s] \in -1 .. sends /\ 0 \in 0 .. sends
      BY <1>0
    <3> QED BY <2>4, <3>1 DEF S!Return
  <2>5. CASE S!WaitEnds(s)
    BY <2>5 DEF S!WaitEnds
  <2> QED BY <1>6, <2>1, <2>2, <2>3, <2>4, <2>5 DEF SendStep, S!Sending
<1> QED BY <1>1, <1>2, <1>3, <1>4, <1>5, <1>6, SendChanges

\* What the invariants above leave open.
ChannelTyped == queue \in Seq(Nat) /\ pushed \in Nat /\ timed \subseteq {"connector"}

ControlTyped ==
    /\ kind \in Kinds /\ early \in BOOLEAN
    /\ ctl \in {"loop", "ready", "reading", "got", "ended"}
    /\ owner \in {"alive", "leaving", "closing", "joining", "gone", "off", "terminated"}
    /\ connected \in BOOLEAN /\ end \in BOOLEAN /\ perpetual \in BOOLEAN /\ running \in BOOLEAN

LEMMA ChannelTypeStep ==
    ASSUME ChannelTyped, [Next]_vars
    PROVE  ChannelTyped'
<1> USE DEF ChannelTyped
<1>1. CASE UNCHANGED chanVars
  BY <1>1 DEF chanVars
<1>2. CASE ReadChannel
  <2>1. timed' = {"connector"} /\ pushed' = pushed /\ (queue' = queue \/ (queue # <<>> /\ queue' = Tail(queue)))
    BY <1>2 DEF ReadChannel, Ch!ReadBlock, Ch!ReadPass, Ch!Pop, Ch!Rest
  <2> QED BY <2>1
<1>3. CASE ReadTimedOut \/ IoWrites \/ ReaderNotifies \/ ChannelWakes
  <2>1. UNCHANGED <<queue, pushed, timed>>
    BY <1>3 DEF ReadTimedOut, IoWrites, ReaderNotifies, ChannelWakes, Ch!TimedOut, Ch!WriteBlock,
                Ch!WriteLeave, Ch!Notify, Ch!SpuriousWake
  <2> QED BY <2>1
<1>4. CASE Ch!Push("io")
  <2>1. pushed' = pushed + 1 /\ queue' = Append(queue, pushed + 1) /\ timed' = timed
    BY <1>4 DEF Ch!Push, Ch!Item
  <2> QED BY <2>1
<1> QED BY <1>1, <1>2, <1>3, <1>4, ChannelChanges

LEMMA ControlTypeStep ==
    ASSUME ControlTyped, [Next]_vars
    PROVE  ControlTyped'
<1> USE DEF ControlTyped, linkVars, ownerVars
<1>1. CASE ConnectorStep \/ ReadTimedOut \/ CvEnds
  <2>1. CASE Connect \/ ReadChannel
    BY <2>1 DEF Connect, ReadChannel, Move
  <2>2. CASE CvWait \/ SetFlags \/ LoopEnds \/ ReadTimedOut \/ CvEnds
    BY <2>2 DEF CvWait, SetFlags, LoopEnds, ReadTimedOut, CvEnds, Move
  <2> QED BY <1>1, <2>1, <2>2 DEF ConnectorStep
<1>2. CASE IoWrites \/ ReaderNotifies \/ ChannelWakes
  BY <1>2 DEF IoWrites, ReaderNotifies, ChannelWakes, ChannelOnly
<1>3. ASSUME NEW k \in Links, Open(k) \/ Fail(k) \/ Close(k) PROVE ControlTyped'
  <2>1. CASE Open(k)
    BY <2>1 DEF Open
  <2>2. CASE Fail(k)
    BY <2>2 DEF Fail
  <2>3. CASE Close(k)
    <3>1. /\ UNCHANGED <<kind, ctl, owner, end, perpetual, running>>
          /\ connected' = IF kind = "CClient" THEN FALSE ELSE connected
          /\ early' = (early \/ (k = cur /\ ctl \in {"reading", "got"}))
      BY <2>3 DEF Close
    <3> QED BY <3>1
  <2> QED BY <1>3, <2>1, <2>2, <2>3
<1>4. CASE IoReceives \/ IoHandles \/ RunEnds \/ \E s \in Senders : Call(s) \/ SendStep(s)
  <2>1. CASE IoReceives \/ IoHandles \/ RunEnds
    <3>1. /\ UNCHANGED <<kind, early, ctl, owner, connected, end, perpetual>>
          /\ running' \in {running, FALSE}
      BY <2>1 DEF IoReceives, IoHandles, RunEnds
    <3> QED BY <3>1
  <2>2. ASSUME NEW s \in Senders, Call(s) \/ SendStep(s)
        PROVE  UNCHANGED <<kind, early, ctl, owner, connected, end, perpetual, running>>
    BY <2>2 DEF Call, SendStep
  <2>3. UNCHANGED <<kind, early, ctl, owner, connected, end, perpetual, running>> => ControlTyped'
    OBVIOUS
  <2> QED BY <1>4, <2>1, <2>2, <2>3
<1>5. CASE Leave \/ OwnerStep \/ JoinTwice
  BY <1>5 DEF Leave, OwnerStep, JoinConnector, CloseLink, JoinIo, JoinTwice, OwnerMove,
              PerpetualAfterLeave
<1>6. CASE UNCHANGED vars
  BY <1>6 DEF vars
<1> QED BY <1>1, <1>2, <1>3, <1>4, <1>5, <1>6 DEF Next

(* Every variable of WsClient, of its senders and of its channel keeps its  *)
(* type (ws_client.cpp:47-260).                                             *)
THEOREM ClientTypeCorrect == Spec => []TypeOK
<1>1. Init => AnswerInv /\ GapInv /\ ChannelInv /\ S!TypeOK /\ ChannelTyped /\ ControlTyped
  <2> SUFFICES ASSUME Init
               PROVE  /\ AnswerInv /\ GapInv /\ ChannelInv
                      /\ S!TypeOK /\ ChannelTyped /\ ControlTyped
    OBVIOUS
  <2>1. AnswerInv /\ GapInv
    BY DEF Init, S!Init, S!NoAnswer, AnswerInv, GapInv, Gap, Registered
  <2>2. ChannelInv /\ ChannelTyped
    BY DEF Init, Ch!Init, Ch!Threads, Ch!Labels, ChannelInv, ChannelTyped
  <2>3. S!TypeOK
    <3>1. sends = 0 /\ 0 \in 0 .. sends /\ 0 \in -1 .. sends /\ sends \in 0 .. MaxSends
      BY LinksAssumption DEF Init, S!Init
    <3>2. /\ asked \in [Senders -> 0 .. sends] /\ response \in [Senders -> 0 .. sends]
          /\ result \in [Senders -> -1 .. sends]
      BY <3>1 DEF Init, S!Init
    <3>3. answer \in [uuid : 0 .. sends, body : 0 .. sends]
      BY <3>1 DEF Init, S!Init, S!NoAnswer
    <3> QED BY <3>1, <3>2, <3>3 DEF Init, S!Init, S!TypeOK
  <2>4. ControlTyped
    BY DEF Init, ControlTyped
  <2> QED BY <2>1, <2>2, <2>3, <2>4
<1>2. ClientInv /\ ChannelInv /\ S!TypeOK /\ ChannelTyped /\ ControlTyped => TypeOK
  BY DEF ClientInv, TypeInv, ChannelInv, ChannelTyped, ControlTyped, TypeOK, Ch!TypeOK, Ch!Threads
<1>3. ClientInv /\ GapInv /\ S!TypeOK /\ [Next]_vars => S!TypeOK'
  BY SyncTypeStep DEF ClientInv, TypeInv
<1> QED
  BY <1>1, <1>2, <1>3, AnswerStep, GapStep, ChannelStep, ChannelTypeStep, ControlTypeStep,
     ClientInvariant, PTL
  DEF Spec
=============================================================================
