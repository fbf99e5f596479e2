------------------------------ MODULE WsClient ------------------------------
(***************************************************************************)
(* The websocket clients of src/ws_client with their connections.          *)
(*                                                                         *)
(* websocket::CClient connects in its constructor and, from then on, in a  *)
(* thread of its own (one connector, as the two never overlap); it learns  *)
(* from a CChannel<bool> that a handshake is over.  CConnect and           *)
(* CHttpClient connect once, in the constructor, and learn it from a       *)
(* condition variable.  Which class it is: kind.  The I/O thread runs all  *)
(* callbacks, those of SyncSend included, one at a time.                   *)
(*                                                                         *)
(*   connector: loop -> reading -> (got ->) loop, ..., loop -> ended        *)
(*   CConnect:  loop -> ready -> reading -> (got ->) ended                  *)
(*   owner:     alive -> leaving -> closing -> joining -> gone, or off      *)
(*                                                                         *)
(* The URL is taken to be valid (get_connection() and connect() succeed),  *)
(* isReconnect to be true, as by default, and the pointer m_conn to be     *)
(* read and assigned atomically.                                           *)
(***************************************************************************)
EXTENDS Integers, Sequences, FiniteSets

CONSTANTS Kinds,        \* which classes: a subset of {"CClient", "CConnect"}
          Senders, MaxSends,
          MaxLinks,     \* bound: how many connections are ever tried
          MaxEvents     \* bound: how many requests and connections together

ASSUME KindsAssumption == Kinds \subseteq {"CClient", "CConnect"}
ASSUME LinksAssumption == {MaxLinks, MaxSends, MaxEvents} \subseteq Nat

VARIABLES at, asked, sends, outstanding, messages, response, result, unasked,
          io, answer, torn, status,            \* SyncSend
          queue, pc, timed, pushed, undefined, \* m_connChannel
          kind,
          link,       \* the state of each connection
          cur,        \* m_conn: the latest one; 0 before the first
          ctl,        \* control of the connector
          connected,  \* m_isConnect and m_connFlag
          timeouts,   \* how many handshakes were given up
          early,      \* m_conn closed before the flags were set for it
          end,        \* m_reConnectIsEnd
          owner,      \* control of disconnect() and the destructor
          perpetual,  \* the endpoint's run() does not end by itself
          running     \* the I/O thread is in run()

Links == 1 .. MaxLinks

S == INSTANCE SyncSend
Ch == INSTANCE Channel WITH Writers <- {"io"}, Readers <- {"connector"},
                            Size <- 1, MaxItems <- 2 * MaxLinks

sendVars == <<at, asked, sends, outstanding, messages, response, result, unasked,
              io, answer, torn, status>>
chanVars == <<queue, pc, timed, pushed, undefined>>
linkVars == <<link, cur, connected, timeouts, early>>
ownerVars == <<end, owner, perpetual>>
vars == <<sendVars, chanVars, linkVars, ownerVars, kind, ctl, running>>

Init == /\ S!Init /\ Ch!Init
        /\ kind \in Kinds
        /\ link = [k \in Links |-> "none"]
        /\ cur = 0 /\ ctl = "loop" /\ connected = FALSE
        /\ timeouts = 0 /\ early = FALSE
        /\ end = FALSE /\ owner = "alive" /\ perpetual = TRUE /\ running = TRUE

Move(from, to) == ctl = from /\ ctl' = to

\* The constructor has returned; before that nobody else has the object.
Built == cur > 1 \/ (cur = 1 /\ ctl \in {"loop", "ended"})

---------------------------------------------------------------------------
(* connect() and checkConnect(): ws_client.cpp:66-124 *)

\* Faulty variant: the reconnect thread does not ask whether it is connected.
MustConnect_Always == ~end

\* The constructor connects unasked, the loop when there is no connection.
MustConnect == cur = 0 \/ (kind = "CClient" /\ ~end /\ ~connected)

Connect ==
    /\ MustConnect /\ cur < MaxLinks /\ cur + sends < MaxEvents
    /\ Move("loop", IF kind = "CClient" THEN "reading" ELSE "ready")
    /\ cur' = cur + 1
    /\ link' = [link EXCEPT ![cur'] = "opening"]
    /\ early' = FALSE
    /\ UNCHANGED <<sendVars, chanVars, connected, timeouts, ownerVars, kind, running>>

ReadChannel ==
    /\ ctl = "reading" /\ kind = "CClient"
    /\ \/ /\ Ch!ReadBlock("connector") \/ Ch!ReadPass("connector")
          /\ UNCHANGED ctl
       \/ /\ Ch!Pop("connector")
          /\ ctl' = "got"
    /\ timed' = {"connector"}
    /\ UNCHANGED <<sendVars, linkVars, ownerVars, kind, running>>

\* read() returns false; the handshake itself goes on.
ReadTimedOut ==
    /\ Move("reading", "loop")
    /\ Ch!TimedOut("connector")
    /\ timeouts' = timeouts + 1
    /\ UNCHANGED <<sendVars, link, cur, connected, early, ownerVars, kind, running>>

\* CConnect: wait_for with no predicate; whatever wakes it in time counts.
CvWait ==
    /\ Move("ready", "reading")
    /\ UNCHANGED <<sendVars, chanVars, linkVars, ownerVars, kind, running>>

CvEnds ==
    /\ kind = "CConnect"
    /\ \/ /\ Move("reading", "ended")
          /\ timeouts' = timeouts + 1
       \/ /\ Move("reading", "got")
          /\ timeouts' = timeouts
    /\ UNCHANGED <<sendVars, chanVars, link, cur, connected, early, ownerVars, kind, running>>

\* The flags are set after the wait, whatever onClose() did meanwhile.
SetFlags ==
    /\ Move("got", IF kind = "CClient" THEN "loop" ELSE "ended")
    /\ pc["connector"] = "idle"
    /\ connected' = TRUE
    /\ UNCHANGED <<sendVars, chanVars, link, cur, timeouts, early, ownerVars, kind, running>>

LoopEnds ==
    /\ end /\ kind = "CClient" /\ Move("loop", "ended")
    /\ UNCHANGED <<sendVars, chanVars, linkVars, ownerVars, kind, running>>

ChannelOnly == UNCHANGED <<sendVars, linkVars, ownerVars, kind, ctl, running>>

IoWrites == (Ch!WriteBlock("io") \/ Ch!WriteLeave("io") \/ Ch!Notify("io")) /\ ChannelOnly
ReaderNotifies == Ch!Notify("connector") /\ ChannelOnly
ChannelWakes == (\E t \in {"io", "connector"} : Ch!SpuriousWake(t)) /\ ChannelOnly

---------------------------------------------------------------------------
(* The I/O thread: one event at a time *)

IoFree == running /\ io = "idle" /\ pc["io"] = "idle"

\* onOpen().  CConnect's notification is lost when nobody waits yet.
Open(k) ==
    /\ IoFree /\ link[k] = "opening"
    /\ link' = [link EXCEPT ![k] = "open"]
    /\ \/ kind = "CClient" /\ Ch!Push("io") /\ UNCHANGED ctl
       \/ kind = "CConnect" /\ UNCHANGED chanVars
          /\ ctl' = IF ctl = "reading" THEN "got" ELSE ctl
    /\ UNCHANGED <<sendVars, cur, connected, timeouts, early, ownerVars, kind, running>>

\* No handler is set for a failed handshake.
Fail(k) ==
    /\ IoFree /\ link[k] = "opening"
    /\ link' = [link EXCEPT ![k] = "closed"]
    /\ UNCHANGED <<sendVars, chanVars, cur, connected, timeouts, early, ownerVars,
                   kind, ctl, running>>

\* Faulty variant: onClose() tells the channel, too.
CloseSignal_Sent == Ch!Push("io")

CloseSignal == UNCHANGED chanVars

\* onClose(), for either side's close; CConnect sets no handler.
Close(k) ==
    /\ IoFree /\ link[k] \in {"open", "closing"}
    /\ link' = [link EXCEPT ![k] = "closed"]
    /\ connected' = IF kind = "CClient" THEN FALSE ELSE connected
    /\ early' = (early \/ (k = cur /\ ctl \in {"reading", "got"}))
    /\ outstanding' = {r \in outstanding : r.link # k}
    /\ CloseSignal
    /\ UNCHANGED <<at, asked, sends, messages, response, result, unasked, io, answer, torn,
                   status, cur, timeouts, ownerVars, kind, ctl, running>>

IoReceives ==
    /\ IoFree /\ \E r \in outstanding : S!Receive(r)
    /\ UNCHANGED <<chanVars, linkVars, ownerVars, kind, ctl, running>>

IoHandles ==
    /\ S!Handling
    /\ UNCHANGED <<chanVars, linkVars, ownerVars, kind, ctl, running>>

\* run() returns when nothing is left to do and it is not perpetual.
RunEnds ==
    /\ IoFree /\ ~perpetual
    /\ \A k \in Links : link[k] \in {"none", "closed"}
    /\ running' = FALSE
    /\ UNCHANGED <<sendVars, chanVars, linkVars, ownerVars, kind, ctl>>

---------------------------------------------------------------------------
(* Senders *)

Call(s) ==
    /\ Built /\ owner = "alive"
    /\ \/ link[cur] = "open" /\ cur + sends < MaxEvents /\ S!Send(s, cur)
       \/ link[cur] # "open" /\ S!Refused(s)
    /\ UNCHANGED <<chanVars, linkVars, ownerVars, kind, ctl, running>>

SendStep(s) ==
    /\ S!Sending(s) \/ S!WaitEnds(s)
    /\ UNCHANGED <<chanVars, linkVars, ownerVars, kind, ctl, running>>

---------------------------------------------------------------------------
(* disconnect() and the destructors: lines 47-64; ws_connect.cpp:63-74 *)

OwnerMove(from, to) == owner = from /\ owner' = to

\* Faulty variant: nobody calls stop_perpetual() before the join.
PerpetualAfterLeave_Kept == TRUE

PerpetualAfterLeave == kind = "CClient"

\* CClient ends its reconnecting first, CConnect its endpoint.
Leave ==
    /\ Built /\ \A s \in Senders : at[s] = "idle"
    /\ OwnerMove("alive", "leaving")
    /\ end' = (kind = "CClient") /\ perpetual' = PerpetualAfterLeave
    /\ UNCHANGED <<sendVars, chanVars, linkVars, kind, ctl, running>>

\* m_reConnectThread.join()
JoinConnector ==
    /\ OwnerMove("leaving", "closing") /\ ctl = "ended"
    /\ UNCHANGED <<sendVars, chanVars, linkVars, end, perpetual, kind, ctl, running>>

\* A connection that is still opening is not closed.  CClient::disconnect()
\* alone ends here; in a destructor the I/O thread is joined next.
CloseLink ==
    /\ \/ OwnerMove("closing", "joining")
       \/ kind = "CClient" /\ OwnerMove("closing", "off")
    /\ link' = [link EXCEPT ![cur] = IF @ = "open" THEN "closing" ELSE @]
    /\ UNCHANGED <<sendVars, chanVars, cur, connected, timeouts, early, end, perpetual,
                   kind, ctl, running>>

\* A destructor after disconnect() joins a thread that was joined: terminate().
JoinTwice ==
    /\ OwnerMove("off", "terminated")
    /\ UNCHANGED <<sendVars, chanVars, linkVars, end, perpetual, kind, ctl, running>>

\* m_thread->join(); only then does CClient call stop_perpetual().
JoinIo ==
    /\ OwnerMove("joining", "gone") /\ ~running
    /\ perpetual' = FALSE
    /\ UNCHANGED <<sendVars, chanVars, linkVars, end, kind, ctl, running>>

ConnectorStep == Connect \/ ReadChannel \/ CvWait \/ SetFlags \/ LoopEnds
OwnerStep == JoinConnector \/ CloseLink \/ JoinIo

\* Nothing can be said of a process after undefined behaviour or its end.
Alive == status = "alive" /\ owner # "terminated"

Next == /\ Alive
        /\ \/ ConnectorStep \/ ReadTimedOut \/ CvEnds
           \/ IoWrites \/ ReaderNotifies \/ ChannelWakes
           \/ \E k \in Links : Open(k) \/ Fail(k) \/ Close(k)
           \/ IoReceives \/ IoHandles \/ RunEnds
           \/ \E s \in Senders : Call(s) \/ SendStep(s)
           \/ Leave \/ OwnerStep \/ JoinTwice

Spec == Init /\ [][Next]_vars

\* Threads run on and timed waits end.  Calls, answers, opens, closes and
\* failures are not owed, and for this much neither is a handshake's end.
FairSpec ==
    /\ Spec
    /\ WF_vars(Alive /\ ConnectorStep)
    /\ WF_vars(Alive /\ IoWrites)
    /\ WF_vars(Alive /\ ReaderNotifies)
    /\ \A s \in Senders : WF_vars(Alive /\ SendStep(s))

\* In addition, a handshake's time is over once, the I/O thread ends what it
\* handles, websocketpp ends a handshake one way or the other, the owner goes
\* on, and the server answers a close.
FairToOwner ==
    /\ FairSpec
    /\ SF_vars(Alive /\ ReadTimedOut)
    /\ WF_vars(Alive /\ CvEnds)
    /\ WF_vars(Alive /\ IoHandles)
    /\ WF_vars(Alive /\ RunEnds)
    /\ WF_vars(Alive /\ OwnerStep)
    /\ \A k \in Links : WF_vars(Alive /\ (Open(k) \/ Fail(k)))
    /\ \A k \in Links : WF_vars(Alive /\ link[k] = "closing" /\ Close(k))

---------------------------------------------------------------------------
(* Properties *)

(* Every variable has its type. *)
TypeOK ==
    /\ S!TypeOK /\ Ch!TypeOK /\ kind \in Kinds
    /\ link \in [Links -> {"none", "opening", "open", "closing", "closed"}]
    /\ cur \in 0 .. MaxLinks /\ timeouts \in Nat /\ early \in BOOLEAN
    /\ ctl \in {"loop", "ready", "reading", "got", "ended"}
    /\ owner \in {"alive", "leaving", "closing", "joining", "gone", "off", "terminated"}
    /\ {connected, end, perpetual, running} \subseteq BOOLEAN

(* The connector that saw an item of m_connChannel finds it when it takes   *)
(* the lock again, timed reads included (ws_client.cpp:109).                *)
ReaderFindsItem == Ch!ReaderFindsItem

(* Senders that share one connection and one I/O thread never get each      *)
(* other's answers, through closed and new connections (lines 154-184).     *)
AnswerIsOwn == S!AnswerIsOwn

(* Nor does a sender that was notified miss its answer but in the gap of    *)
(* handleSyncMessage() between notification and assignment (182-183).       *)
EmptyOnlyInTheGap == S!EmptyOnlyInTheGap

(* The channel holds at most one item for each handshake that was given up, *)
(* and one for the handshake in progress: a connection that opens after its *)
(* time leaves an item that a later connect() takes for its own             *)
(* (ws_client.cpp:109-114, 145).                                            *)
OpensAccounted ==
    Len(queue) <= timeouts + IF ctl = "reading" THEN 1 ELSE 0

(* As long as no handshake was given up, a client that believes it is       *)
(* connected is, or its connection closed before connect() came to set the  *)
(* flag and onClose() had been overtaken (lines 110-114, 150-151).          *)
BelievesRightly ==
    kind = "CClient" /\ connected /\ timeouts = 0 =>
        link[cur] \in {"open", "closing"} \/ early

(* onOpen() blocks the I/O thread, and with it every answer, for good only  *)
(* after two handshakes were given up (line 145).                           *)
IoComesBack ==
    pc["io"] # "idle" ~> pc["io"] = "idle" \/ timeouts >= 2 \/ ~Alive

(* disconnect() ends, and so does the destructor of CConnect, unless a      *)
(* handshake that was still going on opens the connection after the owner   *)
(* has closed what was open.  The destructor of CClient waits for a run()   *)
(* that only stop_perpetual(), which comes after the wait, would let end    *)
(* (ws_client.cpp:47-64, ws_connect.cpp:63-74).                             *)
LeavingEnds ==
    owner = "leaving" ~> \/ owner \in {"gone", "off"} \/ ~Alive
                         \/ owner = "joining" /\ (kind = "CClient" \/ link[cur] = "open")
=============================================================================
