------------------------------ MODULE SyncSend ------------------------------
(***************************************************************************)
(* The synchronous send() of websocket::CClient, CConnect and CHttpClient  *)
(* (src/ws_client; the three copies are the same) and the receiving side   *)
(* of it, onMessage() and handleSyncMessage() in the I/O thread.           *)
(*                                                                         *)
(*   sender: idle -> sent -> listed -> waiting -> woken -> erased -> idle   *)
(*   I/O thread (io): idle -> find -> found -> notified -> idle             *)
(*                                                                         *)
(* A request is named by the order in which it was made, and so is its     *)
(* answer; 0 is the empty response and -1 the result of a refused send.    *)
(* The I/O thread reads m_messages and the message with no mutex: what     *)
(* that leads to besides the two outcomes below is status "undefined".     *)
(***************************************************************************)
EXTENDS Integers, FiniteSets

CONSTANTS Senders,    \* threads that call get, post, put, del
          Links,      \* the connections a request can be sent on
          MaxSends    \* bound: how many requests are ever made

VARIABLES at,           \* control of each sender
          asked,        \* the request each sender made last
          sends,        \* how many requests were ever made
          outstanding,  \* requests with the server: [uuid, body, link]
          messages,     \* m_messages: pairs of a uuid and the sender it leads to
          response,     \* message.response of each sender's stack frame
          result,       \* what the last call of each sender returned
          unasked,      \* the senders whose last wait no notification ended
          io,           \* control of the I/O thread in handleSyncMessage()
          answer,       \* the answer it handles, or NoAnswer
          torn,         \* m_messages changed while it was being searched
          status        \* "alive" or "undefined"

senderVars == <<at, asked, sends, response, result, unasked>>
vars == <<senderVars, outstanding, messages, io, answer, torn, status>>

NoAnswer == [uuid |-> 0, body |-> 0]

Init == /\ at = [s \in Senders |-> "idle"]
        /\ asked = [s \in Senders |-> 0] /\ response = asked /\ result = asked
        /\ sends = 0 /\ outstanding = {} /\ messages = {} /\ unasked = {}
        /\ io = "idle" /\ answer = NoAnswer
        /\ torn = FALSE /\ status = "alive"

Goto(s, from, to) == at[s] = from /\ at' = [at EXCEPT ![s] = to]

---------------------------------------------------------------------------
(* send(): ws_client.cpp:233-260 *)

\* Faulty variant: one id per client instead of one per request.
Uuid_PerClient(s) == 1

\* The id that joinRaw() puts into the request.
Uuid(s) == asked[s]

\* The request goes out before the message is registered.
Send(s, link) ==
    /\ sends < MaxSends /\ sends' = sends + 1
    /\ Goto(s, "idle", "sent")
    /\ asked' = [asked EXCEPT ![s] = sends']
    /\ outstanding' = outstanding \cup {[uuid |-> Uuid(s)', body |-> sends', link |-> link]}
    /\ UNCHANGED <<messages, response, result, unasked, io, answer, torn, status>>

\* m_client.send() reports that the connection is not open.
Refused(s) ==
    /\ at[s] = "idle"
    /\ result' = [result EXCEPT ![s] = -1]
    /\ UNCHANGED <<at, asked, sends, response, unasked, outstanding, messages, io,
                   answer, torn, status>>

Searched == torn' = (torn \/ io = "find")

Register(s) ==
    /\ Goto(s, "sent", "listed")
    /\ messages' = messages \cup {<<Uuid(s), s>>}
    /\ Searched
    /\ UNCHANGED <<asked, sends, response, result, unasked, outstanding, io, answer, status>>

\* wait_for with no predicate: a notification sent before this is lost.
Wait(s) ==
    /\ Goto(s, "listed", "waiting")
    /\ unasked' = unasked \ {s}
    /\ UNCHANGED <<asked, sends, response, result, outstanding, messages, io, answer, torn, status>>

\* The time is over, or the condition variable wakes its waiter for nothing.
WaitEnds(s) ==
    /\ Goto(s, "waiting", "woken")
    /\ unasked' = unasked \cup {s}
    /\ UNCHANGED <<asked, sends, response, result, outstanding, messages, io, answer, torn, status>>

Erase(s) ==
    /\ Goto(s, "woken", "erased")
    /\ messages' = messages \ {<<Uuid(s), s>>}
    /\ Searched
    /\ UNCHANGED <<asked, sends, response, result, unasked, outstanding, io, answer, status>>

Return(s) ==
    /\ Goto(s, "erased", "idle")
    /\ result' = [result EXCEPT ![s] = response[s]]
    /\ response' = [response EXCEPT ![s] = 0]
    /\ UNCHANGED <<asked, sends, unasked, outstanding, messages, io, answer, torn, status>>

Sending(s) == Register(s) \/ Wait(s) \/ Erase(s) \/ Return(s)

---------------------------------------------------------------------------
(* onMessage() and handleSyncMessage(): lines 170-184 *)

\* The server may answer in any order, or not at all.
Receive(r) ==
    /\ io = "idle"
    /\ outstanding' = outstanding \ {r}
    /\ io' = "find"
    /\ answer' = [uuid |-> r.uuid, body |-> r.body]
    /\ UNCHANGED <<senderVars, messages, torn, status>>

Listed == {s \in Senders : <<answer.uuid, s>> \in messages}

Idle == io' = "idle" /\ answer' = NoAnswer

\* A search that ran while the map changed finds it or not, or crashes.
Find ==
    /\ io = "find"
    /\ \/ (Listed # {} \/ torn) /\ io' = "found" /\ UNCHANGED <<answer, status>>
       \/ (Listed = {} \/ torn) /\ Idle /\ UNCHANGED status
       \/ torn /\ Idle /\ status' = "undefined"
    /\ torn' = FALSE
    /\ UNCHANGED <<senderVars, outstanding, messages>>

\* Faulty variant: the notification reaches another sender than the one found.
Woken_Anyone == {s \in Senders : at[s] = "waiting"}

Woken == {s \in Listed : at[s] = "waiting"}

\* iter->second->cv.notify_one(): the sender goes on before it has its answer.
Notify ==
    /\ io = "found" /\ Listed # {}
    /\ io' = "notified"
    /\ at' = [s \in Senders |-> IF s \in Woken THEN "woken" ELSE at[s]]
    /\ UNCHANGED <<asked, sends, response, result, unasked, outstanding, messages, answer,
                   torn, status>>

\* iter->second->response = msg.
Write ==
    /\ io = "notified" /\ Listed # {}
    /\ Idle
    /\ response' = [s \in Senders |-> IF s \in Listed THEN answer.body ELSE response[s]]
    /\ UNCHANGED <<at, asked, sends, result, unasked, outstanding, messages, torn, status>>

\* iter was erased, and the message is on a stack that its sender may have left.
Dangling ==
    /\ io \in {"found", "notified"} /\ Listed = {}
    /\ Idle /\ status' = "undefined"
    /\ UNCHANGED <<senderVars, outstanding, messages, torn>>

Handling == Find \/ Notify \/ Write \/ Dangling

---------------------------------------------------------------------------
(* Properties *)

(* Every variable has its type. *)
TypeOK ==
    /\ at \in [Senders -> {"idle", "sent", "listed", "waiting", "woken", "erased"}]
    /\ sends \in 0 .. MaxSends
    /\ asked \in [Senders -> 0 .. sends] /\ response \in [Senders -> 0 .. sends]
    /\ result \in [Senders -> -1 .. sends]
    /\ outstanding \in SUBSET [uuid : 1 .. sends, body : 1 .. sends, link : Links]
    /\ messages \in SUBSET ((1 .. sends) \X Senders)
    /\ unasked \in SUBSET Senders
    /\ io \in {"idle", "find", "found", "notified"}
    /\ answer \in [uuid : 0 .. sends, body : 0 .. sends]
    /\ torn \in BOOLEAN /\ status \in {"alive", "undefined"}

(* A call never returns the answer to another request, whatever the order   *)
(* and lateness of the answers and the state of the other senders: at worst *)
(* it returns an empty one (ws_client.cpp:172-184, 246-257).                *)
AnswerIsOwn ==
    status = "alive" => \A s \in Senders : result[s] \in {-1, 0, asked[s]} \/ at[s] # "idle"

(* A call that a notification ended has its answer, or the I/O thread is    *)
(* just between the notification and the assignment (lines 182-183), where  *)
(* the message it is about to write to is gone.                             *)
EmptyOnlyInTheGap ==
    status = "alive" => \A s \in Senders \ unasked :
        at[s] = "idle" /\ asked[s] # 0 /\ result[s] = 0 =>
            io = "notified" /\ answer.body = asked[s]
=============================================================================
