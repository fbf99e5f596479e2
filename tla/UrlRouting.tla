----------------------------- MODULE UrlRouting -----------------------------
(***************************************************************************)
(* Which handler of websocket::CServer gets a message (communication.cpp   *)
(* 25-60 and 211-256, url_parse.cpp): subscribe() and unSubscribe() change *)
(* two maps under m_handlerMutex, one after the other; the thread of each  *)
(* message reads both with no mutex at all, m_urls for the first URL that  *)
(* matches and m_handlers for its handler.  A change of a map within a     *)
(* thread's window on it is a data race: the thread then reads anything,   *)
(* or nothing can be said any more.                                        *)
(***************************************************************************)
EXTENDS Integers, FiniteSets

CONSTANTS Spellings,   \* topics as callers write them, normal forms included
          Normal,      \* Spellings -> normal forms: slash in front, none behind
          Topics,      \* topics of messages
          Matches,     \* <<topic, url>>: the regex of url matches topic
          Rank,        \* the order of the URLs in a std::map
          Handlers,
          Threads,     \* threads of messages
          MaxCalls,    \* bound: calls of subscribe() and unSubscribe()
          MaxMessages  \* bound: messages ever handled

VARIABLES handlers,    \* m_handlers
          urls,        \* m_urlParse.m_urls
          change,      \* what the caller inside m_handlerMutex has still to do
          calls, messages,
          pc,          \* each thread: "idle", "match", "find"
          topic, url,  \* the topic it handles and the URL it found
          torn,        \* threads with a change within the window they are in
          left,        \* history: threads for which a matching URL went, or raced
          answer,      \* the handler called for each thread's message, or None
          status       \* "alive" or "undefined"

callVars == <<handlers, urls, change, calls>>
threadVars == <<messages, pc, topic, url, answer>>
vars == <<callVars, threadVars, torn, left, status>>

None == "none"
NoChange == [op |-> "none"]

Init == /\ handlers = [u \in Spellings |-> None] /\ urls = {} /\ change = NoChange
        /\ calls = 0 /\ messages = 0
        /\ pc = [t \in Threads |-> "idle"]
        /\ topic = [t \in Threads |-> None] /\ url = [t \in Threads |-> None]
        /\ answer = [t \in Threads |-> None]
        /\ torn = {} /\ left = {} /\ status = "alive"

---------------------------------------------------------------------------
(* subscribe() and unSubscribe() *)

Inside(window) == {t \in Threads : pc[t] = window}

\* Faulty variant: the topic is brought to its normal form here, but not there.
Erased_Normal(u) == Normal[u]

\* unSubscribe() takes the topic as it was written.
Erased(u) == u

\* insert() keeps an earlier handler.
ChangeHandlers(c) ==
    /\ handlers' = IF c.op = "unSubscribe" THEN [handlers EXCEPT ![Erased(c.url)] = None]
                   ELSE IF handlers[c.url] = None THEN [handlers EXCEPT ![c.url] = c.handler]
                   ELSE handlers
    /\ torn' = torn \cup Inside("find")
    /\ UNCHANGED urls

\* registerUrl() throws for some URLs that are there already, changing nothing.
\* That a URL is spelled like the regular expression of another is left out.
ChangeUrls(c) ==
    /\ urls' = IF c.op = "unSubscribe" THEN urls \ {c.url} ELSE urls \cup {c.url}
    /\ torn' = torn \cup Inside("match")
    /\ UNCHANGED handlers

Change(c, map) == IF map = "handlers" THEN ChangeHandlers(c) ELSE ChangeUrls(c)

\* Faulty variant: the URL is changed before its handler.
Order_UrlFirst == <<"urls", "handlers">>

Order == <<"handlers", "urls">>

Begin(c) ==
    /\ change = NoChange /\ change' = c
    /\ calls < MaxCalls /\ calls' = calls + 1
    /\ Change(c, Order[1])
    /\ UNCHANGED <<threadVars, status>>

Subscribe(s, h) ==
    /\ Begin([op |-> "subscribe", url |-> Normal[s], handler |-> h])
    /\ UNCHANGED left

UnSubscribe(s) ==
    /\ Begin([op |-> "unSubscribe", url |-> s, handler |-> None])
    /\ left' = left \cup {t \in Threads : pc[t] # "idle" /\ <<topic[t], s>> \in Matches}

EndChange ==
    /\ change # NoChange /\ change' = NoChange
    /\ Change(change, Order[2])
    /\ UNCHANGED <<calls, threadVars, left, status>>

---------------------------------------------------------------------------
(* handleMessage() *)

Goto(t, from, to) == pc[t] = from /\ pc' = [pc EXCEPT ![t] = to]

Receive(t, p) ==
    /\ messages < MaxMessages /\ messages' = messages + 1
    /\ Goto(t, "idle", "match")
    /\ topic' = [topic EXCEPT ![t] = p]
    /\ left' = IF change.op = "unSubscribe" THEN left \cup {t} ELSE left \ {t}
    /\ UNCHANGED <<url, answer, callVars, torn, status>>

Matching(t) == {u \in urls : <<topic[t], u>> \in Matches}

First(us) == CHOOSE u \in us : \A v \in us : Rank[u] <= Rank[v]

\* findMatchUrl(), in the order of the map; a torn walk may end anywhere.
FindUrl(t) ==
    /\ \E u \in IF t \in torn THEN Spellings \cup {None}
              ELSE IF Matching(t) = {} THEN {None} ELSE {First(Matching(t))} :
        /\ Goto(t, "match", IF u = None THEN "idle" ELSE "find")
        /\ url' = [url EXCEPT ![t] = u]
        /\ answer' = [answer EXCEPT ![t] = None]
    /\ torn' = torn \ {t} /\ left' = IF t \in torn THEN left \cup {t} ELSE left
    /\ UNCHANGED <<messages, topic, callVars, status>>

\* findHandler(), then handle(); a null handler answers nothing.
FindHandler(t) ==
    /\ Goto(t, "find", "idle")
    /\ \E h \in IF t \in torn THEN Handlers \cup {None} ELSE {handlers[url[t]]} :
        answer' = [answer EXCEPT ![t] = h]
    /\ torn' = torn \ {t} /\ left' = IF t \in torn THEN left \cup {t} ELSE left
    /\ UNCHANGED <<messages, topic, url, callVars, status>>

ReadTorn(t) == /\ t \in torn /\ status' = "undefined"
               /\ UNCHANGED <<callVars, threadVars, torn, left>>

---------------------------------------------------------------------------
Next == /\ status = "alive"
        /\ \/ \E s \in Spellings : UnSubscribe(s) \/ \E h \in Handlers : Subscribe(s, h)
           \/ EndChange
           \/ \E t \in Threads : \/ \E p \in Topics : Receive(t, p)
                                 \/ FindUrl(t) \/ FindHandler(t) \/ ReadTorn(t)

Spec == Init /\ [][Next]_vars

---------------------------------------------------------------------------
(* Properties *)

(* Between two calls the maps have the same URLs, although subscribe()      *)
(* normalises a topic and unSubscribe() does not, although registerUrl()    *)
(* may throw after the handler is in, and although it finds a URL that is   *)
(* there only when it has no wildcard (url_parse.cpp:20-26).                *)
MapsAgree == change = NoChange => {u \in Spellings : handlers[u] # None} = urls

(* While a message is on its way between the two maps, the URL it found     *)
(* matches and has a handler, whatever is subscribed meanwhile: only an     *)
(* unsubscription or a race can leave it without (communication.cpp:39-40). *)
FoundIsServed ==
    \A t \in Threads : pc[t] = "find" /\ t \notin left =>
        <<topic[t], url[t]>> \in Matches /\ handlers[url[t]] # None
=============================================================================
