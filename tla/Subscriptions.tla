--------------------------- MODULE Subscriptions ---------------------------
(***************************************************************************)
(* Who receives the broadcasts of websocket::CServer: the subscriptions    *)
(* m_bcSubs and the URL registry m_bcSubUrlParse of CMsgCommunication      *)
(* (communication.cpp:141-209, url_parse.cpp), changed by the detached     *)
(* threads of onMessage() and by onClose() (ws_server.cpp:91-107), and     *)
(* read by the broadcast thread without m_bcSubsMutex.                     *)
(*                                                                         *)
(* Each change of the two maps is one step: both belong to one critical    *)
(* section, and a reader in between sees what it would see before or after *)
(* (the subscription is the first to appear and a URL without one has no   *)
(* subscribers).  The reader has a window for each map; a change within    *)
(* its window is a data race, after which its result is anything, or       *)
(* nothing can be said any more.                                           *)
(***************************************************************************)
EXTENDS Integers, FiniteSets

CONSTANTS Conns,       \* connections (websocketpp::connection_hdl)
          Urls,        \* topics that are subscribed to, + and # included
          Topics,      \* topics of messages
          Matches,     \* <<topic, url>>: the regex of url matches topic
          Rank,        \* the order of Urls in a std::map
          MaxRequests  \* bound: requests ever received

VARIABLES conn,      \* "open"; "lost": websocketpp gave it up, onClose() is to
                     \* come; "closed": onClose() is over
          subs,      \* m_bcSubs, {} for a URL that has no entry
          urls,      \* m_bcSubUrlParse.m_urls
          fresh,     \* requests whose thread has not got its connection yet
          held,      \* requests whose handler runs and holds the connection
          received,  \* how many requests were ever received
          stage,     \* broadcast thread: "idle", "match", "copy", "send"
          topic,     \* the topic it broadcasts, or "none"
          found,     \* the URL findMatchUrl() returned, or "none"
          left,      \* the connections it still has to send to
          torn,      \* one of the maps changed within the reader's window
          status,    \* "alive", "undefined" or "terminated"
          raced,     \* history: a data race happened
          several,   \* history: connections closed with several subscriptions
          late       \* history: connections that subscribed after onClose()

connVars == <<conn, several>>
mapVars == <<subs, urls>>
requestVars == <<fresh, held, received, late>>
readerVars == <<stage, topic, found, left>>
vars == <<connVars, mapVars, requestVars, readerVars, torn, status, raced>>

Requests == [conn : Conns, op : {"subscribe", "unsubscribe"}, url : Urls]

SubsOf(c) == {u \in Urls : c \in subs[u]}

Init == /\ conn = [c \in Conns |-> "open"]
        /\ subs = [u \in Urls |-> {}]
        /\ urls = {}
        /\ fresh = {} /\ held = {}
        /\ received = 0
        /\ stage = "idle"
        /\ topic = "none"
        /\ found = "none"
        /\ left = {}
        /\ torn = FALSE
        /\ status = "alive"
        /\ raced = FALSE
        /\ several = {}
        /\ late = {}

\* The reader's windows: m_urls while it matches, m_bcSubs and the set of the
\* URL found while it copies.  "entries" tells whether entries come or go.
Touch(u, entries) ==
    LET hit == \/ stage = "match" /\ entries
               \/ stage = "copy" /\ (entries \/ u = found)
    IN  torn' = (torn \/ hit) /\ raced' = (raced \/ hit)

---------------------------------------------------------------------------
(* Requests: onMessage() starts a detached thread for each *)

Receive(r) ==
    /\ status = "alive"
    /\ conn[r.conn] = "open"
    /\ received < MaxRequests
    /\ r \notin fresh \cup held
    /\ fresh' = fresh \cup {r}
    /\ received' = received + 1
    /\ UNCHANGED <<connVars, mapVars, held, late, readerVars, torn, status, raced>>

\* A closed connection lives on only in the handlers that hold it.
Expired(c) == conn[c] = "closed" /\ \A r \in held : r.conn # c

\* get_con_from_hdl() of handleMessage()
GetConnection(r) ==
    /\ status = "alive"
    /\ r \in fresh
    /\ ~Expired(r.conn)
    /\ fresh' = fresh \ {r}
    /\ held' = held \cup {r}
    /\ UNCHANGED <<connVars, mapVars, received, late, readerVars, torn, status, raced>>

\* It throws, and nothing catches in the detached thread.
GetExpired(r) ==
    /\ status = "alive"
    /\ r \in fresh
    /\ Expired(r.conn)
    /\ fresh' = fresh \ {r}
    /\ status' = "terminated"
    /\ UNCHANGED <<connVars, mapVars, held, received, late, readerVars, torn, raced>>

SubscribeBroadcast(r) ==
    /\ status = "alive"
    /\ r \in held /\ r.op = "subscribe"
    /\ subs' = [subs EXCEPT ![r.url] = @ \cup {r.conn}]
    /\ urls' = urls \cup {r.url}
    /\ Touch(r.url, subs[r.url] = {})
    /\ late' = IF conn[r.conn] = "closed" THEN late \cup {r.conn} ELSE late
    /\ held' = held \ {r}
    /\ UNCHANGED <<connVars, fresh, received, readerVars, status>>

\* Faulty variant: the URL of an entry goes with the first connection that
\* leaves it.
UrlsWithout_AnyLeaves(u, rest) == urls \ {u}

\* The URL of an entry whose last connection was removed is unregistered.
UrlsWithout(u, rest) == IF rest = {} THEN urls \ {u} ELSE urls

Remove(c, u) ==
    /\ subs' = [subs EXCEPT ![u] = @ \ {c}]
    /\ urls' = UrlsWithout(u, subs[u] \ {c})
    /\ Touch(u, subs[u] \ {c} = {})

\* removeBroadcastSubscribe(topic, hdl)
UnSubscribeBroadcast(r) ==
    /\ status = "alive"
    /\ r \in held /\ r.op = "unsubscribe"
    /\ IF r.conn \in subs[r.url] THEN Remove(r.conn, r.url)
                                 ELSE UNCHANGED <<mapVars, torn, raced>>
    /\ held' = held \ {r}
    /\ UNCHANGED <<connVars, fresh, received, late, readerVars, status>>

---------------------------------------------------------------------------
(* Connections *)

\* The transport fails or the peer closes: websocketpp refuses to send.
Lose(c) ==
    /\ status = "alive"
    /\ conn[c] = "open"
    /\ conn' = [conn EXCEPT ![c] = "lost"]
    /\ UNCHANGED <<several, mapVars, requestVars, readerVars, torn, status, raced>>

\* Faulty variant: the search stops at the first URL, subscribed or not.
Dropped_FirstUrl(c) ==
    {u \in urls : c \in subs[u] /\ \A v \in urls : Rank[u] <= Rank[v]}

\* removeBroadcastSubscribe(hdl) leaves its loop after the first hit.
Dropped(c) == {u \in SubsOf(c) : \A v \in SubsOf(c) : Rank[u] <= Rank[v]}

OnClose(c) ==
    /\ status = "alive"
    /\ conn[c] = "lost"
    /\ conn' = [conn EXCEPT ![c] = "closed"]
    /\ IF Dropped(c) = {} THEN UNCHANGED <<mapVars, torn, raced>>
                          ELSE \E u \in Dropped(c) : Remove(c, u)
    /\ several' = IF \E u, v \in SubsOf(c) : u # v THEN several \cup {c} ELSE several
    /\ UNCHANGED <<requestVars, readerVars, status>>

---------------------------------------------------------------------------
(* The broadcast thread: findSubscribers() and broadcast() *)

Hits(t) == {u \in urls : <<t, u>> \in Matches}

Match(t) ==
    /\ status = "alive"
    /\ stage = "idle"
    /\ stage' = "match"
    /\ topic' = t
    /\ UNCHANGED <<connVars, mapVars, requestVars, found, left, torn, status, raced>>

\* findMatchUrl() returns the first URL that matches, in map order.
MatchFound(u) ==
    /\ status = "alive"
    /\ stage = "match"
    /\ torn \/ (u \in Hits(topic) /\ \A v \in Hits(topic) : Rank[u] <= Rank[v])
    /\ stage' = "copy"
    /\ found' = u
    /\ torn' = FALSE
    /\ UNCHANGED <<connVars, mapVars, requestVars, topic, left, status, raced>>

\* No URL matches, or its entry is gone by now.
NobodyFound ==
    /\ status = "alive"
    /\ \/ stage = "match" /\ (torn \/ Hits(topic) = {})
       \/ stage = "copy" /\ (torn \/ subs[found] = {})
    /\ stage' = "idle" /\ topic' = "none" /\ found' = "none"
    /\ torn' = FALSE
    /\ UNCHANGED <<connVars, mapVars, requestVars, left, status, raced>>

\* The copy of the subscribers of the URL found.
CopySubscribers(s) ==
    /\ status = "alive"
    /\ stage = "copy"
    /\ s # {} /\ (torn \/ s = subs[found])
    /\ stage' = "send"
    /\ left' = s
    /\ torn' = FALSE
    /\ UNCHANGED <<connVars, mapVars, requestVars, topic, found, status, raced>>

\* A map read while another thread changes it: the behaviour is undefined.
ReadTorn ==
    /\ status = "alive"
    /\ torn
    /\ status' = "undefined"
    /\ UNCHANGED <<connVars, mapVars, requestVars, readerVars, torn, raced>>

SendTo(c) ==
    /\ status = "alive"
    /\ stage = "send" /\ c \in left
    /\ conn[c] = "open"
    /\ left' = left \ {c}
    /\ UNCHANGED <<connVars, mapVars, requestVars, stage, topic, found, torn, status, raced>>

\* send() throws for a connection that is not open, and nothing catches.
SendThrows(c) ==
    /\ status = "alive"
    /\ stage = "send" /\ c \in left
    /\ conn[c] # "open"
    /\ status' = "terminated"
    /\ UNCHANGED <<connVars, mapVars, requestVars, readerVars, torn, raced>>

SendDone ==
    /\ status = "alive"
    /\ stage = "send" /\ left = {}
    /\ stage' = "idle" /\ topic' = "none" /\ found' = "none"
    /\ UNCHANGED <<connVars, mapVars, requestVars, left, torn, status, raced>>

---------------------------------------------------------------------------

RequestStep == \E r \in Requests :
    \/ Receive(r) \/ GetConnection(r) \/ GetExpired(r)
    \/ SubscribeBroadcast(r) \/ UnSubscribeBroadcast(r)

ConnStep == \E c \in Conns : Lose(c) \/ OnClose(c)

Next == \/ RequestStep
        \/ ConnStep
        \/ \E t \in Topics : Match(t)
        \/ \E u \in Urls : MatchFound(u)
        \/ NobodyFound
        \/ \E s \in SUBSET Conns : CopySubscribers(s)
        \/ ReadTorn
        \/ \E c \in Conns : SendTo(c) \/ SendThrows(c)
        \/ SendDone

Spec == Init /\ [][Next]_vars

---------------------------------------------------------------------------
(* Properties *)

(* Every variable has its type. *)
TypeOK ==
    /\ conn \in [Conns -> {"open", "lost", "closed"}]
    /\ subs \in [Urls -> SUBSET Conns]
    /\ urls \in SUBSET Urls
    /\ fresh \in SUBSET Requests /\ held \in SUBSET Requests
    /\ received \in Nat
    /\ stage \in {"idle", "match", "copy", "send"}
    /\ topic \in Topics \cup {"none"}
    /\ found \in Urls \cup {"none"}
    /\ left \in SUBSET Conns
    /\ torn \in BOOLEAN
    /\ status \in {"alive", "undefined", "terminated"}
    /\ raced \in BOOLEAN
    /\ several \in SUBSET Conns /\ late \in SUBSET Conns

(* A URL is registered exactly while it has a subscriber, although two      *)
(* functions remove subscriptions, each in its own order (lines 152, 173,   *)
(* 187): a URL left behind would shadow the ones after it.                  *)
RegistryAgrees == urls = {u \in Urls : subs[u] # {}}

(* onClose() leaves no subscription of the connection behind (line 179),    *)
(* so that no broadcast is sent to it and throws, unless it had subscribed  *)
(* to several topics (the break of line 190) or a request of it subscribes  *)
(* it afterwards (the detached thread of ws_server.cpp:104).                *)
ClosedUnsubscribed ==
    \A c \in Conns \ (several \cup late) : conn[c] = "closed" => SubsOf(c) = {}
=============================================================================
