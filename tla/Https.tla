------------------------------- MODULE Https --------------------------------
(***************************************************************************)
(* Three parts of the servers and clients side by side: FileTransfer as it *)
(* stands, the router of libeve_https (UriFilter) as Uri and the router of *)
(* ws_server (UrlRouting) as Url, each with variables and constants of its *)
(* own.  They share nothing; what is checked and proved about them is      *)
(* stated here.                                                            *)
(***************************************************************************)
EXTENDS FileTransfer

CONSTANTS Names, Depth, UriHandlers, UriMaxCalls,     \* of UriFilter
          Spellings, Normal, Topics, Matches, Rank, UrlHandlers, Threads, UrlMaxCalls,
          MaxMessages                              \* of UrlRouting

VARIABLES uriTree, uriCalls,
          urlHandlers, urlUrls, urlChange, urlCalls, urlMessages, urlPc, urlTopic, urlUrl,
          urlTorn, urlLeft, urlAnswer, urlStatus

uriVars == <<uriTree, uriCalls>>
urlVars == <<urlHandlers, urlUrls, urlChange, urlCalls, urlMessages, urlPc, urlTopic, urlUrl,
             urlTorn, urlLeft, urlAnswer, urlStatus>>

Uri == INSTANCE UriFilter WITH
    Handlers <- UriHandlers, MaxCalls <- UriMaxCalls, tree <- uriTree, calls <- uriCalls

Url == INSTANCE UrlRouting WITH
    Handlers <- UrlHandlers, MaxCalls <- UrlMaxCalls,
    handlers <- urlHandlers, urls <- urlUrls, change <- urlChange, calls <- urlCalls,
    messages <- urlMessages, pc <- urlPc, topic <- urlTopic, url <- urlUrl,
    torn <- urlTorn, left <- urlLeft, answer <- urlAnswer, status <- urlStatus

\* The path that libevent takes out of a request ends before a "#" (http_server.cpp:213).
ASSUME UriAssumption == /\ Depth \in Nat /\ UriMaxCalls \in Nat /\ Uri!None \notin UriHandlers
                        /\ "#" \notin Names

\* Two URLs of a std::map never have the same place in its order.
ASSUME UrlAssumption == /\ Normal \in [Spellings -> Spellings]
                        /\ Matches \subseteq Topics \X Spellings
                        /\ Rank \in [Spellings -> Nat]
                        /\ \A u, v \in Spellings : Rank[u] = Rank[v] => u = v
                        /\ Url!None \notin Spellings \cup UrlHandlers
                        /\ UrlMaxCalls \in Nat /\ MaxMessages \in Nat

---------------------------------------------------------------------------
(* Properties *)

(* The tree of CUriFilter is the table of its subscriptions                 *)
(* (uri_filter.cpp:51-99).                                                  *)
ImplementsTable == Uri!ImplementsTable

(* The search of CUriFilter finds the first pattern that covers a path      *)
(* (uri_filter.cpp:101-138).                                                *)
SearchFindsFirst == Uri!SearchFindsFirst

(* The two maps of websocket::CServer agree, and a message on its way       *)
(* between them is served (communication.cpp:25-60).                        *)
MapsServe == Url!MapsAgree /\ Url!FoundIsServed
=============================================================================
