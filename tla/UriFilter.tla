----------------------------- MODULE UriFilter ------------------------------
(***************************************************************************)
(* msf::CUriFilter, the router of CHttpServer (libeve_https): a tree with  *)
(* one level for each section of a path, each node with a handler or null. *)
(* The tree is the function from the paths of its nodes to their handlers. *)
(* "+" stands for any section and "#" for any rest that is not empty.      *)
(* The threads of the connections look up while the tree stands still, as  *)
(* in the tests: nothing locks m_filter.                                   *)
(***************************************************************************)
EXTENDS Integers, Sequences, FiniteSets, SequencesExt

CONSTANTS Names,       \* sections of the paths of requests, which may be "+"
          Depth,       \* bound: how many sections a path has at most
          Handlers,    \* the IHttpHandlers
          MaxCalls     \* bound: calls of subscribe() and unsubscribe()

VARIABLES tree,        \* the handler of each node, or None
          calls        \* how many calls were made

vars == <<tree, calls>>

None == "null"
Paths(sections) == UNION {[1 .. n -> sections] : n \in 1 .. Depth}
Patterns == Paths(Names \cup {"+", "#"})
Uris == Paths(Names)

Init == tree = [p \in {} |-> None] /\ calls = 0

Call == calls < MaxCalls /\ calls' = calls + 1

Handler(p) == IF p \in DOMAIN tree THEN tree[p] ELSE None

\* New nodes on the way have no handler, old ones keep theirs.
Subscribe(p, h) ==
    /\ Call
    /\ tree' = [q \in DOMAIN tree \cup {a \in Patterns : IsPrefix(a, p)} |->
                  IF q = p THEN h ELSE Handler(q)]

\* Faulty variant: a node goes with all that is below it.
Pruned_Below(p) == {q \in DOMAIN tree : IsPrefix(p, q)}

\* On the way back every node that has no other child is deleted, whether it
\* has a handler and whether p itself was there or not.
Pruned(p) ==
    {a \in DOMAIN tree : IsPrefix(a, p) /\ \A q \in DOMAIN tree : IsPrefix(a, q) => IsPrefix(q, p)}

Unsubscribe(p) ==
    /\ Call
    /\ tree' = [q \in DOMAIN tree \ Pruned(p) |-> IF q = p THEN None ELSE tree[q]]

Next == \E p \in Patterns : Unsubscribe(p) \/ \E h \in Handlers : Subscribe(p, h)

Spec == Init /\ [][Next]_vars

---------------------------------------------------------------------------
(* The search: handler() calls itself, section by section *)

\* Faulty variant: a "+" comes before the section itself.
Trials_PlusFirst(s) == <<"+", s>>

Trials(s) == <<s, "+">>

FirstOf(one, other, last) == IF one # None THEN one ELSE IF other # None THEN other ELSE last

\* One call, for the node it is at; `find` gives the results of the calls below.
Answer(find, uri, node) ==
    LET Below(s) == LET child == Append(node, s) IN
            IF child \notin DOMAIN tree THEN None
            ELSE IF Len(child) = Len(uri) THEN tree[child] ELSE find[child]
        trials == Trials(uri[Len(node) + 1])
    IN  FirstOf(Below(trials[1]), Below(trials[2]), Handler(Append(node, "#")))

Nodes == Patterns \cup {<<>>}

Search(uri) ==
    LET find[node \in Nodes] == IF Len(node) < Len(uri) THEN Answer(find, uri, node) ELSE None
    IN  find

---------------------------------------------------------------------------
(* Properties *)

Subscribed == {p \in DOMAIN tree : tree[p] # None}

(* The tree is the table of its subscriptions: no call changes the handler  *)
(* of another pattern, and unsubscribe() takes a shorter pattern away only  *)
(* when nothing else continues it (uri_filter.cpp:84-97).                   *)
Table == INSTANCE RouteTable WITH routes <- [p \in Subscribed |-> tree[p]]
ImplementsTable == Table!Spec

\* What a pattern means, without the tree.
Covers(p, uri) ==
    LET n == Len(p) IN
    /\ n <= Len(uri)
    /\ \A i \in 1 .. n - 1 : p[i] \in {uri[i], "+"}
    /\ p[n] = "#" \/ (n = Len(uri) /\ p[n] \in {uri[n], "+"})

\* The section itself before "+" before "#", where two patterns first differ.
Place(s) == IF s = "+" THEN 2 ELSE IF s = "#" THEN 3 ELSE 1
Before(p, q) == \E i \in DOMAIN p \cap DOMAIN q :
    /\ SubSeq(p, 1, i - 1) = SubSeq(q, 1, i - 1)
    /\ Place(p[i]) < Place(q[i])

(* The search with its backtracking finds the handler of the first of all   *)
(* subscribed patterns that cover the path, and null only when there is     *)
(* none (uri_filter.cpp:101-138).                                           *)
SearchFindsFirst ==
    \A uri \in Uris :
        LET covering == {p \in Subscribed : Covers(p, uri)} IN
        IF covering = {} THEN Search(uri)[<<>>] = None
        ELSE \E p \in covering : /\ \A q \in covering \ {p} : Before(p, q)
                                 /\ Search(uri)[<<>>] = tree[p]
=============================================================================
