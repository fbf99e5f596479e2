----------------------------- MODULE RouteTable -----------------------------
(***************************************************************************)
(* What CUriFilter (libeve_https) promises, without its tree: a table of   *)
(* patterns and handlers.  A later subscription of a pattern replaces the  *)
(* earlier one.  Taking a pattern away may take the shorter patterns it    *)
(* continues away as well, but only where no other pattern continues them: *)
(* a router that kept them would implement this table too.                 *)
(***************************************************************************)
EXTENDS Integers, Sequences, SequencesExt

CONSTANTS Patterns, Handlers

VARIABLE routes     \* the handler of each pattern of the table

Init == routes = [p \in {} |-> p]

Subscribe(p, h) ==
    routes' = [q \in DOMAIN routes \cup {p} |-> IF q = p THEN h ELSE routes[q]]

\* The patterns p continues that no pattern of kept continues.
Left(p, kept) == {a \in Patterns : IsStrictPrefix(a, p) /\ ~\E q \in kept : IsStrictPrefix(a, q)}

Unsubscribe(p) ==
    \E kept \in SUBSET (DOMAIN routes \ {p}) :
        /\ \A q \in DOMAIN routes \ (kept \cup {p}) : q \in Left(p, kept)
        /\ routes' = [q \in kept |-> routes[q]]

Next == \E p \in Patterns : Unsubscribe(p) \/ \E h \in Handlers : Subscribe(p, h)

Spec == Init /\ [][Next]_routes
=============================================================================
