---------------------------- MODULE ResourcePool ----------------------------
(***************************************************************************)
(* What a pool of connections promises: every connection is used by at     *)
(* most one user at a time, comes back to the pool before another user     *)
(* gets it, and at most Capacity of them are ever made.  A pool may forget *)
(* connections that nobody uses.  ConnPool and CurlConnMgr implement it.   *)
(***************************************************************************)
EXTENDS Integers, FiniteSets

CONSTANTS Users, Capacity

VARIABLES idle,      \* the connections nobody uses
          inUse,     \* the connections of each user
          made       \* how many there ever were; they are numbered

vars == <<idle, inUse, made>>

Init == idle = {} /\ inUse = [u \in Users |-> {}] /\ made = 0

Make(u) == /\ made < Capacity
           /\ made' = made + 1
           /\ inUse' = [inUse EXCEPT ![u] = @ \cup {made + 1}]
           /\ idle' \subseteq idle

Take(u) == \E r \in idle : /\ inUse' = [inUse EXCEPT ![u] = @ \cup {r}]
                           /\ idle' = idle \ {r}
                           /\ made' = made

Give(u) == \E r \in inUse[u] : /\ inUse' = [inUse EXCEPT ![u] = @ \ {r}]
                               /\ idle' = idle \cup {r}
                               /\ made' = made

Forget == idle' \subseteq idle /\ UNCHANGED <<inUse, made>>

Next == Forget \/ \E u \in Users : Make(u) \/ Take(u) \/ Give(u)

Spec == Init /\ [][Next]_vars
===========================================================================
