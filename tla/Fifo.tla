------------------------------- MODULE Fifo -------------------------------
(***************************************************************************)
(* What a channel promises its users, without locks, condition variables   *)
(* or threads: the k-th item put in is the k-th item taken out, nothing is *)
(* lost, duplicated or reordered, and at most Capacity items are in        *)
(* transit.  Items are named by the order in which they were put.          *)
(***************************************************************************)
EXTENDS Naturals, Sequences

CONSTANT Capacity

VARIABLES inTransit,   \* the items put and not yet taken, oldest first
          accepted     \* how many items were ever put

vars == <<inTransit, accepted>>

Init == inTransit = <<>> /\ accepted = 0

Put == /\ Len(inTransit) < Capacity
       /\ accepted' = accepted + 1
       /\ inTransit' = Append(inTransit, accepted + 1)

Take == /\ inTransit # <<>>
        /\ inTransit' = Tail(inTransit)
        /\ UNCHANGED accepted

Next == Put \/ Take

Spec == Init /\ [][Next]_vars
===========================================================================
