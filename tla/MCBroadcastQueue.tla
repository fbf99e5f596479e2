-------------------------- MODULE MCBroadcastQueue --------------------------
(***************************************************************************)
(* The queue of WsBroadcast by itself for TLC: subscriptions and           *)
(* connections stay as they are, and whether a message has subscribers is  *)
(* left open.  The cfg file gives the constants, the following ones those  *)
(* that then do not matter.                                                *)
(***************************************************************************)
EXTENDS WsBroadcast

NoMatches == {}
NoRank == <<>>
OneTopic == [n \in 1..MaxPushed |-> CHOOSE t \in Topics : TRUE]

MCNext == Q!Next /\ UNCHANGED <<subsVars, now, owed, got>>

MCSpec == Init /\ [][MCNext]_vars /\ Q!Fairness

---------------------------------------------------------------------------
(* Properties *)

(* Every message pushed is taken, unless the process fails or closes        *)
(* (communication.cpp:90-96, 119-133).                                      *)
EveryMessageTaken == Q!EveryMessageTaken
=============================================================================
