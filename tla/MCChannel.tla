----------------------------- MODULE MCChannel -----------------------------
(***************************************************************************)
(* Two small instances of Channel for TLC, one beside the other: which of  *)
(* them a behaviour is about is chosen at its start, and the other stays   *)
(* where it is.  The one of the cfg file has several threads on each side; *)
(* Pair is what every use in the repository makes of a channel.            *)
(***************************************************************************)
EXTENDS Channel, TLC

VARIABLES turn, pairQueue, pairPc, pairTimed, pairPushed, pairUndefined

pairVars == <<pairQueue, pairPc, pairTimed, pairPushed, pairUndefined>>

Pair == INSTANCE Channel WITH
    Writers <- {"writer"}, Readers <- {"reader"}, Size <- 2, MaxItems <- 6,
    queue <- pairQueue, pc <- pairPc, timed <- pairTimed, pushed <- pairPushed,
    undefined <- pairUndefined

MCInit == Init /\ Pair!Init /\ turn \in {"many", "pair"}

MCNext == /\ UNCHANGED turn
          /\ \/ turn = "many" /\ Next /\ UNCHANGED pairVars
             \/ turn = "pair" /\ Pair!Next /\ UNCHANGED vars

MCSpec == MCInit /\ [][MCNext]_<<turn, vars, pairVars>> /\ (turn = "pair" => Pair!Fairness)

---------------------------------------------------------------------------
(* Properties *)

(* Every item written is eventually read, as the producer and the consumer  *)
(* of commuchannel_test and workqueue_test take for granted.                *)
EveryItemReadByPair == Pair!EveryItemRead
=============================================================================
