------------------------------ MODULE MCPools -------------------------------
(***************************************************************************)
(* The two pools for TLC; the cfg file gives the constants: two callers of *)
(* curl_client, either of which may be redirected, and one connection      *)
(* more.  Which of the pools a behaviour is about is chosen at its start,  *)
(* and the other stays where it is.                                        *)
(***************************************************************************)
EXTENDS Pools, TLC

VARIABLE turn

MCInit == Init /\ Curl!Init /\ turn \in {"db", "curl"}

MCNext == /\ UNCHANGED turn
          /\ \/ turn = "db" /\ Next /\ UNCHANGED curlVars
             \/ turn = "curl" /\ Curl!Next /\ UNCHANGED vars

MCSpec == /\ MCInit /\ [][MCNext]_<<turn, vars, curlVars>>
          /\ (turn = "curl" => Curl!Fairness)
=============================================================================
