----------------------------- MODULE MCWsClient -----------------------------
(* Instances of WsClient for TLC; the cfg files give the constants. *)
EXTENDS WsClient, TLC
=============================================================================
