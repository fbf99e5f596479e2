-------------------------- MODULE MCSessionHandler --------------------------
(* Instances of SessionHandler for TLC. *)
EXTENDS SessionHandler
=============================================================================
