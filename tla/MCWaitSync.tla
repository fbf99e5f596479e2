----------------------------- MODULE MCWaitSync -----------------------------
(* Instances of WaitSync for TLC; the cfg files give the constants. *)
EXTENDS WaitSync, TLC
===========================================================================
