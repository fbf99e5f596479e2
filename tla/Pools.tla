------------------------------- MODULE Pools --------------------------------
(***************************************************************************)
(* The two connection pools side by side: ConnPool of dbconnpool as it     *)
(* stands, and CurlConnMgr of curl_client as Curl, with variables and      *)
(* constants of its own.  The two share nothing; what is checked and       *)
(* proved about them is stated here.                                       *)
(***************************************************************************)
EXTENDS ConnPool

CONSTANTS CurlCallers, MaxConn, Redirects, MaxSends     \* of CurlConnMgr

ASSUME CurlAssumption == /\ IsFiniteSet(CurlCallers)
                         /\ MaxConn \in Nat /\ MaxSends \in Nat
                         /\ Redirects \in BOOLEAN

VARIABLES cQueue, cCount, cMade, cPc, cHeld, cSeen, cSends

curlVars == <<cQueue, cCount, cMade, cPc, cHeld, cSeen, cSends>>

Curl == INSTANCE CurlConnMgr WITH
    Callers <- CurlCallers, queue <- cQueue, count <- cCount, made <- cMade, pc <- cPc,
    held <- cHeld, seen <- cSeen, sends <- cSends

---------------------------------------------------------------------------
(* Properties *)

(* Connections are only made for want of an idle one                        *)
(* (curl_conn_mgr.cpp:46-73).                                               *)
MadeWithinDemand == Curl!MadeWithinDemand

(* No connection is used by two sends at once (curl_connect.cpp:222-271).   *)
CurlImplementsPool == Curl!ImplementsPool

(* Every request ends when there are enough connections                     *)
(* (curl_connect.cpp:222-271).                                              *)
EverySendEnds == Curl!EverySendEnds
=============================================================================
