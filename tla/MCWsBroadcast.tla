--------------------------- MODULE MCWsBroadcast ---------------------------
(***************************************************************************)
(* A small instance of WsBroadcast: the URLs /a and /+, of which /+ comes  *)
(* first in a std::map and matches both topics, /a and /b.                 *)
(***************************************************************************)
EXTENDS WsBroadcast, TLC

CONSTANTS urlA, urlPlus, topicA, topicB

MatchesMC == {<<topicA, urlA>>, <<topicA, urlPlus>>, <<topicB, urlPlus>>}
RankMC == (urlPlus :> 0) @@ (urlA :> 1)
TopicOfMC == <<topicB, topicA>>

Symmetry == Permutations(Conns)
=============================================================================
