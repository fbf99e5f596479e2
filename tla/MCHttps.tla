------------------------------ MODULE MCHttps -------------------------------
(***************************************************************************)
(* The three parts of Https for TLC; the cfg file gives the constants.     *)
(* Which of them a behaviour is about is chosen at its start, a download   *)
(* or an upload for FileTransfer, which share no variable that an upload   *)
(* changes; the others stay where they are.                                *)
(***************************************************************************)
EXTENDS Https, TLC

VARIABLE turn

\* A topic, the same without its slash, and a URL with a wildcard.
MCNormal == [s \in Spellings |-> IF s = "a" THEN "/a" ELSE s]
MCRank == [s \in Spellings |-> CASE s = "/+" -> 1 [] s = "/a" -> 2 [] OTHER -> 3]
MCMatches == {<<"/a", "/a">>, <<"/a", "/+">>, <<"/b", "/+">>}

MCInit == Init /\ Uri!Init /\ Url!Init /\ turn \in {"download", "upload", "uri", "url"}

MCNext == /\ UNCHANGED turn
          /\ \/ turn = "download" /\ Next /\ UNCHANGED <<up, uriVars, urlVars>>
             \/ turn = "upload" /\ Next /\ UNCHANGED <<down, uriVars, urlVars>>
             \/ turn = "uri" /\ Uri!Next /\ UNCHANGED <<vars, urlVars>>
             \/ turn = "url" /\ Url!Next /\ UNCHANGED <<vars, uriVars>>

MCSpec == /\ MCInit /\ [][MCNext]_<<turn, vars, uriVars, urlVars>>
          /\ (turn = "download" => Fairness)
=============================================================================
