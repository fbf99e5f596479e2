------------------------------ MODULE MCTools -------------------------------
(***************************************************************************)
(* The two tools for TLC; the cfg file gives the constants.  Which of them *)
(* a behaviour is about is chosen at its start, and the other stays where  *)
(* it is.                                                                  *)
(***************************************************************************)
EXTENDS Tools, TLC

VARIABLE turn

\* The timeouts straddle one step of the clock; max is off, or two steps.
MCOptions == [timeout : {1, 2}, max : {-1, 2}, first : BOOLEAN, mode : {"wait", "nowait"},
              thread : {"no", "detach", "join"}]

MCInit == /\ Init /\ T!Init /\ turn \in {"wait", "timer"}
          /\ turn = "wait" => option = [i \in Items |-> CHOOSE o \in Options : TRUE]

MCNext == /\ UNCHANGED turn
          /\ \/ turn = "wait" /\ Next /\ UNCHANGED timerVars
             \/ turn = "timer" /\ T!Next /\ UNCHANGED vars

MCSpec == /\ MCInit /\ [][MCNext]_<<turn, vars, timerVars>>
          /\ (turn = "timer" => T!Fairness)
=============================================================================
