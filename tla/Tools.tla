------------------------------- MODULE Tools --------------------------------
(***************************************************************************)
(* The two small tools that run threads, side by side: WaitSync of         *)
(* threadsync as it stands, and Timer of timetool as T, with variables and *)
(* constants of its own.  The two share nothing; what is checked and       *)
(* proved about them is stated here.                                       *)
(***************************************************************************)
EXTENDS WaitSync

CONSTANTS Items, Options, MaxClock     \* of Timer

\* The arguments of startTimer(), whose times are int64_t (timer.h:33-40).
ASSUME TimerAssumption ==
    /\ MaxClock \in Nat /\ {"idle", "flag", "join", "gone"} \cap Items = {}
    /\ Options \subseteq [timeout : Int, max : Int, first : BOOLEAN, mode : {"wait", "nowait"},
                          thread : {"no", "detach", "join"}]

VARIABLES clock, option, tPc, startConst, startTime, now, firstIsFinish, calls, returned,
          m_items, isEnd, freed, owner, status

timerVars == <<clock, option, tPc, startConst, startTime, now, firstIsFinish, calls, returned,
               m_items, isEnd, freed, owner, status>>

T == INSTANCE Timer WITH pc <- tPc

---------------------------------------------------------------------------
(* Properties *)

(* Callbacks never come too fast (timer.cpp:50-73).                         *)
PacedCalls == T!PacedCalls

(* After the destructor no item calls back any more, but for detached ones  *)
(* (timer.cpp:13-23).                                                       *)
DestructorQuiets == T!DestructorQuiets
=============================================================================
