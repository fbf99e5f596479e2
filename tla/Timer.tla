------------------------------- MODULE Timer --------------------------------
(***************************************************************************)
(* timetool::CTimer (src/timetool/source/timer.cpp): each startTimer()     *)
(* starts a thread that reads the clock again and again and calls back     *)
(* when the time is over; the destructor stops and joins the threads, but  *)
(* for those that were detached, whose CItem it deletes under them.        *)
(*                                                                         *)
(*   item:   none -> begin -> loop -> now -> fire -> calling -> loop        *)
(*           loop -> first -> now; loop, first, now, calling -> ended       *)
(*   owner:  idle -> the item it waits for in startTimer() -> idle          *)
(*           idle -> flag -> join -> flag ... -> gone                       *)
(***************************************************************************)
EXTENDS Integers, Sequences, FiniteSets, SequencesExt

CONSTANTS Items,     \* CItems, that is calls of startTimer()
          Options,   \* the arguments they may get: timeout, max, first, mode, thread
          MaxClock   \* bound: the last moment of the clock

VARIABLES clock,
          option,      \* the arguments of each item
          pc,          \* control of each item's thread
          startConst, startTime, now,   \* the thread's locals
          firstIsFinish,
          calls,       \* how often each item called back
          returned,    \* history: when the last callback returned
          m_items,     \* the items of the timer, in order
          isEnd,       \* items whose m_isEnd is set
          freed,       \* items that were deleted
          owner,       \* control of the timer's owner
          status       \* "alive" or "undefined"

clockVars == <<startConst, startTime, now>>
itemVars == <<option, clockVars, firstIsFinish, calls, returned>>
vars == <<clock, pc, itemVars, m_items, isEnd, freed, owner, status>>

Init == /\ clock = 0 /\ owner = "idle" /\ status = "alive"
        /\ option \in [Items -> Options]
        /\ pc = [i \in Items |-> "none"]
        /\ startConst = [i \in Items |-> 0] /\ startTime = startConst
        /\ now = startConst /\ calls = startConst /\ returned = startConst
        /\ firstIsFinish = [i \in Items |-> FALSE]
        /\ m_items = <<>> /\ isEnd = {} /\ freed = {}

Tick == /\ clock < MaxClock /\ clock' = clock + 1
        /\ UNCHANGED <<pc, itemVars, m_items, isEnd, freed, owner, status>>

---------------------------------------------------------------------------
(* The owner: startTimer() and the destructors *)

Start(i) ==
    /\ owner = "idle" /\ pc[i] = "none"
    /\ pc' = [pc EXCEPT ![i] = "begin"]
    /\ IF option[i].thread = "join" THEN owner' = i /\ UNCHANGED m_items
                                    ELSE m_items' = Append(m_items, i) /\ UNCHANGED owner
    /\ UNCHANGED <<clock, itemVars, isEnd, freed, status>>

\* Line 80: join(), then the item is kept like the others.
Started(i) ==
    /\ owner = i /\ pc[i] = "ended"
    /\ owner' = "idle" /\ m_items' = Append(m_items, i)
    /\ UNCHANGED <<clock, pc, itemVars, isEnd, freed, status>>

Destroy ==
    /\ owner = "idle" /\ owner' = "flag"
    /\ UNCHANGED <<clock, pc, itemVars, m_items, isEnd, freed, status>>

\* From the last item to the first.
SetEnd ==
    /\ owner = "flag" /\ m_items # <<>>
    /\ isEnd' = isEnd \cup {Last(m_items)} /\ owner' = "join"
    /\ UNCHANGED <<clock, pc, itemVars, m_items, freed, status>>

\* Faulty variant: an item is deleted without waiting for its thread.
Joinable_Never(i) == FALSE

Joinable(i) == option[i].thread = "no"

Delete ==
    /\ owner = "join" /\ owner' = "flag"
    /\ Joinable(Last(m_items)) => pc[Last(m_items)] = "ended"
    /\ freed' = freed \cup {Last(m_items)} /\ m_items' = Front(m_items)
    /\ UNCHANGED <<clock, pc, itemVars, isEnd, status>>

Gone ==
    /\ owner = "flag" /\ m_items = <<>> /\ owner' = "gone"
    /\ UNCHANGED <<clock, pc, itemVars, m_items, isEnd, freed, status>>

Owner == Destroy \/ SetEnd \/ Delete \/ Gone \/ \E i \in Items : Start(i) \/ Started(i)

---------------------------------------------------------------------------
(* The thread of an item: lines 50-73 *)

Goto(i, from, to) == pc[i] = from /\ pc' = [pc EXCEPT ![i] = to]

Begin(i) ==
    /\ Goto(i, "begin", "loop")
    /\ startConst' = [startConst EXCEPT ![i] = clock] /\ startTime' = [startTime EXCEPT ![i] = clock]
    /\ UNCHANGED <<clock, option, now, firstIsFinish, calls, returned, m_items, isEnd, freed, owner,
                   status>>

Ended(i) == i \in isEnd

CallsFirst(i) == option[i].first /\ ~firstIsFinish[i]

\* Line 54, and the call of line 56.
Loop(i) ==
    /\ i \notin freed
    /\ Goto(i, "loop", IF Ended(i) THEN "ended" ELSE IF CallsFirst(i) THEN "first" ELSE "now")
    /\ calls' = IF pc'[i] = "first" THEN [calls EXCEPT ![i] = @ + 1] ELSE calls
    /\ UNCHANGED <<clock, option, clockVars, firstIsFinish, returned, m_items, isEnd, freed, owner,
                   status>>

\* m_isEnd of an item that is gone.
LoopFreed(i) ==
    /\ i \in freed /\ pc[i] = "loop"
    /\ status' = "undefined"
    /\ UNCHANGED <<clock, pc, itemVars, m_items, isEnd, freed, owner>>

FirstReturns(i) ==
    /\ \E to \in {"now", "ended"} : Goto(i, "first", to)
    /\ firstIsFinish' = [firstIsFinish EXCEPT ![i] = TRUE]
    /\ returned' = [returned EXCEPT ![i] = clock]
    /\ UNCHANGED <<clock, option, clockVars, calls, m_items, isEnd, freed, owner, status>>

\* Lines 59-61 and 71: not yet time is another round of the loop.
ReadNow(i) ==
    /\ Goto(i, "now", IF option[i].max > 0 /\ clock - startConst[i] > option[i].max THEN "ended"
                      ELSE IF option[i].timeout <= clock - startTime[i] THEN "fire" ELSE "loop")
    /\ now' = [now EXCEPT ![i] = clock]
    /\ UNCHANGED <<clock, option, startConst, startTime, firstIsFinish, calls, returned, m_items, isEnd,
                   freed, owner, status>>

\* Faulty variant: the clock is not started again.
Restart_Kept(i) == startTime

Restart(i) == [startTime EXCEPT ![i] = clock]

Fire(i) ==
    /\ Goto(i, "fire", "calling")
    /\ calls' = [calls EXCEPT ![i] = @ + 1]
    /\ startTime' = IF option[i].mode = "nowait" THEN Restart(i) ELSE startTime
    /\ UNCHANGED <<clock, option, startConst, now, firstIsFinish, returned, m_items, isEnd, freed, owner,
                   status>>

Returns(i) ==
    /\ \E to \in {"loop", "ended"} : Goto(i, "calling", to)
    /\ returned' = [returned EXCEPT ![i] = clock]
    /\ startTime' = IF option[i].mode = "wait" THEN Restart(i) ELSE startTime
    /\ UNCHANGED <<clock, option, startConst, now, firstIsFinish, calls, m_items, isEnd, freed, owner,
                   status>>

Thread(i) == \/ Begin(i) \/ Loop(i) \/ LoopFreed(i) \/ FirstReturns(i) \/ ReadNow(i)
             \/ Fire(i) \/ Returns(i)

---------------------------------------------------------------------------
Next == status = "alive" /\ (Tick \/ Owner \/ \E i \in Items : Thread(i))

Spec == Init /\ [][Next]_vars

\* Threads run, and callbacks return; whether they ask to go on is open.
Fairness == /\ WF_vars(status = "alive" /\ (SetEnd \/ Delete \/ Gone))
            /\ \A i \in Items : WF_vars(status = "alive" /\ Thread(i))

FairSpec == Spec /\ Fairness

---------------------------------------------------------------------------
(* Properties *)

(* Every variable has its type. *)
TypeOK ==
    /\ clock \in 0 .. MaxClock /\ option \in [Items -> Options]
    /\ pc \in [Items -> {"none", "begin", "loop", "first", "now", "fire", "calling", "ended"}]
    /\ {startConst, startTime, now, returned} \subseteq [Items -> 0 .. MaxClock]
    /\ calls \in [Items -> Nat] /\ firstIsFinish \in [Items -> BOOLEAN]
    /\ m_items \in Seq(Items) /\ isEnd \subseteq Items /\ freed \subseteq Items
    /\ owner \in {"idle", "flag", "join", "gone"} \cup Items
    /\ status \in {"alive", "undefined"}

(* However the threads are delayed between reading the clock and calling,   *)
(* callbacks never come faster than the timeout, counted from the start.    *)
(* And in timer_mode_wait a callback comes a whole timeout after the last   *)
(* one returned (timer.h:18), but for the one after the immediate first     *)
(* callback, which does not start the clock again (timer.cpp:55-58).        *)
PacedCalls ==
    \A i \in Items : LET o == option[i] IN
        /\ o.timeout > 0 /\ pc[i] # "none" =>
               calls[i] <= (clock - startConst[i]) \div o.timeout + (IF o.first THEN 1 ELSE 0)
        /\ o.mode = "wait" /\ pc[i] = "fire" /\ calls[i] > (IF o.first THEN 1 ELSE 0) =>
               now[i] - returned[i] >= o.timeout

Detached(i) == option[i].thread = "detach"
Quiet == owner = "gone" /\ \A i \in Items : pc[i] \in {"none", "ended"} \/ Detached(i)

(* The destructor ends, wherever the threads are and whatever the callbacks *)
(* return, and from then on no item calls back (timer.cpp:13-23 and 39-45); *)
(* only the thread of a detached item goes on, with an m_isEnd that is gone *)
(* with the item.                                                           *)
DestructorQuiets ==
    owner = "flag" ~> Quiet \/ (status = "undefined" /\ \E i \in freed : Detached(i))
=============================================================================
