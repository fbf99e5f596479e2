---------------------------- MODULE ToolsProofs -----------------------------
(***************************************************************************)
(* Proofs about the two tools.  WaitSync: for any number of workers and    *)
(* waiters.  Timer: for any number of items, any options and any MaxClock. *)
(***************************************************************************)
EXTENDS Tools, FiniteSetTheorems, SequenceTheorems, TLAPS

---------------------------------------------------------------------------
(* WaitSync *)

(***************************************************************************)
(* m_count counts the workers that are still to call done(), no worker is  *)
(* new once somebody waits, and a waiter that returned left none pending.  *)
(***************************************************************************)
CountInv ==
    /\ count = Cardinality(Pending)
    /\ \A x \in Waiters : waiter[x] # "idle" => \A w \in Workers : worker[w] # "new"
    /\ \A x \in Waiters : waiter[x] = "returned" => Pending = {}

\* The types alone; that m_count is no less than 0 follows from CountInv.
Typed == /\ count \in Int
         /\ worker \in [Workers -> {"new", "working", "notify", "finished"}]
         /\ waiter \in [Waiters -> {"idle", "blocked", "woken", "returned"}]
         /\ early \in SUBSET Waiters

LEMMA WaitTyped == Spec => []Typed
<1>1. Init => Typed
  BY DEF Init, Typed
<1>2. Typed /\ [Next]_vars => Typed'
  <2> SUFFICES ASSUME Typed, [Next]_vars PROVE Typed'
    OBVIOUS
  <2> USE DEF Typed
  <2>1. ASSUME NEW w \in Workers, Worker(w) PROVE Typed'
    <3>1. CASE Add(w)
      BY <3>1 DEF Add
    <3>2. CASE Done(w)
      BY <3>2 DEF Done, CountAfterDone
    <3>3. CASE Notify(w)
      BY <3>3 DEF Notify, MayWake, Blocked
    <3>4. QED BY <2>1, <3>1, <3>2, <3>3 DEF Worker
  <2>2. ASSUME NEW x \in Waiters, Waiter(x) \/ SpuriousWake(x) PROVE Typed'
    <3>1. CASE EnterWait(x)
      BY <3>1 DEF EnterWait
    <3>2. CASE Retest(x)
      BY <3>2 DEF Retest
    <3>3. CASE SpuriousWake(x)
      BY <3>3 DEF SpuriousWake
    <3>4. QED BY <2>2, <3>1, <3>2, <3>3 DEF Waiter
  <2>3. CASE UNCHANGED vars
    BY <2>3 DEF vars
  <2>4. QED BY <2>1, <2>2, <2>3 DEF Next
<1>3. QED BY <1>1, <1>2, PTL DEF Spec

LEMMA PendingFinite == IsFiniteSet(Pending) /\ Cardinality(Pending) \in Nat
<1>1. IsFiniteSet(Pending)
  BY WaitSyncAssumption, FS_Subset DEF Pending
<1>2. QED BY <1>1, FS_CardinalityType

LEMMA CountStep ==
    ASSUME Typed, CountInv, [Next]_vars
    PROVE  CountInv'
<1> USE DEF Typed, CountInv
<1>1. ASSUME NEW w \in Workers, Add(w) PROVE CountInv'
  <2>1. w \notin Pending /\ Pending' = Pending \cup {w} /\ count' = count + 1 /\ waiter' = waiter
    BY <1>1 DEF Add, Pending
  <2>2. Cardinality(Pending') = Cardinality(Pending) + 1
    BY <2>1, PendingFinite, FS_AddElement
  <2>3. \A x \in Waiters : waiter[x] = "idle"
    BY <1>1 DEF Add
  <2>4. QED BY <2>1, <2>2, <2>3
<1>2. ASSUME NEW w \in Workers, Done(w) PROVE CountInv'
  <2>1. w \in Pending /\ Pending' = Pending \ {w} /\ count' = count - 1 /\ waiter' = waiter
    BY <1>2 DEF Done, CountAfterDone, Pending
  <2>2. Cardinality(Pending') = Cardinality(Pending) - 1
    BY <2>1, PendingFinite, FS_RemoveElement
  <2>3. \A v \in Workers : worker'[v] = "new" => worker[v] = "new"
    BY <1>2 DEF Done
  <2>4. QED BY <2>1, <2>2, <2>3
<1>3. ASSUME NEW w \in Workers, Notify(w) PROVE CountInv'
  <2>1. Pending' = Pending /\ count' = count
    BY <1>3 DEF Notify, Pending
  <2>2. \A v \in Workers : worker'[v] = "new" => worker[v] = "new"
    BY <1>3 DEF Notify
  <2>3. \A x \in Waiters : waiter'[x] = waiter[x] \/ (waiter[x] = "blocked" /\ waiter'[x] = "woken")
    BY <1>3 DEF Notify, MayWake, Blocked
  <2>4. QED BY <2>1, <2>2, <2>3
<1>4. ASSUME NEW x \in Waiters, EnterWait(x) \/ SpuriousWake(x) PROVE CountInv'
  <2>1. Pending' = Pending /\ count' = count /\ worker' = worker
    BY <1>4 DEF EnterWait, SpuriousWake, Pending
  <2>2. \A y \in Waiters : y # x => waiter'[y] = waiter[y]
    BY <1>4 DEF EnterWait, SpuriousWake
  <2>3. waiter'[x] \in {"blocked", "woken"} /\ \A w \in Workers : worker[w] # "new"
    BY <1>4 DEF EnterWait, SpuriousWake
  <2>4. QED BY <2>1, <2>2, <2>3
<1>5. ASSUME NEW x \in Waiters, Retest(x) PROVE CountInv'
  <2>1. Pending' = Pending /\ count' = count /\ worker' = worker
    BY <1>5 DEF Retest, Pending
  <2>2. \A y \in Waiters : y # x => waiter'[y] = waiter[y]
    BY <1>5 DEF Retest
  <2>3. waiter[x] = "woken" /\ (waiter'[x] = "returned" => ~(count > 0))
    BY <1>5 DEF Retest, MustWait
  <2>4. ~(count > 0) => Pending = {}
    BY PendingFinite, FS_EmptySet
  <2>5. QED BY <2>1, <2>2, <2>3, <2>4
<1>6. CASE UNCHANGED vars
  BY <1>6 DEF vars, Pending
<1>7. QED BY <1>1, <1>2, <1>3, <1>4, <1>5, <1>6 DEF Next, Worker, Waiter

LEMMA CountInvariant == Spec => []CountInv
<1>1. Init => CountInv
  <2>1. Init => Pending = {}
    BY DEF Init, Pending
  <2>2. QED BY <2>1, FS_EmptySet DEF Init, CountInv
<1>2. Typed /\ CountInv /\ [Next]_vars => CountInv'
  BY CountStep
<1>3. QED BY <1>1, <1>2, WaitTyped, PTL DEF Spec

(* Every variable keeps its type, and m_count is never negative.            *)
THEOREM WaitTypeCorrect == Spec => []TypeOK
<1>1. Typed /\ CountInv => TypeOK
  BY PendingFinite DEF Typed, CountInv, TypeOK
<1>2. QED BY <1>1, WaitTyped, CountInvariant, PTL

(* wait() returns only after every done(), for any number of threads.       *)
THEOREM WaitSound == Spec => []WaitMeansDone
<1>1. Typed /\ CountInv => WaitMeansDone
  BY DEF Typed, CountInv, WaitMeansDone, Pending
<1>2. QED BY <1>1, CountInvariant, WaitTyped, PTL

\* NoStranding, and who is in early has entered wait().
StrandInv == NoStranding /\ \A x \in early : waiter[x] # "idle"

(* A single waiter that came while work was left is never left blocked      *)
(* without a notification to come.                                          *)
THEOREM WaitNeverStrands == Spec => []NoStranding
<1>1. Init => StrandInv
  BY DEF Init, StrandInv, NoStranding
<1>2. Typed /\ CountInv /\ StrandInv /\ [Next]_vars => StrandInv'
  <2> SUFFICES ASSUME Typed, CountInv, StrandInv, [Next]_vars PROVE StrandInv'
    OBVIOUS
  <2> USE DEF Typed, StrandInv, NoStranding
  <2>1. ASSUME NEW w \in Workers, Add(w) PROVE StrandInv'
    <3>1. \A x \in Waiters : waiter[x] = "idle"
      BY <2>1 DEF Add, CountInv
    <3>2. early' = early /\ waiter' = waiter
      BY <2>1 DEF Add
    <3>3. QED BY <3>1, <3>2
  <2>2. ASSUME NEW w \in Workers, Done(w) PROVE StrandInv'
    <3>1. early' = early /\ waiter' = waiter /\ worker'[w] = "notify"
      BY <2>2 DEF Done
    <3>2. QED BY <3>1
  <2>3. ASSUME NEW w \in Workers, Notify(w) PROVE StrandInv'
    <3>1. early' = early /\ \A y \in Waiters : waiter[y] # "idle" => waiter'[y] # "idle"
      BY <2>3 DEF Notify, MayWake, Blocked
    <3>2. \A x \in Waiters : Waiters = {x} => waiter'[x] # "blocked"
      BY <2>3 DEF Notify, MayWake, Blocked
    <3>3. QED BY <3>1, <3>2
  <2>4. ASSUME NEW y \in Waiters, EnterWait(y) PROVE StrandInv'
    <3>1. waiter[y] = "idle" /\ waiter' = [waiter EXCEPT ![y] = "blocked"] /\ UNCHANGED <<count, worker>>
          /\ early' = IF count > 0 THEN early \cup {y} ELSE early
      BY <2>4 DEF EnterWait
    <3>2. count = 0 => early' = early
      BY <3>1
    <3>3. QED BY <3>1, <3>2
  <2>5. ASSUME NEW y \in Waiters, Retest(y) PROVE StrandInv'
    <3>1. waiter[y] = "woken" /\ UNCHANGED <<count, worker, early>>
          /\ waiter' = [waiter EXCEPT ![y] = IF MustWait THEN "blocked" ELSE "returned"]
      BY <2>5 DEF Retest
    <3>2. count = 0 => waiter'[y] = "returned"
      BY <3>1 DEF MustWait
    <3>3. QED BY <3>1, <3>2
  <2>6. ASSUME NEW y \in Waiters, SpuriousWake(y) PROVE StrandInv'
    BY <2>6 DEF SpuriousWake
  <2>7. CASE UNCHANGED vars
    BY <2>7 DEF vars
  <2>8. QED BY <2>1, <2>2, <2>3, <2>4, <2>5, <2>6, <2>7 DEF Next, Worker, Waiter
<1>3. StrandInv => NoStranding
  BY DEF StrandInv
<1>4. QED BY <1>1, <1>2, <1>3, CountInvariant, WaitTyped, PTL DEF Spec

---------------------------------------------------------------------------
(* Timer: callbacks never come too fast *)

(***************************************************************************)
(* What any step of a thread, of the owner and of the clock does to an     *)
(* item is said once, for its program counter, times and calls.            *)
(***************************************************************************)
TimerTyped ==
    /\ clock \in 0 .. MaxClock /\ option \in [Items -> Options]
    /\ tPc \in [Items -> {"none", "begin", "loop", "first", "now", "fire", "calling", "ended"}]
    /\ startConst \in [Items -> 0 .. MaxClock] /\ startTime \in [Items -> 0 .. MaxClock]
    /\ now \in [Items -> 0 .. MaxClock] /\ returned \in [Items -> 0 .. MaxClock]
    /\ calls \in [Items -> Nat] /\ firstIsFinish \in [Items -> BOOLEAN]

OwnerTyped ==
    /\ m_items \in Seq(Items) /\ isEnd \subseteq Items /\ freed \subseteq Items
    /\ owner \in {"idle", "flag", "join", "gone"} \cup Items
    /\ owner = "join" => m_items # <<>>
    /\ status \in {"alive", "undefined"}

\* The callbacks of an item but for the immediate first one.
Fires(i) == calls[i] - (IF option[i].first /\ (firstIsFinish[i] \/ tPc[i] = "first") THEN 1 ELSE 0)

\* A callback of timer_mode_wait starts the clock again when it returns.
Owing(i) == tPc[i] = "calling" /\ option[i].mode = "wait"
Paid(i) == IF Owing(i) THEN Fires(i) - 1 ELSE Fires(i)

FirstInv(i) ==
    /\ tPc[i] \in {"none", "begin"} => calls[i] = 0 /\ ~firstIsFinish[i]
    /\ tPc[i] = "first" => option[i].first /\ ~firstIsFinish[i]
    /\ option[i].first /\ ~firstIsFinish[i] => /\ Fires(i) = 0
                                               /\ tPc[i] \in {"none", "begin", "loop", "first", "ended"}
    /\ Fires(i) \in Nat /\ (tPc[i] = "calling" => Fires(i) >= 1)

TimesInv(i) ==
    /\ startConst[i] <= startTime[i] /\ startTime[i] <= clock /\ now[i] <= clock
    /\ tPc[i] = "fire" => option[i].timeout <= now[i] - startTime[i]
    /\ Owing(i) => option[i].timeout <= clock - startTime[i]
    /\ option[i].timeout > 0 => Paid(i) * option[i].timeout <= startTime[i] - startConst[i]
    /\ option[i].mode = "wait" /\ Fires(i) >= 1 /\ tPc[i] \in {"loop", "now", "fire"}
          => returned[i] <= startTime[i]

PaceInv == TimerTyped /\ \A i \in Items : FirstInv(i) /\ TimesInv(i)

LEMMA OptionTyped ==
    ASSUME TimerTyped, NEW i \in Items
    PROVE  /\ option[i].timeout \in Int /\ option[i].max \in Int /\ option[i].first \in BOOLEAN
           /\ option[i].mode \in {"wait", "nowait"}
  BY TimerAssumption DEF TimerTyped

LEMMA TimerTypedStep ==
    ASSUME TimerTyped, [T!Next]_(T!vars)
    PROVE  TimerTyped' /\ option' = option /\ clock <= clock'
<1> USE TimerAssumption DEF TimerTyped, T!itemVars, T!clockVars
<1>1. CASE T!Tick
  BY <1>1 DEF T!Tick
<1>2. CASE T!Owner
  <2>1. UNCHANGED <<clock, T!itemVars>>
    BY <1>2 DEF T!Owner, T!Destroy, T!SetEnd, T!Delete, T!Gone, T!Start, T!Started
  <2>2. tPc' \in [Items -> {"none", "begin", "loop", "first", "now", "fire", "calling", "ended"}]
    BY <1>2 DEF T!Owner, T!Destroy, T!SetEnd, T!Delete, T!Gone, T!Start, T!Started
  <2> QED BY <2>1, <2>2
<1>3. ASSUME NEW i \in Items, T!Thread(i) PROVE TimerTyped' /\ option' = option /\ clock <= clock'
  <2> USE DEF T!Thread, T!Begin, T!Loop, T!LoopFreed, T!FirstReturns, T!ReadNow, T!Fire, T!Returns, T!Goto
  <2>1. UNCHANGED <<clock, option>>
    BY <1>3
  <2>2. tPc' \in [Items -> {"none", "begin", "loop", "first", "now", "fire", "calling", "ended"}]
    BY <1>3
  <2>3. startConst' \in [Items -> 0 .. MaxClock] /\ startTime' \in [Items -> 0 .. MaxClock]
    BY <1>3 DEF T!Restart
  <2>4. now' \in [Items -> 0 .. MaxClock] /\ returned' \in [Items -> 0 .. MaxClock]
    BY <1>3
  <2>5. calls' \in [Items -> Nat]
    BY <1>3
  <2>6. firstIsFinish' \in [Items -> BOOLEAN]
    BY <1>3
  <2> QED BY <2>1, <2>2, <2>3, <2>4, <2>5, <2>6
<1>4. CASE UNCHANGED T!vars
  BY <1>4 DEF T!vars
<1> QED BY <1>1, <1>2, <1>3, <1>4 DEF T!Next

Stays(i) == /\ tPc'[i] = tPc[i] /\ startConst'[i] = startConst[i] /\ startTime'[i] = startTime[i]
            /\ now'[i] = now[i] /\ returned'[i] = returned[i] /\ calls'[i] = calls[i]
            /\ firstIsFinish'[i] = firstIsFinish[i]

LEMMA StaysPaced ==
    ASSUME TimerTyped, TimerTyped', option' = option, clock <= clock',
           NEW i \in Items, FirstInv(i), TimesInv(i), Stays(i)
    PROVE  FirstInv(i)' /\ TimesInv(i)'
<1>1. Fires(i)' = Fires(i) /\ (Owing(i)' <=> Owing(i))
  BY DEF Stays, Fires, Owing
<1>2. Paid(i)' = Paid(i)
  BY <1>1 DEF Paid
<1>3. FirstInv(i)'
  BY <1>1 DEF FirstInv, Stays
<1>4. /\ clock \in Int /\ clock' \in Int /\ startTime[i] \in Int /\ now[i] \in Int
      /\ option[i].timeout \in Int
  BY OptionTyped DEF TimerTyped
<1>5. option[i].timeout <= clock - startTime[i] => option[i].timeout <= clock' - startTime[i]
  BY <1>4
<1>6. startTime[i] <= clock' /\ now[i] <= clock'
  BY <1>4 DEF TimesInv
<1>7. TimesInv(i)'
  BY <1>1, <1>2, <1>5, <1>6 DEF TimesInv, Stays
<1> QED BY <1>3, <1>7

\* The payment of one more callback.
LEMMA OneMorePaid ==
    ASSUME NEW n \in Nat, NEW t \in Int, NEW a \in Int, NEW b \in Int, n * t <= a, t <= b - a
    PROVE  (n + 1) * t <= b
<1>1. n * t \in Int /\ (n + 1) * t = n * t + t
  OBVIOUS
<1> QED BY <1>1

LEMMA ThreadPaced ==
    ASSUME TimerTyped, TimerTyped', NEW i \in Items, FirstInv(i), TimesInv(i),
           T!Thread(i) \/ T!Start(i)
    PROVE  FirstInv(i)' /\ TimesInv(i)'
<1> DEFINE o == option[i]
<1>o. /\ o.timeout \in Int /\ o.first \in BOOLEAN /\ o.mode \in {"wait", "nowait"}
      /\ clock \in Nat /\ startConst[i] \in Nat /\ startTime[i] \in Nat /\ now[i] \in Nat
      /\ returned[i] \in Nat /\ calls[i] \in Nat /\ Fires(i) \in Nat /\ firstIsFinish[i] \in BOOLEAN
  BY OptionTyped DEF TimerTyped, FirstInv
<1> USE DEF T!Goto, T!itemVars, T!clockVars
<1>1. CASE T!Start(i)
  <2>1. /\ tPc[i] = "none" /\ tPc'[i] = "begin" /\ UNCHANGED <<clock, T!itemVars>>
    BY <1>1 DEF T!Start, TimerTyped
  <2>2. Fires(i)' = Fires(i) /\ Paid(i)' = Paid(i) /\ ~Owing(i)'
    BY <2>1 DEF Fires, Paid, Owing
  <2> QED BY <2>1, <2>2 DEF FirstInv, TimesInv
<1>2. CASE T!Begin(i)
  <2>1. /\ tPc[i] = "begin" /\ tPc'[i] = "loop" /\ startConst'[i] = clock /\ startTime'[i] = clock
        /\ UNCHANGED <<clock, option, now, firstIsFinish, calls, returned>>
    BY <1>2 DEF T!Begin, TimerTyped
  <2>2. Fires(i)' = 0 /\ Paid(i)' = 0 /\ ~Owing(i)'
    BY <2>1, <1>o DEF Fires, Paid, Owing, FirstInv
  <2>3. FirstInv(i)'
    BY <2>1, <2>2 DEF FirstInv
  <2>4. TimesInv(i)'
    BY <1>o, <2>1, <2>2 DEF TimesInv
  <2> QED BY <2>3, <2>4
<1>3. CASE T!Loop(i)
  <2>1. /\ tPc[i] = "loop" /\ UNCHANGED <<clock, option, T!clockVars, firstIsFinish, returned>>
        /\ \/ tPc'[i] = "first" /\ o.first /\ ~firstIsFinish[i] /\ calls'[i] = calls[i] + 1
           \/ tPc'[i] = "now" /\ ~(o.first /\ ~firstIsFinish[i]) /\ calls'[i] = calls[i]
           \/ tPc'[i] = "ended" /\ calls'[i] = calls[i]
    BY <1>3 DEF T!Loop, T!Ended, T!CallsFirst, TimerTyped
  <2>2. Fires(i)' = Fires(i) /\ ~Owing(i)' /\ ~Owing(i)
    BY <1>o, <2>1 DEF Fires, Owing
  <2>3. Paid(i)' = Paid(i)
    BY <2>2 DEF Paid
  <2>4. FirstInv(i)'
    BY <2>1, <2>2 DEF FirstInv
  <2>5. TimesInv(i)'
    BY <2>1, <2>2, <2>3 DEF TimesInv
  <2> QED BY <2>4, <2>5
<1>4. CASE T!LoopFreed(i)
  <2>1. Stays(i) /\ option' = option /\ clock' = clock
    BY <1>4 DEF T!LoopFreed, Stays
  <2> QED BY <2>1, <1>o, StaysPaced
<1>5. CASE T!FirstReturns(i)
  <2>1. /\ tPc[i] = "first" /\ tPc'[i] \in {"now", "ended"} /\ firstIsFinish'[i] = TRUE
        /\ UNCHANGED <<clock, option, T!clockVars, calls>>
    BY <1>5 DEF T!FirstReturns, TimerTyped
  <2>2. Fires(i)' = Fires(i) /\ Fires(i) = 0 /\ ~Owing(i)' /\ ~Owing(i)
    BY <1>o, <2>1 DEF Fires, Owing, FirstInv
  <2>3. Paid(i)' = Paid(i)
    BY <2>2 DEF Paid
  <2>4. FirstInv(i)'
    BY <2>1, <2>2 DEF FirstInv
  <2>5. TimesInv(i)'
    BY <2>1, <2>2, <2>3 DEF TimesInv
  <2> QED BY <2>4, <2>5
<1>6. CASE T!ReadNow(i)
  <2>1. /\ tPc[i] = "now" /\ tPc'[i] \in {"ended", "fire", "loop"}
        /\ tPc'[i] = "fire" => o.timeout <= clock - startTime[i]
        /\ now'[i] = clock
        /\ UNCHANGED <<clock, option, startConst, startTime, firstIsFinish, calls, returned>>
    BY <1>6 DEF T!ReadNow, TimerTyped
  <2>2. Fires(i)' = Fires(i) /\ ~Owing(i)' /\ ~Owing(i)
    BY <1>o, <2>1 DEF Fires, Owing
  <2>3. Paid(i)' = Paid(i)
    BY <2>2 DEF Paid
  <2>4. FirstInv(i)'
    BY <2>1, <2>2 DEF FirstInv
  <2>5. TimesInv(i)'
    BY <1>o, <2>1, <2>2, <2>3 DEF TimesInv
  <2> QED BY <2>4, <2>5
<1>7. CASE T!Fire(i)
  <2>1. /\ tPc[i] = "fire" /\ tPc'[i] = "calling" /\ calls'[i] = calls[i] + 1
        /\ startTime'[i] = IF o.mode = "nowait" THEN clock ELSE startTime[i]
        /\ UNCHANGED <<clock, option, startConst, now, firstIsFinish, returned>>
    BY <1>7 DEF T!Fire, T!Restart, TimerTyped
  <2>2. Fires(i)' = Fires(i) + 1 /\ ~Owing(i) /\ (Owing(i)' <=> o.mode = "wait")
    BY <1>o, <2>1 DEF Fires, Owing
  <2>3. FirstInv(i)'
    BY <1>o, <2>1, <2>2 DEF FirstInv
  <2>4. o.timeout <= clock - startTime[i] /\ startConst[i] <= startTime[i] /\ startTime[i] <= clock
        /\ now[i] <= clock
    BY <1>o, <2>1 DEF TimesInv
  <2>5. ASSUME o.timeout > 0
        PROVE  Paid(i)' * o.timeout <= startTime'[i] - startConst[i]
    <3>1. Fires(i) * o.timeout <= startTime[i] - startConst[i]
      BY <2>2, <2>5 DEF TimesInv, Paid
    <3>2. CASE o.mode = "wait"
      BY <1>o, <2>1, <2>2, <3>1, <3>2 DEF Paid
    <3>3. CASE o.mode = "nowait"
      <4>1. (Fires(i) + 1) * o.timeout <= clock - startConst[i]
        <5>1. o.timeout <= (clock - startConst[i]) - (startTime[i] - startConst[i])
          BY <1>o, <2>4
        <5> QED BY <1>o, <3>1, <5>1, OneMorePaid
      <4> QED BY <2>1, <2>2, <3>3, <4>1 DEF Paid
    <3> QED BY <1>o, <3>2, <3>3
  <2>6. TimesInv(i)'
    BY <1>o, <2>1, <2>2, <2>4, <2>5 DEF TimesInv
  <2> QED BY <2>3, <2>6
<1>8. CASE T!Returns(i)
  <2>1. /\ tPc[i] = "calling" /\ tPc'[i] \in {"loop", "ended"} /\ returned'[i] = clock
        /\ startTime'[i] = IF o.mode = "wait" THEN clock ELSE startTime[i]
        /\ UNCHANGED <<clock, option, startConst, now, firstIsFinish, calls>>
    BY <1>8 DEF T!Returns, T!Restart, TimerTyped
  <2>2. Fires(i)' = Fires(i) /\ ~Owing(i)' /\ (Owing(i) <=> o.mode = "wait") /\ Fires(i) >= 1
    BY <1>o, <2>1 DEF Fires, Owing, FirstInv
  <2>3. FirstInv(i)'
    BY <1>o, <2>1, <2>2 DEF FirstInv
  <2>5. ASSUME o.timeout > 0
        PROVE  Paid(i)' * o.timeout <= startTime'[i] - startConst[i]
    <3>2. CASE o.mode = "wait"
      <4> DEFINE n == Fires(i) - 1
      <4>1. n \in Nat /\ n + 1 = Fires(i)
        BY <1>o, <2>2
      <4>2. n * o.timeout <= startTime[i] - startConst[i] /\ o.timeout <= clock - startTime[i]
        BY <2>2, <2>5, <3>2 DEF TimesInv, Paid
      <4>3. o.timeout <= (clock - startConst[i]) - (startTime[i] - startConst[i])
        BY <1>o, <4>2
      <4> HIDE DEF n
      <4>4. (n + 1) * o.timeout <= clock - startConst[i]
        BY <1>o, <4>1, <4>2, <4>3, OneMorePaid
      <4> QED BY <2>1, <2>2, <3>2, <4>1, <4>4 DEF Paid
    <3>3. CASE o.mode = "nowait"
      BY <2>1, <2>2, <2>5, <3>3 DEF Paid, TimesInv
    <3> QED BY <1>o, <3>2, <3>3
  <2>6. TimesInv(i)'
    BY <1>o, <2>1, <2>2, <2>5 DEF TimesInv
  <2> QED BY <2>3, <2>6
<1> QED BY <1>1, <1>2, <1>3, <1>4, <1>5, <1>6, <1>7, <1>8 DEF T!Thread

LEMMA PaceStep ==
    ASSUME PaceInv, [T!Next]_(T!vars)
    PROVE  PaceInv'
<1>t. TimerTyped /\ TimerTyped' /\ option' = option /\ clock <= clock'
  BY TimerTypedStep DEF PaceInv
<1> SUFFICES ASSUME NEW i \in Items PROVE FirstInv(i)' /\ TimesInv(i)'
  BY <1>t DEF PaceInv
<1>i. FirstInv(i) /\ TimesInv(i)
  BY DEF PaceInv
<1>1. CASE T!Thread(i) \/ T!Start(i)
  BY <1>1, <1>i, <1>t, ThreadPaced
<1>2. ASSUME ~T!Thread(i), ~T!Start(i) PROVE Stays(i)
  <2> USE DEF TimerTyped, Stays, T!itemVars, T!clockVars, T!Goto
  <2>1. CASE T!Tick \/ T!Destroy \/ T!SetEnd \/ T!Delete \/ T!Gone \/ UNCHANGED T!vars
    BY <2>1 DEF T!Tick, T!Destroy, T!SetEnd, T!Delete, T!Gone, T!vars
  <2>2. ASSUME NEW j \in Items, T!Started(j) PROVE Stays(i)
    BY <2>2 DEF T!Started
  <2>3. ASSUME NEW j \in Items, j # i, T!Start(j) PROVE Stays(i)
    BY <2>3, <1>t DEF T!Start
  <2>4. ASSUME NEW j \in Items, j # i, T!Thread(j) PROVE Stays(i)
    <3>1. CASE T!Begin(j)
      BY <2>4, <3>1, <1>t DEF T!Begin
    <3>2. CASE T!Loop(j)
      BY <2>4, <3>2, <1>t DEF T!Loop
    <3>3. CASE T!LoopFreed(j)
      BY <3>3 DEF T!LoopFreed
    <3>4. CASE T!FirstReturns(j)
      BY <2>4, <3>4, <1>t DEF T!FirstReturns
    <3>5. CASE T!ReadNow(j)
      BY <2>4, <3>5, <1>t DEF T!ReadNow
    <3>6. CASE T!Fire(j)
      BY <2>4, <3>6, <1>t DEF T!Fire, T!Restart
    <3>7. CASE T!Returns(j)
      BY <2>4, <3>7, <1>t DEF T!Returns, T!Restart
    <3> QED BY <2>4, <3>1, <3>2, <3>3, <3>4, <3>5, <3>6, <3>7 DEF T!Thread
  <2> QED BY <1>2, <2>1, <2>2, <2>3, <2>4 DEF T!Next, T!Owner
<1> QED BY <1>1, <1>2, <1>i, <1>t, StaysPaced

\* Callbacks that were paid for, one timeout each, are no more than the time allows.
LEMMA PaidQuotient ==
    ASSUME NEW n \in Nat, NEW t \in Nat \ {0}, NEW a \in Nat, n * t <= a
    PROVE  n <= a \div t
  OBVIOUS

(* For any timeouts, delays of the threads and answers of the callbacks,    *)
(* callbacks never come faster than the timeout counted from the start, and *)
(* in timer_mode_wait a whole timeout lies between the return of one and    *)
(* the next (timer.cpp:50-73), but for the first callback, which does not   *)
(* start the clock again.                                                   *)
THEOREM TimerPaced == T!Spec => []PacedCalls
<1>1. T!Init => PaceInv
  <2> SUFFICES ASSUME T!Init PROVE PaceInv
    OBVIOUS
  <2>1. TimerTyped
    BY TimerAssumption DEF T!Init, TimerTyped
  <2>2. ASSUME NEW i \in Items PROVE FirstInv(i) /\ TimesInv(i)
    <3>1. /\ tPc[i] = "none" /\ calls[i] = 0 /\ firstIsFinish[i] = FALSE /\ clock = 0
          /\ startConst[i] = 0 /\ startTime[i] = 0 /\ now[i] = 0 /\ returned[i] = 0
      BY DEF T!Init
    <3>2. ~(option[i].first /\ (firstIsFinish[i] \/ tPc[i] = "first")) /\ ~Owing(i)
      BY <3>1 DEF Owing
    <3>3. Fires(i) = 0
      <4>1. (IF option[i].first /\ (firstIsFinish[i] \/ tPc[i] = "first") THEN 1 ELSE 0) = 0
        BY <3>2, Zenon
      <4>2. Fires(i) = calls[i] - 0
        BY <4>1 DEF Fires
      <4> QED BY <3>1, <4>2
    <3>4. Paid(i) = 0
      BY <3>2, <3>3 DEF Paid
    <3> QED BY <2>1, <3>1, <3>2, <3>3, <3>4, OptionTyped DEF FirstInv, TimesInv
  <2> QED BY <2>1, <2>2 DEF PaceInv
<1>2. PaceInv => PacedCalls
  <2> SUFFICES ASSUME PaceInv, NEW i \in Items
               PROVE  LET o == option[i] IN
                      /\ o.timeout > 0 /\ tPc[i] # "none" =>
                            calls[i] <= (clock - startConst[i]) \div o.timeout + (IF o.first THEN 1 ELSE 0)
                      /\ o.mode = "wait" /\ tPc[i] = "fire" /\ calls[i] > (IF o.first THEN 1 ELSE 0) =>
                            now[i] - returned[i] >= o.timeout
    BY DEF PacedCalls, T!PacedCalls
  <2> DEFINE o == option[i]
             first == IF o.first THEN 1 ELSE 0
  <2>o. /\ o.timeout \in Int /\ o.first \in BOOLEAN /\ o.mode \in {"wait", "nowait"}
        /\ clock \in Nat /\ startConst[i] \in Nat /\ startTime[i] \in Nat /\ now[i] \in Nat
        /\ returned[i] \in Nat /\ calls[i] \in Nat /\ Fires(i) \in Nat
    BY OptionTyped DEF PaceInv, TimerTyped, FirstInv
  <2>i. FirstInv(i) /\ TimesInv(i)
    BY DEF PaceInv
  <2>1. first \in {0, 1} /\ calls[i] <= Fires(i) + first
    BY <2>o DEF Fires
  <2>2. ASSUME o.timeout > 0 PROVE calls[i] <= (clock - startConst[i]) \div o.timeout + first
    <3>1. Fires(i) * o.timeout <= clock - startConst[i]
      <4>1. CASE Owing(i)
        <5> DEFINE n == Fires(i) - 1
        <5>1. n \in Nat /\ n + 1 = Fires(i)
          BY <2>o, <2>i, <4>1 DEF FirstInv, Owing
        <5>2. n * o.timeout <= startTime[i] - startConst[i] /\ o.timeout <= clock - startTime[i]
          BY <2>i, <2>2, <4>1 DEF TimesInv, Paid
        <5>3. o.timeout <= (clock - startConst[i]) - (startTime[i] - startConst[i])
          BY <2>o, <5>2
        <5> HIDE DEF n
        <5> QED BY <2>o, <5>1, <5>2, <5>3, OneMorePaid
      <4>2. CASE ~Owing(i)
        <5>1. Fires(i) * o.timeout <= startTime[i] - startConst[i] /\ startTime[i] <= clock
          BY <2>i, <2>2, <4>2 DEF TimesInv, Paid
        <5>2. Fires(i) * o.timeout \in Int
          BY <2>o
        <5> QED BY <2>o, <5>1, <5>2
      <4> QED BY <4>1, <4>2
    <3>2. clock - startConst[i] \in Nat /\ o.timeout \in Nat \ {0}
      BY <2>o, <2>i, <2>2 DEF TimesInv
    <3>3. Fires(i) <= (clock - startConst[i]) \div o.timeout
      BY <2>o, <3>1, <3>2, PaidQuotient
    <3>4. (clock - startConst[i]) \div o.timeout \in Int
      BY <3>2
    <3> HIDE DEF first
    <3> QED BY <2>o, <2>1, <3>3, <3>4
  <2>3. ASSUME o.mode = "wait", tPc[i] = "fire", calls[i] > first
        PROVE  now[i] - returned[i] >= o.timeout
    <3>1. Fires(i) >= 1
      BY <2>o, <2>1, <2>3
    <3> QED BY <2>o, <2>i, <2>3, <3>1 DEF TimesInv
  <2> QED BY <2>2, <2>3
<1> QED BY <1>1, <1>2, PaceStep, PTL DEF T!Spec

---------------------------------------------------------------------------
(* The owner and the end of the threads *)

Kept == {m_items[k] : k \in DOMAIN m_items}

\* Items are kept until their thread has ended, unless it was detached; a
\* joined one is kept only then.
QuietInv ==
    /\ \A i \in Items : \/ tPc[i] \in {"none", "ended"} \/ T!Detached(i)
                         \/ i \in Kept \/ owner = i
    /\ \A i \in Kept : option[i].thread = "join" => tPc[i] = "ended"
    /\ owner = "gone" => m_items = <<>>

EndInv == TimerTyped /\ OwnerTyped /\ QuietInv

LEMMA AppendKeeps ==
    ASSUME NEW s \in Seq(Items), NEW e \in Items
    PROVE  /\ Append(s, e) \in Seq(Items)
           /\ {Append(s, e)[k] : k \in DOMAIN Append(s, e)} = {s[k] : k \in DOMAIN s} \cup {e}
<1>1. /\ Append(s, e) \in Seq(Items) /\ Len(Append(s, e)) = Len(s) + 1 /\ DOMAIN s = 1 .. Len(s)
      /\ DOMAIN Append(s, e) = 1 .. Len(s) + 1 /\ Len(s) \in Nat
      /\ \A k \in 1 .. Len(s) : Append(s, e)[k] = s[k]
      /\ Append(s, e)[Len(s) + 1] = e
  OBVIOUS
<1> QED BY <1>1

LEMMA FrontKeeps ==
    ASSUME NEW s \in Seq(Items), s # <<>>
    PROVE  /\ T!Front(s) \in Seq(Items) /\ T!Last(s) \in Items
           /\ {s[k] : k \in DOMAIN s} = {T!Front(s)[k] : k \in DOMAIN T!Front(s)} \cup {T!Last(s)}
<1>1. /\ Len(s) \in Nat \ {0} /\ DOMAIN s = 1 .. Len(s) /\ \A k \in 1 .. Len(s) : s[k] \in Items
  OBVIOUS
<1>2. /\ T!Front(s) \in Seq(Items) /\ DOMAIN T!Front(s) = 1 .. Len(s) - 1
      /\ \A k \in 1 .. Len(s) - 1 : T!Front(s)[k] = s[k]
  BY <1>1 DEF T!Front
<1>3. T!Last(s) = s[Len(s)]
  BY DEF T!Last
<1> QED BY <1>1, <1>2, <1>3

LEMMA EndStep ==
    ASSUME EndInv, [T!Next]_(T!vars)
    PROVE  EndInv'
<1>t. TimerTyped /\ TimerTyped' /\ option' = option
  BY TimerTypedStep DEF EndInv
<1>d. \A i \in Items : T!Detached(i)' <=> T!Detached(i)
  BY <1>t DEF T!Detached
<1>i. OwnerTyped /\ QuietInv
  BY DEF EndInv
<1>n. \A i \in Items : i \notin {"idle", "flag", "join", "gone"}
  BY TimerAssumption
<1> USE DEF OwnerTyped
<1>1. CASE T!Tick \/ UNCHANGED T!vars
  <2>1. UNCHANGED <<tPc, option, m_items, isEnd, freed, owner, status>>
    BY <1>1 DEF T!Tick, T!vars, T!itemVars
  <2>2. OwnerTyped' /\ QuietInv'
    BY <1>i, <2>1 DEF QuietInv, Kept, T!Detached
  <2> QED BY <1>t, <2>2 DEF EndInv
<1>2. ASSUME NEW j \in Items, T!Start(j) PROVE EndInv'
  <2>1. /\ owner = "idle" /\ tPc[j] = "none" /\ tPc'[j] = "begin"
        /\ \A i \in Items \ {j} : tPc'[i] = tPc[i]
        /\ UNCHANGED <<isEnd, freed, status>>
    BY <1>2, <1>t DEF T!Start, TimerTyped
  <2>2. CASE option[j].thread = "join"
    <3>1. owner' = j /\ m_items' = m_items
      BY <1>2, <2>2 DEF T!Start
    <3>2. j \notin Kept
      BY <1>i, <2>1, <2>2 DEF QuietInv
    <3>3. QuietInv'
      BY <1>d, <1>i, <1>n, <1>t, <2>1, <3>1, <3>2 DEF QuietInv, Kept
    <3>4. OwnerTyped'
      BY <1>i, <1>n, <2>1, <3>1
    <3> QED BY <1>t, <3>3, <3>4 DEF EndInv
  <2>3. CASE option[j].thread # "join"
    <3>1. owner' = owner /\ m_items' = Append(m_items, j)
      BY <1>2, <2>3 DEF T!Start
    <3>2. m_items' \in Seq(Items) /\ Kept' = Kept \cup {j}
      BY <1>i, <3>1, AppendKeeps DEF Kept
    <3>3. QuietInv'
      <4>1. ASSUME NEW i \in Items
            PROVE  tPc'[i] \in {"none", "ended"} \/ T!Detached(i)' \/ i \in Kept' \/ owner' = i
        BY <1>d, <1>i, <2>1, <3>1, <3>2 DEF QuietInv
      <4>2. ASSUME NEW i \in Kept', option'[i].thread = "join" PROVE tPc'[i] = "ended"
        <5>1. i # j /\ i \in Kept /\ i \in Items
          BY <1>i, <1>t, <2>3, <3>2, <4>2 DEF Kept
        <5> QED BY <1>i, <1>t, <2>1, <4>2, <5>1 DEF QuietInv
      <4>3. owner' # "gone"
        BY <2>1, <3>1
      <4> QED BY <4>1, <4>2, <4>3 DEF QuietInv
    <3>4. OwnerTyped'
      BY <1>i, <2>1, <3>1, <3>2
    <3> QED BY <1>t, <3>3, <3>4 DEF EndInv
  <2> QED BY <2>2, <2>3
<1>3. ASSUME NEW j \in Items, T!Started(j) PROVE EndInv'
  <2>1. /\ owner = j /\ tPc[j] = "ended" /\ owner' = "idle" /\ m_items' = Append(m_items, j)
        /\ UNCHANGED <<tPc, isEnd, freed, status>>
    BY <1>3 DEF T!Started
  <2>2. m_items' \in Seq(Items) /\ Kept' = Kept \cup {j}
    BY <1>i, <2>1, AppendKeeps DEF Kept
  <2>3. QuietInv'
    BY <1>d, <1>i, <1>n, <1>t, <2>1, <2>2 DEF QuietInv
  <2>4. OwnerTyped'
    BY <1>i, <2>1, <2>2
  <2> QED BY <1>t, <2>3, <2>4 DEF EndInv
<1>4. CASE T!Destroy \/ T!SetEnd \/ T!Gone
  <2>1. /\ owner \in {"idle", "flag"} /\ owner' \in {"flag", "join", "gone"}
        /\ owner' \in {"join"} => m_items # <<>>
        /\ owner' = "gone" => m_items = <<>>
        /\ UNCHANGED <<tPc, m_items, freed, status>>
    BY <1>4 DEF T!Destroy, T!SetEnd, T!Gone
  <2>2. isEnd' \subseteq Items
    BY <1>4, <1>i, FrontKeeps DEF T!Destroy, T!SetEnd, T!Gone
  <2>3. QuietInv'
    BY <1>d, <1>i, <1>n, <1>t, <2>1 DEF QuietInv, Kept
  <2>4. OwnerTyped'
    BY <1>i, <2>1, <2>2
  <2> QED BY <1>t, <2>3, <2>4 DEF EndInv
<1>5. CASE T!Delete
  <2> DEFINE l == T!Last(m_items)
  <2>1. /\ owner = "join" /\ owner' = "flag" /\ m_items' = T!Front(m_items)
        /\ option[l].thread = "no" => tPc[l] = "ended"
        /\ freed' = freed \cup {l} /\ UNCHANGED <<tPc, isEnd, status>>
    BY <1>5 DEF T!Delete, T!Joinable
  <2>2. m_items' \in Seq(Items) /\ l \in Items /\ Kept = Kept' \cup {l}
    BY <1>i, <2>1, FrontKeeps DEF Kept
  <2> HIDE DEF l
  <2>3. tPc[l] = "ended" \/ T!Detached(l)
    <3>1. option[l].thread \in {"no", "detach", "join"}
      BY <1>t, <2>2, TimerAssumption DEF TimerTyped
    <3> QED BY <1>i, <2>1, <2>2, <3>1 DEF QuietInv, T!Detached
  <2>4. QuietInv'
    BY <1>d, <1>i, <1>n, <1>t, <2>1, <2>2, <2>3 DEF QuietInv
  <2>5. OwnerTyped'
    BY <1>i, <2>1, <2>2
  <2> QED BY <1>t, <2>4, <2>5 DEF EndInv
<1>6. ASSUME NEW j \in Items, T!Thread(j) PROVE EndInv'
  <2>1. /\ UNCHANGED <<m_items, isEnd, freed, owner>> /\ status' \in {status, "undefined"}
        /\ \A i \in Items \ {j} : tPc'[i] = tPc[i]
        /\ tPc[j] \notin {"none", "ended"}
    BY <1>6, <1>t DEF T!Thread, T!Begin, T!Loop, T!LoopFreed, T!FirstReturns, T!ReadNow, T!Fire,
                      T!Returns, T!Goto, TimerTyped
  <2>2. QuietInv'
    BY <1>d, <1>i, <1>n, <1>t, <2>1 DEF QuietInv, Kept
  <2>3. OwnerTyped'
    BY <1>i, <2>1
  <2> QED BY <1>t, <2>2, <2>3 DEF EndInv
<1> QED BY <1>1, <1>2, <1>3, <1>4, <1>5, <1>6 DEF T!Next, T!Owner

LEMMA TimerEnds == T!Spec => []EndInv
<1>1. T!Init => EndInv
  <2> SUFFICES ASSUME T!Init PROVE EndInv
    OBVIOUS
  <2>1. TimerTyped
    BY TimerAssumption DEF T!Init, TimerTyped
  <2>2. OwnerTyped
    BY DEF T!Init, OwnerTyped
  <2>3. QuietInv
    BY DEF T!Init, QuietInv, Kept
  <2> QED BY <2>1, <2>2, <2>3 DEF EndInv
<1> QED BY <1>1, EndStep, PTL DEF T!Spec

(* Every variable of Timer keeps its type. *)
THEOREM TimerTypeCorrect == T!Spec => []T!TypeOK
<1>1. EndInv => T!TypeOK
  BY DEF EndInv, TimerTyped, OwnerTyped, T!TypeOK
<1> QED BY <1>1, TimerEnds, PTL

(* When the destructor has returned every thread has ended, but for those   *)
(* of detached items (timer.cpp:13-23 and 76-88): the safety half of        *)
(* DestructorQuiets.                                                        *)
THEOREM TimerQuietWhenGone == T!Spec => [](owner = "gone" => T!Quiet)
<1>1. EndInv => (owner = "gone" => T!Quiet)
  BY TimerAssumption DEF EndInv, QuietInv, Kept, T!Quiet
<1> QED BY <1>1, TimerEnds, PTL
=============================================================================
