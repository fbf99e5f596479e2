------------------------ MODULE SessionHandlerProofs ------------------------
(***************************************************************************)
(* Proofs of the invariants of SessionHandler.  Control says where threads *)
(* can be; Fresh that a session being created is nobody else's; CopyInv    *)
(* that table and map agree; MisuseInv what holds of a session used by one *)
(* thread at a time; and PromiseInv carries the end a caller may count on  *)
(* from the clock through the table to the map.                            *)
(***************************************************************************)
EXTENDS SessionHandler, TLAPS

Resting == {"idle", "sleep", "scan", "ended"}
Creating == {"insert", "add"}
Ending == {"delete", "erase"}
Renewing == {"select", "update", "read", "renew"}
Returned == {"given", "dropped", "gone"}

Control ==
    /\ \A t \in Threads : arg[t] = NoSession <=> pc[t] \in Resting
    /\ \A u \in Users : pc[u] # "idle" => phase \in {"open", "undefined"}
    /\ phase \in {"down", "loading"} =>
          /\ pc[Timer] \in {"sleep", "scan"}
          /\ \A s \in Sessions : mem[s] = Absent

Fresh ==
    /\ \A t \in Threads : pc[t] \in Creating =>
          /\ life[arg[t]] = "asked"
          /\ mem[arg[t]] = Absent
          /\ pc[t] = "insert" <=> db[arg[t]] = Absent
          /\ \A u \in Threads : arg[u] = arg[t] => u = t
    /\ \A t \in Users : pc[t] \in Ending => life[arg[t]] \in {"dropped", "gone"}
    /\ \A t \in Users : pc[t] \in Renewing => life[arg[t]] \in Returned
    /\ \A s \in Sessions : life[s] = "new" =>
          mem[s] = Absent /\ db[s] = Absent /\ \A t \in Threads : arg[t] # s

CopyInv ==
    /\ CopiesAgree
    /\ phase = "open" => \A t \in Threads : pc[t] = "erase" => db[arg[t]] = Absent
    /\ DestroyedForGood

MisuseInv ==
    /\ \A s \in Sessions \ misused :
          /\ \A t, u \in Threads : arg[t] = s /\ arg[u] = s => t = u
          /\ \A t \in Threads :
                arg[t] = s /\ pc[t] \in Ending \cup Renewing => mem[s] # Absent
    /\ LockLostByMisuse

\* The end of s is promised and not reached, and one thread at most uses it.
Sure(s) == life[s] = "given" /\ s \notin misused /\ clock <= promise[s]

PromiseInv ==
    /\ \A t \in Threads : since[t] <= clock
    /\ \A s \in Sessions : promise[s] <= clock + Timeout
    /\ \A s \in Sessions : Sure(s) =>
          /\ db[s] >= promise[s]
          /\ mem[s] # Absent => mem[s] >= promise[s]
          /\ phase = "open" /\ loaded => mem[s] # Absent
          /\ arg[Timer] # s
    /\ \A t \in Users :
          /\ pc[t] \in {"insert", "update", "renew"} => stamp[t] >= since[t] + Timeout
          /\ pc[t] \in {"add", "read", "renew"} /\ arg[t] \notin misused
                /\ db[arg[t]] # Absent => db[arg[t]] >= since[t] + Timeout
          /\ pc[t] \in {"update", "renew"} /\ Sure(arg[t]) => stamp[t] >= promise[arg[t]]

IInv == TypeOK /\ Control /\ Fresh /\ CopyInv /\ MisuseInv /\ PromiseInv

---------------------------------------------------------------------------
(* The invariant is inductive *)

LEMMA IInvInit == Init => IInv
<1> SUFFICES ASSUME Init PROVE IInv
  OBVIOUS
<1> USE ThreadsAssumption, SessionsAssumption, TimeAssumption
    DEF Lives, UserLabels, TimerLabels, Started, Threads, Absent, Known, Stored
<1>1. loaded \in BOOLEAN
  BY DEF Init
<1>2. TypeOK
  BY <1>1 DEF Init, TypeOK
<1>3. Control /\ Fresh
  BY DEF Init, Control, Fresh, Resting, Creating, Ending, Renewing
<1>4. CopyInv
  BY DEF Init, CopyInv, CopiesAgree, DestroyedForGood
<1>5. MisuseInv
  BY DEF Init, MisuseInv, LockLostByMisuse
<1>6. PromiseInv
  <2>1. /\ clock = 0 /\ \A s \in Sessions : life[s] = "new" /\ promise[s] = -1
        /\ \A t \in Threads : since[t] = 0
        /\ \A t \in Users : pc[t] = "idle"
    BY DEF Init
  <2> QED
    BY <2>1 DEF PromiseInv, Sure
<1> QED
  BY <1>2, <1>3, <1>4, <1>5, <1>6 DEF IInv

LEMMA IInvNext == IInv /\ [Next]_vars => IInv'
<1> SUFFICES ASSUME IInv, [Next]_vars PROVE IInv'
  OBVIOUS
<1> USE ThreadsAssumption, SessionsAssumption, TimeAssumption
    DEF IInv, Fresh, CopyInv, CopiesAgree, DestroyedForGood, WorksOn, MisuseInv,
       LockLostByMisuse, PromiseInv, Sure, TypeOK, Control, Resting, Creating,
       Ending, Renewing, Returned, Lives, UserLabels, TimerLabels, Threads,
       Absent, Known, Stored, Readers, Goto, Home, Alive, vars, threadVars, history
<1>1. ASSUME NEW u \in Users, NEW s \in Sessions, CallCreate(u, s) PROVE IInv'
  <2>1. TypeOK'
    BY <1>1 DEF CallCreate, Begin
  <2>2. Control'
    BY <1>1 DEF CallCreate, Begin
  <2>3. Fresh'
    BY <1>1 DEF CallCreate, Begin
  <2>4. CopyInv'
    BY <1>1 DEF CallCreate, Begin
  <2>5. MisuseInv'
    BY <1>1 DEF CallCreate, Begin
  <2>6. PromiseInv'
    BY <1>1 DEF CallCreate, Begin
  <2> QED BY <2>1, <2>2, <2>3, <2>4, <2>5, <2>6
<1>2. ASSUME NEW u \in Users, NEW s \in Sessions, CallDestroy(u, s) PROVE IInv'
  <2>1. TypeOK'
    BY <1>2 DEF CallDestroy, Begin
  <2>2. Control'
    BY <1>2 DEF CallDestroy, Begin
  <2>3. Fresh'
    BY <1>2 DEF CallDestroy, Begin
  <2>4. CopyInv'
    BY <1>2 DEF CallDestroy, Begin
  <2>5. MisuseInv'
    BY <1>2 DEF CallDestroy, Begin
  <2>6. PromiseInv'
    BY <1>2 DEF CallDestroy, Begin
  <2> QED BY <2>1, <2>2, <2>3, <2>4, <2>5, <2>6
<1>3. ASSUME NEW u \in Users, NEW s \in Sessions, CallReset(u, s) PROVE IInv'
  BY <1>3 DEF CallReset, Begin
<1>4. ASSUME NEW t \in Threads, InsertRow(t) PROVE IInv'
  BY <1>4 DEF InsertRow
<1>5. ASSUME NEW t \in Threads, DeleteRow(t) PROVE IInv'
  BY <1>5 DEF DeleteRow, DbWithout, HandlerGone
<1>6. ASSUME NEW t \in Threads, SelectRow(t) PROVE IInv'
  BY <1>6 DEF SelectRow
<1>7. ASSUME NEW t \in Threads, UpdateRow(t) PROVE IInv'
  BY <1>7 DEF UpdateRow, RowAfterUpdate, Renewed
<1>8. ASSUME NEW t \in Threads, StatementFails(t) PROVE IInv'
  BY <1>8 DEF StatementFails, Return, Incident, HandlerGone
\* The row has the end computed when the call began, the map a later one.
<1>9. ASSUME NEW t \in Threads, Add(t) PROVE IInv'
  <2>1. TypeOK'
    BY <1>9 DEF Add, Return, Promise
  <2>2. Control'
    BY <1>9 DEF Add, Return, Promise
  <2>3. Fresh'
    BY <1>9 DEF Add, Return, Promise
  <2>4. CopyInv'
    BY <1>9 DEF Add, Return, Promise
  <2>5. MisuseInv'
    BY <1>9 DEF Add, Return, Promise
  <2>6. PromiseInv'
    BY <1>9 DEF Add, Return, Promise
  <2> QED BY <2>1, <2>2, <2>3, <2>4, <2>5, <2>6
\* Either the timer erases, after the promised end, or a user who asked to.
<1>10. ASSUME NEW t \in Threads, Erase(t) PROVE IInv'
  <2>1. TypeOK'
    BY <1>10 DEF Erase, Return
  <2>2. Control'
    BY <1>10 DEF Erase, Return
  <2>3. Fresh'
    BY <1>10 DEF Erase, Return
  <2>4. CopyInv'
    BY <1>10 DEF Erase, Return
  <2>5. MisuseInv'
    BY <1>10 DEF Erase, Return
  <2>6. PromiseInv'
    BY <1>10 DEF Erase, Return
  <2> QED BY <2>1, <2>2, <2>3, <2>4, <2>5, <2>6
<1>11. ASSUME NEW t \in Threads, Read(t) PROVE IInv'
  BY <1>11 DEF Read
<1>12. ASSUME NEW t \in Threads, ReadNothing(t) PROVE IInv'
  <2>1. TypeOK'
    BY <1>12 DEF ReadNothing, Return, Missing
  <2>2. Control'
    BY <1>12 DEF ReadNothing, Return, Missing
  <2>3. Fresh'
    BY <1>12 DEF ReadNothing, Return, Missing
  <2>4. CopyInv'
    BY <1>12 DEF ReadNothing, Return, Missing
  <2>5. MisuseInv'
    BY <1>12 DEF ReadNothing, Return, Missing
  <2>6. PromiseInv'
    BY <1>12 DEF ReadNothing, Return, Missing
  <2> QED BY <2>1, <2>2, <2>3, <2>4, <2>5, <2>6
\* The row exists: a known session without one is being erased by another
\* thread, and then it is misused.  Both copies reach the new promise.
<1>13. ASSUME NEW t \in Threads, Renew(t) PROVE IInv'
  <2>1. TypeOK'
    BY <1>13 DEF Renew, Return, Promise
  <2>2. Control'
    BY <1>13 DEF Renew, Return, Promise
  <2>3. Fresh'
    BY <1>13 DEF Renew, Return, Promise
  <2>4. CopyInv'
    BY <1>13 DEF Renew, Return, Promise
  <2>5. MisuseInv'
    BY <1>13 DEF Renew, Return, Promise
  <2>6. PromiseInv'
    BY <1>13 DEF Renew, Return, Promise
  <2> QED BY <2>1, <2>2, <2>3, <2>4, <2>5, <2>6
\* Not found: two threads were at work, or the call came late.
<1>14. ASSUME NEW t \in Threads, LoseLock(t) PROVE IInv'
  BY <1>14 DEF LoseLock, Return, Missing
\* Had the end been promised and not reached, the map would have it.
<1>15. ASSUME NEW s \in Sessions, Expire(s) PROVE IInv'
  <2>1. TypeOK'
    BY <1>15 DEF Expire, Begin, Over
  <2>2. Control'
    BY <1>15 DEF Expire, Begin, Over
  <2>3. Fresh'
    BY <1>15 DEF Expire, Begin, Over
  <2>4. CopyInv'
    BY <1>15 DEF Expire, Begin, Over
  <2>5. MisuseInv'
    BY <1>15 DEF Expire, Begin, Over
  <2>6. PromiseInv'
    BY <1>15 DEF Expire, Begin, Over
  <2> QED BY <2>1, <2>2, <2>3, <2>4, <2>5, <2>6
<1>16. CASE Tick
  BY <1>16 DEF Tick
<1>17. CASE Wake
  BY <1>17 DEF Wake
<1>18. CASE ScanNothing
  BY <1>18 DEF ScanNothing, Over
<1>19. CASE Undefined
  BY <1>19 DEF Undefined, HandlerGone
\* The table has every promise, so the map gets it.
<1>20. CASE Load
  BY <1>20 DEF Load
<1>21. CASE LoadFails
  <2>1. TypeOK'
    <3>1. loaded' \in BOOLEAN
      BY <1>21 DEF LoadFails
    <3>2. incidents' \in Nat /\ phase' = "open"
      BY <1>21 DEF LoadFails, Incident
    <3>3. UNCHANGED <<clock, db, mem, lock, threadVars, torn, life, promise, misused>>
      BY <1>21 DEF LoadFails
    <3> QED
      BY <3>1, <3>2, <3>3
  <2>2. Control' /\ Fresh' /\ CopyInv' /\ MisuseInv'
    BY <1>21 DEF LoadFails
  <2>3. PromiseInv'
    BY <1>21 DEF LoadFails
  <2> QED
    BY <2>1, <2>2, <2>3
<1>22. CASE Stop
  BY <1>22 DEF Stop, Incident
<1>23. CASE Flag
  BY <1>23 DEF Flag
<1>24. CASE Join
  BY <1>24 DEF Join, Forget, Started
<1>25. CASE Crash
  BY <1>25 DEF Crash, Incident, Forget, Started
<1>26. CASE Restart
  BY <1>26 DEF Restart
<1>27. CASE UNCHANGED vars
  BY <1>27
<1> HIDE DEF IInv, vars
<1> QED
  BY <1>1, <1>2, <1>3, <1>4, <1>5, <1>6, <1>7, <1>8, <1>9, <1>10, <1>11, <1>12,
     <1>13, <1>14, <1>15, <1>16, <1>17, <1>18, <1>19, <1>20, <1>21, <1>22,
     <1>23, <1>24, <1>25, <1>26, <1>27
  DEF Next, Call, TimerStep, Step, Threads

LEMMA Invariance == Spec => []IInv
<1>1. Init => IInv
  BY IInvInit
<1>2. IInv /\ [Next]_vars => IInv'
  BY IInvNext
<1> QED
  BY <1>1, <1>2, PTL DEF Spec

---------------------------------------------------------------------------
(* The properties *)

(* Every variable keeps its type, for any users, sessions, timeout and      *)
(* bounds (sessionhandle.cpp).                                              *)
THEOREM SessionsTypeCorrect == Spec => []TypeOK
<1>1. IInv => TypeOK
  BY DEF IInv
<1> QED
  BY <1>1, Invariance, PTL

(* The table and m_sessions name the same sessions up to one a thread is    *)
(* adding or erasing, through failed statements, crashes and restarts       *)
(* (createSession, destroySession, loadSessions).                           *)
THEOREM TableAndMapAgree == Spec => []CopiesAgree
<1>1. IInv => CopiesAgree
  BY DEF IInv, CopyInv
<1> QED
  BY <1>1, Invariance, PTL

(* A session destroySession() ended is never in the map or the table again. *)
THEOREM DestroyedStayDestroyed == Spec => []DestroyedForGood
<1>1. IInv => DestroyedForGood
  BY DEF IInv, CopyInv
<1> QED
  BY <1>1, Invariance, PTL

(* A session used by one thread at a time lives until its promised end      *)
(* (resetLoseVaildTime, handleSession), restarts included.                  *)
THEOREM PromisesKept == Spec => []PromiseKept
<1>1. IInv => PromiseKept
  BY DEF IInv, TypeOK, PromiseInv, PromiseKept, Sure, Known
<1> QED
  BY <1>1, Invariance, PTL

(* m_mutex is left locked only by a session in the hands of two threads or  *)
(* used after its end (updateLoseVaildTimeToMemory and                      *)
(* deleteSessionFromMemory return without unlock()).                        *)
THEOREM LockLostOnlyByMisuse == Spec => []LockLostByMisuse
<1>1. IInv => LockLostByMisuse
  BY DEF IInv, MisuseInv
<1> QED
  BY <1>1, Invariance, PTL

---------------------------------------------------------------------------
(* One store.  Every step leaves each session as it is, or ends it, but for *)
(* those that make a row, and that tell a caller.                           *)

LEMMA UnmadeIsNotLive ==
    ASSUME IInv, NEW s \in Sessions, Unmade(s)
    PROVE  ~Live(s)
  BY DEF IInv, Fresh, TypeOK, Unmade, Live, WorksOn, Known, Stored, Creating

LEMMA EndsAtMost ==
    ASSUME IInv,
           \A s \in Sessions : /\ Live(s)' => Live(s)
                               /\ Unmade(s)' => Unmade(s)
                               /\ ToldOf(s)' = ToldOf(s)
    PROVE  Store!Next
<1> DEFINE ending == {s \in Sessions : StateOf(s)' = "past"}
<1>1. ASSUME NEW s \in Sessions
      PROVE  StateOf(s)' = IF s \in ending THEN "past" ELSE StateOf(s)
  BY UnmadeIsNotLive DEF StateOf
<1> HIDE DEF ending
<1>2. Store!End(ending)
  BY <1>1 DEF Store!End
<1>3. ending \in SUBSET Sessions
  BY DEF ending
<1> QED BY <1>2, <1>3 DEF Store!Next

\* A step that leaves table, map and what the users know alone begins no insertion.
LEMMA StoreAside ==
    ASSUME IInv, UNCHANGED <<db, mem, life>>,
           \A s \in Sessions, t \in Threads : WorksOn(t, "insert", s)' => WorksOn(t, "insert", s)
    PROVE  Store!Next
<1>1. ASSUME NEW s \in Sessions
      PROVE  (Live(s)' <=> Live(s)) /\ (Unmade(s)' => Unmade(s)) /\ ToldOf(s)' = ToldOf(s)
  <2>1. Live(s)' <=> Live(s)
    BY DEF Live, Known, Stored
  <2>2. ToldOf(s)' = ToldOf(s)
    BY DEF ToldOf
  <2>3. Unmade(s)' => Unmade(s)
    BY DEF Unmade
  <2> QED BY <2>1, <2>2, <2>3
<1> QED BY <1>1, EndsAtMost

LEMMA StoreCall ==
    ASSUME IInv, NEW u \in Users, Call(u)
    PROVE  Store!Next
<1>0. u \in Threads /\ pc[u] = "idle" /\ arg[u] = NoSession
  BY DEF Call, CallCreate, CallDestroy, CallReset, IInv, Control, Resting, Threads
<1>1. ASSUME NEW s \in Sessions, CallCreate(u, s) PROVE Store!Next
  <2>1. /\ UNCHANGED <<db, mem>> /\ life[s] = "new" /\ life' = [life EXCEPT ![s] = "asked"]
        /\ pc' = [pc EXCEPT ![u] = "insert"] /\ arg' = [arg EXCEPT ![u] = s]
    BY <1>1 DEF CallCreate, Begin, Goto
  <2>2. \A q \in Sessions : (Live(q)' <=> Live(q)) /\ ToldOf(q)' = ToldOf(q)
    BY <2>1 DEF Live, Known, Stored, ToldOf, IInv, TypeOK
  <2>3. \A q \in Sessions : Unmade(q)' => Unmade(q)
    BY <1>0, <2>1 DEF Unmade, WorksOn, IInv, TypeOK
  <2> QED BY <2>2, <2>3, EndsAtMost
<1>2. ASSUME NEW s \in Sessions, CallDestroy(u, s) PROVE Store!Next
  <2>1. /\ UNCHANGED <<db, mem>> /\ life[s] \in {"given", "dropped", "gone"}
        /\ life' = [life EXCEPT ![s] = IF @ = "gone" THEN "gone" ELSE "dropped"]
        /\ pc' = [pc EXCEPT ![u] = "delete"] /\ arg' = [arg EXCEPT ![u] = s]
    BY <1>2 DEF CallDestroy, Begin, Goto
  <2>2. \A q \in Sessions : (Live(q)' <=> Live(q)) /\ ToldOf(q)' = ToldOf(q)
    BY <2>1 DEF Live, Known, Stored, ToldOf, IInv, TypeOK
  <2>3. \A q \in Sessions : Unmade(q)' => Unmade(q)
    BY <1>0, <2>1 DEF Unmade, WorksOn, IInv, TypeOK
  <2> QED BY <2>2, <2>3, EndsAtMost
<1>3. ASSUME NEW s \in Sessions, CallReset(u, s) PROVE Store!Next
  <2>1. /\ UNCHANGED <<db, mem, life>>
        /\ pc' = [pc EXCEPT ![u] = "select"] /\ arg' = [arg EXCEPT ![u] = s]
    BY <1>3 DEF CallReset, Begin, Goto
  <2>2. \A q \in Sessions, t \in Threads : WorksOn(t, "insert", q)' => WorksOn(t, "insert", q)
    BY <1>0, <2>1 DEF WorksOn, IInv, TypeOK
  <2> QED BY <2>1, <2>2, StoreAside
<1> QED BY <1>1, <1>2, <1>3 DEF Call

\* A thread that goes on to another label, and maybe to no session, inserts nothing.
LEMMA NoNewInsertion ==
    ASSUME IInv, NEW t \in Threads, NEW label, label # "insert",
           pc' = [pc EXCEPT ![t] = label],
           arg' = arg \/ arg' = [arg EXCEPT ![t] = NoSession]
    PROVE  \A s \in Sessions, u \in Threads : WorksOn(u, "insert", s)' => WorksOn(u, "insert", s)
  BY SessionsAssumption DEF IInv, TypeOK, WorksOn

LEMMA StoreStep ==
    ASSUME IInv, NEW t \in Threads, Step(t)
    PROVE  Store!Next
<1> USE DEF Return, Goto
<1>h. Home(t) # "insert"
  BY DEF Home
<1>0. pc[t] \notin Resting => arg[t] \in Sessions
  BY DEF IInv, TypeOK, Control
<1>1. CASE InsertRow(t)
  <2>1. /\ pc[t] = "insert" /\ arg[t] \in Sessions /\ UNCHANGED <<mem, life, arg>>
        /\ db' = [db EXCEPT ![arg[t]] = stamp[t]] /\ pc' = [pc EXCEPT ![t] = "add"]
    BY <1>0, <1>1 DEF InsertRow, history, Resting
  <2>2. stamp[t] # Absent /\ \A u \in Threads : arg[u] = arg[t] => u = t
    BY <2>1 DEF IInv, TypeOK, Fresh, Creating, Absent
  <2>3. ~Live(arg[t]) /\ Unmade(arg[t])
    BY <2>1, UnmadeIsNotLive DEF Unmade, WorksOn
  <2>4. ASSUME NEW s \in Sessions
        PROVE  /\ Live(s)' <=> s = arg[t] \/ Live(s)
               /\ s # arg[t] => (Unmade(s)' <=> Unmade(s))
               /\ ToldOf(s)' = ToldOf(s)
    <3>1. Live(s)' <=> s = arg[t] \/ Live(s)
      BY <2>1, <2>2 DEF Live, Known, Stored, IInv, TypeOK
    <3>2. s # arg[t] => (Unmade(s)' <=> Unmade(s))
      BY <2>1 DEF Unmade, WorksOn, IInv, TypeOK
    <3> QED BY <2>1, <3>1, <3>2 DEF ToldOf
  <2>5. ASSUME NEW s \in Sessions PROVE StateOf(s)' = IF s = arg[t] THEN "live" ELSE StateOf(s)
    BY <2>4 DEF StateOf
  <2>6. Store!Make(arg[t])
    BY <2>1, <2>3, <2>4, <2>5 DEF Store!Make, StateOf
  <2> QED BY <2>1, <2>6 DEF Store!Next
<1>2. CASE DeleteRow(t)
  <2>1. /\ pc[t] = "delete" /\ UNCHANGED <<mem, life, arg>> /\ pc' = [pc EXCEPT ![t] = "erase"]
        /\ db' = [db EXCEPT ![arg[t]] = Absent]
    BY <1>2 DEF DeleteRow, DbWithout, history
  <2> QED BY <2>1, NoNewInsertion, EndsAtMost DEF Live, Known, Stored, Unmade, ToldOf, IInv, TypeOK
<1>3. CASE SelectRow(t)
  BY <1>3, NoNewInsertion, StoreAside DEF SelectRow, history
<1>4. CASE UpdateRow(t)
  <2>1. /\ pc[t] = "update" /\ UNCHANGED <<mem, life, arg>> /\ pc' = [pc EXCEPT ![t] = "read"]
        /\ db' = [db EXCEPT ![arg[t]] = RowAfterUpdate(t)]
    BY <1>4 DEF UpdateRow, history
  <2>2. \A s \in Sessions : db'[s] # Absent => db[s] # Absent
    BY <2>1 DEF RowAfterUpdate, IInv, TypeOK
  <2> QED BY <2>1, <2>2, NoNewInsertion, EndsAtMost DEF Live, Known, Stored, Unmade, ToldOf
<1>5. CASE StatementFails(t)
  BY <1>5, <1>h, NoNewInsertion, StoreAside DEF StatementFails, history
<1>6. CASE Add(t)
  <2>1. /\ pc[t] = "add" /\ arg[t] \in Sessions /\ UNCHANGED db
        /\ mem' = [mem EXCEPT ![arg[t]] = clock + Timeout]
        /\ life' = [life EXCEPT ![arg[t]] = "given"]
        /\ pc' = [pc EXCEPT ![t] = Home(t)] /\ arg' = [arg EXCEPT ![t] = NoSession]
    BY <1>0, <1>6 DEF Add, Resting
  <2>2. life[arg[t]] = "asked" /\ Live(arg[t])
    BY <2>1 DEF IInv, TypeOK, Fresh, Creating, Live, Stored
  <2>3. \A s \in Sessions : Live(s)' <=> Live(s)
    <3>1. clock + Timeout # Absent
      BY TimeAssumption DEF IInv, TypeOK, Absent
    <3> QED BY <2>1, <2>2, <3>1 DEF Live, Known, Stored, IInv, TypeOK
  <2>4. \A s \in Sessions : s # arg[t] => (Unmade(s)' <=> Unmade(s))
    BY <1>h, <2>1, SessionsAssumption DEF Unmade, WorksOn, IInv, TypeOK
  <2>5. \A s \in Sessions : StateOf(s)' = StateOf(s)
    BY <2>2, <2>3, <2>4 DEF StateOf
  <2>6. \A s \in Sessions : ToldOf(s)' = IF s = arg[t] THEN "created" ELSE ToldOf(s)
    BY <2>1 DEF ToldOf, IInv, TypeOK
  <2>7. Store!Created(arg[t])
    BY <2>1, <2>2, <2>5, <2>6 DEF Store!Created, StateOf, ToldOf
  <2> QED BY <2>1, <2>7 DEF Store!Next
<1>7. CASE Erase(t)
  <2>1. /\ pc[t] = "erase" /\ arg[t] \in Sessions /\ arg[t] \in Known /\ UNCHANGED db
        /\ mem' = [mem EXCEPT ![arg[t]] = Absent]
        /\ life' = [life EXCEPT ![arg[t]] = IF t = Timer THEN @ ELSE "gone"]
        /\ pc' = [pc EXCEPT ![t] = Home(t)] /\ arg' = [arg EXCEPT ![t] = NoSession]
    BY <1>0, <1>7 DEF Erase, Resting
  <2>2. \A s \in Sessions : Live(s)' => Live(s)
    BY <2>1 DEF Live, Known, Stored, IInv, TypeOK
  <2>3. \A s \in Sessions : Unmade(s)' => Unmade(s)
    <3>1. \A s \in Sessions : life'[s] = "new" => life[s] = "new"
      BY <2>1 DEF IInv, TypeOK
    <3> QED BY <1>h, <2>1, <3>1, NoNewInsertion DEF Unmade
  <2>4. CASE t = Timer
    <3>1. \A s \in Sessions : ToldOf(s)' = ToldOf(s)
      BY <2>1, <2>4 DEF ToldOf, IInv, TypeOK
    <3> QED BY <2>2, <2>3, <3>1, EndsAtMost
  <2>5. CASE t # Timer
    <3>1. t \in Users /\ phase = "open"
      BY <1>7, <2>1, <2>5 DEF Threads, IInv, Control, Erase, Alive
    <3>2. db[arg[t]] = Absent /\ life[arg[t]] = "dropped"
      BY <2>1, <3>1 DEF IInv, CopyInv, DestroyedForGood, Fresh, Ending
    <3>3. \A s \in Sessions : Live(s)' <=> s # arg[t] /\ Live(s)
      BY <2>1, <3>2 DEF Live, Known, Stored, IInv, TypeOK
    <3>4. \A s \in Sessions : s # arg[t] => (Unmade(s)' <=> Unmade(s))
      BY <1>h, <2>1, SessionsAssumption DEF Unmade, WorksOn, IInv, TypeOK
    <3>5. Live(arg[t]) /\ ~Unmade(arg[t])
      BY <2>1, UnmadeIsNotLive DEF Live
    <3>6. \A s \in Sessions : StateOf(s)' = IF s = arg[t] THEN "past" ELSE StateOf(s)
      BY <2>1, <2>3, <3>3, <3>4, <3>5 DEF StateOf
    <3>7. \A s \in Sessions : ToldOf(s)' = IF s = arg[t] THEN "destroyed" ELSE ToldOf(s)
      BY <2>1, <2>5 DEF ToldOf, IInv, TypeOK
    <3>8. Store!Destroyed(arg[t])
      BY <2>1, <3>2, <3>5, <3>6, <3>7 DEF Store!Destroyed, StateOf, ToldOf
    <3> QED BY <2>1, <3>8 DEF Store!Next
  <2> QED BY <2>4, <2>5
<1>8. CASE Read(t)
  BY <1>8, NoNewInsertion, StoreAside DEF Read, history
<1>9. CASE ReadNothing(t)
  BY <1>9, <1>h, NoNewInsertion, StoreAside DEF ReadNothing, history
<1>10. CASE Renew(t)
  <2>1. /\ arg[t] \in Known /\ UNCHANGED <<db, life>> /\ mem' = [mem EXCEPT ![arg[t]] = stamp[t]]
        /\ pc' = [pc EXCEPT ![t] = Home(t)] /\ arg' = [arg EXCEPT ![t] = NoSession]
    BY <1>10 DEF Renew
  <2>2. \A s \in Sessions : Live(s)' => Live(s)
    BY <2>1 DEF Live, Known, Stored, IInv, TypeOK
  <2> QED BY <1>h, <2>1, <2>2, NoNewInsertion, EndsAtMost DEF Unmade, ToldOf
<1>11. CASE LoseLock(t)
  BY <1>11, <1>h, NoNewInsertion, StoreAside DEF LoseLock, history
<1> QED
  BY <1>1, <1>2, <1>3, <1>4, <1>5, <1>6, <1>7, <1>8, <1>9, <1>10, <1>11 DEF Step

LEMMA StoreElse ==
    ASSUME IInv,
           \/ Tick \/ Wake \/ ScanNothing \/ Undefined \/ Load \/ LoadFails \/ Stop \/ Flag
           \/ Join \/ Crash \/ Restart \/ \E s \in Sessions : Expire(s)
    PROVE  Store!Next
<1>t. Timer \in Threads
  BY DEF Threads
<1>1. CASE Tick \/ Undefined \/ LoadFails \/ Stop \/ Flag \/ Restart
  <2>1. UNCHANGED <<db, mem, life, pc, arg>>
    BY <1>1 DEF Tick, Undefined, LoadFails, Stop, Flag, Restart, threadVars, history
  <2> QED BY <2>1, StoreAside DEF WorksOn
<1>2. CASE Wake \/ ScanNothing
  <2>1. /\ UNCHANGED <<db, mem, life, arg>>
        /\ \E label : label # "insert" /\ pc' = [pc EXCEPT ![Timer] = label]
    BY <1>2 DEF Wake, ScanNothing, Goto, history
  <2> QED BY <1>t, <2>1, NoNewInsertion, StoreAside
<1>3. ASSUME NEW s \in Sessions, Expire(s) PROVE Store!Next
  <2>1. /\ UNCHANGED <<db, mem, life>> /\ arg' = [arg EXCEPT ![Timer] = s]
        /\ \E label : label # "insert" /\ pc' = [pc EXCEPT ![Timer] = label]
    BY <1>3 DEF Expire, Begin, Goto
  <2>2. \A q \in Sessions, t \in Threads : WorksOn(t, "insert", q)' => WorksOn(t, "insert", q)
    BY <1>t, <2>1 DEF WorksOn, IInv, TypeOK
  <2> QED BY <2>1, <2>2, StoreAside
<1>4. CASE Load
  <2>1. UNCHANGED <<db, life, pc, arg>> /\ mem' = db
    BY <1>4 DEF Load, threadVars
  <2> QED BY <2>1, EndsAtMost DEF Live, Known, Stored, Unmade, WorksOn, ToldOf
<1>5. CASE Join \/ Crash
  <2>1. UNCHANGED <<db, life>> /\ mem' = [s \in Sessions |-> Absent] /\ pc' = Started
    BY <1>5 DEF Join, Crash, Forget, history
  <2>2. \A s \in Sessions : Live(s)' => Live(s)
    BY <2>1 DEF Live, Known, Stored
  <2>3. \A s \in Sessions, t \in Threads : ~WorksOn(t, "insert", s)'
    BY <2>1 DEF WorksOn, Started
  <2> QED BY <2>1, <2>2, <2>3, EndsAtMost DEF Unmade, ToldOf
<1> QED BY <1>1, <1>2, <1>3, <1>4, <1>5

(* The table and the map together implement one store: no session that a   *)
(* caller was told of, lost or let expire is ever live again, through       *)
(* failed statements, crashes, restarts and threads that share a session,   *)
(* and what callers are told is true as they are told it                    *)
(* (sessionhandle.cpp:155-208).                                             *)
THEOREM SessionsAreOneStore == Spec => ImplementsStore
<1>1. Init => Store!Init
  <2> SUFFICES ASSUME Init PROVE Store!Init
    OBVIOUS
  <2>1. \A s \in Sessions : StateOf(s) = "unmade" /\ ToldOf(s) = "nothing"
    BY DEF Init, StateOf, Live, Known, Stored, Unmade, ToldOf
  <2> QED BY <2>1 DEF Store!Init
<1>2. IInv /\ [Next]_vars => [Store!Next]_(Store!vars)
  <2> SUFFICES ASSUME IInv, [Next]_vars PROVE [Store!Next]_(Store!vars)
    OBVIOUS
  <2>1. CASE UNCHANGED vars
    <3>1. \A s \in Sessions : StateOf(s)' = StateOf(s) /\ ToldOf(s)' = ToldOf(s)
      BY <2>1 DEF vars, threadVars, history, StateOf, Live, Known, Stored, Unmade, WorksOn, ToldOf
    <3> QED BY <3>1 DEF Store!vars
  <2>2. CASE Next
    BY <2>2, StoreCall, StoreStep, StoreElse DEF Next, TimerStep, Threads
  <2> QED BY <2>1, <2>2
<1> QED BY <1>1, <1>2, Invariance, PTL DEF Spec, ImplementsStore, Store!Spec
=============================================================================
