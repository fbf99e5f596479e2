--------------------------- MODULE SessionHandler ---------------------------
(***************************************************************************)
(* session::CSqliteSessionHandler (sessionmgr/source/sessionhandle.cpp): a *)
(* session is a row of an sqlite table and an entry of the map m_sessions. *)
(* Users create, renew (resetLoseVaildTime) and destroy sessions; a timer  *)
(* thread destroys those whose time is over.  The process may be stopped   *)
(* or die at any point, and reads the table when it starts again.          *)
(*                                                                         *)
(* The table has a mutex of its own, taken by every statement, and a       *)
(* statement may fail.  m_mutex guards the writes of the map, not the      *)
(* reads; a write that does not find its session leaves m_mutex locked.    *)
(* sessionIsVaild() changes nothing and is left out.                       *)
(*                                                                         *)
(*   user:   idle -> insert -> add -> idle                 createSession   *)
(*           idle -> delete -> erase -> idle               destroySession  *)
(*           idle -> select -> update -> read -> renew -> idle      reset  *)
(*   timer:  sleep -> scan -> (delete -> erase ->) sleep, or ended         *)
(*   phase:  loading -> open -> freed -> flagged -> down -> loading        *)
(***************************************************************************)
EXTENDS Integers

CONSTANTS Users, Timer,  \* the threads
          Sessions,      \* the ids g_uuid generates, each once
          NoSession,
          Timeout,       \* the timeout of every session
          MaxTime,       \* bound: the clock stops there
          MaxIncidents   \* bound on failed statements, stops and crashes

ASSUME ThreadsAssumption == Timer \notin Users
ASSUME SessionsAssumption == NoSession \notin Sessions
ASSUME TimeAssumption == Timeout \in Nat /\ MaxTime \in Nat
ASSUME IncidentsAssumption == MaxIncidents \in Nat

VARIABLES clock,    \* getNowTimeStamp()
          db,       \* the table: when each session ends, or Absent
          mem,      \* m_sessions: likewise
          lock,     \* m_mutex between two steps: "free" or, for ever, "lost"
          phase,    \* of the process; "undefined" after undefined behaviour
          pc, arg,  \* where each thread is, and the session it works on
          stamp,    \* a new loseVaildTime computed and not yet written
          torn,     \* threads whose read of the map a write overlapped
          \* history:
          since,    \* when each thread's call began
          life,     \* what the users know of each session, see Lives
          promise,  \* the end a caller may count on
          misused,  \* sessions two threads worked on at once, or used late
          loaded,   \* the last start read the table
          incidents

threadVars == <<pc, arg, stamp, since>>
history == <<life, promise, misused, loaded>>
vars == <<clock, db, mem, lock, phase, threadVars, torn, history, incidents>>

Threads == Users \cup {Timer}
Absent == -1
Known == {s \in Sessions : mem[s] # Absent}
Stored == {s \in Sessions : db[s] # Absent}

\* new; asked for; returned by createSession; a user asked to destroy it;
\* destroySession returned true for it.
Lives == {"new", "asked", "given", "dropped", "gone"}

Started == [t \in Threads |-> IF t = Timer THEN "sleep" ELSE "idle"]

Init == /\ clock = 0
        /\ db = [s \in Sessions |-> Absent]
        /\ mem = [s \in Sessions |-> Absent]
        /\ lock = "free"
        /\ phase = "loading"
        /\ pc = Started
        /\ arg = [t \in Threads |-> NoSession]
        /\ stamp = [t \in Threads |-> 0]
        /\ torn = {}
        /\ since = [t \in Threads |-> 0]
        /\ life = [s \in Sessions |-> "new"]
        /\ promise = [s \in Sessions |-> Absent]
        /\ misused = {}
        /\ loaded = FALSE
        /\ incidents = 0

Tick == /\ clock < MaxTime
        /\ clock' = clock + 1
        /\ UNCHANGED <<db, mem, lock, phase, threadVars, torn, history, incidents>>

---------------------------------------------------------------------------
(* What the steps of the threads share *)

Alive == phase \in {"loading", "open", "freed", "flagged"}

Goto(t, label) == Alive /\ pc' = [pc EXCEPT ![t] = label]

\* t begins to work on s.
Begin(t, label, s) ==
    /\ Goto(t, label)
    /\ arg' = [arg EXCEPT ![t] = s]
    /\ since' = [since EXCEPT ![t] = clock]
    /\ misused' = IF (\E u \in Threads : arg[u] = s) \/ (label # "insert" /\ s \notin Known)
                  THEN misused \cup {s} ELSE misused

\* Faulty variant: the break of handleSession() also ends the thread's loop.
Home_AfterBreak(t) == IF t = Timer THEN "ended" ELSE "idle"

Home(t) == IF t = Timer THEN "sleep" ELSE "idle"

Return(t) ==
    /\ Goto(t, Home(t))
    /\ arg' = [arg EXCEPT ![t] = NoSession]
    /\ since' = [since EXCEPT ![t] = 0]
    /\ stamp' = [stamp EXCEPT ![t] = 0]

\* The caller may now count on the session until then.
Promise(t) == promise' = [promise EXCEPT ![arg[t]] = since[t] + Timeout]

Readers == {t \in Threads : pc[t] \in {"read", "scan"}}

Incident == incidents < MaxIncidents /\ incidents' = incidents + 1

---------------------------------------------------------------------------
(* Calls of the users; an id is passed on only after createSession returned *)

CallCreate(u, s) ==
    /\ pc[u] = "idle" /\ phase = "open"
    /\ life[s] = "new"
    /\ Begin(u, "insert", s)
    /\ stamp' = [stamp EXCEPT ![u] = clock + Timeout]
    /\ life' = [life EXCEPT ![s] = "asked"]
    /\ UNCHANGED <<clock, db, mem, lock, phase, torn, promise, loaded, incidents>>

CallDestroy(u, s) ==
    /\ pc[u] = "idle" /\ phase = "open"
    /\ life[s] \in {"given", "dropped", "gone"}
    /\ Begin(u, "delete", s)
    /\ life' = [life EXCEPT ![s] = IF @ = "gone" THEN "gone" ELSE "dropped"]
    /\ UNCHANGED <<clock, db, mem, lock, phase, stamp, torn, promise, loaded, incidents>>

CallReset(u, s) ==
    /\ pc[u] = "idle" /\ phase = "open"
    /\ life[s] \in {"given", "dropped", "gone"}
    /\ Begin(u, "select", s)
    /\ UNCHANGED <<clock, db, mem, lock, phase, stamp, torn, life, promise, loaded, incidents>>

---------------------------------------------------------------------------
(* Statements: the table *)

\* ~CSqliteSessionHandler has deleted m_handler.
HandlerGone == phase \in {"freed", "flagged"}

InsertRow(t) ==
    /\ pc[t] = "insert"
    /\ Goto(t, "add")
    /\ db' = [db EXCEPT ![arg[t]] = stamp[t]]
    /\ UNCHANGED <<clock, mem, lock, phase, arg, stamp, since, torn, history, incidents>>

\* Faulty variant: the row is left in the table.
DbWithout_Kept(s) == db

DbWithout(s) == [db EXCEPT ![s] = Absent]

DeleteRow(t) ==
    /\ pc[t] = "delete"
    /\ ~HandlerGone
    /\ Goto(t, "erase")
    /\ db' = DbWithout(arg[t])
    /\ UNCHANGED <<clock, mem, lock, phase, arg, stamp, since, torn, history, incidents>>

\* No row gives a timeout of 0, and then UpdateRow finds no row either.
SelectRow(t) ==
    /\ pc[t] = "select"
    /\ Goto(t, "update")
    /\ stamp' = [stamp EXCEPT ![t] = clock + Timeout]
    /\ UNCHANGED <<clock, db, mem, lock, phase, arg, since, torn, history, incidents>>

\* Faulty variant: the time is not a later one, but relative.
Renewed_Relative(t) == Timeout

Renewed(t) == stamp[t]

\* Faulty variant: the statement makes the row when there is none.
RowAfterUpdate_Upsert(t) == Renewed(t)

RowAfterUpdate(t) == IF db[arg[t]] = Absent THEN Absent ELSE Renewed(t)

UpdateRow(t) ==
    /\ pc[t] = "update"
    /\ Goto(t, "read")
    /\ db' = [db EXCEPT ![arg[t]] = RowAfterUpdate(t)]
    /\ UNCHANGED <<clock, mem, lock, phase, arg, stamp, since, torn, history, incidents>>

\* sqlite3_exec() returns an error and the operation ends there.
StatementFails(t) ==
    /\ pc[t] \in {"insert", "delete", "select", "update"}
    /\ ~HandlerGone
    /\ Return(t)
    /\ Incident
    /\ UNCHANGED <<clock, db, mem, lock, phase, torn, history>>

---------------------------------------------------------------------------
(* The map *)

\* Faulty variant: a session whose time is over counts as not there.
Missing_OrOver(t) == arg[t] \notin Known \/ mem[arg[t]] < clock

Missing(t) == arg[t] \notin Known

\* createSession: insertSessionToMemory(), with a clock of its own.
Add(t) ==
    /\ pc[t] = "add" /\ lock = "free"
    /\ Return(t)
    /\ mem' = [mem EXCEPT ![arg[t]] = clock + Timeout]
    /\ torn' = Readers
    /\ life' = [life EXCEPT ![arg[t]] = "given"]
    /\ Promise(t)
    /\ UNCHANGED <<clock, db, lock, phase, misused, loaded, incidents>>

\* deleteSessionFromMemory()
Erase(t) ==
    /\ pc[t] = "erase" /\ lock = "free"
    /\ arg[t] \in Known
    /\ Return(t)
    /\ mem' = [mem EXCEPT ![arg[t]] = Absent]
    /\ torn' = Readers
    /\ life' = [life EXCEPT ![arg[t]] = IF t = Timer THEN @ ELSE "gone"]
    /\ UNCHANGED <<clock, db, lock, phase, promise, misused, loaded, incidents>>

\* getSessionInfoFromMemory(), and the new time is computed.
Read(t) ==
    /\ pc[t] = "read"
    /\ arg[t] \in Known
    /\ Goto(t, "renew")
    /\ stamp' = [stamp EXCEPT ![t] = clock + Timeout]
    /\ torn' = torn \ {t}
    /\ UNCHANGED <<clock, db, mem, lock, phase, arg, since, history, incidents>>

\* Not in the map, or not found while the map changed.
ReadNothing(t) ==
    /\ pc[t] = "read"
    /\ Missing(t) \/ t \in torn
    /\ Return(t)
    /\ torn' = torn \ {t}
    /\ UNCHANGED <<clock, db, mem, lock, phase, history, incidents>>

\* updateLoseVaildTimeToMemory()
Renew(t) ==
    /\ pc[t] = "renew" /\ lock = "free"
    /\ arg[t] \in Known
    /\ Return(t)
    /\ mem' = [mem EXCEPT ![arg[t]] = stamp[t]]
    /\ Promise(t)
    /\ UNCHANGED <<clock, db, lock, phase, torn, life, misused, loaded, incidents>>

\* Both of them return without unlock() when the session is not there.
LoseLock(t) ==
    /\ pc[t] \in {"erase", "renew"} /\ lock = "free"
    /\ Missing(t)
    /\ Return(t)
    /\ lock' = "lost"
    /\ UNCHANGED <<clock, db, mem, phase, torn, history, incidents>>

---------------------------------------------------------------------------
(* The timer thread *)

Wake ==
    /\ pc[Timer] = "sleep"
    /\ Goto(Timer, IF phase = "flagged" THEN "ended" ELSE "scan")
    /\ UNCHANGED <<clock, db, mem, lock, phase, arg, stamp, since, torn, history, incidents>>

Over(s) == clock > mem[s]

\* handleSession() destroys the first session whose time is over.  Once
\* ~CSqliteSessionHandler is through, destroySession() is the base class's.
Expire(s) ==
    /\ pc[Timer] = "scan"
    /\ s \in Known
    /\ Over(s)
    /\ Begin(Timer, IF phase = "flagged" THEN "erase" ELSE "delete", s)
    /\ torn' = torn \ {Timer}
    /\ UNCHANGED <<clock, db, mem, lock, phase, stamp, life, promise, loaded, incidents>>

ScanNothing ==
    /\ pc[Timer] = "scan"
    /\ Timer \in torn \/ \A s \in Known : ~Over(s)
    /\ Goto(Timer, "sleep")
    /\ torn' = torn \ {Timer}
    /\ UNCHANGED <<clock, db, mem, lock, phase, arg, stamp, since, history, incidents>>

\* A read of nodes that move; the timer's id, which is a reference to a
\* string in a node erased meanwhile; a deleted m_handler.
Undefined ==
    /\ Alive
    /\ \/ torn # {}
       \/ pc[Timer] \in {"delete", "erase"} /\ arg[Timer] \notin Known
       \/ pc[Timer] = "delete" /\ HandlerGone
    /\ phase' = "undefined"
    /\ UNCHANGED <<clock, db, mem, lock, threadVars, torn, history, incidents>>

---------------------------------------------------------------------------
(* Start, stop and crash *)

\* The timer thread runs already; loadSessions() replaces the map.
Load ==
    /\ phase = "loading" /\ lock = "free"
    /\ phase' = "open"
    /\ mem' = db
    /\ torn' = Readers
    /\ loaded' = TRUE
    /\ UNCHANGED <<clock, db, lock, threadVars, life, promise, misused, incidents>>

\* getAllSessionInfo() fails, and nobody is told.
LoadFails ==
    /\ phase = "loading"
    /\ phase' = "open"
    /\ loaded' = FALSE
    /\ Incident
    /\ UNCHANGED <<clock, db, mem, lock, threadVars, torn, life, promise, misused>>

\* ~CSqliteSessionHandler(), when no user is inside.
Stop ==
    /\ phase = "open"
    /\ \A u \in Users : pc[u] = "idle"
    /\ phase' = "freed"
    /\ Incident
    /\ UNCHANGED <<clock, db, mem, lock, threadVars, torn, history>>

\* ~CSessionHandler(): the flag, and then join().
Flag ==
    /\ phase = "freed"
    /\ phase' = "flagged"
    /\ UNCHANGED <<clock, db, mem, lock, threadVars, torn, history, incidents>>

\* All that the process held is gone; the table stays.
Forget ==
    /\ phase' = "down"
    /\ mem' = [s \in Sessions |-> Absent]
    /\ lock' = "free"
    /\ pc' = Started
    /\ arg' = [t \in Threads |-> NoSession]
    /\ stamp' = [t \in Threads |-> 0]
    /\ since' = [t \in Threads |-> 0]
    /\ torn' = {}
    /\ UNCHANGED <<clock, db, history>>

Join ==
    /\ phase = "flagged"
    /\ pc[Timer] = "ended"
    /\ Forget
    /\ UNCHANGED incidents

Crash ==
    /\ Alive
    /\ Incident
    /\ Forget

Restart ==
    /\ phase = "down"
    /\ phase' = "loading"
    /\ UNCHANGED <<clock, db, mem, lock, threadVars, torn, history, incidents>>

---------------------------------------------------------------------------

Step(t) == \/ InsertRow(t) \/ DeleteRow(t) \/ SelectRow(t) \/ UpdateRow(t)
           \/ StatementFails(t)
           \/ Add(t) \/ Erase(t) \/ Read(t) \/ ReadNothing(t) \/ Renew(t)
           \/ LoseLock(t)

TimerStep == Wake \/ ScanNothing \/ Step(Timer) \/ \E s \in Sessions : Expire(s)

Call(u) == \E s \in Sessions : CallCreate(u, s) \/ CallDestroy(u, s) \/ CallReset(u, s)

Next == \/ Tick
        \/ \E u \in Users : Call(u) \/ Step(u)
        \/ TimerStep
        \/ Undefined
        \/ Load \/ LoadFails \/ Stop \/ Flag \/ Join \/ Crash \/ Restart

Spec == Init /\ [][Next]_vars

(***************************************************************************)
(* The timer thread keeps running.  Nobody has to call, stop or crash.     *)
(***************************************************************************)
FairSpec == Spec /\ WF_vars(TimerStep)

---------------------------------------------------------------------------
(* Properties *)

UserLabels == {"idle", "insert", "add", "delete", "erase",
               "select", "update", "read", "renew"}
TimerLabels == {"sleep", "scan", "delete", "erase", "ended"}

(* Every variable has its type. *)
TypeOK ==
    /\ clock \in Nat /\ incidents \in Nat
    /\ db \in [Sessions -> Nat \cup {Absent}]
    /\ mem \in [Sessions -> Nat \cup {Absent}]
    /\ lock \in {"free", "lost"}
    /\ phase \in {"loading", "open", "freed", "flagged", "down", "undefined"}
    /\ pc \in [Threads -> UserLabels \cup TimerLabels]
    /\ pc[Timer] \in TimerLabels /\ \A u \in Users : pc[u] \in UserLabels
    /\ arg \in [Threads -> Sessions \cup {NoSession}]
    /\ stamp \in [Threads -> Nat] /\ since \in [Threads -> Nat]
    /\ torn \in SUBSET Threads
    /\ life \in [Sessions -> Lives]
    /\ promise \in [Sessions -> Nat \cup {Absent}]
    /\ misused \in SUBSET Sessions
    /\ loaded \in BOOLEAN

WorksOn(t, label, s) == pc[t] = label /\ arg[t] = s

(* Table and map name the same sessions, whatever fails or crashes, but     *)
(* for one that a thread is just adding or erasing; and unless the table    *)
(* could not be read at the start, when its rows stay unknown.              *)
CopiesAgree == phase = "open" => \A s \in Sessions :
    /\ s \in Known /\ s \notin Stored => \E t \in Threads : WorksOn(t, "erase", s)
    /\ s \in Stored /\ s \notin Known =>
        ~loaded \/ \E t \in Threads : WorksOn(t, "add", s)

(* A session that destroySession() has ended does not come back, not by a   *)
(* reset under way and not by a restart.                                    *)
DestroyedForGood == \A s \in Sessions :
    life[s] = "gone" => s \notin Known \cup Stored

\* How table and map are seen as one store: a session lives as long as either has it.
Live(s) == s \in Known \cup Stored
Unmade(s) == life[s] = "new" \/ \E t \in Threads : WorksOn(t, "insert", s)
StateOf(s) == IF Live(s) THEN "live" ELSE IF Unmade(s) THEN "unmade" ELSE "past"
ToldOf(s) == IF life[s] \in {"new", "asked"} THEN "nothing"
             ELSE IF life[s] = "gone" THEN "destroyed" ELSE "created"
Store == INSTANCE SessionStore WITH state <- [s \in Sessions |-> StateOf(s)],
                                    told <- [s \in Sessions |-> ToldOf(s)]

(* Table and map together are one store: a session is made once, lives as   *)
(* long as either of them has it, and then never comes back, whoever else   *)
(* works on it, not by a reset under way and not by a restart; a caller     *)
(* hears that it was created while it lives, and that it was destroyed only *)
(* when both have lost it (sessionhandle.cpp:155-208).                      *)
ImplementsStore == Store!Spec

(* A session that nobody destroys is there until the end its creation or    *)
(* last renewal promised, restarts included: the timer thread does not end  *)
(* it early and a crash does not lose it.  The start must have read the     *)
(* table, and no two threads may have worked on the session at once.        *)
PromiseKept == \A s \in Sessions :
    life[s] = "given" /\ s \notin misused /\ phase = "open" /\ loaded
        /\ clock <= promise[s]
    => s \in Known

(* m_mutex stays locked for good only after a session was used by two       *)
(* threads at once, the timer thread among them, or after its end.          *)
LockLostByMisuse == lock = "lost" => \E s \in misused : s \notin Known

(* A session whose time is over is erased, or renewed, as long as the       *)
(* process runs and m_mutex is not lost: a statement that fails is retried. *)
OverdueEnds == \A s \in Sessions :
    s \in Known /\ Over(s) /\ phase = "open"
    ~> s \notin Known \/ ~Over(s) \/ lock = "lost" \/ phase # "open"
=============================================================================
