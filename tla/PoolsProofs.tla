---------------------------- MODULE PoolsProofs -----------------------------
(***************************************************************************)
(* Proofs about the two connection pools.  ConnPool: for any number of     *)
(* callers and any m_max >= 1.  CurlConnMgr: for any number of callers,    *)
(* any m_max, and with redirections or without.                            *)
(***************************************************************************)
EXTENDS Pools, FiniteSetTheorems, TLAPS

\* The types alone; the bounds of TypeOK follow from the invariants below.
Typed ==
    /\ queue \in Seq(Nat) /\ busy \in Int /\ made \in Nat /\ jammed \in BOOLEAN
    /\ pc \in [Callers -> {"idle", "again", "toWait", "waiting", "woken", "toTake",
                           "holding", "notify", "threw"}]
    /\ conn \in [Callers -> Nat]

---------------------------------------------------------------------------
(* What a step does to the pool, whatever the control of the callers is *)

Moves == UNCHANGED <<queue, busy, made, conn, jammed>> /\ Holders' = Holders

Reuses(c) == /\ c \notin Holders /\ Holders' = Holders \cup {c}
             /\ queue # <<>> /\ queue' = Tail(queue) /\ busy' = busy + 1
             /\ conn' = [conn EXCEPT ![c] = Head(queue)]
             /\ made' = made /\ jammed' = jammed

Creates(c) == /\ c \notin Holders /\ Holders' = Holders \cup {c}
              /\ queue' = <<>> /\ busy + Len(queue) < Max
              /\ busy' = busy + Len(queue) + 1
              /\ conn' = [conn EXCEPT ![c] = made + 1]
              /\ made' = made + 1 /\ jammed' = jammed

Throws == /\ Holders' = Holders /\ queue' = <<>> /\ busy' = busy + Len(queue)
          /\ jammed' = TRUE /\ UNCHANGED <<made, conn>>

Frees(c) == /\ c \in Holders /\ Holders' = Holders \ {c}
            /\ queue' = Append(queue, conn[c]) /\ busy' = busy - 1
            /\ UNCHANGED <<made, conn, jammed>>

Effect == Moves \/ Throws \/ \E c \in Callers : Reuses(c) \/ Creates(c) \/ Frees(c)

\* The branch that creates runs on a queue of at most one connection.
LEMMA CreationLeavesNothing ==
    ASSUME Typed, MustCreate
    PROVE  /\ QueueAfterPop = <<>> /\ busy + Len(queue) < Max
           /\ BusyAfterPop = busy + Len(queue)
<1> USE DEF Typed
<1>1. CASE queue = <<>>
  BY <1>1 DEF MustCreate, QueueAfterPop, BusyAfterPop, Popped
<1>2. CASE queue # <<>>
  <2>1. QueueAfterPop = Tail(queue) /\ BusyAfterPop = busy + 1
    BY <1>2 DEF QueueAfterPop, BusyAfterPop, Popped
  <2>2. Len(Tail(queue)) = Len(queue) - 1 /\ Len(queue) \in Nat
    BY <1>2
  <2>3. Tail(queue) = <<>> /\ busy + 1 < Max
    BY <2>1 DEF MustCreate
  <2>4. Len(queue) = 1
    <3>1. \A q : q = <<>> => Len(q) = 0
      OBVIOUS
    <3>2. Len(Tail(queue)) = 0
      BY ONLY <2>3, <3>1
    <3>3. QED BY ONLY <2>2, <3>2
  <2>5. QED BY <2>1, <2>3, <2>4
<1>3. QED BY <1>1, <1>2

LEMMA StepEffect ==
    ASSUME Typed, [Next]_vars
    PROVE  Typed' /\ Effect
<1> USE DEF Typed, Goto
<1>1. ASSUME NEW c \in Callers, Check(c) \/ Wait(c) \/ Resume(c) \/ TakeNone(c) \/ SpuriousWake(c)
      PROVE  Typed' /\ Effect
  BY <1>1 DEF Check, Wait, Resume, TakeNone, SpuriousWake, Effect, Moves, Holders
<1>2. ASSUME NEW c \in Callers, NotifyAll(c) PROVE Typed' /\ Effect
  BY <1>2 DEF NotifyAll, Effect, Moves, Holders
<1>3. ASSUME NEW c \in Callers, TakeIdle(c) PROVE Typed' /\ Effect
  <2>1. queue # <<>> /\ Tail(queue) \in Seq(Nat) /\ Head(queue) \in Nat
    BY <1>3 DEF TakeIdle, Popped
  <2>2. Typed'
    BY <1>3, <2>1 DEF TakeIdle, Popped, QueueAfterPop, BusyAfterPop
  <2>3. Reuses(c)
    BY <1>3, <2>1 DEF TakeIdle, Popped, QueueAfterPop, BusyAfterPop, Reuses, Holders
  <2>4. QED BY <2>2, <2>3 DEF Effect
<1>4. ASSUME NEW c \in Callers, TakeNew(c) PROVE Typed' /\ Effect
  <2>1. queue' = <<>> /\ busy + Len(queue) < Max /\ busy' = busy + Len(queue) + 1 /\ Len(queue) \in Nat
    BY <1>4, CreationLeavesNothing DEF TakeNew
  <2>2. Typed'
    BY <1>4, <2>1 DEF TakeNew
  <2>3. c \notin Holders /\ Holders' = Holders \cup {c}
    BY <1>4 DEF TakeNew, Holders
  <2>4. Creates(c)
    BY <1>4, <2>1, <2>3 DEF TakeNew, Creates
  <2>5. QED BY <2>2, <2>4 DEF Effect
<1>5. ASSUME NEW c \in Callers, ConnectThrows(c) PROVE Typed' /\ Effect
  <2>1. queue' = <<>> /\ busy' = busy + Len(queue) /\ Len(queue) \in Nat
    BY <1>5, CreationLeavesNothing DEF ConnectThrows
  <2>2. Typed'
    BY <1>5, <2>1 DEF ConnectThrows
  <2>3. Holders' = Holders
    BY <1>5 DEF ConnectThrows, Holders
  <2>4. QED BY <1>5, <2>1, <2>2, <2>3 DEF ConnectThrows, Effect, Throws
<1>6. ASSUME NEW c \in Callers, Free(c) PROVE Typed' /\ Effect
  <2>1. Typed'
    BY <1>6 DEF Free, BusyAfterFree
  <2>2. Frees(c)
    BY <1>6 DEF Free, BusyAfterFree, Frees, Holders
  <2>3. QED BY <2>1, <2>2 DEF Effect
<1>7. CASE UNCHANGED vars
  BY <1>7 DEF vars, Effect, Moves, Holders
<1>8. QED BY <1>1, <1>2, <1>3, <1>4, <1>5, <1>6, <1>7 DEF Next

LEMMA AlwaysTyped == Spec => []Typed
<1>1. Init => Typed
  <2> SUFFICES ASSUME Init PROVE Typed
    OBVIOUS
  <2>1. queue = <<>> /\ <<>> \in Seq(Nat)
    BY DEF Init
  <2>2. conn \in [Callers -> Nat]
    BY DEF Init
  <2>3. queue \in Seq(Nat)
    BY ONLY <2>1
  <2>4. busy = 0 /\ made = 0
    BY DEF Init
  <2>5. busy \in Int /\ made \in Nat
    BY ONLY <2>4
  <2>6. jammed \in BOOLEAN
    BY DEF Init
  <2>7. QED BY <2>2, <2>3, <2>5, <2>6 DEF Init, Typed
<1>2. QED BY <1>1, StepEffect, PTL DEF Spec

---------------------------------------------------------------------------
(* Counting *)

(***************************************************************************)
(* m_busyCount and the queue add up to the connections made, the busy ones *)
(* include those in hand, and while the mutex works one connection at      *)
(* least is either in hand or idle: the branch that forgets the last idle  *)
(* one puts a new one in the caller's hand.                                *)
(***************************************************************************)
CountInv ==
    /\ ConnectionsBounded
    /\ Cardinality(Holders) <= busy
    /\ ~jammed /\ made > 0 => Holders # {} \/ queue # <<>>

LEMMA HoldersFinite == IsFiniteSet(Holders) /\ Cardinality(Holders) \in Nat
<1>1. IsFiniteSet(Holders)
  BY ConnPoolAssumption, FS_Subset DEF Holders
<1>2. QED BY <1>1, FS_CardinalityType

LEMMA CountStep ==
    ASSUME Typed, CountInv, Effect
    PROVE  CountInv'
<1> USE ConnPoolAssumption DEF Typed, CountInv, ConnectionsBounded
<1>a. Len(queue) \in Nat
  OBVIOUS
<1>1. CASE Moves
  BY <1>1 DEF Moves
<1>2. CASE Throws
  <2>1. Len(queue') = 0
    BY <1>2 DEF Throws
  <2>2. Holders' = Holders /\ busy' = busy + Len(queue) /\ made' = made /\ jammed'
    BY <1>2 DEF Throws
  <2>3. QED BY <1>a, <2>1, <2>2, HoldersFinite
<1>3. ASSUME NEW c \in Callers, Reuses(c) PROVE CountInv'
  <2>1. Len(queue') = Len(queue) - 1
    BY <1>3 DEF Reuses
  <2>2. Cardinality(Holders') = Cardinality(Holders) + 1 /\ Holders' # {}
    BY <1>3, HoldersFinite, FS_AddElement DEF Reuses
  <2>3. busy' = busy + 1 /\ made' = made
    BY <1>3 DEF Reuses
  <2>4. QED BY <1>a, <2>1, <2>2, <2>3, HoldersFinite
<1>4. ASSUME NEW c \in Callers, Creates(c) PROVE CountInv'
  <2>1. Len(queue') = 0
    BY <1>4 DEF Creates
  <2>2. Cardinality(Holders') = Cardinality(Holders) + 1 /\ Holders' # {}
    BY <1>4, HoldersFinite, FS_AddElement DEF Creates
  <2>3. busy' = busy + Len(queue) + 1 /\ made' = made + 1 /\ busy + Len(queue) < Max
    BY <1>4 DEF Creates
  <2>4. QED BY <1>a, <2>1, <2>2, <2>3, HoldersFinite
<1>5. ASSUME NEW c \in Callers, Frees(c) PROVE CountInv'
  <2>1. Len(queue') = Len(queue) + 1 /\ queue' # <<>>
    BY <1>5 DEF Frees
  <2>2. Cardinality(Holders') = Cardinality(Holders) - 1
    BY <1>5, HoldersFinite, FS_RemoveElement DEF Frees
  <2>3. busy' = busy - 1 /\ made' = made
    BY <1>5 DEF Frees
  <2>4. QED BY <1>a, <2>1, <2>2, <2>3, HoldersFinite
<1>6. QED BY <1>1, <1>2, <1>3, <1>4, <1>5 DEF Effect

LEMMA AlwaysCounted == Spec => []CountInv
<1>1. Init => CountInv
  <2> SUFFICES ASSUME Init PROVE CountInv
    OBVIOUS
  <2>1. Holders = {} /\ Len(queue) = 0 /\ busy = 0 /\ made = 0
    BY DEF Init, Holders
  <2>2. Cardinality(Holders) = 0
    BY <2>1, FS_EmptySet
  <2>3. QED BY <2>1, <2>2, ConnPoolAssumption DEF CountInv, ConnectionsBounded
<1>2. Typed /\ CountInv /\ [Next]_vars => CountInv'
  BY StepEffect, CountStep
<1>3. QED BY <1>1, <1>2, AlwaysTyped, PTL DEF Spec

(* The pool never makes more than m_max connections, for any m_max.         *)
THEOREM ConnPoolBounded == Spec => []ConnectionsBounded
<1>1. CountInv => ConnectionsBounded
  BY DEF CountInv
<1>2. QED BY <1>1, AlwaysCounted, PTL

(* Forgetting connections never exhausts the pool.                          *)
THEOREM ConnPoolNeverExhausted == Spec => []NeverExhausted
<1>1. Typed /\ CountInv => NeverExhausted
  <2> SUFFICES ASSUME Typed, CountInv, ~jammed, busy >= Max PROVE Holders # {}
    BY DEF NeverExhausted
  <2>1. Len(queue) \in Nat /\ (queue # <<>> => Len(queue) > 0)
    BY DEF Typed
  <2>2. made > 0 /\ queue = <<>>
    BY <2>1, ConnPoolAssumption DEF Typed, CountInv, ConnectionsBounded
  <2>3. QED BY <2>2 DEF CountInv
<1>2. QED BY <1>1, AlwaysTyped, AlwaysCounted, PTL

---------------------------------------------------------------------------
(* Exclusive use *)

(***************************************************************************)
(* Connections in the queue and in hand have been made, and no connection  *)
(* is at two places.                                                       *)
(***************************************************************************)
PlaceInv ==
    /\ \A i \in DOMAIN queue : queue[i] \in 1 .. made
    /\ \A c \in Callers : conn[c] \in 0 .. made
    /\ \A c \in Holders : conn[c] \in 1 .. made
    /\ \A i, j \in DOMAIN queue : queue[i] = queue[j] => i = j
    /\ \A c, d \in Holders : conn[c] = conn[d] => c = d
    /\ \A c \in Holders, i \in DOMAIN queue : queue[i] # conn[c]

\* Positions of a queue after a pop and after a push.
LEMMA Positions ==
    ASSUME Typed
    PROVE  /\ DOMAIN queue = 1 .. Len(queue) /\ Len(queue) \in Nat
           /\ queue # <<>> =>
                 /\ 1 \in DOMAIN queue /\ Head(queue) = queue[1]
                 /\ \A i \in DOMAIN Tail(queue) :
                       i \in Nat /\ i + 1 # 1 /\ i + 1 \in DOMAIN queue /\ Tail(queue)[i] = queue[i + 1]
                 /\ \A i \in DOMAIN queue : i # 1 =>
                       i - 1 \in DOMAIN Tail(queue) /\ Tail(queue)[i - 1] = queue[i]
           /\ \A r \in Nat : \A i \in DOMAIN Append(queue, r) :
                 \/ i \in DOMAIN queue /\ Append(queue, r)[i] = queue[i]
                 \/ i = Len(queue) + 1 /\ Append(queue, r)[i] = r
           /\ \A r \in Nat :
                 /\ Len(queue) + 1 \in DOMAIN Append(queue, r) /\ Append(queue, r)[Len(queue) + 1] = r
                 /\ \A i \in DOMAIN queue : i \in DOMAIN Append(queue, r) /\ Append(queue, r)[i] = queue[i]
  BY DEF Typed

LEMMA PlaceStep ==
    ASSUME Typed, PlaceInv, Effect
    PROVE  PlaceInv'
<1> USE DEF PlaceInv
<1>a. Holders \subseteq Callers /\ conn \in [Callers -> Nat] /\ made \in Nat
  BY DEF Holders, Typed
<1>1. CASE Moves
  BY <1>1 DEF Moves
<1>2. CASE Throws
  <2>1. DOMAIN queue' = {}
    BY <1>2 DEF Throws
  <2>2. QED BY <1>2, <2>1 DEF Throws
<1>3. ASSUME NEW c \in Callers, Reuses(c) PROVE PlaceInv'
  <2>1. queue # <<>> /\ queue' = Tail(queue) /\ made' = made /\ Holders' = Holders \cup {c} /\ c \notin Holders
    BY <1>3 DEF Reuses
  <2>2. 1 \in DOMAIN queue /\ conn' = [conn EXCEPT ![c] = queue[1]]
    BY <1>3, Positions DEF Reuses
  <2>3. \A i \in DOMAIN queue' : i \in Nat /\ i + 1 # 1 /\ i + 1 \in DOMAIN queue /\ queue'[i] = queue[i + 1]
    BY <2>1, Positions
  <2>4. conn'[c] = queue[1] /\ \A d \in Holders : conn'[d] = conn[d] /\ d # c
    BY <1>a, <2>1, <2>2
  <2>5. \A i, j \in DOMAIN queue' : queue'[i] = queue'[j] => i = j
    <3> TAKE i, j \in DOMAIN queue'
    <3> HAVE queue'[i] = queue'[j]
    <3>1. i + 1 = j + 1
      BY <2>3
    <3>2. QED BY <2>3, <3>1
  <2>6. \A i \in DOMAIN queue' : queue'[i] # queue[1]
    BY <2>2, <2>3
  <2>7. \A d \in Callers : conn'[d] \in 0 .. made'
    BY <1>a, <2>1, <2>2
  <2>8. QED BY <2>1, <2>2, <2>3, <2>4, <2>5, <2>6, <2>7
<1>4. ASSUME NEW c \in Callers, Creates(c) PROVE PlaceInv'
  <2>1. made' = made + 1 /\ Holders' = Holders \cup {c} /\ c \notin Holders /\ DOMAIN queue' = {}
    BY <1>4 DEF Creates
  <2>2. conn'[c] = made + 1 /\ \A d \in Holders : conn'[d] = conn[d] /\ d # c
    BY <1>4, <1>a DEF Creates
  <2>3. \A d \in Holders' : conn'[d] \in 1 .. made'
    BY <1>a, <2>1, <2>2
  <2>4. \A d \in Holders : conn[d] # made + 1
    BY <1>a
  <2>5. \A d \in Callers : conn'[d] \in 0 .. made'
    BY <1>4, <1>a DEF Creates
  <2>6. QED BY <2>1, <2>2, <2>3, <2>4, <2>5
<1>5. ASSUME NEW c \in Callers, Frees(c) PROVE PlaceInv'
  <2>1. c \in Holders /\ Holders' = Holders \ {c} /\ queue' = Append(queue, conn[c])
        /\ made' = made /\ conn' = conn
    BY <1>5 DEF Frees
  <2>2. \A i \in DOMAIN queue' : \/ i \in DOMAIN queue /\ queue'[i] = queue[i]
                                 \/ i = Len(queue) + 1 /\ queue'[i] = conn[c]
    BY <1>a, <2>1, Positions
  <2>3. QED BY <2>1, <2>2
<1>6. QED BY <1>1, <1>2, <1>3, <1>4, <1>5 DEF Effect

LEMMA AlwaysPlaced == Spec => []PlaceInv
<1>1. Init => PlaceInv
  BY DEF Init, PlaceInv, Holders
<1>2. Typed /\ PlaceInv /\ [Next]_vars => PlaceInv'
  BY StepEffect, PlaceStep
<1>3. QED BY <1>1, <1>2, AlwaysTyped, PTL DEF Spec

(* Every variable keeps its type, and m_busyCount never wraps below 0.      *)
THEOREM ConnPoolTypeCorrect == Spec => []TypeOK
<1>1. Typed /\ CountInv /\ PlaceInv => TypeOK
  <2> SUFFICES ASSUME Typed, CountInv, PlaceInv PROVE TypeOK
    OBVIOUS
  <2>1. queue \in Seq(1 .. made)
    BY DEF Typed, PlaceInv
  <2>2. busy \in Nat
    BY HoldersFinite DEF Typed, CountInv
  <2>3. conn \in [Callers -> 0 .. made]
    BY DEF Typed, PlaceInv
  <2>4. QED BY <2>1, <2>2, <2>3 DEF Typed, TypeOK
<1>2. QED BY <1>1, AlwaysTyped, AlwaysCounted, AlwaysPlaced, PTL

---------------------------------------------------------------------------
(* Refinement *)

Idle  == {queue[i] : i \in DOMAIN queue}
InUse == [c \in Callers |-> IF c \in Holders THEN {conn[c]} ELSE {}]

LEMMA RefinementStep ==
    ASSUME Typed, CountInv, PlaceInv, Effect, CountInv'
    PROVE  [AsPool!Next]_(AsPool!vars)
<1> USE DEF AsPool!vars
<1>a. Holders \subseteq Callers /\ conn \in [Callers -> Nat] /\ made \in Nat
  BY DEF Holders, Typed
<1>1. CASE Moves
  <2>1. InUse' = InUse /\ Idle' = Idle /\ made' = made
    BY <1>1 DEF Moves, InUse, Idle
  <2>2. QED BY <2>1 DEF InUse, Idle
<1>2. CASE Throws
  <2>1. InUse' = InUse /\ Idle' \subseteq Idle /\ made' = made
    BY <1>2 DEF Throws, InUse, Idle
  <2>2. QED BY <2>1 DEF InUse, Idle, AsPool!Next, AsPool!Forget
<1>3. ASSUME NEW c \in Callers, Reuses(c) PROVE AsPool!Take(c)
  <2> DEFINE r == queue[1]
  <2>1. queue # <<>> /\ queue' = Tail(queue) /\ made' = made /\ Holders' = Holders \cup {c} /\ c \notin Holders
    BY <1>3 DEF Reuses
  <2>2. 1 \in DOMAIN queue /\ conn' = [conn EXCEPT ![c] = r]
    BY <1>3, Positions DEF Reuses
  <2>3. r \in Idle
    BY <2>2 DEF Idle
  <2>4. InUse' = [InUse EXCEPT ![c] = @ \cup {r}]
    BY <1>a, <2>1, <2>2 DEF InUse
  <2>5. Idle' = Idle \ {r}
    <3>1. \A s \in Idle' : s \in Idle /\ s # r
      BY <2>1, <2>2, Positions DEF Idle, PlaceInv
    <3>2. ASSUME NEW s \in Idle, s # r PROVE s \in Idle'
      <4>1. PICK i \in DOMAIN queue : s = queue[i]
        BY DEF Idle
      <4>2. i - 1 \in DOMAIN Tail(queue) /\ Tail(queue)[i - 1] = s
        BY <2>1, <3>2, <4>1, Positions
      <4>3. QED BY <2>1, <4>2 DEF Idle
    <3>3. QED BY <2>1, <3>1, <3>2 DEF Idle
  <2>6. QED BY <2>1, <2>3, <2>4, <2>5 DEF AsPool!Take, InUse, Idle
<1>4. ASSUME NEW c \in Callers, Creates(c) PROVE AsPool!Make(c)
  <2>1. made' = made + 1 /\ Holders' = Holders \cup {c} /\ c \notin Holders /\ queue' = <<>>
        /\ conn' = [conn EXCEPT ![c] = made + 1]
    BY <1>4 DEF Creates
  <2>2. made < Max
    BY <1>a, <2>1, ConnPoolAssumption DEF CountInv, ConnectionsBounded
  <2>3. InUse' = [InUse EXCEPT ![c] = @ \cup {made + 1}]
    BY <1>a, <2>1 DEF InUse
  <2>4. Idle' \subseteq Idle
    BY <2>1 DEF Idle
  <2>5. QED BY <2>1, <2>2, <2>3, <2>4 DEF AsPool!Make, InUse, Idle
<1>5. ASSUME NEW c \in Callers, Frees(c) PROVE AsPool!Give(c)
  <2>1. c \in Holders /\ Holders' = Holders \ {c} /\ queue' = Append(queue, conn[c])
        /\ made' = made /\ conn' = conn
    BY <1>5 DEF Frees
  <2>2. conn[c] \in InUse[c] /\ InUse' = [InUse EXCEPT ![c] = @ \ {conn[c]}]
    BY <1>a, <2>1 DEF InUse
  <2>3. Idle' = Idle \cup {conn[c]}
    <3>1. \A s \in Idle' : s \in Idle \cup {conn[c]}
      BY <1>a, <2>1, Positions DEF Idle
    <3>2. \A s \in Idle \cup {conn[c]} : s \in Idle'
      BY <1>a, <2>1, Positions DEF Idle
    <3>3. QED BY <3>1, <3>2 DEF Idle
  <2>4. QED BY <2>1, <2>2, <2>3 DEF AsPool!Give, InUse, Idle
<1>6. QED BY <1>1, <1>2, <1>3, <1>4, <1>5 DEF Effect, AsPool!Next

(* The pool implements ResourcePool: exclusive use, and at most m_max       *)
(* connections.                                                             *)
THEOREM ConnPoolImplements == Spec => ImplementsPool
<1>1. Init => AsPool!Init
  BY DEF Init, AsPool!Init, Holders
<1>2. Typed /\ CountInv /\ CountInv' /\ PlaceInv /\ [Next]_vars => [AsPool!Next]_(AsPool!vars)
  BY StepEffect, RefinementStep
<1>3. QED
  BY <1>1, <1>2, AlwaysTyped, AlwaysCounted, AlwaysPlaced, PTL DEF Spec, ImplementsPool, AsPool!Spec

---------------------------------------------------------------------------
(* CurlConnMgr: the sequences of connections *)

LEMMA AppendPositions ==
    ASSUME NEW q \in Seq(Nat), NEW r \in Nat
    PROVE  /\ Append(q, r) \in Seq(Nat) /\ Len(Append(q, r)) = Len(q) + 1 /\ Len(q) \in Nat
           /\ DOMAIN q = 1 .. Len(q) /\ DOMAIN Append(q, r) = 1 .. Len(q) + 1
           /\ \A i \in DOMAIN q : Append(q, r)[i] = q[i]
           /\ Append(q, r)[Len(q) + 1] = r
  OBVIOUS

LEMMA TailPositions ==
    ASSUME NEW q \in Seq(Nat), q # <<>>
    PROVE  /\ Tail(q) \in Seq(Nat) /\ Head(q) = q[1] /\ q[1] \in Nat /\ 1 \in DOMAIN q
           /\ \A i \in DOMAIN Tail(q) : i + 1 \in DOMAIN q /\ i + 1 # 1 /\ Tail(q)[i] = q[i + 1]
           /\ \A i \in DOMAIN q : i # 1 => i - 1 \in DOMAIN Tail(q) /\ Tail(q)[i - 1] = q[i]
           /\ DOMAIN q \subseteq Nat /\ DOMAIN Tail(q) \subseteq Nat
  OBVIOUS

LEMMA FrontPositions ==
    ASSUME NEW q \in Seq(Nat), q # <<>>
    PROVE  /\ Curl!Front(q) \in Seq(Nat) /\ Len(Curl!Front(q)) = Len(q) - 1
           /\ Curl!Last(q) = q[Len(q)] /\ Curl!Last(q) \in Nat /\ Len(q) \in DOMAIN q
           /\ DOMAIN Curl!Front(q) = DOMAIN q \ {Len(q)}
           /\ \A i \in DOMAIN Curl!Front(q) : Curl!Front(q)[i] = q[i]
<1>1. Len(q) \in Nat /\ Len(q) >= 1 /\ q \in [1 .. Len(q) -> Nat]
  OBVIOUS
<1>2. Curl!Front(q) = [i \in 1 .. Len(q) - 1 |-> q[i]]
  BY <1>1 DEF Curl!Front
<1>3. Curl!Front(q) \in Seq(Nat) /\ Len(Curl!Front(q)) = Len(q) - 1
  BY <1>1, <1>2
<1> QED BY <1>1, <1>2, <1>3 DEF Curl!Last

CurlTyped ==
    /\ cQueue \in Seq(Nat) /\ cMade \in Nat /\ cCount \in Int
    /\ cPc \in [CurlCallers -> {"idle", "pop", "limit", "creating", "counting", "sending", "give"}]
    /\ cHeld \in [CurlCallers -> Seq(Nat)] /\ cSeen \in [CurlCallers -> Int] /\ cSends \in Int

\* How many connections a caller has at each place of its control.
DepthInv ==
    /\ CurlTyped
    /\ \A c \in CurlCallers :
        /\ Len(cHeld[c]) \in 0 .. Curl!Nesting
        /\ cPc[c] = "idle" => Len(cHeld[c]) = 0
        /\ cPc[c] \in {"pop", "limit", "creating"} => Len(cHeld[c]) < Curl!Nesting
        /\ cPc[c] \in {"counting", "sending", "give"} => Len(cHeld[c]) >= 1

Keeps == UNCHANGED <<cQueue, cMade, cHeld>>
Takes(c) == /\ cQueue # <<>> /\ cQueue' = Tail(cQueue) /\ cMade' = cMade
            /\ cHeld' = [cHeld EXCEPT ![c] = Append(@, cQueue[1])]
Makes(c) == /\ c \in Curl!Creating /\ cQueue' = cQueue /\ cMade' = cMade + 1
            /\ cHeld' = [cHeld EXCEPT ![c] = Append(@, cMade + 1)]
Gives(c) == /\ cHeld[c] # <<>> /\ cQueue' = Append(cQueue, Curl!Last(cHeld[c])) /\ cMade' = cMade
            /\ cHeld' = [cHeld EXCEPT ![c] = Curl!Front(@)]

CurlEffect == Keeps \/ \E c \in CurlCallers : Takes(c) \/ Makes(c) \/ Gives(c)

LEMMA CurlStep ==
    ASSUME DepthInv, [Curl!Next]_(Curl!vars)
    PROVE  DepthInv' /\ CurlEffect
<1> USE DEF DepthInv, CurlTyped, Curl!Goto
<1>n. Curl!Nesting \in {1, 2} /\ (Redirects => Curl!Nesting = 2)
  BY DEF Curl!Nesting
<1>1. ASSUME NEW c \in CurlCallers,
             \/ Curl!Send(c) \/ Curl!PopNone(c) \/ Curl!Admit(c) \/ Curl!CountUp(c)
             \/ Curl!Sleep(c)
             \/ Curl!Redirect(c) \/ Curl!Finish(c)
      PROVE  DepthInv' /\ CurlEffect
  <2>1. Keeps
    BY <1>1 DEF Curl!Send, Curl!PopNone, Curl!Admit, Curl!CountUp, Curl!Sleep, Curl!Redirect, Curl!Finish, Keeps
  <2>2. CurlTyped'
    <3>1. cSeen[c] + 1 \in Int
      OBVIOUS
    <3>2. cCount' \in Int /\ cSends' \in Int
      BY <1>1, <3>1 DEF Curl!Send, Curl!PopNone, Curl!Admit, Curl!CountUp, Curl!Sleep, Curl!Redirect, Curl!Finish,
                           Curl!Incremented
    <3>3. cPc' \in [CurlCallers -> {"idle", "pop", "limit", "creating", "counting", "sending", "give"}]
      BY <1>1 DEF Curl!Send, Curl!PopNone, Curl!Admit, Curl!CountUp, Curl!Sleep, Curl!Redirect, Curl!Finish
    <3>4. UNCHANGED cSeen
      BY <1>1 DEF Curl!Send, Curl!PopNone, Curl!Admit, Curl!CountUp, Curl!Sleep, Curl!Redirect, Curl!Finish
    <3> QED BY <2>1, <3>2, <3>3, <3>4 DEF Keeps
  <2>3. ASSUME NEW d \in CurlCallers, d # c PROVE cPc'[d] = cPc[d]
    BY <1>1, <2>3 DEF Curl!Send, Curl!PopNone, Curl!Admit, Curl!CountUp, Curl!Sleep, Curl!Redirect, Curl!Finish
  <2>4. /\ cPc'[c] = "pop" => Len(cHeld[c]) < Curl!Nesting
        /\ cPc'[c] \in {"limit", "creating"} => Len(cHeld[c]) < Curl!Nesting
        /\ cPc'[c] \in {"counting", "sending", "give"} => Len(cHeld[c]) >= 1
        /\ cPc'[c] # "idle"
    <3>2. CASE Curl!Send(c)
      BY <3>2, <1>n DEF Curl!Send
    <3>3. CASE Curl!Redirect(c)
      BY <3>3, <1>n DEF Curl!Redirect
    <3>4. CASE Curl!PopNone(c) \/ Curl!Admit(c) \/ Curl!CountUp(c) \/ Curl!Sleep(c) \/ Curl!Finish(c)
      BY <3>4 DEF Curl!PopNone, Curl!Admit, Curl!CountUp, Curl!Sleep, Curl!Finish
    <3> QED BY <1>1, <3>2, <3>3, <3>4
  <2> QED BY <2>1, <2>2, <2>3, <2>4 DEF Keeps, CurlEffect
<1>2. ASSUME NEW c \in CurlCallers, Curl!PopIdle(c) PROVE DepthInv' /\ CurlEffect
  <2>1. Head(cQueue) = cQueue[1] /\ cQueue[1] \in Nat /\ Tail(cQueue) \in Seq(Nat)
    BY <1>2, TailPositions DEF Curl!PopIdle
  <2>2. Takes(c)
    BY <1>2, <2>1 DEF Curl!PopIdle, Takes, Curl!QueueAfterPop
  <2>3. Append(cHeld[c], cQueue[1]) \in Seq(Nat) /\ Len(cHeld'[c]) = Len(cHeld[c]) + 1
    BY <2>1, <2>2 DEF Takes
  <2>4. CurlTyped'
    BY <1>2, <2>1, <2>2, <2>3 DEF Curl!PopIdle, Takes
  <2>5. ASSUME NEW d \in CurlCallers, d # c PROVE cPc'[d] = cPc[d] /\ cHeld'[d] = cHeld[d]
    BY <1>2, <2>2, <2>5 DEF Curl!PopIdle, Takes
  <2>6. cPc[c] = "pop" /\ cPc'[c] = "sending"
    BY <1>2 DEF Curl!PopIdle
  <2>7. Len(cHeld'[c]) \in 0 .. Curl!Nesting
    BY <2>3, <2>6, <1>n
  <2>8. DepthInv'
    <3> SUFFICES ASSUME NEW d \in CurlCallers
                 PROVE  /\ Len(cHeld'[d]) \in 0 .. Curl!Nesting
                        /\ cPc'[d] = "idle" => Len(cHeld'[d]) = 0
                        /\ cPc'[d] \in {"pop", "limit", "creating"} => Len(cHeld'[d]) < Curl!Nesting
                        /\ cPc'[d] \in {"counting", "sending", "give"} => Len(cHeld'[d]) >= 1
      BY <2>4
    <3>1. CASE d = c
      BY <3>1, <2>3, <2>6, <2>7, <1>n
    <3>2. CASE d # c
      BY <3>2, <2>5
    <3> QED BY <3>1, <3>2
  <2> QED BY <2>2, <2>8 DEF CurlEffect
<1>3. ASSUME NEW c \in CurlCallers, Curl!Create(c) PROVE DepthInv' /\ CurlEffect
  <2>2. Makes(c)
    BY <1>3 DEF Curl!Create, Makes, Curl!Creating
  <2>3. Append(cHeld[c], cMade + 1) \in Seq(Nat) /\ Len(cHeld'[c]) = Len(cHeld[c]) + 1
    BY <2>2 DEF Makes
  <2>4. CurlTyped'
    BY <1>3, <2>2, <2>3 DEF Curl!Create, Makes
  <2>5. ASSUME NEW d \in CurlCallers, d # c PROVE cPc'[d] = cPc[d] /\ cHeld'[d] = cHeld[d]
    BY <1>3, <2>2, <2>5 DEF Curl!Create, Makes
  <2>6. cPc[c] = "creating" /\ cPc'[c] = "counting"
    BY <1>3 DEF Curl!Create
  <2>7. Len(cHeld'[c]) \in 0 .. Curl!Nesting
    BY <2>3, <2>6, <1>n
  <2>8. DepthInv'
    <3> SUFFICES ASSUME NEW d \in CurlCallers
                 PROVE  /\ Len(cHeld'[d]) \in 0 .. Curl!Nesting
                        /\ cPc'[d] = "idle" => Len(cHeld'[d]) = 0
                        /\ cPc'[d] \in {"pop", "limit", "creating"} => Len(cHeld'[d]) < Curl!Nesting
                        /\ cPc'[d] \in {"counting", "sending", "give"} => Len(cHeld'[d]) >= 1
      BY <2>4
    <3>1. CASE d = c
      BY <3>1, <2>3, <2>6, <2>7, <1>n
    <3>2. CASE d # c
      BY <3>2, <2>5
    <3> QED BY <3>1, <3>2
  <2> QED BY <2>2, <2>8 DEF CurlEffect
<1>4. ASSUME NEW c \in CurlCallers, Curl!Give(c) PROVE DepthInv' /\ CurlEffect
  <2>1. cPc[c] = "give" /\ cHeld[c] # <<>> /\ Len(cHeld[c]) \in Nat
    <3>1. \A q : q = <<>> => Len(q) = 0
      OBVIOUS
    <3> QED BY <3>1, <1>4 DEF Curl!Give
  <2>2. Gives(c)
    BY <1>4, <2>1 DEF Curl!Give, Gives, Curl!QueueAfterGive
  <2>3. cHeld'[c] \in Seq(Nat) /\ Len(cHeld'[c]) = Len(cHeld[c]) - 1 /\ Curl!Last(cHeld[c]) \in Nat
    BY <2>1, <2>2, FrontPositions DEF Gives
  <2>4. CurlTyped'
    BY <1>4, <2>2, <2>3, <2>1, FrontPositions DEF Curl!Give, Gives
  <2>5. ASSUME NEW d \in CurlCallers, d # c PROVE cPc'[d] = cPc[d] /\ cHeld'[d] = cHeld[d]
    BY <1>4, <2>2, <2>5 DEF Curl!Give, Gives
  <2>6. cPc[c] = "give" /\ cPc'[c] = IF Len(cHeld[c]) = 1 THEN "idle" ELSE "give"
    BY <1>4 DEF Curl!Give
  <2>7. Len(cHeld'[c]) \in 0 .. Curl!Nesting
    BY <2>3, <2>6, <1>n
  <2>8. DepthInv'
    <3> SUFFICES ASSUME NEW d \in CurlCallers
                 PROVE  /\ Len(cHeld'[d]) \in 0 .. Curl!Nesting
                        /\ cPc'[d] = "idle" => Len(cHeld'[d]) = 0
                        /\ cPc'[d] \in {"pop", "limit", "creating"} => Len(cHeld'[d]) < Curl!Nesting
                        /\ cPc'[d] \in {"counting", "sending", "give"} => Len(cHeld'[d]) >= 1
      BY <2>4
    <3>1. CASE d = c
      <4>1. \/ Len(cHeld'[d]) = 0 /\ cPc'[d] = "idle"
            \/ Len(cHeld'[d]) >= 1 /\ cPc'[d] = "give"
        <5>1. CASE Len(cHeld[c]) = 1
          BY <3>1, <5>1, <2>3, <2>6
        <5>2. CASE Len(cHeld[c]) # 1
          <6>1. Len(cHeld[c]) \in Nat /\ Len(cHeld[c]) >= 1
            BY <2>1
          <6>2. Len(cHeld[c]) - 1 >= 1
            <7>1. \A n \in Nat : n >= 1 /\ n # 1 => n - 1 >= 1
              OBVIOUS
            <7> QED BY ONLY <5>2, <6>1, <7>1
          <6> QED BY ONLY <3>1, <5>2, <2>3, <2>6, <6>2
        <5> QED BY <5>1, <5>2
      <4> QED BY <3>1, <4>1, <2>7, <1>n
    <3>2. CASE d # c
      BY <3>2, <2>5
    <3> QED BY <3>1, <3>2
  <2> QED BY <2>2, <2>8 DEF CurlEffect
<1>5. CASE UNCHANGED Curl!vars
  BY <1>5 DEF Curl!vars, CurlEffect, Keeps
<1> QED BY <1>1, <1>2, <1>3, <1>4, <1>5 DEF Curl!Next, Curl!Working

---------------------------------------------------------------------------
(* Exclusive use *)

CurlPlaceInv ==
    /\ \A i \in DOMAIN cQueue : cQueue[i] \in 1 .. cMade
    /\ \A c \in CurlCallers : \A i \in DOMAIN cHeld[c] : cHeld[c][i] \in 1 .. cMade
    /\ \A i, j \in DOMAIN cQueue : cQueue[i] = cQueue[j] => i = j
    /\ \A c, d \in CurlCallers : \A i \in DOMAIN cHeld[c], j \in DOMAIN cHeld[d] :
          cHeld[c][i] = cHeld[d][j] => c = d /\ i = j
    /\ \A c \in CurlCallers : \A i \in DOMAIN cHeld[c], j \in DOMAIN cQueue : cHeld[c][i] # cQueue[j]
    /\ \A r \in 1 .. cMade : \/ \E i \in DOMAIN cQueue : cQueue[i] = r
                            \/ \E c \in CurlCallers : \E i \in DOMAIN cHeld[c] : cHeld[c][i] = r

\* What a caller's connections are after it got one more, and one less.
LEMMA OneMore ==
    ASSUME CurlTyped, NEW c \in CurlCallers, NEW r \in Nat, cHeld' = [cHeld EXCEPT ![c] = Append(@, r)]
    PROVE  LET top == Len(cHeld[c]) + 1 IN
           /\ top \in DOMAIN cHeld'[c] /\ cHeld'[c][top] = r /\ top \notin DOMAIN cHeld[c]
           /\ \A d \in CurlCallers : \A i \in DOMAIN cHeld[d] :
                 i \in DOMAIN cHeld'[d] /\ cHeld'[d][i] = cHeld[d][i]
           /\ \A d \in CurlCallers : \A i \in DOMAIN cHeld'[d] :
                 \/ i \in DOMAIN cHeld[d] /\ cHeld'[d][i] = cHeld[d][i]
                 \/ d = c /\ i = top /\ cHeld'[d][i] = r
<1>1. cHeld[c] \in Seq(Nat) /\ cHeld'[c] = Append(cHeld[c], r)
  BY DEF CurlTyped
<1>2. \A d \in CurlCallers : d # c => cHeld'[d] = cHeld[d]
  BY DEF CurlTyped
<1>3. /\ Len(cHeld[c]) \in Nat /\ DOMAIN cHeld[c] = 1 .. Len(cHeld[c])
      /\ DOMAIN cHeld'[c] = 1 .. Len(cHeld[c]) + 1
      /\ \A i \in DOMAIN cHeld[c] : cHeld'[c][i] = cHeld[c][i]
      /\ cHeld'[c][Len(cHeld[c]) + 1] = r
  <2>1. /\ Len(cHeld[c]) \in Nat /\ DOMAIN cHeld[c] = 1 .. Len(cHeld[c])
        /\ DOMAIN Append(cHeld[c], r) = 1 .. Len(cHeld[c]) + 1
        /\ \A i \in DOMAIN cHeld[c] : Append(cHeld[c], r)[i] = cHeld[c][i]
        /\ Append(cHeld[c], r)[Len(cHeld[c]) + 1] = r
    BY <1>1, AppendPositions
  <2> QED BY <1>1, <2>1
<1>4. \A i \in DOMAIN cHeld'[c] : i \in DOMAIN cHeld[c] \/ i = Len(cHeld[c]) + 1
  BY <1>3
<1> QED BY <1>2, <1>3, <1>4

LEMMA OneLess ==
    ASSUME CurlTyped, NEW c \in CurlCallers, cHeld[c] # <<>>, cHeld' = [cHeld EXCEPT ![c] = Curl!Front(@)]
    PROVE  LET top == Len(cHeld[c]) IN
           /\ top \in DOMAIN cHeld[c] /\ Curl!Last(cHeld[c]) = cHeld[c][top] /\ cHeld[c][top] \in Nat
           /\ \A d \in CurlCallers : \A i \in DOMAIN cHeld'[d] :
                 i \in DOMAIN cHeld[d] /\ cHeld'[d][i] = cHeld[d][i] /\ ~(d = c /\ i = top)
           /\ \A d \in CurlCallers : \A i \in DOMAIN cHeld[d] :
                 ~(d = c /\ i = top) => i \in DOMAIN cHeld'[d] /\ cHeld'[d][i] = cHeld[d][i]
<1>1. cHeld[c] \in Seq(Nat) /\ cHeld'[c] = Curl!Front(cHeld[c])
  BY DEF CurlTyped
<1>2. \A d \in CurlCallers : d # c => cHeld'[d] = cHeld[d]
  BY DEF CurlTyped
<1>3. /\ Curl!Last(cHeld[c]) = cHeld[c][Len(cHeld[c])] /\ Curl!Last(cHeld[c]) \in Nat
      /\ Len(cHeld[c]) \in DOMAIN cHeld[c]
      /\ DOMAIN cHeld'[c] = DOMAIN cHeld[c] \ {Len(cHeld[c])}
      /\ \A i \in DOMAIN cHeld'[c] : cHeld'[c][i] = cHeld[c][i]
  BY <1>1, FrontPositions
<1> QED BY <1>2, <1>3

LEMMA CurlPlaceStep ==
    ASSUME CurlTyped, CurlPlaceInv, CurlEffect
    PROVE  CurlPlaceInv'
<1>1. CASE Keeps
  BY <1>1 DEF Keeps, CurlPlaceInv
<1>2. ASSUME NEW c \in CurlCallers, Takes(c) PROVE CurlPlaceInv'
  <2> DEFINE r == cQueue[1]
             top == Len(cHeld[c]) + 1
  <2>1. /\ cQueue' = Tail(cQueue) /\ cQueue # <<>> /\ cMade' = cMade
        /\ cHeld' = [cHeld EXCEPT ![c] = Append(@, r)]
    BY <1>2 DEF Takes
  <2>2. /\ r \in Nat /\ 1 \in DOMAIN cQueue
        /\ \A i \in DOMAIN cQueue' : i \in Nat /\ i + 1 \in DOMAIN cQueue /\ i + 1 # 1
                                 /\ cQueue'[i] = cQueue[i + 1]
        /\ \A i \in DOMAIN cQueue : i # 1 => i - 1 \in DOMAIN cQueue' /\ cQueue'[i - 1] = cQueue[i]
    BY <2>1, TailPositions DEF CurlTyped
  <2>3. /\ top \in DOMAIN cHeld'[c] /\ cHeld'[c][top] = r
        /\ \A d \in CurlCallers : \A i \in DOMAIN cHeld[d] :
              i \in DOMAIN cHeld'[d] /\ cHeld'[d][i] = cHeld[d][i]
        /\ \A d \in CurlCallers : \A i \in DOMAIN cHeld'[d] :
              \/ i \in DOMAIN cHeld[d] /\ cHeld'[d][i] = cHeld[d][i]
              \/ d = c /\ i = top /\ cHeld'[d][i] = r
    <3>1. cHeld' = [cHeld EXCEPT ![c] = Append(@, r)]
      BY ONLY <2>1
    <3>2. r \in Nat
      BY ONLY <2>2
    <3> HIDE DEF r
    <3> QED BY <3>1, <3>2, OneMore
  <2>4. \A i \in DOMAIN cQueue' : cQueue'[i] \in 1 .. cMade' /\ cQueue'[i] # r
    BY <2>1, <2>2 DEF CurlPlaceInv
  <2>5. \A i, j \in DOMAIN cQueue' : cQueue'[i] = cQueue'[j] => i = j
    <3> TAKE i, j \in DOMAIN cQueue'
    <3> HAVE cQueue'[i] = cQueue'[j]
    <3>1. i + 1 = j + 1 /\ i \in Nat /\ j \in Nat
      BY <2>2 DEF CurlPlaceInv
    <3> QED BY <3>1
  <2>6. r \in 1 .. cMade /\ \A d \in CurlCallers : \A i \in DOMAIN cHeld[d] : cHeld[d][i] # r
    BY <2>2 DEF CurlPlaceInv
  <2>7. ASSUME NEW s \in 1 .. cMade'
        PROVE  \/ \E i \in DOMAIN cQueue' : cQueue'[i] = s
               \/ \E d \in CurlCallers : \E i \in DOMAIN cHeld'[d] : cHeld'[d][i] = s
    <3>1. CASE s = r
      BY <3>1, <2>3
    <3>2. ASSUME s # r, NEW i \in DOMAIN cQueue, cQueue[i] = s
          PROVE  \E k \in DOMAIN cQueue' : cQueue'[k] = s
      BY <3>2, <2>2
    <3>3. ASSUME NEW d \in CurlCallers, NEW i \in DOMAIN cHeld[d], cHeld[d][i] = s
          PROVE  \E e \in CurlCallers : \E k \in DOMAIN cHeld'[e] : cHeld'[e][k] = s
      <4>1. i \in DOMAIN cHeld'[d] /\ cHeld'[d][i] = s
        BY <3>3, <2>3
      <4> QED BY <4>1
    <3> QED BY <2>1, <3>1, <3>2, <3>3 DEF CurlPlaceInv
  <2> HIDE DEF r, top
  <2>8. \A d \in CurlCallers : \A i \in DOMAIN cHeld'[d] : cHeld'[d][i] \in 1 .. cMade'
    BY <2>1, <2>3, <2>6 DEF CurlPlaceInv
  <2>9. \A d, e \in CurlCallers : \A i \in DOMAIN cHeld'[d], j \in DOMAIN cHeld'[e] :
           cHeld'[d][i] = cHeld'[e][j] => d = e /\ i = j
    BY <2>3, <2>6 DEF CurlPlaceInv
  <2>10. \A d \in CurlCallers : \A i \in DOMAIN cHeld'[d], j \in DOMAIN cQueue' : cHeld'[d][i] # cQueue'[j]
    BY <2>2, <2>3, <2>4 DEF CurlPlaceInv
  <2> QED BY ONLY <2>4, <2>5, <2>7, <2>8, <2>9, <2>10 DEF CurlPlaceInv
<1>3. ASSUME NEW c \in CurlCallers, Makes(c) PROVE CurlPlaceInv'
  <2> DEFINE r == cMade + 1
             top == Len(cHeld[c]) + 1
  <2>1. cQueue' = cQueue /\ cMade' = r /\ cHeld' = [cHeld EXCEPT ![c] = Append(@, r)]
    BY <1>3 DEF Makes
  <2>2. r \in Nat /\ r \notin 1 .. cMade /\ 1 .. r = (1 .. cMade) \cup {r}
    BY DEF CurlTyped
  <2> HIDE DEF r
  <2>3. /\ top \in DOMAIN cHeld'[c] /\ cHeld'[c][top] = r
        /\ \A d \in CurlCallers : \A i \in DOMAIN cHeld[d] :
              i \in DOMAIN cHeld'[d] /\ cHeld'[d][i] = cHeld[d][i]
        /\ \A d \in CurlCallers : \A i \in DOMAIN cHeld'[d] :
              \/ i \in DOMAIN cHeld[d] /\ cHeld'[d][i] = cHeld[d][i]
              \/ d = c /\ i = top /\ cHeld'[d][i] = r
    BY <2>1, <2>2, OneMore
  <2> HIDE DEF top
  <2>4. ASSUME NEW s \in 1 .. cMade'
        PROVE  \/ \E i \in DOMAIN cQueue' : cQueue'[i] = s
               \/ \E d \in CurlCallers : \E i \in DOMAIN cHeld'[d] : cHeld'[d][i] = s
    <3>1. CASE s = r
      BY <3>1, <2>3
    <3>2. CASE \E i \in DOMAIN cQueue : cQueue[i] = s
      BY <3>2, <2>1
    <3>3. ASSUME NEW d \in CurlCallers, NEW i \in DOMAIN cHeld[d], cHeld[d][i] = s
          PROVE  \E e \in CurlCallers : \E k \in DOMAIN cHeld'[e] : cHeld'[e][k] = s
      <4>1. i \in DOMAIN cHeld'[d] /\ cHeld'[d][i] = s
        BY <3>3, <2>3
      <4> QED BY <4>1
    <3> QED BY <2>1, <2>2, <3>1, <3>2, <3>3 DEF CurlPlaceInv
  <2>5. \A d \in CurlCallers : \A i \in DOMAIN cHeld'[d] : cHeld'[d][i] \in 1 .. cMade'
    BY <2>1, <2>2, <2>3 DEF CurlPlaceInv
  <2>6. \A d, e \in CurlCallers : \A i \in DOMAIN cHeld'[d], j \in DOMAIN cHeld'[e] :
           cHeld'[d][i] = cHeld'[e][j] => d = e /\ i = j
    BY <2>2, <2>3 DEF CurlPlaceInv
  <2>7. \A d \in CurlCallers : \A i \in DOMAIN cHeld'[d], j \in DOMAIN cQueue' : cHeld'[d][i] # cQueue'[j]
    BY <2>1, <2>2, <2>3 DEF CurlPlaceInv
  <2>8. /\ \A i \in DOMAIN cQueue' : cQueue'[i] \in 1 .. cMade'
        /\ \A i, j \in DOMAIN cQueue' : cQueue'[i] = cQueue'[j] => i = j
    BY <2>1, <2>2 DEF CurlPlaceInv
  <2> QED BY ONLY <2>4, <2>5, <2>6, <2>7, <2>8 DEF CurlPlaceInv
<1>4. ASSUME NEW c \in CurlCallers, Gives(c) PROVE CurlPlaceInv'
  <2> DEFINE top == Len(cHeld[c])
             r == cHeld[c][top]
             n == Len(cQueue) + 1
  <2>1. /\ cQueue' = Append(cQueue, Curl!Last(cHeld[c])) /\ cMade' = cMade
        /\ cHeld' = [cHeld EXCEPT ![c] = Curl!Front(@)]
        /\ cHeld[c] # <<>>
    BY <1>4 DEF Gives
  <2>2. /\ Curl!Last(cHeld[c]) = r /\ r \in Nat /\ top \in DOMAIN cHeld[c]
        /\ \A d \in CurlCallers : \A i \in DOMAIN cHeld'[d] :
              i \in DOMAIN cHeld[d] /\ cHeld'[d][i] = cHeld[d][i] /\ ~(d = c /\ i = top)
        /\ \A d \in CurlCallers : \A i \in DOMAIN cHeld[d] :
              ~(d = c /\ i = top) => i \in DOMAIN cHeld'[d] /\ cHeld'[d][i] = cHeld[d][i]
    BY <2>1, OneLess
  <2>3. /\ n \in DOMAIN cQueue' /\ cQueue'[n] = r
        /\ \A i \in DOMAIN cQueue : i \in DOMAIN cQueue' /\ cQueue'[i] = cQueue[i]
        /\ \A i \in DOMAIN cQueue' : i = n \/ i \in DOMAIN cQueue
    <3>1. cQueue' = Append(cQueue, r) /\ cQueue \in Seq(Nat)
      BY <2>1, <2>2 DEF CurlTyped
    <3> QED BY <2>2, <3>1, AppendPositions
  <2>4. r \in 1 .. cMade /\ \A i \in DOMAIN cQueue : cQueue[i] # r
    BY <2>2 DEF CurlPlaceInv
  <2>5. \A d \in CurlCallers : \A i \in DOMAIN cHeld'[d] :
           i \in DOMAIN cHeld[d] /\ cHeld'[d][i] = cHeld[d][i] /\ cHeld'[d][i] # r
    BY <2>2 DEF CurlPlaceInv
  <2> HIDE DEF top, r, n
  <2>6. ASSUME NEW s \in 1 .. cMade'
        PROVE  \/ \E i \in DOMAIN cQueue' : cQueue'[i] = s
               \/ \E d \in CurlCallers : \E i \in DOMAIN cHeld'[d] : cHeld'[d][i] = s
    <3>1. CASE s = r
      BY <3>1, <2>3
    <3>2. CASE \E i \in DOMAIN cQueue : cQueue[i] = s
      BY <3>2, <2>3
    <3>3. ASSUME s # r, NEW d \in CurlCallers, NEW i \in DOMAIN cHeld[d], cHeld[d][i] = s
          PROVE  \E e \in CurlCallers : \E k \in DOMAIN cHeld'[e] : cHeld'[e][k] = s
      <4>1. i \in DOMAIN cHeld'[d] /\ cHeld'[d][i] = s
        BY <3>3, <2>2 DEF r
      <4> QED BY <4>1
    <3> QED BY <2>1, <3>1, <3>2, <3>3 DEF CurlPlaceInv
  <2>7. \A i \in DOMAIN cQueue' : cQueue'[i] \in 1 .. cMade'
    BY <2>1, <2>3, <2>4 DEF CurlPlaceInv
  <2>8. \A d \in CurlCallers : \A i \in DOMAIN cHeld'[d] : cHeld'[d][i] \in 1 .. cMade'
    BY <2>1, <2>5 DEF CurlPlaceInv
  <2>9. \A i, j \in DOMAIN cQueue' : cQueue'[i] = cQueue'[j] => i = j
    BY <2>3, <2>4 DEF CurlPlaceInv
  <2>10. \A d, e \in CurlCallers : \A i \in DOMAIN cHeld'[d], j \in DOMAIN cHeld'[e] :
           cHeld'[d][i] = cHeld'[e][j] => d = e /\ i = j
    BY <2>5 DEF CurlPlaceInv
  <2>11. \A d \in CurlCallers : \A i \in DOMAIN cHeld'[d], j \in DOMAIN cQueue' : cHeld'[d][i] # cQueue'[j]
    BY <2>3, <2>5 DEF CurlPlaceInv
  <2> QED BY ONLY <2>6, <2>7, <2>8, <2>9, <2>10, <2>11 DEF CurlPlaceInv
<1> QED BY <1>1, <1>2, <1>3, <1>4 DEF CurlEffect

LEMMA CurlPlaced == Curl!Spec => [](DepthInv /\ CurlPlaceInv)
<1>1. Curl!Init => DepthInv /\ CurlPlaceInv
  <2> SUFFICES ASSUME Curl!Init PROVE DepthInv /\ CurlPlaceInv
    OBVIOUS
  <2>0. <<>> \in Seq(Nat) /\ Len(<<>>) = 0 /\ DOMAIN <<>> = {}
    OBVIOUS
  <2>1. cQueue = <<>> /\ cMade = 0 /\ \A c \in CurlCallers : cHeld[c] = <<>> /\ cPc[c] = "idle"
    BY DEF Curl!Init
  <2>2. cHeld \in [CurlCallers -> Seq(Nat)]
    BY <2>0 DEF Curl!Init
  <2>3. CurlTyped
    BY <2>0, <2>1, <2>2 DEF Curl!Init, CurlTyped
  <2>4. Curl!Nesting \in {1, 2}
    BY DEF Curl!Nesting
  <2>5. DepthInv
    BY <2>0, <2>1, <2>3, <2>4 DEF DepthInv
  <2>6. 1 .. cMade = {}
    BY <2>1
  <2>7. CurlPlaceInv
    BY ONLY <2>0, <2>1, <2>6 DEF CurlPlaceInv
  <2> QED BY <2>5, <2>7
<1>2. DepthInv /\ CurlPlaceInv /\ [Curl!Next]_(Curl!vars) => DepthInv' /\ CurlPlaceInv'
  BY CurlStep, CurlPlaceStep DEF DepthInv
<1> QED BY <1>1, <1>2, PTL DEF Curl!Spec

---------------------------------------------------------------------------
(* Demand *)

LEMMA NestingPositive == Curl!Nesting \in {1, 2}
  BY DEF Curl!Nesting

(***************************************************************************)
(* When the queue is empty, every connection made takes one of the slots   *)
(* callers have, and who can hold one more leaves its last slot empty.     *)
(***************************************************************************)
LEMMA SlotsSuffice ==
    ASSUME DepthInv, CurlPlaceInv, cQueue = <<>>,
           NEW Wanting \in SUBSET CurlCallers, \A c \in Wanting : Len(cHeld[c]) < Curl!Nesting
    PROVE  cMade + Cardinality(Wanting) <= Curl!Nesting * Cardinality(CurlCallers)
<1> DEFINE Slots == CurlCallers \X (1 .. Curl!Nesting)
           Used  == {s \in Slots : s[2] \in DOMAIN cHeld[s[1]]}
           f     == [s \in Used |-> cHeld[s[1]][s[2]]]
           g     == [c \in Wanting |-> <<c, Curl!Nesting>>]
<1>1. IsFiniteSet(Slots) /\ Cardinality(Slots) = Cardinality(CurlCallers) * Curl!Nesting
  <2>1. IsFiniteSet(1 .. Curl!Nesting) /\ Cardinality(1 .. Curl!Nesting) = Curl!Nesting
    BY NestingPositive, FS_Interval
  <2> QED BY <2>1, CurlAssumption, FS_Product
<1>2. IsFiniteSet(Used) /\ IsFiniteSet(Slots \ Used)
      /\ Cardinality(Slots \ Used) = Cardinality(Slots) - Cardinality(Used)
  <2>1. Slots \cap Used = Used /\ Used \in SUBSET Slots
    OBVIOUS
  <2> HIDE DEF Slots, Used
  <2>2. IsFiniteSet(Used)
    BY ONLY <1>1, <2>1, FS_Subset
  <2>3. IsFiniteSet(Slots \ Used)
        /\ Cardinality(Slots \ Used) = Cardinality(Slots) - Cardinality(Slots \cap Used)
    BY ONLY <1>1, <2>2, FS_Difference
  <2> QED BY ONLY <2>1, <2>2, <2>3
<1>3. cMade <= Cardinality(Used)
  <2>1. f \in [Used -> 1 .. cMade]
    BY DEF CurlPlaceInv
  <2>2. ASSUME NEW r \in 1 .. cMade PROVE \E s \in Used : f[s] = r
    <3>1. DOMAIN cQueue = {}
      OBVIOUS
    <3>2. PICK c \in CurlCallers : \E i \in DOMAIN cHeld[c] : cHeld[c][i] = r
      BY <3>1 DEF CurlPlaceInv
    <3>3. PICK i \in DOMAIN cHeld[c] : cHeld[c][i] = r
      BY <3>2
    <3>4. i \in 1 .. Curl!Nesting
      BY NestingPositive DEF DepthInv, CurlTyped
    <3>5. <<c, i>> \in Used /\ f[<<c, i>>] = r
      BY <3>3, <3>4
    <3> QED BY <3>5
  <2>3. f \in Surjection(Used, 1 .. cMade)
    BY <2>1, <2>2 DEF Surjection
  <2>4. Cardinality(1 .. cMade) = cMade
    BY FS_Interval DEF DepthInv, CurlTyped
  <2> HIDE DEF f, Used
  <2> QED BY <1>2, <2>3, <2>4, FS_Surjection
<1>4. Cardinality(Wanting) <= Cardinality(Slots \ Used)
  <2>1. ASSUME NEW c \in Wanting PROVE <<c, Curl!Nesting>> \in Slots \ Used
    <3>1. Curl!Nesting \in 1 .. Curl!Nesting /\ Curl!Nesting \notin DOMAIN cHeld[c]
      BY NestingPositive DEF DepthInv, CurlTyped
    <3> QED BY <3>1
  <2>2. g \in [Wanting -> Slots \ Used] /\ \A c, d \in Wanting : g[c] = g[d] => c = d
    <3> HIDE DEF Slots, Used
    <3> QED BY <2>1
  <2>3. g \in Injection(Wanting, Slots \ Used)
    BY ONLY <2>2 DEF Injection, IsInjective
  <2> HIDE DEF g, Slots, Used
  <2> QED BY <1>2, <2>3, FS_Injection
<1>5. /\ Cardinality(Slots) \in Nat /\ Cardinality(Used) \in Nat /\ Cardinality(Wanting) \in Nat
      /\ Cardinality(CurlCallers) \in Nat /\ cMade \in Nat
  <2>1. IsFiniteSet(Wanting)
    BY CurlAssumption, FS_Subset
  <2> QED BY <1>1, <1>2, <2>1, CurlAssumption, FS_CardinalityType DEF DepthInv, CurlTyped
<1> HIDE DEF Slots, Used
<1>6. Cardinality(CurlCallers) * Curl!Nesting = Curl!Nesting * Cardinality(CurlCallers)
  BY <1>5, NestingPositive
<1> QED BY <1>1, <1>2, <1>3, <1>4, <1>5, <1>6

\* The Cardinality of the instance is the one of the library's theorems.
LEMMA SameCardinality == \A S : Curl!Cardinality(S) = Cardinality(S)
  BY DEF Curl!Cardinality, Cardinality

LEMMA DemandStep ==
    ASSUME DepthInv, CurlPlaceInv, MadeWithinDemand, [Curl!Next]_(Curl!vars)
    PROVE  MadeWithinDemand'
<1> DEFINE capacity == Curl!Nesting * Cardinality(CurlCallers)
<1>1. IsFiniteSet(Curl!Creating) /\ Cardinality(Curl!Creating) \in Nat /\ cMade \in Nat /\ capacity \in Nat
  <2>1. IsFiniteSet(Curl!Creating)
    BY CurlAssumption, FS_Subset DEF Curl!Creating
  <2> QED BY <2>1, NestingPositive, CurlAssumption, FS_CardinalityType DEF DepthInv, CurlTyped
<1>a. MadeWithinDemand <=> cMade + Cardinality(Curl!Creating) <= capacity
  BY SameCardinality DEF MadeWithinDemand, Curl!MadeWithinDemand
<1>b. MadeWithinDemand' <=> cMade' + Cardinality(Curl!Creating') <= capacity
  BY SameCardinality DEF MadeWithinDemand, Curl!MadeWithinDemand, Curl!Nesting
<1> HIDE DEF capacity
<1>2. ASSUME cMade' = cMade, Curl!Creating' = Curl!Creating PROVE MadeWithinDemand'
  BY <1>2, <1>a, <1>b
<1> USE DEF DepthInv, CurlTyped, Curl!Goto
<1>3. ASSUME NEW c \in CurlCallers,
             \/ Curl!Send(c) \/ Curl!PopIdle(c) \/ Curl!CountUp(c)
             \/ Curl!Redirect(c) \/ Curl!Finish(c) \/ Curl!Give(c)
      PROVE  MadeWithinDemand'
  <2>1. cMade' = cMade
    BY <1>3 DEF Curl!Send, Curl!PopIdle, Curl!CountUp, Curl!Redirect, Curl!Finish, Curl!Give
  <2>2. cPc[c] \notin {"limit", "creating"} /\ cPc'[c] \notin {"limit", "creating"}
    BY <1>3 DEF Curl!Send, Curl!PopIdle, Curl!CountUp, Curl!Redirect, Curl!Finish, Curl!Give
  <2>3. \A d \in CurlCallers : d # c => cPc'[d] = cPc[d]
    BY <1>3 DEF Curl!Send, Curl!PopIdle, Curl!CountUp, Curl!Redirect, Curl!Finish, Curl!Give
  <2>4. Curl!Creating' = Curl!Creating
    BY <2>2, <2>3 DEF Curl!Creating
  <2> QED BY <1>2, <2>1, <2>4
<1>4. ASSUME NEW c \in CurlCallers, Curl!PopNone(c) PROVE MadeWithinDemand'
  <2>1. cMade' = cMade /\ cQueue = <<>>
    BY <1>4 DEF Curl!PopNone
  <2>2. \A d \in Curl!Creating' : d \in CurlCallers /\ cPc[d] \in {"pop", "limit", "creating"}
    BY <1>4 DEF Curl!PopNone, Curl!Creating
  <2>3. Curl!Creating' \in SUBSET CurlCallers /\ \A d \in Curl!Creating' : Len(cHeld[d]) < Curl!Nesting
    BY <2>2
  <2>4. cMade + Cardinality(Curl!Creating') <= Curl!Nesting * Cardinality(CurlCallers)
    BY <2>1, <2>3, SlotsSuffice
  <2> QED BY <2>1, <2>4, <1>b DEF capacity
<1>5. ASSUME NEW c \in CurlCallers, Curl!Create(c) \/ Curl!Sleep(c) PROVE MadeWithinDemand'
  <2>1. cMade' \in {cMade, cMade + 1} /\ c \in Curl!Creating /\ Curl!Creating' = Curl!Creating \ {c}
    BY <1>5 DEF Curl!Create, Curl!Sleep, Curl!Creating
  <2>2. Cardinality(Curl!Creating') = Cardinality(Curl!Creating) - 1
    BY <1>1, <2>1, FS_RemoveElement
  <2> QED BY <1>1, <1>a, <1>b, <2>1, <2>2
<1>7. ASSUME NEW c \in CurlCallers, Curl!Admit(c) PROVE MadeWithinDemand'
  <2>1. cMade' = cMade /\ cPc[c] = "limit" /\ cPc' = [cPc EXCEPT ![c] = "creating"]
    BY <1>7 DEF Curl!Admit
  <2>2. Curl!Creating' = Curl!Creating
    BY <2>1 DEF Curl!Creating
  <2> QED BY <1>2, <2>1, <2>2
<1>6. CASE UNCHANGED Curl!vars
  <2>1. cMade' = cMade /\ Curl!Creating' = Curl!Creating
    BY <1>6 DEF Curl!vars, Curl!Creating
  <2> QED BY <1>2, <2>1
<1> QED BY <1>3, <1>4, <1>5, <1>6, <1>7 DEF Curl!Next, Curl!Working

(* However many callers pass the test of m_max at once, and whatever        *)
(* increments of m_count are lost, connections are made only for want of an *)
(* idle one (curl_conn_mgr.cpp:46-73): never more than the callers can hold *)
(* at once.                                                                 *)
THEOREM CurlMadeWithinDemand == Curl!Spec => []MadeWithinDemand
<1>1. Curl!Init => MadeWithinDemand
  <2> SUFFICES ASSUME Curl!Init PROVE MadeWithinDemand
    OBVIOUS
  <2>1. Curl!Creating = {} /\ cMade = 0
    BY DEF Curl!Init, Curl!Creating
  <2>2. Cardinality(Curl!Creating) = 0
    BY <2>1, FS_EmptySet
  <2>3. Curl!Nesting * Cardinality(CurlCallers) >= 0
    BY NestingPositive, CurlAssumption, FS_CardinalityType
  <2> QED BY <2>1, <2>2, <2>3, SameCardinality DEF MadeWithinDemand, Curl!MadeWithinDemand
<1> QED BY <1>1, DemandStep, CurlPlaced, PTL DEF Curl!Spec

---------------------------------------------------------------------------
(* Refinement *)

CurlIdle == {cQueue[i] : i \in DOMAIN cQueue}
CurlInUse == [c \in CurlCallers |-> {cHeld[c][i] : i \in DOMAIN cHeld[c]}]

\* What the mapped state is after a caller got one more connection, and one less.
LEMMA MoreInUse ==
    ASSUME CurlTyped, NEW c \in CurlCallers, NEW r \in Nat, cHeld' = [cHeld EXCEPT ![c] = Append(@, r)]
    PROVE  CurlInUse' = [CurlInUse EXCEPT ![c] = @ \cup {r}]
<1> DEFINE top == Len(cHeld[c]) + 1
<1>1. /\ top \in DOMAIN cHeld'[c] /\ cHeld'[c][top] = r
      /\ \A d \in CurlCallers : \A i \in DOMAIN cHeld[d] :
            i \in DOMAIN cHeld'[d] /\ cHeld'[d][i] = cHeld[d][i]
      /\ \A d \in CurlCallers : \A i \in DOMAIN cHeld'[d] :
            \/ i \in DOMAIN cHeld[d] /\ cHeld'[d][i] = cHeld[d][i]
            \/ d = c /\ i = top /\ cHeld'[d][i] = r
  BY OneMore
<1> HIDE DEF top
<1>2. \A d \in CurlCallers : d # c => cHeld'[d] = cHeld[d]
  BY DEF CurlTyped
<1>3. \A s \in CurlInUse'[c] : s \in CurlInUse[c] \cup {r}
  BY ONLY <1>1 DEF CurlInUse
<1>4. \A s \in CurlInUse[c] : s \in CurlInUse'[c]
  BY ONLY <1>1 DEF CurlInUse
<1>5. r \in CurlInUse'[c]
  BY ONLY <1>1 DEF CurlInUse
<1>6. CurlInUse'[c] = CurlInUse[c] \cup {r}
  BY ONLY <1>3, <1>4, <1>5
<1>7. ASSUME NEW d \in CurlCallers, d # c PROVE CurlInUse'[d] = CurlInUse[d]
  BY ONLY <1>2, <1>7 DEF CurlInUse
<1>8. DOMAIN CurlInUse = CurlCallers /\ CurlInUse' = [d \in CurlCallers |-> CurlInUse'[d]]
  BY DEF CurlInUse
<1>9. [CurlInUse EXCEPT ![c] = @ \cup {r}]
         = [d \in CurlCallers |-> IF d = c THEN CurlInUse[c] \cup {r} ELSE CurlInUse[d]]
  BY ONLY <1>8
<1> QED BY ONLY <1>6, <1>7, <1>8, <1>9

LEMMA LessInUse ==
    ASSUME CurlTyped, CurlPlaceInv, NEW c \in CurlCallers, cHeld[c] # <<>>,
           cHeld' = [cHeld EXCEPT ![c] = Curl!Front(@)]
    PROVE  CurlInUse' = [CurlInUse EXCEPT ![c] = @ \ {Curl!Last(cHeld[c])}]
<1> DEFINE top == Len(cHeld[c])
           r == Curl!Last(cHeld[c])
<1>1. /\ top \in DOMAIN cHeld[c] /\ cHeld[c][top] = r
      /\ \A d \in CurlCallers : \A i \in DOMAIN cHeld'[d] :
            i \in DOMAIN cHeld[d] /\ cHeld'[d][i] = cHeld[d][i] /\ ~(d = c /\ i = top)
      /\ \A d \in CurlCallers : \A i \in DOMAIN cHeld[d] :
            ~(d = c /\ i = top) => i \in DOMAIN cHeld'[d] /\ cHeld'[d][i] = cHeld[d][i]
  BY OneLess
<1>2. \A d \in CurlCallers : d # c => cHeld'[d] = cHeld[d]
  BY DEF CurlTyped
<1>a. \A i \in DOMAIN cHeld[c] : cHeld[c][i] = r => i = top
  BY <1>1 DEF CurlPlaceInv
<1> HIDE DEF top, r
<1>3. \A s \in CurlInUse'[c] : s \in CurlInUse[c] /\ s # r
  BY ONLY <1>1, <1>a DEF CurlInUse
<1>4. \A s \in CurlInUse[c] : s # r => s \in CurlInUse'[c]
  BY ONLY <1>1 DEF CurlInUse
<1>6. CurlInUse'[c] = CurlInUse[c] \ {r}
  BY ONLY <1>3, <1>4
<1>7. ASSUME NEW d \in CurlCallers, d # c PROVE CurlInUse'[d] = CurlInUse[d]
  BY ONLY <1>2, <1>7 DEF CurlInUse
<1>8. DOMAIN CurlInUse = CurlCallers /\ CurlInUse' = [d \in CurlCallers |-> CurlInUse'[d]]
  BY DEF CurlInUse
<1>9. [CurlInUse EXCEPT ![c] = @ \ {r}]
         = [d \in CurlCallers |-> IF d = c THEN CurlInUse[c] \ {r} ELSE CurlInUse[d]]
  BY ONLY <1>8
<1> QED BY ONLY <1>6, <1>7, <1>8, <1>9 DEF r

LEMMA CurlRefinementStep ==
    ASSUME DepthInv, CurlPlaceInv, MadeWithinDemand, CurlEffect
    PROVE  [Curl!AsPool!Next]_(Curl!AsPool!vars)
<1> USE DEF Curl!AsPool!vars, DepthInv, CurlTyped
<1>1. CASE Keeps
  BY <1>1 DEF Keeps
<1>2. ASSUME NEW c \in CurlCallers, Takes(c) PROVE Curl!AsPool!Take(c)
  <2> DEFINE r == cQueue[1]
  <2>1. /\ cQueue # <<>> /\ cQueue' = Tail(cQueue) /\ cMade' = cMade
        /\ cHeld' = [cHeld EXCEPT ![c] = Append(@, r)]
    BY <1>2 DEF Takes
  <2>2. /\ r \in Nat /\ 1 \in DOMAIN cQueue
        /\ \A i \in DOMAIN cQueue' : i + 1 \in DOMAIN cQueue /\ i + 1 # 1 /\ cQueue'[i] = cQueue[i + 1]
        /\ \A i \in DOMAIN cQueue : i # 1 => i - 1 \in DOMAIN cQueue' /\ cQueue'[i - 1] = cQueue[i]
    BY <2>1, TailPositions
  <2>3. CurlIdle' = CurlIdle \ {r}
    <3>1. \A s \in CurlIdle' : s \in CurlIdle /\ s # r
      BY <2>2 DEF CurlIdle, CurlPlaceInv
    <3>2. ASSUME NEW i \in DOMAIN cQueue, cQueue[i] # r PROVE cQueue[i] \in CurlIdle'
      BY <2>2, <3>2 DEF CurlIdle
    <3> QED BY <3>1, <3>2 DEF CurlIdle
  <2>4. CurlInUse' = [CurlInUse EXCEPT ![c] = @ \cup {r}]
    BY <2>1, <2>2, MoreInUse
  <2>5. r \in CurlIdle
    BY <2>2 DEF CurlIdle
  <2> QED BY <2>1, <2>3, <2>4, <2>5 DEF Curl!AsPool!Take, CurlIdle, CurlInUse
<1>3. ASSUME NEW c \in CurlCallers, Makes(c) PROVE Curl!AsPool!Make(c)
  <2>1. /\ c \in Curl!Creating /\ cQueue' = cQueue /\ cMade' = cMade + 1
        /\ cHeld' = [cHeld EXCEPT ![c] = Append(@, cMade + 1)]
    BY <1>3 DEF Makes
  <2>2. cMade < Curl!Nesting * Cardinality(CurlCallers)
    <3>1. IsFiniteSet(Curl!Creating)
      BY CurlAssumption, FS_Subset DEF Curl!Creating
    <3>2. Cardinality(Curl!Creating) \in Nat /\ Cardinality(Curl!Creating) # 0
      BY <2>1, <3>1, FS_CardinalityType, FS_EmptySet
    <3>3. Curl!Nesting * Cardinality(CurlCallers) \in Nat
      BY NestingPositive, CurlAssumption, FS_CardinalityType
    <3> QED BY <3>2, <3>3, SameCardinality DEF MadeWithinDemand, Curl!MadeWithinDemand
  <2>3. CurlIdle' = CurlIdle
    BY <2>1 DEF CurlIdle
  <2>4. CurlInUse' = [CurlInUse EXCEPT ![c] = @ \cup {cMade + 1}]
    <3>1. cMade + 1 \in Nat
      OBVIOUS
    <3> QED BY <2>1, <3>1, MoreInUse
  <2> QED BY <2>1, <2>2, <2>3, <2>4, SameCardinality DEF Curl!AsPool!Make, CurlIdle, CurlInUse
<1>4. ASSUME NEW c \in CurlCallers, Gives(c) PROVE Curl!AsPool!Give(c)
  <2> DEFINE top == Len(cHeld[c])
             r == cHeld[c][top]
  <2>1. /\ cQueue' = Append(cQueue, Curl!Last(cHeld[c])) /\ cMade' = cMade
        /\ cHeld' = [cHeld EXCEPT ![c] = Curl!Front(@)]
        /\ cHeld[c] # <<>>
    BY <1>4 DEF Gives
  <2>2. /\ Curl!Last(cHeld[c]) = r /\ r \in Nat /\ top \in DOMAIN cHeld[c]
        /\ \A d \in CurlCallers : \A i \in DOMAIN cHeld'[d] :
              i \in DOMAIN cHeld[d] /\ cHeld'[d][i] = cHeld[d][i] /\ ~(d = c /\ i = top)
        /\ \A d \in CurlCallers : \A i \in DOMAIN cHeld[d] :
              ~(d = c /\ i = top) => i \in DOMAIN cHeld'[d] /\ cHeld'[d][i] = cHeld[d][i]
    BY <2>1, OneLess
  <2>3. CurlIdle' = CurlIdle \cup {r}
    <3>1. cQueue' = Append(cQueue, r) /\ cQueue \in Seq(Nat)
      BY <2>1, <2>2
    <3>2. /\ Len(cQueue) + 1 \in DOMAIN cQueue' /\ cQueue'[Len(cQueue) + 1] = r
          /\ \A i \in DOMAIN cQueue : i \in DOMAIN cQueue' /\ cQueue'[i] = cQueue[i]
          /\ \A i \in DOMAIN cQueue' : i = Len(cQueue) + 1 \/ i \in DOMAIN cQueue
      BY <2>2, <3>1, AppendPositions
    <3> QED BY <3>2 DEF CurlIdle
  <2>4. CurlInUse' = [CurlInUse EXCEPT ![c] = @ \ {r}]
    <3>1. CurlInUse' = [CurlInUse EXCEPT ![c] = @ \ {Curl!Last(cHeld[c])}]
      BY <2>1, LessInUse
    <3>2. {Curl!Last(cHeld[c])} = {r}
      BY <2>2
    <3> QED BY ONLY <3>1, <3>2
  <2>5. r \in CurlInUse[c]
    BY <2>2 DEF CurlInUse
  <2> QED BY <2>1, <2>3, <2>4, <2>5 DEF Curl!AsPool!Give, CurlIdle, CurlInUse
<1> QED BY <1>1, <1>2, <1>3, <1>4 DEF CurlEffect, Curl!AsPool!Next

(* CurlConnMgr implements the pool: no connection is used by two sends at   *)
(* once, through every interleaving of create() and disconnect(), with and  *)
(* without redirections (curl_connect.cpp:222-271).                         *)
THEOREM CurlIsPool == Curl!Spec => CurlImplementsPool
<1>1. Curl!Init => Curl!AsPool!Init
  BY DEF Curl!Init, Curl!AsPool!Init
<1>2. DepthInv /\ CurlPlaceInv /\ MadeWithinDemand /\ [Curl!Next]_(Curl!vars)
      => [Curl!AsPool!Next]_(Curl!AsPool!vars)
  BY CurlStep, CurlRefinementStep
<1> QED BY <1>1, <1>2, CurlPlaced, CurlMadeWithinDemand, PTL
    DEF Curl!Spec, CurlImplementsPool, Curl!ImplementsPool, Curl!AsPool!Spec

---------------------------------------------------------------------------
(* Types *)

\* m_count is never above what was made, however increments are lost.
SeenInv ==
    /\ cCount \in 0 .. cMade /\ cSends \in 0 .. MaxSends
    /\ \A c \in CurlCallers : /\ cSeen[c] \in 0 .. cMade
                              /\ cPc[c] = "counting" => cSeen[c] < cMade

LEMMA SeenStep ==
    ASSUME CurlTyped, SeenInv, [Curl!Next]_(Curl!vars)
    PROVE  SeenInv'
<1> USE CurlAssumption DEF CurlTyped, SeenInv, Curl!Goto
<1>1. ASSUME NEW c \in CurlCallers,
             \/ Curl!PopIdle(c) \/ Curl!PopNone(c) \/ Curl!Admit(c) \/ Curl!Sleep(c) \/ Curl!Redirect(c)
             \/ Curl!Finish(c) \/ Curl!Give(c) \/ Curl!Send(c)
      PROVE  SeenInv'
  <2>1. /\ UNCHANGED <<cCount, cMade, cSeen>> /\ cSends' \in 0 .. MaxSends
        /\ \A d \in CurlCallers : cPc'[d] = "counting" => cPc[d] = "counting"
    BY <1>1 DEF Curl!PopIdle, Curl!PopNone, Curl!Admit, Curl!Sleep, Curl!Redirect, Curl!Finish, Curl!Give, Curl!Send
  <2> QED BY <2>1
<1>2. ASSUME NEW c \in CurlCallers, Curl!Create(c) PROVE SeenInv'
  <2>1. /\ cMade' = cMade + 1 /\ cSeen' = [cSeen EXCEPT ![c] = cCount] /\ UNCHANGED <<cCount, cSends>>
        /\ \A d \in CurlCallers : d # c => cPc'[d] = cPc[d]
    BY <1>2 DEF Curl!Create
  <2>2. cCount' \in 0 .. cMade' /\ cSends' \in 0 .. MaxSends
    BY <2>1
  <2>3. ASSUME NEW d \in CurlCallers
        PROVE  cSeen'[d] \in 0 .. cMade' /\ (cPc'[d] = "counting" => cSeen'[d] < cMade')
    <3>1. CASE d = c
      BY <2>1, <3>1
    <3>2. CASE d # c
      <4>1. cSeen'[d] = cSeen[d] /\ cPc'[d] = cPc[d] /\ cSeen[d] \in 0 .. cMade
            /\ (cPc[d] = "counting" => cSeen[d] < cMade)
        BY <2>1, <3>2
      <4> QED BY <2>1, <4>1
    <3> QED BY <3>1, <3>2
  <2> QED BY <2>2, <2>3
<1>3. ASSUME NEW c \in CurlCallers, Curl!CountUp(c) PROVE SeenInv'
  <2>1. /\ cPc[c] = "counting" /\ cCount' = cSeen[c] + 1 /\ UNCHANGED <<cMade, cSeen, cSends>>
        /\ \A d \in CurlCallers : cPc'[d] = "counting" => cPc[d] = "counting"
    BY <1>3 DEF Curl!CountUp, Curl!Incremented
  <2>2. cSeen[c] \in 0 .. cMade /\ cSeen[c] < cMade
    BY <2>1
  <2>3. cCount' \in 0 .. cMade'
    BY <2>1, <2>2
  <2> QED BY <2>1, <2>3
<1>4. CASE UNCHANGED Curl!vars
  BY <1>4 DEF Curl!vars
<1> QED BY <1>1, <1>2, <1>3, <1>4 DEF Curl!Next, Curl!Working

LEMMA SeqOfRange ==
    ASSUME NEW S, NEW s \in Seq(Nat), \A i \in DOMAIN s : s[i] \in S
    PROVE  s \in Seq(S)
<1>1. Len(s) \in Nat /\ s = [i \in 1 .. Len(s) |-> s[i]] /\ DOMAIN s = 1 .. Len(s)
  OBVIOUS
<1> QED BY <1>1

(* Every variable of CurlConnMgr keeps its type (curl_conn_mgr.cpp:46-73);  *)
(* in particular m_count is at most the number of connections made.         *)
THEOREM CurlTypeCorrect == Curl!Spec => []Curl!TypeOK
<1>1. Curl!Init => SeenInv
  BY CurlAssumption DEF Curl!Init, SeenInv
<1>2. DepthInv /\ CurlPlaceInv /\ SeenInv => Curl!TypeOK
  <2> SUFFICES ASSUME DepthInv, CurlPlaceInv, SeenInv PROVE Curl!TypeOK
    OBVIOUS
  <2> USE DEF DepthInv, CurlTyped, CurlPlaceInv, SeenInv
  <2>1. cQueue \in Seq(1 .. cMade)
    BY SeqOfRange
  <2>2. \A c \in CurlCallers : cHeld[c] \in Seq(1 .. cMade)
    BY SeqOfRange
  <2>3. cHeld \in [CurlCallers -> Seq(1 .. cMade)]
    BY <2>2
  <2>4. cSeen \in [CurlCallers -> 0 .. cMade]
    <3>1. cSeen \in [CurlCallers -> Int] /\ \A c \in CurlCallers : cSeen[c] \in 0 .. cMade
      OBVIOUS
    <3> QED BY ONLY <3>1
  <2> QED BY <2>1, <2>3, <2>4 DEF Curl!TypeOK
<1>3. DepthInv /\ SeenInv /\ [Curl!Next]_(Curl!vars) => SeenInv'
  BY SeenStep DEF DepthInv
<1> QED BY <1>1, <1>2, <1>3, CurlPlaced, PTL DEF Curl!Spec

---------------------------------------------------------------------------
(* Who waits for whom *)

\* When all callers are idle or wait for a connection, the next may be created.
NotAllWait ==
    /\ MaxConn > (Curl!Nesting - 1) * Cardinality(CurlCallers)
    /\ cQueue = <<>> /\ \A c \in CurlCallers : cPc[c] \in {"idle", "pop", "limit"}
    => cCount < MaxConn

(* Requests that hold a connection while they wait for a second one, to     *)
(* follow a redirection, never all wait for each other, provided m_max is   *)
(* above the number of connections that callers can keep so                 *)
(* (curl_conn_mgr.cpp:55-70, curl_connect.cpp:247-269): with redirections   *)
(* it takes one more than callers, without them a single one is enough.     *)
THEOREM CurlNotAllWait == Curl!Spec => []NotAllWait
<1>1. Curl!Init => SeenInv
  BY CurlAssumption DEF Curl!Init, SeenInv
<1>2. ASSUME DepthInv, CurlPlaceInv, SeenInv PROVE NotAllWait
  <2> DEFINE calling == Cardinality(CurlCallers)
  <2> SUFFICES ASSUME MaxConn > (Curl!Nesting - 1) * calling, cQueue = <<>>,
                      \A c \in CurlCallers : cPc[c] \in {"idle", "pop", "limit"}
               PROVE  cCount < MaxConn
    BY DEF NotAllWait
  <2>1. \A c \in CurlCallers : Len(cHeld[c]) < Curl!Nesting
    BY <1>2, NestingPositive DEF DepthInv
  <2>2. cMade + calling <= Curl!Nesting * calling
    BY <1>2, <2>1, SlotsSuffice
  <2>3. cCount <= cMade /\ cCount \in Int /\ cMade \in Int /\ calling \in Nat /\ MaxConn \in Int
    BY <1>2, CurlAssumption, FS_CardinalityType DEF DepthInv, CurlTyped, SeenInv
  <2> HIDE DEF calling
  <2> QED BY <2>2, <2>3, NestingPositive
<1>3. DepthInv /\ SeenInv /\ [Curl!Next]_(Curl!vars) => SeenInv'
  BY SeenStep DEF DepthInv
<1> QED BY <1>1, <1>2, <1>3, CurlPlaced, PTL DEF Curl!Spec
=============================================================================
