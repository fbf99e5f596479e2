--------------------------- MODULE ChannelProofs ---------------------------
(***************************************************************************)
(* Proofs about Channel for any finite sets of writers and readers, any    *)
(* capacity of at least one and any number of items.                       *)
(***************************************************************************)
EXTENDS Channel, FiniteSetTheorems, TLAPS

(* Type correctness of the channel (commuchannel.h:73-77). *)
THEOREM TypeCorrect == Spec => []TypeOK
<1>1. Init => TypeOK
  <2> SUFFICES ASSUME Init PROVE TypeOK
    OBVIOUS
  <2>1. queue \in Seq(Nat) /\ pushed \in Nat
    BY DEF Init
  <2>2. pc \in [Threads -> Labels] /\ timed \in SUBSET Readers /\ undefined \in BOOLEAN
    BY DEF Init, Labels
  <2>3. QED BY <2>1, <2>2 DEF TypeOK
<1>2. TypeOK /\ [Next]_vars => TypeOK'
  <2> SUFFICES ASSUME TypeOK, [Next]_vars PROVE TypeOK'
    OBVIOUS
  <2> USE DEF TypeOK, Labels, Threads, Goto, Item, Rest, SeesItem, MayWake
  <2>1. ASSUME NEW w \in Writers, Push(w) PROVE TypeOK'
    BY <2>1 DEF Push
  <2>2. ASSUME NEW w \in Writers, WriteBlock(w) \/ WriteLeave(w) PROVE TypeOK'
    BY <2>2 DEF WriteBlock, WriteLeave
  <2>3. ASSUME NEW r \in Readers, ReadBlock(r) \/ ReadPass(r) PROVE TypeOK'
    <3>1. timed' \in SUBSET Readers
      BY <2>3 DEF ReadBlock, ReadPass, ChooseOverload
    <3>2. QED BY <2>3, <3>1 DEF ReadBlock, ReadPass
  <2>4. ASSUME NEW r \in Readers, TimedOut(r) PROVE TypeOK'
    BY <2>4 DEF TimedOut
  <2>5. ASSUME NEW r \in Readers, Pop(r) PROVE TypeOK'
    BY <2>5 DEF Pop
  <2>6. ASSUME NEW r \in Readers, PopEmpty(r) PROVE TypeOK'
    BY <2>6 DEF PopEmpty
  <2>7. ASSUME NEW t \in Threads, Notify(t) PROVE TypeOK'
    BY <2>7 DEF Notify, Waiters
  <2>8. ASSUME NEW t \in Threads, SpuriousWake(t) PROVE TypeOK'
    BY <2>8 DEF SpuriousWake
  <2>9. CASE UNCHANGED vars
    BY <2>9 DEF vars
  <2>10. QED
    BY <2>1, <2>2, <2>3, <2>4, <2>5, <2>6, <2>7, <2>8, <2>9 DEF Next, Write, Read
<1>3. QED BY <1>1, <1>2, PTL DEF Spec

---------------------------------------------------------------------------
(* The overshoot bound *)

\* The cardinality of the overshooting writers is a natural number.
LEMMA OvershootingFinite ==
    /\ IsFiniteSet(Overshooting)
    /\ Cardinality(Overshooting) \in Nat
    /\ IsFiniteSet(Writers)
    /\ Cardinality(Writers) \in Nat
<1>1. Overshooting \in SUBSET Writers
  BY DEF Overshooting
<1>2. IsFiniteSet(Writers)
  BY ThreadsAssumption
<1>3. IsFiniteSet(Overshooting)
  BY <1>1, <1>2, FS_Subset
<1>4. QED BY <1>2, <1>3, FS_CardinalityType

\* The bound is inductive: a push adds an item and an overshooting writer,
\* and a writer ceases to overshoot only when it sees the queue with room.
LEMMA OvershootStep == TypeOK /\ OvershootBound /\ [Next]_vars => OvershootBound'
<1> SUFFICES ASSUME TypeOK, OvershootBound, [Next]_vars PROVE OvershootBound'
  OBVIOUS
<1> DEFINE S == Overshooting
<1> USE SizeAssumption DEF TypeOK, OvershootBound, Threads, Item, Rest, MayWake
<1>fin. /\ IsFiniteSet(S) /\ Cardinality(S) \in Nat
        /\ Len(queue) \in Nat
  BY OvershootingFinite
<1>fin2. ASSUME NEW T, T \subseteq Writers PROVE IsFiniteSet(T) /\ Cardinality(T) \in Nat
  BY <1>fin2, ThreadsAssumption, FS_Subset, FS_CardinalityType
<1>same. ASSUME S \subseteq S', queue' = queue \/ (queue # <<>> /\ queue' = Tail(queue))
         PROVE OvershootBound'
  <2>1. Cardinality(S) <= Cardinality(S')
    <3>1. S' \subseteq Writers
      BY DEF Overshooting
    <3>2. IsFiniteSet(S')
      BY <3>1, <1>fin2
    <3>3. QED BY <3>2, <1>same, FS_Subset
  <2>2. Cardinality(S') \in Nat
    BY <1>fin2 DEF Overshooting
  <2>3. Len(queue') <= Len(queue)
    BY <1>same
  <2>4. QED BY <2>1, <2>2, <2>3, <1>fin, <1>same
<1>1. ASSUME NEW w \in Writers, Push(w) PROVE OvershootBound'
  <2>1. S' = S \cup {w} /\ w \notin S
    BY <1>1 DEF Push, Goto, Overshooting
  <2>2. Cardinality(S') = Cardinality(S) + 1
    BY <2>1, <1>fin, FS_AddElement
  <2>3. Len(queue') = Len(queue) + 1
    BY <1>1 DEF Push
  <2>4. QED BY <2>2, <2>3, <1>fin
<1>2. ASSUME NEW w \in Writers, WriteBlock(w) PROVE OvershootBound'
  BY <1>2, <1>same DEF WriteBlock, Goto, Overshooting
<1>3. ASSUME NEW w \in Writers, WriteLeave(w) PROVE OvershootBound'
  <2>1. Len(queue') <= Size
    BY <1>3 DEF WriteLeave, HasRoom
  <2>2. Cardinality(S') \in Nat
    BY <1>fin2 DEF Overshooting
  <2>3. QED BY <2>1, <2>2, <1>fin, <1>3 DEF WriteLeave
<1>4. ASSUME NEW r \in Readers, Read(r) PROVE OvershootBound'
  <2>1. r \notin Writers
    BY ThreadsAssumption
  <2>2. \A w \in Writers : pc'[w] = pc[w]
    BY <1>4, <2>1 DEF Read, ReadBlock, ReadPass, TimedOut, Pop, PopEmpty, Goto
  <2>3. S' = S
    BY <2>2 DEF Overshooting
  <2>4. queue' = queue \/ (queue # <<>> /\ queue' = Tail(queue))
    BY <1>4 DEF Read, ReadBlock, ReadPass, TimedOut, Pop, PopEmpty
  <2>5. QED BY <2>3, <2>4, <1>same
<1>5. ASSUME NEW t \in Threads, Notify(t) PROVE OvershootBound'
  <2>1. S \subseteq S' /\ queue' = queue
    BY <1>5 DEF Notify, Waiters, Overshooting
  <2>2. QED BY <2>1, <1>same
<1>6. ASSUME NEW t \in Threads, SpuriousWake(t) PROVE OvershootBound'
  BY <1>6, <1>same DEF SpuriousWake, Goto, Overshooting
<1>7. CASE UNCHANGED vars
  BY <1>7, <1>same DEF vars, Overshooting
<1>8. QED
  BY <1>1, <1>2, <1>3, <1>4, <1>5, <1>6, <1>7 DEF Next, Write

(* The queue never holds more than m_size items plus one for each writer   *)
(* still inside write(): what the test of line 35 really guarantees.       *)
THEOREM OvershootBounded == Spec => []OvershootBound
<1>1. Init => OvershootBound
  BY OvershootingFinite, SizeAssumption DEF Init, OvershootBound
<1>2. QED BY <1>1, TypeCorrect, OvershootStep, PTL DEF Spec

---------------------------------------------------------------------------
(* A single reader finds its item *)

\* With one reader nobody takes the item it saw: only Pop shortens the queue,
\* and the thread that pops is the reader itself.
LEMMA ReaderFindsStep ==
    TypeOK /\ ReaderFindsItem /\ [Next]_vars => ReaderFindsItem'
<1> SUFFICES ASSUME TypeOK, ReaderFindsItem, [Next]_vars,
                    Cardinality(Readers) = 1
             PROVE  /\ ~undefined'
                    /\ \A r \in Readers : pc'[r] = "passed" => queue' # <<>>
  BY DEF ReaderFindsItem
<1>1. PICK r \in Readers : Readers = {r}
  <2>1. \E x : Readers = {x}
    BY ThreadsAssumption, FS_Singleton
  <2>2. QED BY <2>1
<1>2. ~undefined /\ (pc[r] = "passed" => queue # <<>>)
  BY <1>1 DEF ReaderFindsItem
<1>3. r \notin Writers
  BY ThreadsAssumption
<1> USE <1>1, <1>2, <1>3 DEF TypeOK, Threads, Goto, Item, Rest, SeesItem, MayWake
<1> SUFFICES ~undefined' /\ (pc'[r] = "passed" => queue' # <<>>)
  OBVIOUS
<1>4. ASSUME NEW w \in Writers, Write(w) PROVE ~undefined' /\ (pc'[r] = "passed" => queue' # <<>>)
  <2>1. pc'[r] = pc[r] /\ undefined' = undefined
    BY <1>4 DEF Write, Push, WriteBlock, WriteLeave
  <2>2. queue' = queue \/ queue' = Append(queue, Item)
    BY <1>4 DEF Write, Push, WriteBlock, WriteLeave
  <2>3. queue # <<>> => queue' # <<>>
    BY <2>2
  <2>4. QED BY <2>1, <2>3
<1>5. CASE Read(r)
  BY <1>5 DEF Read, ReadBlock, ReadPass, TimedOut, Pop, PopEmpty
<1>6. ASSUME NEW t \in Threads, Notify(t) \/ SpuriousWake(t) PROVE ~undefined' /\ (pc'[r] = "passed" => queue' # <<>>)
  BY <1>6 DEF Notify, Waiters, SpuriousWake
<1>7. CASE UNCHANGED vars
  BY <1>7 DEF vars
<1>8. QED BY <1>4, <1>5, <1>6, <1>7 DEF Next

(* With one reader, the item seen at line 44 is still there at line 49:     *)
(* front() and pop() are never called on an empty queue.                    *)
THEOREM SingleReaderSafe == Spec => []ReaderFindsItem
<1>1. Init => ReaderFindsItem
  BY DEF Init, ReaderFindsItem, Threads
<1>2. QED BY <1>1, TypeCorrect, ReaderFindsStep, PTL DEF Spec

---------------------------------------------------------------------------
(* One writer and one reader never wait for each other *)

(***************************************************************************)
(* NoLostWakeup is not inductive: that the reader waits while the writer   *)
(* is about to notify says nothing of how many items there are, and with   *)
(* more than one the writer could block instead of notifying.  A waiting   *)
(* reader leaves at most the one item that is about to be announced.       *)
(***************************************************************************)
PairInv(w, r) ==
    /\ pc[r] = "blocked" /\ queue # <<>> => Len(queue) = 1 /\ pc[w] \in {"pushed", "notify"}
    /\ pc[w] = "blocked" => Len(queue) > Size \/ pc[r] = "notify"

\* More than m_size items are more than one.
LEMMA AboveSize == \A n \in Nat : n > Size => n # 1 /\ n # 0
  BY SizeAssumption

LEMMA PairStep ==
    ASSUME NEW w \in Writers, NEW r \in Readers, Writers = {w}, Readers = {r},
           TypeOK, PairInv(w, r), [Next]_vars
    PROVE  PairInv(w, r)'
<1>1. w # r /\ Threads = {w, r}
  BY ThreadsAssumption DEF Threads
<1>2. Len(queue) \in Nat /\ (queue = <<>> <=> Len(queue) = 0)
  BY DEF TypeOK
<1> USE <1>1, <1>2, SizeAssumption DEF TypeOK, PairInv, Goto, Item, Rest, SeesItem, MayWake
<1>3. CASE Push(w)
  <2>1. Len(queue') = Len(queue) + 1
    BY <1>3 DEF Push
  <2>2. pc'[w] = "pushed" /\ pc'[r] = pc[r] /\ pc[w] = "idle"
    BY <1>3 DEF Push
  <2>3. QED BY <2>1, <2>2
<1>4. CASE WriteBlock(w) \/ WriteLeave(w)
  <2>1. queue' = queue /\ Len(queue') = Len(queue) /\ pc'[r] = pc[r]
    BY <1>4 DEF WriteBlock, WriteLeave
  <2>2. CASE WriteBlock(w)
    <3>1. pc'[w] = "blocked" /\ Len(queue) > Size /\ pc[w] \in {"pushed", "woken"}
      BY <2>2 DEF WriteBlock, HasRoom
    <3>2. Len(queue) # 1 /\ queue # <<>>
      BY ONLY <3>1, <1>2, AboveSize
    <3>3. pc[r] # "blocked"
      BY <3>2
    <3>4. QED BY <2>1, <3>1, <3>3
  <2>3. CASE WriteLeave(w)
    <3>1. pc'[w] = "notify"
      BY <2>3 DEF WriteLeave
    <3>2. QED BY <2>1, <3>1
  <2>4. QED BY <1>4, <2>2, <2>3
<1>5. CASE ReadBlock(r) \/ ReadPass(r)
  BY <1>5 DEF ReadBlock, ReadPass, Reading
<1>6. CASE TimedOut(r)
  BY <1>6 DEF TimedOut
<1>7. CASE Pop(r)
  <2>1. pc'[r] = "notify" /\ pc'[w] = pc[w]
    BY <1>7 DEF Pop
  <2>2. QED BY <2>1
<1>8. CASE PopEmpty(r)
  BY <1>8 DEF PopEmpty
<1>9. CASE Notify(w)
  <2>1. pc[r] = "blocked" => r \in Waiters
    BY DEF Waiters
  <2>2. Waiters \subseteq {r}
    BY <1>9 DEF Notify, Waiters
  <2>3. pc'[w] = "idle" /\ pc'[r] # "blocked" /\ queue' = queue
    BY <1>9, <2>1, <2>2 DEF Notify
  <2>4. QED BY <2>3
<1>10. CASE Notify(r)
  <2>1. pc[w] = "blocked" => w \in Waiters
    BY DEF Waiters
  <2>2. Waiters \subseteq {w}
    BY <1>10 DEF Notify, Waiters
  <2>3. pc'[r] = "idle" /\ pc'[w] # "blocked" /\ queue' = queue
    BY <1>10, <2>1, <2>2 DEF Notify
  <2>4. QED BY <2>3
<1>11. CASE SpuriousWake(w) \/ SpuriousWake(r)
  BY <1>11 DEF SpuriousWake
<1>12. CASE UNCHANGED vars
  BY <1>12 DEF vars
<1>13. QED
  BY <1>3, <1>4, <1>5, <1>6, <1>7, <1>8, <1>9, <1>10, <1>11, <1>12 DEF Next, Write, Read

\* The inductive invariant, stated for every instance so that it is a state
\* predicate: it says nothing unless there is one thread of each kind.
AllPairsInv == \A w \in Writers, r \in Readers :
                  Writers = {w} /\ Readers = {r} => PairInv(w, r)

(* With one writer and one reader no wake-up is lost: whoever waits without *)
(* a reason is about to be notified (the shared m_cv and notify_one of      *)
(* lines 35-39, 44-52).                                                     *)
THEOREM PairNeverStuck == Spec => []NoLostWakeup
<1>1. Init => AllPairsInv
  BY DEF Init, AllPairsInv, PairInv, Threads
<1>2. TypeOK /\ AllPairsInv /\ [Next]_vars => AllPairsInv'
  <2> SUFFICES ASSUME TypeOK, AllPairsInv, [Next]_vars,
                      NEW w \in Writers, NEW r \in Readers,
                      Writers = {w}, Readers = {r}
               PROVE  PairInv(w, r)'
    BY DEF AllPairsInv
  <2>1. PairInv(w, r)
    BY DEF AllPairsInv
  <2>2. QED BY <2>1, PairStep
<1>3. AllPairsInv => NoLostWakeup
  BY SizeAssumption DEF AllPairsInv, PairInv, NoLostWakeup, HasRoom
<1>4. QED BY <1>1, <1>2, <1>3, TypeCorrect, PTL DEF Spec

---------------------------------------------------------------------------
(* The channel implements a FIFO *)

\* A writer that pushes was not overshooting, so fewer than all of them were.
LEMMA PushBelowCapacity ==
    ASSUME TypeOK, OvershootBound, NEW w \in Writers, pc[w] = "idle"
    PROVE  Len(queue) < Size + Cardinality(Writers)
<1>1. Overshooting \subseteq Writers \ {w}
  BY DEF Overshooting
<1>2. /\ IsFiniteSet(Writers \ {w})
      /\ Cardinality(Writers \ {w}) = Cardinality(Writers) - 1
  BY OvershootingFinite, FS_RemoveElement
<1>3. Cardinality(Overshooting) <= Cardinality(Writers) - 1
  BY <1>1, <1>2, FS_Subset
<1>4. Len(queue) \in Nat
  BY DEF TypeOK
<1>5. QED BY <1>3, <1>4, OvershootingFinite, SizeAssumption DEF OvershootBound

(* The channel is a FIFO of capacity m_size + the number of writers: every  *)
(* push and every pop of any number of threads is a Put or a Take, and      *)
(* nothing else the threads do is visible.                                  *)
THEOREM ChannelIsFifo == Spec => ImplementsFifo
<1>1. Init => AsFifo!Init
  BY DEF Init, AsFifo!Init
<1>2. TypeOK /\ OvershootBound /\ [Next]_vars => [AsFifo!Next]_(AsFifo!vars)
  <2> SUFFICES ASSUME TypeOK, OvershootBound, Next PROVE [AsFifo!Next]_(AsFifo!vars)
    BY DEF vars, AsFifo!vars
  <2> USE DEF AsFifo!Next, AsFifo!vars, AsFifo!Put, AsFifo!Take, Item, Rest
  <2>1. ASSUME NEW w \in Writers, Push(w) PROVE AsFifo!Next
    BY <2>1, PushBelowCapacity DEF Push
  <2>2. ASSUME NEW w \in Writers, WriteBlock(w) \/ WriteLeave(w) PROVE UNCHANGED <<queue, pushed>>
    BY <2>2 DEF WriteBlock, WriteLeave
  <2>3. ASSUME NEW r \in Readers, Pop(r) PROVE AsFifo!Next
    BY <2>3 DEF Pop
  <2>4. ASSUME NEW r \in Readers, ReadBlock(r) \/ ReadPass(r) \/ TimedOut(r) \/ PopEmpty(r)
        PROVE  UNCHANGED <<queue, pushed>>
    BY <2>4 DEF ReadBlock, ReadPass, TimedOut, PopEmpty
  <2>5. ASSUME NEW t \in Threads, Notify(t) \/ SpuriousWake(t) PROVE UNCHANGED <<queue, pushed>>
    BY <2>5 DEF Notify, SpuriousWake
  <2>6. QED BY <2>1, <2>2, <2>3, <2>4, <2>5 DEF Next, Write, Read
<1>3. QED BY <1>1, <1>2, TypeCorrect, OvershootBounded, PTL DEF Spec, ImplementsFifo, AsFifo!Spec
===========================================================================
