----------------------- MODULE ConnectionPoolProofs ------------------------
(***************************************************************************)
(* Proofs about ConnectionPool: its safety properties hold for any number  *)
(* of threads, connections and slots, and it implements LendingPool.       *)
(***************************************************************************)
EXTENDS PoolRefinement, FiniteSetTheorems, TLAPS

\* A thread has a connection in hand exactly from connect() to its return, its
\* end up on the idle list, or its close().
HeldWhileBusy ==
    \A t \in Threads :
        held[t] # NoConn <=> pc[t] \in {"configuring", "holding", "discarding"}

\* A sleeper can be found by notify().
SleepersListed == In({"asleep"}) \subseteq waiters

\* Only close() has connections to throw away that no thread has in hand.
DoomedByClose == doomed # {} => closed

\* The inductive invariant.
IInv ==
    /\ TypeOK
    /\ IsFiniteSet(idle)
    /\ SlotAccounting
    /\ HeldWhileBusy
    /\ Exclusive
    /\ NoLeak
    /\ SleepersListed
    /\ DoomedByClose
    /\ ClosedIsFinal

-----------------------------------------------------------------------------
(* Control states and slots *)

\* All that a step of thread t does to the control states of the others is to
\* wake sleepers.
Moves(t, next) ==
    /\ pc' \in [Threads -> States]
    /\ pc'[t] = next
    /\ \A u \in Threads \ {t} :
          pc'[u] = pc[u] \/ (pc[u] = "asleep" /\ pc'[u] = "woken")

\* Who moves, and who is woken, when the Condition's waiters W are notified.
LEMMA MoveAndWakeMoves ==
    ASSUME TypeOK, NEW t \in Threads, NEW next \in States, NEW W,
           MoveAndWake(t, next, W)
    PROVE  Moves(t, next)
BY DEF TypeOK, MoveAndWake, Moves, States

\* notify() moves its caller, and the list of waiters only shrinks.
LEMMA NotifyMoves ==
    ASSUME TypeOK, NEW t \in Threads, NEW next \in States, Notify(t, next)
    PROVE  Moves(t, next) /\ waiters' \subseteq waiters
BY MoveAndWakeMoves DEF Notify

\* One thread moves and nobody is woken.
LEMMA ExceptMoves ==
    ASSUME TypeOK, NEW t \in Threads, NEW next \in States,
           pc' = [pc EXCEPT ![t] = next]
    PROVE  Moves(t, next)
BY DEF TypeOK, Moves

\* Whatever threads are looked at, there are finitely many.
LEMMA SlotsFinite ==
    ASSUME NEW S
    PROVE  IsFiniteSet(In(S)) /\ Cardinality(In(S)) \in Nat
<1>1. In(S) \subseteq Threads
  BY DEF In
<1> QED
  BY <1>1, PoolAssumption, FS_Subset, FS_CardinalityType DEF PoolAssumption

\* A thread that reserves a slot is one more in SlotStates.
LEMMA SlotTaken ==
    ASSUME TypeOK, NEW t \in Threads, NEW next \in SlotStates,
           Moves(t, next), pc[t] \notin SlotStates
    PROVE  Cardinality(In(SlotStates))' = Cardinality(In(SlotStates)) + 1
<1>1. In(SlotStates)' = In(SlotStates) \cup {t}
  BY DEF In, Moves, SlotStates, TypeOK
<1>2. t \notin In(SlotStates)
  BY DEF In
<1> QED
  BY <1>1, <1>2, SlotsFinite, FS_AddElement

\* A thread that gives its slot back is one less in SlotStates.
LEMMA SlotFreed ==
    ASSUME TypeOK, NEW t \in Threads, NEW next \in States \ SlotStates,
           Moves(t, next), pc[t] \in SlotStates
    PROVE  /\ Cardinality(In(SlotStates))' = Cardinality(In(SlotStates)) - 1
           /\ Cardinality(In(SlotStates)) >= 1
<1>1. In(SlotStates)' = In(SlotStates) \ {t}
  BY DEF In, Moves, SlotStates, TypeOK
<1>2. t \in In(SlotStates)
  BY DEF In
<1>3. Cardinality(In(SlotStates)') = Cardinality(In(SlotStates)) - 1
  BY <1>1, <1>2, SlotsFinite, FS_RemoveElement
<1>4. Cardinality(In(SlotStates)) # 0
  BY <1>2, SlotsFinite, FS_EmptySet
<1> QED
  BY <1>3, <1>4, SlotsFinite

\* A thread that stays within, or outside of, SlotStates changes no count.
LEMMA SlotKept ==
    ASSUME TypeOK, NEW t \in Threads, NEW next \in States,
           Moves(t, next), pc[t] \in SlotStates <=> next \in SlotStates
    PROVE  In(SlotStates)' = In(SlotStates)
BY DEF In, Moves, SlotStates, TypeOK

-----------------------------------------------------------------------------
(* The invariant is inductive: one lemma per action *)

\* The body of getconn()'s loop keeps the invariant.
LEMMA TakeOrWaitKeeps ==
    ASSUME IInv, NEW t \in Threads, pc[t] \in {"out", "woken"}, TakeOrWait(t),
           UNCHANGED <<closed, doomed, live>>
    PROVE  IInv'
<1> USE DEF IInv
<1>1. CASE closed /\ pc' = [pc EXCEPT ![t] = "out"] /\ UNCHANGED <<idle, num, waiters, held>>
  <2>1. Moves(t, "out")
    BY <1>1, ExceptMoves DEF States
  <2>2. SlotAccounting'
    BY <1>1, <2>1, SlotKept DEF SlotAccounting, SlotStates, States
  <2> QED
    BY <1>1, <2>1, <2>2
    DEF TypeOK, Moves, HeldWhileBusy, Exclusive, NoLeak, SleepersListed,
        DoomedByClose, ClosedIsFinal, In
<1>2. CASE /\ ~closed
           /\ \E c \in idle :
                 /\ idle' = idle \ {c}
                 /\ held' = [held EXCEPT ![t] = c]
           /\ pc' = [pc EXCEPT ![t] = "holding"]
           /\ UNCHANGED <<num, waiters>>
  <2> PICK c \in idle : idle' = idle \ {c} /\ held' = [held EXCEPT ![t] = c]
    BY <1>2
  <2>1. Moves(t, "holding")
    BY <1>2, ExceptMoves DEF States
  <2>2. /\ IsFiniteSet(idle')
        /\ Cardinality(idle') = Cardinality(idle) - 1
        /\ Cardinality(idle) \in Nat
    BY FS_RemoveElement, FS_CardinalityType
  <2>3. SlotAccounting'
    <3>1. Cardinality(In(SlotStates))' = Cardinality(In(SlotStates)) + 1
      BY <2>1, SlotTaken DEF SlotStates
    <3> QED
      BY <1>2, <2>2, <3>1, SlotsFinite DEF SlotAccounting
  <2>4. TypeOK'
    BY <1>2, <2>1 DEF TypeOK, Moves
  <2>5. HeldWhileBusy' /\ Exclusive' /\ NoLeak'
    BY <1>2, <2>1, PoolAssumption
    DEF TypeOK, Moves, HeldWhileBusy, Exclusive, NoLeak, PoolAssumption
  <2> QED
    BY <1>2, <2>1, <2>2, <2>3, <2>4, <2>5
    DEF TypeOK, Moves, SleepersListed, DoomedByClose, ClosedIsFinal, In
<1>3. CASE /\ ~closed
           /\ idle = {}
           /\ Room
           /\ num' = num + 1
           /\ pc' = [pc EXCEPT ![t] = "opening"]
           /\ UNCHANGED <<idle, waiters, held>>
  <2>1. Moves(t, "opening")
    BY <1>3, ExceptMoves DEF States
  <2>2. SlotAccounting'
    <3>1. Cardinality(In(SlotStates))' = Cardinality(In(SlotStates)) + 1
      BY <2>1, SlotTaken DEF SlotStates
    <3>2. Cardinality(idle) = 0 /\ Cardinality(idle)' = Cardinality(idle)
      BY <1>3, FS_EmptySet
    <3>3. num' = num + 1 /\ num = Cardinality(idle) + Cardinality(In(SlotStates))
      BY <1>3 DEF SlotAccounting
    <3> QED
      BY <3>1, <3>2, <3>3, SlotsFinite DEF SlotAccounting
  <2>3. TypeOK'
    BY <1>3, <2>1, PoolAssumption DEF TypeOK, Moves, Room, PoolAssumption
  <2> QED
    BY <1>3, <2>1, <2>2, <2>3
    DEF TypeOK, Moves, HeldWhileBusy, Exclusive, NoLeak, SleepersListed,
        DoomedByClose, ClosedIsFinal, In
<1>4. CASE /\ ~closed
           /\ idle = {}
           /\ ~Room
           /\ waiters' = waiters \cup {t}
           /\ pc' = [pc EXCEPT ![t] = "asleep"]
           /\ UNCHANGED <<idle, num, held>>
  <2>1. Moves(t, "asleep")
    BY <1>4, ExceptMoves DEF States
  <2>2. SlotAccounting'
    BY <1>4, <2>1, SlotKept DEF SlotAccounting, SlotStates, States
  <2> QED
    BY <1>4, <2>1, <2>2
    DEF TypeOK, Moves, HeldWhileBusy, Exclusive, NoLeak, SleepersListed,
        DoomedByClose, ClosedIsFinal, In
<1> QED
  BY <1>1, <1>2, <1>3, <1>4 DEF TakeOrWait

\* The steps that touch neither the idle list, nor the count, nor close().
LEMMA WaitingStepsKeep ==
    ASSUME IInv, NEW t \in Threads,
           \/ Expire(t)
           \/ RaiseTimeout(t)
           \/ ConnectFails(t)
           \/ Configured(t)
           \/ CloseIdle(t)
           \/ CloseReturns(t)
    PROVE  IInv'
<1> USE DEF IInv
<1>1. CASE Expire(t)
  <2>1. Moves(t, "expired")
    BY <1>1, ExceptMoves DEF Expire, States
  <2>2. SlotAccounting'
    BY <1>1, <2>1, SlotKept DEF Expire, SlotAccounting, SlotStates, States
  <2> QED
    BY <1>1, <2>1, <2>2
    DEF Expire, TypeOK, Moves, HeldWhileBusy, Exclusive, NoLeak,
        SleepersListed, DoomedByClose, ClosedIsFinal, In
<1>2. CASE RaiseTimeout(t)
  <2>1. Moves(t, "out")
    BY <1>2, ExceptMoves DEF RaiseTimeout, States
  <2>2. SlotAccounting'
    BY <1>2, <2>1, SlotKept DEF RaiseTimeout, SlotAccounting, SlotStates, States
  <2> QED
    BY <1>2, <2>1, <2>2
    DEF RaiseTimeout, TypeOK, Moves, HeldWhileBusy, Exclusive, NoLeak,
        SleepersListed, DoomedByClose, ClosedIsFinal, In
<1>3. CASE ConnectFails(t)
  <2>1. Moves(t, "failed")
    BY <1>3, ExceptMoves DEF ConnectFails, States
  <2>2. SlotAccounting'
    BY <1>3, <2>1, SlotKept DEF ConnectFails, SlotAccounting, SlotStates, States
  <2> QED
    BY <1>3, <2>1, <2>2
    DEF ConnectFails, TypeOK, Moves, HeldWhileBusy, Exclusive, NoLeak,
        SleepersListed, DoomedByClose, ClosedIsFinal, In
<1>4. CASE Configured(t)
  <2>1. Moves(t, "holding")
    BY <1>4, ExceptMoves DEF Configured, States
  <2>2. SlotAccounting'
    BY <1>4, <2>1, SlotKept DEF Configured, SlotAccounting, SlotStates, States
  <2> QED
    BY <1>4, <2>1, <2>2
    DEF Configured, TypeOK, Moves, HeldWhileBusy, Exclusive, NoLeak,
        SleepersListed, DoomedByClose, ClosedIsFinal, In
<1>5. CASE CloseIdle(t)
  <2>1. SlotAccounting' /\ HeldWhileBusy' /\ SleepersListed' /\ ClosedIsFinal'
    BY <1>5 DEF CloseIdle, SlotAccounting, HeldWhileBusy, SleepersListed,
                ClosedIsFinal, In
  <2> QED
    BY <1>5, <2>1, PoolAssumption
    DEF CloseIdle, TypeOK, Exclusive, NoLeak, DoomedByClose, PoolAssumption
<1>6. CASE CloseReturns(t)
  <2>1. Moves(t, "out")
    BY <1>6, ExceptMoves DEF CloseReturns, States
  <2>2. SlotAccounting'
    BY <1>6, <2>1, SlotKept DEF CloseReturns, SlotAccounting, SlotStates, States
  <2> QED
    BY <1>6, <2>1, <2>2
    DEF CloseReturns, TypeOK, Moves, HeldWhileBusy, Exclusive, NoLeak,
        SleepersListed, DoomedByClose, ClosedIsFinal, In
<1> QED
  BY <1>1, <1>2, <1>3, <1>4, <1>5, <1>6

\* The steps outside of the lock that open or close one connection.
LEMMA ConnectKeeps ==
    ASSUME IInv, NEW t \in Threads, Connect(t)
    PROVE  IInv'
<1> USE DEF IInv
<1>1. Moves(t, "configuring")
  BY ExceptMoves DEF Connect, States
<1>2. SlotAccounting'
  BY <1>1, SlotKept DEF Connect, SlotAccounting, SlotStates, States
<1>3. PICK c \in Conns \ live :
        live' = live \cup {c} /\ held' = [held EXCEPT ![t] = c]
  BY DEF Connect
<1>4. TypeOK'
  BY <1>1, <1>3 DEF Connect, TypeOK, Moves
<1>5. HeldWhileBusy' /\ Exclusive' /\ NoLeak'
  BY <1>1, <1>3, PoolAssumption
  DEF Connect, TypeOK, Moves, HeldWhileBusy, Exclusive, NoLeak, PoolAssumption
<1> QED
  BY <1>1, <1>2, <1>4, <1>5
  DEF Connect, TypeOK, Moves, SleepersListed, DoomedByClose, ClosedIsFinal, In

\* A connection that cannot be configured is closed, and its slot still taken.
LEMMA ConfigureFailsKeeps ==
    ASSUME IInv, NEW t \in Threads, ConfigureFails(t)
    PROVE  IInv'
<1> USE DEF IInv
<1>1. Moves(t, "failed")
  BY ExceptMoves DEF ConfigureFails, States
<1>2. SlotAccounting'
  BY <1>1, SlotKept DEF ConfigureFails, SlotAccounting, SlotStates, States
<1>3. TypeOK'
  BY <1>1 DEF ConfigureFails, TypeOK, Moves
<1>4. HeldWhileBusy' /\ Exclusive' /\ NoLeak'
  BY <1>1, PoolAssumption
  DEF ConfigureFails, TypeOK, Moves, HeldWhileBusy, Exclusive, NoLeak,
      PoolAssumption
<1> QED
  BY <1>1, <1>2, <1>3, <1>4
  DEF ConfigureFails, TypeOK, Moves, SleepersListed, DoomedByClose,
      ClosedIsFinal, In

\* Closing a connection whose slot was given back keeps the invariant.
LEMMA DiscardKeeps ==
    ASSUME IInv, NEW t \in Threads, Discard(t)
    PROVE  IInv'
<1> USE DEF IInv
<1>1. Moves(t, "out")
  BY ExceptMoves DEF Discard, States
<1>2. SlotAccounting'
  BY <1>1, SlotKept DEF Discard, SlotAccounting, SlotStates, States
<1>3. TypeOK'
  BY <1>1 DEF Discard, TypeOK, Moves
<1>4. HeldWhileBusy' /\ Exclusive' /\ NoLeak'
  BY <1>1, PoolAssumption
  DEF Discard, TypeOK, Moves, HeldWhileBusy, Exclusive, NoLeak, PoolAssumption
<1> QED
  BY <1>1, <1>2, <1>3, <1>4
  DEF Discard, TypeOK, Moves, SleepersListed, DoomedByClose, ClosedIsFinal, In

\* getconn() gives back the slot of a connection that did not open.
LEMMA ReleaseSlotKeeps ==
    ASSUME IInv, NEW t \in Threads, ReleaseSlot(t)
    PROVE  IInv'
<1> USE DEF IInv
<1>1. Moves(t, "out") /\ waiters' \subseteq waiters
  BY NotifyMoves DEF ReleaseSlot, States
<1>2. /\ Cardinality(In(SlotStates))' = Cardinality(In(SlotStates)) - 1
      /\ Cardinality(In(SlotStates)) >= 1
  BY <1>1, SlotFreed DEF ReleaseSlot, States, SlotStates
<1>3. SlotAccounting' /\ num' \in 0..MaxSize
  BY <1>2, SlotsFinite, FS_CardinalityType, PoolAssumption
  DEF ReleaseSlot, SlotAccounting, TypeOK, PoolAssumption
<1>4. SleepersListed'
  BY <1>1 DEF ReleaseSlot, SleepersListed, In, Notify, MoveAndWake, TypeOK
<1> QED
  BY <1>1, <1>3, <1>4
  DEF ReleaseSlot, TypeOK, Moves, HeldWhileBusy, Exclusive, NoLeak,
      DoomedByClose, ClosedIsFinal, In

\* putconn() with a connection that is kept.
LEMMA PutBackKeeps ==
    ASSUME IInv, NEW t \in Threads, PutBack(t)
    PROVE  IInv'
<1> USE DEF IInv
<1>1. Moves(t, "out") /\ waiters' \subseteq waiters
  BY NotifyMoves DEF PutBack, States
<1>2. held[t] \in Conns /\ held[t] \notin idle
  BY DEF PutBack, HeldWhileBusy, Exclusive, TypeOK
<1>3. /\ IsFiniteSet(idle')
      /\ Cardinality(idle') = Cardinality(idle) + 1
      /\ Cardinality(idle) \in Nat
  BY <1>2, FS_AddElement, FS_CardinalityType DEF PutBack
<1>4. Cardinality(In(SlotStates))' = Cardinality(In(SlotStates)) - 1
  BY <1>1, SlotFreed DEF PutBack, States, SlotStates
<1>5. SlotAccounting'
  BY <1>3, <1>4, SlotsFinite DEF PutBack, SlotAccounting
<1>6. TypeOK'
  BY <1>1, <1>2 DEF PutBack, TypeOK, Moves
<1>7. HeldWhileBusy' /\ Exclusive' /\ NoLeak'
  BY <1>1, <1>2, PoolAssumption
  DEF PutBack, TypeOK, Moves, HeldWhileBusy, Exclusive, NoLeak, PoolAssumption,
      DoomedByClose
<1>8. SleepersListed'
  BY <1>1 DEF PutBack, SleepersListed, In, Notify, MoveAndWake, TypeOK
<1> QED
  BY <1>3, <1>5, <1>6, <1>7, <1>8
  DEF PutBack, DoomedByClose, ClosedIsFinal

\* putconn() with a connection that is discarded.
LEMMA PutAwayKeeps ==
    ASSUME IInv, NEW t \in Threads, NEW discard \in BOOLEAN, PutAway(t, discard)
    PROVE  IInv'
<1> USE DEF IInv
<1>1. Moves(t, "discarding") /\ waiters' \subseteq waiters
  BY NotifyMoves DEF PutAway, States
<1>2. /\ Cardinality(In(SlotStates))' = Cardinality(In(SlotStates)) - 1
      /\ Cardinality(In(SlotStates)) >= 1
  BY <1>1, SlotFreed DEF PutAway, States, SlotStates
<1>3. SlotAccounting' /\ num' \in 0..MaxSize
  BY <1>2, SlotsFinite, FS_CardinalityType, PoolAssumption
  DEF PutAway, SlotAccounting, TypeOK, PoolAssumption
<1>4. SleepersListed'
  BY <1>1 DEF PutAway, SleepersListed, In, Notify, MoveAndWake, TypeOK
<1> QED
  BY <1>1, <1>3, <1>4
  DEF PutAway, TypeOK, Moves, HeldWhileBusy, Exclusive, NoLeak,
      DoomedByClose, ClosedIsFinal, In

\* close() takes all idle connections out of the count at once.
LEMMA CloseKeeps ==
    ASSUME IInv, NEW t \in Threads, Close(t)
    PROVE  IInv'
<1> USE DEF IInv
<1>1. Moves(t, "closing")
  BY MoveAndWakeMoves DEF Close, States
<1>2. In(SlotStates)' = In(SlotStates)
  BY <1>1, SlotKept DEF Close, States, SlotStates
<1>3. SlotAccounting' /\ num' \in 0..MaxSize
  BY <1>2, SlotsFinite, FS_CardinalityType, FS_EmptySet, PoolAssumption
  DEF Close, SlotAccounting, TypeOK, PoolAssumption
<1>4. SleepersListed' /\ In({"asleep"})' = {}
  BY <1>1 DEF Close, SleepersListed, In, MoveAndWake, TypeOK
<1>5. HeldWhileBusy' /\ Exclusive' /\ NoLeak'
  BY <1>1
  DEF Close, TypeOK, Moves, HeldWhileBusy, Exclusive, NoLeak, DoomedByClose
<1> QED
  BY <1>1, <1>3, <1>4, <1>5, FS_EmptySet
  DEF Close, TypeOK, Moves, DoomedByClose, ClosedIsFinal

\* A new pool satisfies the invariant.
LEMMA InitHolds == Init => IInv
<1> SUFFICES ASSUME Init PROVE IInv
  OBVIOUS
<1>1. SlotAccounting /\ IsFiniteSet(idle)
  <2>1. In(SlotStates) = {}
    BY DEF Init, In, SlotStates
  <2> QED
    BY <2>1, FS_EmptySet DEF Init, SlotAccounting
<1>2. TypeOK
  <2>1. num \in 0..MaxSize
    BY PoolAssumption DEF Init, PoolAssumption
  <2> QED
    BY <2>1 DEF Init, TypeOK, States
<1>3. NoLeak
  BY DEF Init, NoLeak
<1> QED
  BY <1>1, <1>2, <1>3
  DEF Init, IInv, HeldWhileBusy, Exclusive, SleepersListed, DoomedByClose,
      ClosedIsFinal, In

\* Every step keeps the invariant.
LEMMA StepKeeps == IInv /\ [Next]_vars => IInv'
<1> SUFFICES ASSUME IInv, [Next]_vars PROVE IInv'
  OBVIOUS
<1>1. ASSUME NEW t \in Threads, GetConn(t) \/ Resume(t) PROVE IInv'
  BY <1>1, TakeOrWaitKeeps DEF GetConn, Resume
<1>2. ASSUME NEW t \in Threads,
             \/ Expire(t) \/ RaiseTimeout(t) \/ ConnectFails(t)
             \/ Configured(t) \/ CloseIdle(t) \/ CloseReturns(t)
      PROVE  IInv'
  BY <1>2, WaitingStepsKeep
<1>3. ASSUME NEW t \in Threads,
             Connect(t) \/ ConfigureFails(t) \/ Discard(t) \/ ReleaseSlot(t)
      PROVE  IInv'
  BY <1>3, ConnectKeeps, ConfigureFailsKeeps, DiscardKeeps, ReleaseSlotKeeps
<1>4. ASSUME NEW t \in Threads, Put(t) \/ Close(t) PROVE IInv'
  BY <1>4, PutBackKeeps, PutAwayKeeps, CloseKeeps DEF Put
<1>5. CASE UNCHANGED vars
  BY <1>5 DEF vars, IInv, TypeOK, SlotAccounting, HeldWhileBusy, Exclusive,
              NoLeak, SleepersListed, DoomedByClose, ClosedIsFinal, In
<1> QED
  BY <1>1, <1>2, <1>3, <1>4, <1>5 DEF Next, Open, Configure

\* The strengthening is an invariant of the pool.
THEOREM Invariance == Spec => []IInv
BY InitHolds, StepKeeps, PTL DEF Spec

\* The variables keep their types; the count stays within 0..MaxSize.
THEOREM TypeCorrect == Spec => []TypeOK
<1>1. IInv => TypeOK
  BY DEF IInv
<1> QED
  BY <1>1, Invariance, PTL

\* getconn() decides by a count that is the truth, for any number of threads
\* and slots, whatever failed or timed out in between.
THEOREM CountIsTrue == Spec => []SlotAccounting
<1>1. IInv => SlotAccounting
  BY DEF IInv
<1> QED
  BY <1>1, Invariance, PTL

\* No two threads ever share a connection.
THEOREM NeverShared == Spec => []Exclusive
<1>1. IInv => Exclusive
  BY DEF IInv
<1> QED
  BY <1>1, Invariance, PTL

\* No connection is forgotten while it is open at the server.
THEOREM NothingLeaks == Spec => []NoLeak
<1>1. IInv => NoLeak
  BY DEF IInv
<1> QED
  BY <1>1, Invariance, PTL

\* A closed pool keeps no connection and nobody waiting.
THEOREM ClosingIsFinal == Spec => []ClosedIsFinal
<1>1. IInv => ClosedIsFinal
  BY DEF IInv
<1> QED
  BY <1>1, Invariance, PTL

-----------------------------------------------------------------------------
(* The pool implements LendingPool *)

\* In the lending pool's terms, the slots are the promises and the loans.
LEMMA SlotsAreInUse ==
    ASSUME IInv
    PROVE  /\ LP!Borrowers = In({"holding"})
           /\ In(SlotStates \ {"holding"}) \cup LP!Borrowers = In(SlotStates)
           /\ LP!InUse = num
<1>1. LP!Borrowers = In({"holding"})
  BY DEF LP!Borrowers, Lent, In, IInv, HeldWhileBusy
<1>2. In(SlotStates \ {"holding"}) \cup LP!Borrowers = In(SlotStates)
  BY <1>1 DEF In, SlotStates
<1>3. LP!InUse = num
  <2>1. LP!InUse = Cardinality(idle)
                   + Cardinality(In(SlotStates \ {"holding"}) \cup LP!Borrowers)
    BY DEF LP!InUse, LP!Cardinality, Cardinality
  <2> QED
    BY <1>2, <2>1 DEF IInv, SlotAccounting
<1> QED
  BY <1>1, <1>2, <1>3

\* A new pool is a new lending pool.
LEMMA InitImplements == Init => LP!InitL
BY DEF Init, LP!InitL, Lent, In, SlotStates

\* A step that changes neither slots nor loans, nor the idle list, is none of
\* the lending pool's.
LEMMA Stutters ==
    ASSUME IInv, NEW t \in Threads, NEW next \in States, Moves(t, next),
           UNCHANGED <<closed, idle>>,
           \A u \in Threads \ {t} : held'[u] = held[u],
           pc[t] # "holding", next # "holding",
           pc[t] \in SlotStates <=> next \in SlotStates
    PROVE  UNCHANGED LP!varsL
BY DEF LP!varsL, Lent, In, Moves, IInv, TypeOK, States, SlotStates

\* getconn() lends from the shelf, promises, or does nothing that shows.
LEMMA TakeOrWaitImplements ==
    ASSUME IInv, NEW t \in Threads, pc[t] \in {"out", "woken"}, TakeOrWait(t),
           UNCHANGED <<closed, doomed, live>>
    PROVE  LP!Lend(t) \/ LP!Promise(t) \/ UNCHANGED LP!varsL
<1> USE DEF IInv
<1>1. t \notin In(SlotStates)
  BY DEF In, SlotStates
<1>2. CASE /\ ~closed
           /\ \E c \in idle :
                 /\ idle' = idle \ {c}
                 /\ held' = [held EXCEPT ![t] = c]
           /\ pc' = [pc EXCEPT ![t] = "holding"]
  <2> PICK c \in idle : idle' = idle \ {c} /\ held' = [held EXCEPT ![t] = c]
    BY <1>2
  <2>1. Lent' = [Lent EXCEPT ![t] = c]
    BY <1>2 DEF Lent, TypeOK
  <2>2. In(SlotStates \ {"holding"})' = In(SlotStates \ {"holding"})
    BY <1>2 DEF In, SlotStates, TypeOK
  <2> QED
    BY <1>1, <1>2, <2>1, <2>2, SlotsAreInUse DEF LP!Lend
<1>3. CASE /\ ~closed
           /\ idle = {}
           /\ Room
           /\ pc' = [pc EXCEPT ![t] = "opening"]
           /\ UNCHANGED <<idle, waiters, held>>
  <2>1. Lent' = Lent
    BY <1>3 DEF Lent, TypeOK
  <2>2. In(SlotStates \ {"holding"})' = In(SlotStates \ {"holding"}) \cup {t}
    BY <1>3 DEF In, SlotStates, TypeOK
  <2> QED
    BY <1>1, <1>3, <2>1, <2>2, SlotsAreInUse DEF LP!Promise, Room
<1>4. CASE /\ \/ pc' = [pc EXCEPT ![t] = "out"]
              \/ pc' = [pc EXCEPT ![t] = "asleep"]
           /\ UNCHANGED <<idle, held>>
  BY <1>4, ExceptMoves, Stutters DEF States, SlotStates
<1> QED
  BY <1>2, <1>3, <1>4 DEF TakeOrWait

\* A configured connection is the delivery of a promise.
LEMMA ConfiguredImplements ==
    ASSUME IInv, NEW t \in Threads, Configured(t)
    PROVE  LP!Deliver(t)
<1> USE DEF IInv
<1>1. held[t] \in Conns \ (idle \cup {Lent[u] : u \in Threads})
  BY PoolAssumption
  DEF Configured, Lent, HeldWhileBusy, Exclusive, TypeOK, PoolAssumption
<1>2. Lent' = [Lent EXCEPT ![t] = held[t]]
  BY DEF Configured, Lent, TypeOK
<1>3. /\ t \in In(SlotStates \ {"holding"})
      /\ In(SlotStates \ {"holding"})' = In(SlotStates \ {"holding"}) \ {t}
  BY DEF Configured, In, SlotStates, TypeOK
<1> QED
  BY <1>1, <1>2, <1>3 DEF Configured, LP!Deliver

\* A failed open breaks the promise.
LEMMA ReleaseSlotImplements ==
    ASSUME IInv, NEW t \in Threads, ReleaseSlot(t)
    PROVE  LP!BreakPromise(t)
<1> USE DEF IInv
<1>1. Moves(t, "out")
  BY NotifyMoves DEF ReleaseSlot, States
<1>2. Lent' = Lent
  BY <1>1 DEF ReleaseSlot, Lent, Moves, TypeOK
<1>3. /\ t \in In(SlotStates \ {"holding"})
      /\ In(SlotStates \ {"holding"})' = In(SlotStates \ {"holding"}) \ {t}
  BY <1>1 DEF ReleaseSlot, In, SlotStates, Moves, TypeOK
<1> QED
  BY <1>2, <1>3 DEF ReleaseSlot, LP!BreakPromise

\* putconn() returns the connection to the shelf or drops it.
LEMMA PutImplements ==
    ASSUME IInv, NEW t \in Threads, Put(t)
    PROVE  LP!Return(t) \/ LP!Drop(t)
<1> USE DEF IInv
<1>1. \/ Moves(t, "out") /\ PutBack(t)
      \/ Moves(t, "discarding") /\ \E discard \in BOOLEAN : PutAway(t, discard)
  BY NotifyMoves DEF Put, PutBack, PutAway, States
<1>2. Lent' = [Lent EXCEPT ![t] = NoConn]
  BY <1>1 DEF PutBack, PutAway, Lent, Moves, TypeOK
<1>3. In(SlotStates \ {"holding"})' = In(SlotStates \ {"holding"})
  BY <1>1 DEF PutBack, PutAway, In, SlotStates, Moves, TypeOK
<1>4. t \in LP!Borrowers /\ Lent[t] = held[t]
  BY <1>1, SlotsAreInUse DEF PutBack, PutAway, In, Lent
<1> QED
  BY <1>1, <1>2, <1>3, <1>4 DEF PutBack, PutAway, LP!Return, LP!Drop

\* close() shuts the lending pool.
LEMMA CloseImplements ==
    ASSUME IInv, NEW t \in Threads, Close(t)
    PROVE  LP!Shut
<1> USE DEF IInv
<1>1. Moves(t, "closing")
  BY MoveAndWakeMoves DEF Close, States
<1>2. Lent' = Lent
  BY <1>1 DEF Close, Lent, Moves, TypeOK
<1>3. In(SlotStates \ {"holding"})' = In(SlotStates \ {"holding"})
  BY <1>1 DEF Close, In, SlotStates, Moves, TypeOK
<1> QED
  BY <1>2, <1>3 DEF Close, LP!Shut

\* Every step of the pool is one of the lending pool, or none of its own.
LEMMA StepImplements == IInv /\ [Next]_vars => [LP!NextL]_(LP!varsL)
<1> SUFFICES ASSUME IInv, [Next]_vars PROVE LP!NextL \/ UNCHANGED LP!varsL
  OBVIOUS
<1> USE DEF IInv
<1>1. ASSUME NEW t \in Threads, GetConn(t) \/ Resume(t)
      PROVE  LP!NextL \/ UNCHANGED LP!varsL
  BY <1>1, TakeOrWaitImplements DEF GetConn, Resume, LP!NextL
<1>2. ASSUME NEW t \in Threads, Configured(t) \/ ReleaseSlot(t) \/ Put(t) \/ Close(t)
      PROVE  LP!NextL
  BY <1>2, ConfiguredImplements, ReleaseSlotImplements, PutImplements,
     CloseImplements DEF LP!NextL
<1>3. ASSUME NEW t \in Threads,
             \/ Expire(t) \/ RaiseTimeout(t) \/ Connect(t) \/ ConnectFails(t)
             \/ ConfigureFails(t) \/ Discard(t) \/ CloseReturns(t)
      PROVE  UNCHANGED LP!varsL
  <2>1. PICK next \in States :
           /\ Moves(t, next)
           /\ next # "holding"
           /\ pc[t] \in SlotStates <=> next \in SlotStates
    BY <1>3, ExceptMoves
    DEF Expire, RaiseTimeout, Connect, ConnectFails, ConfigureFails, Discard,
        CloseReturns, States, SlotStates
  <2>2. /\ UNCHANGED <<closed, idle>>
        /\ pc[t] # "holding"
        /\ \A u \in Threads \ {t} : held'[u] = held[u]
    BY <1>3
    DEF Expire, RaiseTimeout, Connect, ConnectFails, ConfigureFails, Discard,
        CloseReturns, TypeOK
  <2> QED
    BY <2>1, <2>2, Stutters
<1>4. ASSUME NEW t \in Threads, CloseIdle(t) PROVE UNCHANGED LP!varsL
  BY <1>4 DEF CloseIdle, LP!varsL, Lent, In
<1>5. CASE UNCHANGED vars
  BY <1>5 DEF vars, LP!varsL, Lent, In
<1> QED
  BY <1>1, <1>2, <1>3, <1>4, <1>5 DEF Next, Open, Configure

\* Every behaviour of the pool's code, seen through the idle list, the slots
\* and the loans, is a behaviour of the abstract lending pool.
THEOREM Implements == Spec => ImplementsLending
<1>1. Init => LP!InitL
  BY InitImplements
<1>2. IInv /\ [Next]_vars => [LP!NextL]_(LP!varsL)
  BY StepImplements
<1> QED
  BY <1>1, <1>2, Invariance, PTL DEF Spec, ImplementsLending, LP!SpecL
=============================================================================
