------------------------- MODULE PoolWakeupsProofs --------------------------
(***************************************************************************)
(* Proof that the pool forgets no notification, for any number of threads  *)
(* and slots.                                                              *)
(***************************************************************************)
EXTENDS PoolWakeups, ConnectionPoolProofs

\* The list of waiters holds nobody but threads inside of wait().
ListedWait == waiters \subseteq In({"asleep", "expired"})

Woken == Cardinality(In({"woken"}))

\* The inductive invariant.
WInv ==
    /\ IInv
    /\ ListedWait
    /\ WakeupsAccounted

-----------------------------------------------------------------------------

\* What is to be had is a number, and so is who is on the way to it.
LEMMA Counts ==
    ASSUME IInv, IInv'
    PROVE  /\ IsFiniteSet(In({"woken"})) /\ IsFiniteSet(In({"woken"})')
           /\ Woken \in Nat /\ Woken' \in Nat
           /\ Free \in Nat /\ Free' \in Nat
<1>1. In({"woken"}) \subseteq Threads /\ In({"woken"})' \subseteq Threads
  BY DEF In
<1>2. IsFiniteSet(In({"woken"})) /\ IsFiniteSet(In({"woken"})')
  BY <1>1, PoolAssumption, FS_Subset DEF PoolAssumption
<1>3. Woken \in Nat /\ Woken' \in Nat
  BY <1>2, FS_CardinalityType DEF Woken
<1>4. Cardinality(idle) \in Nat /\ Cardinality(idle)' \in Nat
  BY FS_CardinalityType DEF IInv
<1> QED
  BY <1>2, <1>3, <1>4, PoolAssumption
  DEF Free, IInv, TypeOK, PoolAssumption

\* A step that neither sends anybody to sleep nor takes a woken thread from its
\* way, and after which no more is to be had, owes nobody a notification.
LEMMA NoMoreToBeHad ==
    ASSUME WInv, IInv', Free' <= Free,
           wasted' = (Free' > 0 /\ (wasted \/ SpentOnExpired)),
           In({"asleep"})' \subseteq In({"asleep"}),
           In({"woken"}) \subseteq In({"woken"})'
    PROVE  WakeupsAccounted'
<1> SUFFICES ASSUME In({"asleep"})' # {}, ~wasted', Free' > 0
             PROVE  Free' <= Woken'
  BY Counts DEF WakeupsAccounted, Woken, WInv
<1>1. In({"asleep"}) # {} /\ ~wasted
  OBVIOUS
<1>2. Free <= Woken
  BY <1>1 DEF WInv, WakeupsAccounted, Woken
<1>3. Woken <= Woken'
  BY Counts, FS_Subset DEF Woken, WInv
<1> QED
  BY <1>2, <1>3, Counts DEF WInv

\* Who takes one of what is to be had may have been woken for it.
LEMMA TookOne ==
    ASSUME WInv, IInv', NEW t,
           Free' = Free - 1,
           wasted' = (Free' > 0 /\ (wasted \/ SpentOnExpired)),
           In({"asleep"})' \subseteq In({"asleep"}),
           In({"woken"})' = In({"woken"}) \ {t}
    PROVE  WakeupsAccounted'
<1> SUFFICES ASSUME In({"asleep"})' # {}, ~wasted', Free' > 0
             PROVE  Free' <= Woken'
  BY Counts DEF WakeupsAccounted, Woken, WInv
<1>1. In({"asleep"}) # {} /\ ~wasted
  OBVIOUS
<1>2. Free <= Woken
  BY <1>1 DEF WInv, WakeupsAccounted, Woken
<1>3. Woken' >= Woken - 1
  BY Counts, FS_RemoveElement DEF Woken, WInv
<1> QED
  BY <1>2, <1>3, Counts DEF WInv

\* One more is to be had, and notify() is called for it: it wakes a sleeper, or
\* there is none, or it is spent on a wait() that has expired.
LEMMA NotifyForOne ==
    ASSUME WInv, IInv', NEW t \in Threads, NEW next \in {"out", "discarding"},
           pc[t] \in {"failed", "holding"},
           Notify(t, next), Free' = 0 \/ Free' = Free + 1,
           wasted' = (Free' > 0 /\ (wasted \/ SpentOnExpired))
    PROVE  ListedWait' /\ WakeupsAccounted'
<1> USE DEF WInv
<1>1. CASE waiters = {} /\ MoveAndWake(t, next, {}) /\ UNCHANGED waiters
  <2>1. In({"asleep"})' = {}
    BY <1>1 DEF IInv, TypeOK, SleepersListed, In, MoveAndWake
  <2> QED
    BY <1>1, <2>1 DEF ListedWait, WakeupsAccounted
<1>2. ASSUME NEW w \in waiters, MoveAndWake(t, next, {w}), waiters' = waiters \ {w}
      PROVE  ListedWait' /\ WakeupsAccounted'
  <2>1. w # t /\ w \in Threads /\ pc[w] \in {"asleep", "expired"}
    BY DEF ListedWait, In
  <2>2. ListedWait'
    BY <1>2, <2>1 DEF ListedWait, In, MoveAndWake, IInv, TypeOK
  <2>3. CASE pc[w] = "expired"
    <3>1. SpentOnExpired
      BY <1>2, <2>1, <2>3 DEF SpentOnExpired, MoveAndWake
    <3>2. ~wasted' => ~(Free' > 0)
      BY <3>1
    <3>3. ~wasted' => Free' <= Woken'
      BY <3>2, Counts
    <3> QED
      BY <2>2, <3>3 DEF WakeupsAccounted, Woken
  <2>4. CASE pc[w] = "asleep"
    <3>1. /\ In({"woken"})' = In({"woken"}) \cup {w}
          /\ w \notin In({"woken"})
          /\ In({"asleep"})' \subseteq In({"asleep"})
      BY <1>2, <2>1, <2>4 DEF In, MoveAndWake, IInv, TypeOK
    <3>2. Woken' = Woken + 1
      BY <3>1, Counts, FS_AddElement DEF Woken
    <3>3. SUFFICES ASSUME In({"asleep"})' # {}, ~wasted', Free' > 0
                   PROVE  Free' <= Woken'
      BY <2>2, Counts DEF WakeupsAccounted, Woken
    <3>4. Free <= Woken
      BY <3>1, <3>3 DEF WakeupsAccounted, Woken
    <3> QED
      BY <3>2, <3>3, <3>4, Counts
  <2> QED
    BY <2>1, <2>3, <2>4
<1> QED
  BY <1>1, <1>2 DEF Notify

-----------------------------------------------------------------------------
(* The invariant is inductive *)

\* getconn()'s loop: a sleeper finds nothing, a woken thread takes its own.
LEMMA TakeOrWaitAccounted ==
    ASSUME WInv, IInv', NEW t \in Threads, pc[t] \in {"out", "woken"},
           TakeOrWait(t), UNCHANGED closed,
           wasted' = (Free' > 0 /\ (wasted \/ SpentOnExpired))
    PROVE  ListedWait' /\ WakeupsAccounted'
<1> USE DEF WInv
<1>1. CASE closed /\ pc' = [pc EXCEPT ![t] = "out"] /\ UNCHANGED <<idle, num, waiters, held>>
  <2>1. Free' = 0 /\ ListedWait'
    BY <1>1 DEF Free, ListedWait, In, IInv, TypeOK
  <2> QED
    BY <2>1, Counts DEF WakeupsAccounted, Woken
<1>2. CASE /\ ~closed
           /\ \E c \in idle :
                 /\ idle' = idle \ {c}
                 /\ held' = [held EXCEPT ![t] = c]
           /\ pc' = [pc EXCEPT ![t] = "holding"]
           /\ UNCHANGED <<num, waiters>>
  <2>1. Cardinality(idle)' = Cardinality(idle) - 1 /\ Cardinality(idle) \in Nat
    BY <1>2, FS_RemoveElement, FS_CardinalityType DEF IInv
  <2>2. Free' = Free - 1
    BY <1>2, <2>1, PoolAssumption DEF Free, IInv, TypeOK, PoolAssumption
  <2>3. ListedWait'
    BY <1>2 DEF ListedWait, In, IInv, TypeOK
  <2>4. In({"asleep"})' \subseteq In({"asleep"})
    BY <1>2 DEF In, IInv, TypeOK
  <2>5. In({"woken"})' = In({"woken"}) \ {t}
    BY <1>2 DEF In, IInv, TypeOK
  <2> QED
    BY <2>2, <2>3, <2>4, <2>5, TookOne
<1>3. CASE /\ ~closed
           /\ idle = {}
           /\ Room
           /\ num' = num + 1
           /\ pc' = [pc EXCEPT ![t] = "opening"]
           /\ UNCHANGED <<idle, waiters, held>>
  <2>1. Free' = Free - 1
    BY <1>3, FS_EmptySet, PoolAssumption DEF Free, IInv, TypeOK, PoolAssumption
  <2>2. ListedWait'
    BY <1>3 DEF ListedWait, In, IInv, TypeOK
  <2>3. In({"asleep"})' \subseteq In({"asleep"})
    BY <1>3 DEF In, IInv, TypeOK
  <2>4. In({"woken"})' = In({"woken"}) \ {t}
    BY <1>3 DEF In, IInv, TypeOK
  <2> QED
    BY <2>1, <2>2, <2>3, <2>4, TookOne
<1>4. CASE /\ ~closed
           /\ idle = {}
           /\ ~Room
           /\ waiters' = waiters \cup {t}
           /\ pc' = [pc EXCEPT ![t] = "asleep"]
           /\ UNCHANGED <<idle, num, held>>
  <2>1. Free' = 0
    BY <1>4, FS_EmptySet, PoolAssumption
    DEF Free, Room, IInv, TypeOK, PoolAssumption
  <2>2. ListedWait'
    BY <1>4 DEF ListedWait, In, IInv, TypeOK
  <2> QED
    BY <2>1, <2>2, Counts DEF WakeupsAccounted, Woken
<1> QED
  BY <1>1, <1>2, <1>3, <1>4 DEF TakeOrWait

\* The steps that free nothing: whoever takes them was on nobody's way.
LEMMA OthersAccounted ==
    ASSUME WInv, IInv', NEW t \in Threads,
           \/ Expire(t) \/ RaiseTimeout(t) \/ Open(t) \/ Configure(t)
           \/ Discard(t) \/ CloseIdle(t) \/ CloseReturns(t),
           wasted' = (Free' > 0 /\ (wasted \/ SpentOnExpired))
    PROVE  ListedWait' /\ WakeupsAccounted'
<1> USE DEF Expire, RaiseTimeout, Open, Connect, ConnectFails, Configure,
            Configured, ConfigureFails, Discard, CloseIdle, CloseReturns
<1>1. Free' = Free
  BY DEF Free
<1>2. In({"asleep"})' \subseteq In({"asleep"})
  BY DEF In, WInv, IInv, TypeOK
<1>3. In({"woken"}) \subseteq In({"woken"})'
  BY DEF In, WInv, IInv, TypeOK
<1>4. ListedWait'
  BY DEF ListedWait, In, WInv, IInv, TypeOK
<1>5. Free' <= Free
  BY <1>1, Counts DEF WInv
<1> QED
  BY <1>2, <1>3, <1>4, <1>5, NoMoreToBeHad

\* A slot or a connection becomes free.
LEMMA FreeingAccounted ==
    ASSUME WInv, IInv', NEW t \in Threads, ReleaseSlot(t) \/ Put(t),
           wasted' = (Free' > 0 /\ (wasted \/ SpentOnExpired))
    PROVE  ListedWait' /\ WakeupsAccounted'
<1> USE DEF WInv
<1>1. CASE ReleaseSlot(t)
  <2>1. Free' = 0 \/ Free' = Free + 1
    BY <1>1, Counts, FS_CardinalityType, PoolAssumption
    DEF ReleaseSlot, Free, IInv, TypeOK, PoolAssumption
  <2> QED
    BY <1>1, <2>1, NotifyForOne DEF ReleaseSlot
<1>2. CASE PutBack(t)
  <2>1. held[t] \notin idle
    BY <1>2 DEF PutBack, IInv, Exclusive
  <2>2. Cardinality(idle)' = Cardinality(idle) + 1 /\ Cardinality(idle) \in Nat
    BY <1>2, <2>1, FS_AddElement, FS_CardinalityType DEF PutBack, IInv
  <2>3. Free' = Free + 1
    BY <1>2, <2>2, PoolAssumption
    DEF PutBack, Free, IInv, TypeOK, PoolAssumption
  <2> QED
    BY <1>2, <2>3, NotifyForOne DEF PutBack
<1>3. ASSUME NEW discard \in BOOLEAN, PutAway(t, discard)
      PROVE  ListedWait' /\ WakeupsAccounted'
  <2>1. Free' = 0 \/ Free' = Free + 1
    BY <1>3, Counts, FS_CardinalityType, PoolAssumption
    DEF PutAway, Free, IInv, TypeOK, PoolAssumption
  <2> QED
    BY <1>3, <2>1, NotifyForOne DEF PutAway
<1> QED
  BY <1>1, <1>2, <1>3 DEF Put

\* After close() nothing is to be had.
LEMMA CloseAccounted ==
    ASSUME WInv, IInv', NEW t \in Threads, Close(t)
    PROVE  ListedWait' /\ WakeupsAccounted'
<1>1. Free' = 0 /\ ListedWait'
  BY DEF Close, Free, ListedWait
<1> QED
  BY <1>1, Counts DEF WakeupsAccounted, Woken, WInv

\* A new pool owes nobody anything.
LEMMA InitAccounted == InitW => WInv
<1>1. Init => IInv
  BY InitHolds
<1>2. Init => ListedWait /\ In({"asleep"}) = {}
  BY DEF Init, ListedWait, In
<1> QED
  BY <1>1, <1>2 DEF InitW, WInv, WakeupsAccounted

\* Every step keeps the invariant.
LEMMA StepAccounted == WInv /\ [NextW]_varsW => WInv'
<1> SUFFICES ASSUME WInv, [NextW]_varsW PROVE WInv'
  OBVIOUS
<1>1. IInv'
  BY StepKeeps DEF WInv, NextW, varsW
<1>2. CASE NextW
  <2>1. wasted' = (Free' > 0 /\ (wasted \/ SpentOnExpired))
    BY <1>2 DEF NextW
  <2>2. PICK t \in Threads :
           \/ GetConn(t) \/ Resume(t)
           \/ \/ Expire(t) \/ RaiseTimeout(t) \/ Open(t) \/ Configure(t)
              \/ Discard(t) \/ CloseIdle(t) \/ CloseReturns(t)
           \/ ReleaseSlot(t) \/ Put(t)
           \/ Close(t)
    BY <1>2 DEF NextW, Next
  <2>3. CASE GetConn(t) \/ Resume(t)
    BY <1>1, <2>1, <2>3, TakeOrWaitAccounted DEF GetConn, Resume, WInv
  <2>4. CASE \/ Expire(t) \/ RaiseTimeout(t) \/ Open(t) \/ Configure(t)
             \/ Discard(t) \/ CloseIdle(t) \/ CloseReturns(t)
    BY <1>1, <2>1, <2>4, OthersAccounted DEF WInv
  <2>5. CASE ReleaseSlot(t) \/ Put(t)
    BY <1>1, <2>1, <2>5, FreeingAccounted DEF WInv
  <2>6. CASE Close(t)
    BY <1>1, <2>6, CloseAccounted DEF WInv
  <2> QED
    BY <2>2, <2>3, <2>4, <2>5, <2>6
<1>3. CASE UNCHANGED varsW
  BY <1>1, <1>3
  DEF varsW, vars, WInv, ListedWait, WakeupsAccounted, Free, In
<1> QED
  BY <1>2, <1>3

\* Whenever something is to be had while a thread sleeps in getconn(), a woken
\* thread is on its way to it, unless a notify() was spent on an expired wait():
\* for any number of threads, slots and failures.
THEOREM NoLostWakeup == SpecW => []WakeupsAccounted
<1>1. WInv => WakeupsAccounted
  BY DEF WInv
<1> QED
  BY <1>1, InitAccounted, StepAccounted, PTL DEF SpecW
=============================================================================
