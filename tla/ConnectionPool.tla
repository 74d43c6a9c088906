--------------------------- MODULE ConnectionPool ---------------------------
(***************************************************************************)
(* RedshiftConnectionPool (pool.py): connections are opened on demand up   *)
(* to MaxSize, lent to one thread at a time and kept on an idle list.      *)
(*                                                                         *)
(* A region the code runs under self._lock is one action.  What runs       *)
(* outside of the lock -- connecting, configuring, closing a discarded     *)
(* connection, sleeping in Condition.wait() -- is a control state of its   *)
(* own, so every interleaving around the lock is explored.                 *)
(***************************************************************************)
EXTENDS Naturals, FiniteSets

CONSTANTS Threads,  \* the threads that borrow, return and close
          Conns,    \* names for connections; a closed one's name is reused
          MaxSize,  \* self.max_size
          NoConn    \* a thread that has no connection

ASSUME PoolAssumption ==
    /\ IsFiniteSet(Threads)
    /\ MaxSize \in Nat \ {0}        \* max(1, max_size)
    /\ NoConn \notin Conns

VARIABLES
    closed,   \* self._closed
    idle,     \* self._idle; which idle connection is lent next is left open
    num,      \* self._num_connections
    waiters,  \* the threads in the Condition's list of waiters
    pc,       \* where each thread is
    held,     \* the connection each thread has in a local variable
    doomed,   \* close()'s local list of the idle connections it took
    live      \* the connections that are open at the server

vars == <<closed, idle, num, waiters, pc, held, doomed, live>>

\* Outside of the pool's code / asleep in wait() / notified, about to retake
\* the lock / its wait() timed out, about to retake the lock / in connect() /
\* in configure() / opening failed, slot not yet given back / lent a
\* connection / slot given back, connection not yet closed / in close().
States == {"out", "asleep", "woken", "expired", "opening", "configuring",
           "failed", "holding", "discarding", "closing"}

\* The states in which a thread occupies one of the MaxSize slots.
SlotStates == {"opening", "configuring", "failed", "holding"}

In(S) == {t \in Threads : pc[t] \in S}

Init ==
    /\ closed = FALSE
    /\ idle = {}
    /\ num = 0
    /\ waiters = {}
    /\ pc = [t \in Threads |-> "out"]
    /\ held = [t \in Threads |-> NoConn]
    /\ doomed = {}
    /\ live = {}

-----------------------------------------------------------------------------
(* threading.Condition *)

\* Thread t moves to `next` and every sleeper in W becomes runnable.  A waiter
\* whose timer ran out stays "expired": wait() already decided to return False.
MoveAndWake(t, next, W) ==
    pc' = [u \in Threads |-> IF u = t THEN next
                             ELSE IF u \in W /\ pc[u] = "asleep" THEN "woken"
                             ELSE pc[u]]

\* notify(): takes one thread, if there is any, off the list of waiters, be it
\* asleep or expired.  CPython takes the oldest; no order is promised.
Notify(t, next) ==
    \/ /\ waiters = {}
       /\ MoveAndWake(t, next, {})
       /\ UNCHANGED waiters
    \/ \E w \in waiters :
          /\ MoveAndWake(t, next, {w})
          /\ waiters' = waiters \ {w}

-----------------------------------------------------------------------------
(* Slips: plausible mistakes in the actions below.  No action uses them; each *)
(* is put in the place of one to see that a property of this module notices. *)

\* getconn() opens one connection too many.
RoomForOneMore == num <= MaxSize

\* putconn() does not look at _closed.
PutBackUnchecked(t) ==
    /\ pc[t] = "holding"
    /\ idle' = idle \cup {held[t]}
    /\ held' = [held EXCEPT ![t] = NoConn]
    /\ Notify(t, "out")
    /\ UNCHANGED <<closed, num, doomed, live>>

\* putconn() puts a connection it discards on the idle list.
PutAwayKeepsIt(t, discard) ==
    /\ pc[t] = "holding"
    /\ discard \/ closed
    /\ num' = num - 1
    /\ idle' = IF closed THEN idle ELSE idle \cup {held[t]}
    /\ Notify(t, "discarding")
    /\ UNCHANGED <<closed, held, doomed, live>>

\* open_connection() does not close what it could not configure.
ConfigureFailsOpen(t) ==
    /\ pc[t] = "configuring"
    /\ held' = [held EXCEPT ![t] = NoConn]
    /\ pc' = [pc EXCEPT ![t] = "failed"]
    /\ UNCHANGED <<closed, idle, num, waiters, doomed, live>>

\* getconn() takes its slot back without a notify().
ReleaseSlotSilently(t) ==
    /\ pc[t] = "failed"
    /\ num' = num - 1
    /\ pc' = [pc EXCEPT ![t] = "out"]
    /\ UNCHANGED <<closed, idle, waiters, held, doomed, live>>

\* close() empties the idle list and keeps the count.
CloseKeepsCount(t) ==
    /\ pc[t] = "out"
    /\ ~closed
    /\ closed' = TRUE
    /\ doomed' = idle
    /\ idle' = {}
    /\ MoveAndWake(t, "closing", waiters)
    /\ waiters' = {}
    /\ UNCHANGED <<num, held, live>>

\* close() lets the sleepers sleep on.
CloseWakesNobody(t) ==
    /\ pc[t] = "out"
    /\ ~closed
    /\ closed' = TRUE
    /\ doomed' = idle
    /\ idle' = {}
    /\ num' = num - Cardinality(idle)
    /\ MoveAndWake(t, "closing", {})
    /\ UNCHANGED <<waiters, held, live>>

-----------------------------------------------------------------------------
(* getconn() *)

Room == num < MaxSize

\* One turn of the while loop, under the lock.
TakeOrWait(t) ==
    \/ /\ closed                                   \* PoolClosedError
       /\ pc' = [pc EXCEPT ![t] = "out"]
       /\ UNCHANGED <<idle, num, waiters, held>>
    \/ /\ ~closed
       /\ \E c \in idle :
             /\ idle' = idle \ {c}
             /\ held' = [held EXCEPT ![t] = c]
       /\ pc' = [pc EXCEPT ![t] = "holding"]
       /\ UNCHANGED <<num, waiters>>
    \/ /\ ~closed
       /\ idle = {}
       /\ Room
       /\ num' = num + 1
       /\ pc' = [pc EXCEPT ![t] = "opening"]
       /\ UNCHANGED <<idle, waiters, held>>
    \/ /\ ~closed
       /\ idle = {}
       /\ ~Room
       /\ waiters' = waiters \cup {t}
       /\ pc' = [pc EXCEPT ![t] = "asleep"]
       /\ UNCHANGED <<idle, num, held>>

GetConn(t) ==
    /\ pc[t] = "out"
    /\ TakeOrWait(t)
    /\ UNCHANGED <<closed, doomed, live>>

\* wait() returned True: the loop starts over, with a new full timeout.
Resume(t) ==
    /\ pc[t] = "woken"
    /\ TakeOrWait(t)
    /\ UNCHANGED <<closed, doomed, live>>

\* wait()'s timer runs out; the thread still has to retake the lock, and until
\* it has, it stays on the list of waiters.
Expire(t) ==
    /\ pc[t] = "asleep"
    /\ pc' = [pc EXCEPT ![t] = "expired"]
    /\ UNCHANGED <<closed, idle, num, waiters, held, doomed, live>>

\* wait() returned False: PoolTimeoutError, without another look at the pool.
RaiseTimeout(t) ==
    /\ pc[t] = "expired"
    /\ waiters' = waiters \ {t}
    /\ pc' = [pc EXCEPT ![t] = "out"]
    /\ UNCHANGED <<closed, idle, num, held, doomed, live>>

\* redshift_connector.connect() succeeds.
Connect(t) ==
    /\ pc[t] = "opening"
    /\ \E c \in Conns \ live :
          /\ live' = live \cup {c}
          /\ held' = [held EXCEPT ![t] = c]
    /\ pc' = [pc EXCEPT ![t] = "configuring"]
    /\ UNCHANGED <<closed, idle, num, waiters, doomed>>

ConnectFails(t) ==
    /\ pc[t] = "opening"
    /\ pc' = [pc EXCEPT ![t] = "failed"]
    /\ UNCHANGED <<closed, idle, num, waiters, held, doomed, live>>

\* configure(conn) returns, and with it getconn(), closed pool or not.
Configured(t) ==
    /\ pc[t] = "configuring"
    /\ pc' = [pc EXCEPT ![t] = "holding"]
    /\ UNCHANGED <<closed, idle, num, waiters, held, doomed, live>>

\* configure(conn) raises: the connection is closed before the slot is freed.
ConfigureFails(t) ==
    /\ pc[t] = "configuring"
    /\ live' = live \ {held[t]}
    /\ held' = [held EXCEPT ![t] = NoConn]
    /\ pc' = [pc EXCEPT ![t] = "failed"]
    /\ UNCHANGED <<closed, idle, num, waiters, doomed>>

\* The except branch of getconn(), under the lock.
ReleaseSlot(t) ==
    /\ pc[t] = "failed"
    /\ num' = num - 1
    /\ Notify(t, "out")
    /\ UNCHANGED <<closed, idle, held, doomed, live>>

-----------------------------------------------------------------------------
(* putconn() and close() *)

\* The with block of connection() ended normally.
PutBack(t) ==
    /\ pc[t] = "holding"
    /\ ~closed
    /\ idle' = idle \cup {held[t]}
    /\ held' = [held EXCEPT ![t] = NoConn]
    /\ Notify(t, "out")
    /\ UNCHANGED <<closed, num, doomed, live>>

\* The with block raised, or the pool was closed meanwhile: the slot is free
\* at once, the connection is closed once the lock is released.
PutAway(t, discard) ==
    /\ pc[t] = "holding"
    /\ discard \/ closed
    /\ num' = num - 1
    /\ Notify(t, "discarding")
    /\ UNCHANGED <<closed, idle, held, doomed, live>>

Discard(t) ==
    /\ pc[t] = "discarding"
    /\ live' = live \ {held[t]}
    /\ held' = [held EXCEPT ![t] = NoConn]
    /\ pc' = [pc EXCEPT ![t] = "out"]
    /\ UNCHANGED <<closed, idle, num, waiters, doomed>>

\* The locked part of close(); a second close() returns at once.
Close(t) ==
    /\ pc[t] = "out"
    /\ ~closed
    /\ closed' = TRUE
    /\ doomed' = idle
    /\ idle' = {}
    /\ num' = num - Cardinality(idle)
    /\ MoveAndWake(t, "closing", waiters)          \* notify_all()
    /\ waiters' = {}
    /\ UNCHANGED <<held, live>>

CloseIdle(t) ==
    /\ pc[t] = "closing"
    /\ \E c \in doomed :
          /\ live' = live \ {c}
          /\ doomed' = doomed \ {c}
    /\ UNCHANGED <<closed, idle, num, waiters, pc, held>>

CloseReturns(t) ==
    /\ pc[t] = "closing"
    /\ doomed = {}
    /\ pc' = [pc EXCEPT ![t] = "out"]
    /\ UNCHANGED <<closed, idle, num, waiters, held, doomed, live>>

-----------------------------------------------------------------------------

Open(t) == Connect(t) \/ ConnectFails(t)

Configure(t) == Configured(t) \/ ConfigureFails(t)

Put(t) == PutBack(t) \/ \E discard \in BOOLEAN : PutAway(t, discard)

Next ==
    \E t \in Threads :
        \/ GetConn(t)
        \/ Resume(t)
        \/ Expire(t)
        \/ RaiseTimeout(t)
        \/ Open(t)
        \/ Configure(t)
        \/ ReleaseSlot(t)
        \/ Put(t)
        \/ Discard(t)
        \/ Close(t)
        \/ CloseIdle(t)
        \/ CloseReturns(t)

Spec == Init /\ [][Next]_vars

\* Every thread that is inside the pool's code keeps running, a timer that is
\* left alone runs out, connect() and configure() return, and the with block
\* of a borrower ends.  Nobody has to borrow or to close.
Fairness ==
    \A t \in Threads :
        /\ WF_vars(Resume(t))
        /\ WF_vars(Expire(t))
        /\ WF_vars(RaiseTimeout(t))
        /\ WF_vars(Open(t))
        /\ WF_vars(Configure(t))
        /\ WF_vars(ReleaseSlot(t))
        /\ WF_vars(Put(t))
        /\ WF_vars(Discard(t))
        /\ WF_vars(CloseIdle(t))
        /\ WF_vars(CloseReturns(t))

FairSpec == Spec /\ Fairness

-----------------------------------------------------------------------------
(* Properties *)

\* Every variable has its type; in particular the count of connections never
\* drops below zero and never passes max_size.
TypeOK ==
    /\ closed \in BOOLEAN
    /\ idle \in SUBSET Conns
    /\ num \in 0..MaxSize
    /\ waiters \in SUBSET Threads
    /\ pc \in [Threads -> States]
    /\ held \in [Threads -> Conns \cup {NoConn}]
    /\ doomed \in SUBSET Conns
    /\ live \in SUBSET Conns

\* The count that getconn() trusts is the truth: the idle connections and the
\* slots threads occupy, whatever failed, timed out or was closed in between.
SlotAccounting == num = Cardinality(idle) + Cardinality(In(SlotStates))

\* The driver's connections may not be shared by threads (the module's
\* docstring): a connection has one borrower, or is idle, or is doomed.
Exclusive ==
    /\ \A t, u \in Threads :
          t # u /\ held[t] # NoConn => held[t] # held[u]
    /\ \A t \in Threads : held[t] \notin idle \cup doomed
    /\ idle \cap doomed = {}

\* No connection is leaked: one that is open at the server is idle, or about
\* to be closed, or in the hands of a thread, and those are all still open.
NoLeak == live = (idle \cup doomed \cup {held[t] : t \in Threads}) \ {NoConn}

\* Once close() has released the lock nothing is idle and nobody sleeps, and
\* that remains so: later returns are discarded, later borrowers refused.
ClosedIsFinal == closed => idle = {} /\ In({"asleep"}) = {}

\* "A connection that is checked out right now is closed when it is returned"
\* (close()): a closed pool ends up with no connection at the server, for good.
ClosedPoolDrains == closed ~> [](live = {})

\* "PoolTimeoutError: if every connection is checked out for `timeout`"
\* (getconn()): a wait runs out only while there is nothing to be had, unless a
\* thread that was woken for it is still on its way.
TimesOutOnlyWhenFull ==
    [][\A t \in Threads :
          Expire(t) /\ In({"woken"}) = {} => idle = {} /\ num = MaxSize]_vars

\* "How long, in seconds, getconn() waits for one" (docstring, timeout): a
\* thread that has to wait gets a connection or an error in the end.
WaitingEnds ==
    \A t \in Threads : pc[t] = "asleep" ~> pc[t] \notin {"asleep", "woken"}
=============================================================================
