---------------------------- MODULE LendingPool ----------------------------
(***************************************************************************)
(* What RedshiftConnectionPool promises to the code that borrows from it,  *)
(* without its lock, its counter and its sleepers: a connection is lent to *)
(* one thread at a time, at most MaxSize are lent, promised or on the      *)
(* shelf, one that was dropped is never lent again, and a pool that is     *)
(* shut lends nothing it had not promised before.                          *)
(***************************************************************************)
EXTENDS Naturals, FiniteSets

CONSTANTS Threads, Conns, MaxSize, NoConn

VARIABLES
    shelf,     \* the connections that may be lent
    promised,  \* the threads a connection is being opened for
    lent,      \* the connection each thread has borrowed
    shut       \* the pool was closed

varsL == <<shelf, promised, lent, shut>>

Borrowers == {t \in Threads : lent[t] # NoConn}

InUse == Cardinality(shelf) + Cardinality(promised \cup Borrowers)

InitL ==
    /\ shelf = {}
    /\ promised = {}
    /\ lent = [t \in Threads |-> NoConn]
    /\ shut = FALSE

Lend(t) ==
    /\ ~shut
    /\ t \notin promised \cup Borrowers
    /\ \E c \in shelf :
          /\ lent' = [lent EXCEPT ![t] = c]
          /\ shelf' = shelf \ {c}
    /\ UNCHANGED <<promised, shut>>

\* Room for one more is set aside, and only when nothing is on the shelf.
Promise(t) ==
    /\ ~shut
    /\ t \notin promised \cup Borrowers
    /\ shelf = {}
    /\ InUse < MaxSize
    /\ promised' = promised \cup {t}
    /\ UNCHANGED <<shelf, lent, shut>>

\* The connection is new: nobody has it, and it is not on the shelf.
Deliver(t) ==
    /\ t \in promised
    /\ \E c \in Conns \ (shelf \cup {lent[u] : u \in Threads}) :
          lent' = [lent EXCEPT ![t] = c]
    /\ promised' = promised \ {t}
    /\ UNCHANGED <<shelf, shut>>

BreakPromise(t) ==
    /\ t \in promised
    /\ promised' = promised \ {t}
    /\ UNCHANGED <<shelf, lent, shut>>

Return(t) ==
    /\ ~shut
    /\ t \in Borrowers
    /\ shelf' = shelf \cup {lent[t]}
    /\ lent' = [lent EXCEPT ![t] = NoConn]
    /\ UNCHANGED <<promised, shut>>

Drop(t) ==
    /\ t \in Borrowers
    /\ lent' = [lent EXCEPT ![t] = NoConn]
    /\ UNCHANGED <<shelf, promised, shut>>

Shut ==
    /\ ~shut
    /\ shut' = TRUE
    /\ shelf' = {}
    /\ UNCHANGED <<promised, lent>>

NextL ==
    \/ \E t \in Threads :
          \/ Lend(t)
          \/ Promise(t)
          \/ Deliver(t)
          \/ BreakPromise(t)
          \/ Return(t)
          \/ Drop(t)
    \/ Shut

SpecL == InitL /\ [][NextL]_varsL

-----------------------------------------------------------------------------

\* Two threads never have the same connection, nor one that is on the shelf.
LentOnce ==
    /\ \A t, u \in Borrowers : t # u => lent[t] # lent[u]
    /\ \A t \in Borrowers : lent[t] \notin shelf
=============================================================================
