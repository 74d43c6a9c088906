-------------------------- MODULE PoolRefinement ---------------------------
(***************************************************************************)
(* ConnectionPool implements LendingPool: the idle list is the shelf, a    *)
(* thread that has reserved a slot is promised a connection, and a thread  *)
(* that getconn() has returned to, and that has not called putconn() yet,  *)
(* is a borrower.  The lock, the counter and the sleepers disappear.       *)
(***************************************************************************)
EXTENDS ConnectionPool

Lent == [t \in Threads |-> IF pc[t] = "holding" THEN held[t] ELSE NoConn]

LP == INSTANCE LendingPool WITH
        shelf <- idle,
        promised <- In(SlotStates \ {"holding"}),
        lent <- Lent,
        shut <- closed

\* Every behaviour of the pool's code is one of the lending pool's.
ImplementsLending == LP!SpecL
=============================================================================
