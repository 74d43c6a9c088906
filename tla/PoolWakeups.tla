---------------------------- MODULE PoolWakeups ----------------------------
(***************************************************************************)
(* ConnectionPool with a history variable for one question: is there a     *)
(* notification for every connection a sleeping borrower could have?       *)
(***************************************************************************)
EXTENDS PoolRefinement

\* TRUE from the moment a notify() of the pool is spent on a waiter whose timer
\* had already run out, until there is nothing left to be had.
VARIABLE wasted

varsW == <<vars, wasted>>

\* The connections a thread could have at once: idle ones and free slots.
Free == IF closed THEN 0 ELSE Cardinality(idle) + (MaxSize - num)

\* notify() took a waiter off the list that had given up, and left it that way.
SpentOnExpired ==
    \E w \in waiters \ waiters' : pc[w] = "expired" /\ pc'[w] = "expired"

InitW == Init /\ wasted = FALSE

NextW == Next /\ wasted' = (Free' > 0 /\ (wasted \/ SpentOnExpired))

SpecW == InitW /\ [][NextW]_varsW /\ Fairness

\* While somebody sleeps in getconn(), every connection that is to be had has a
\* woken thread on its way to it: each path that frees capacity (putconn, a
\* discard, a failed open) notifies, and nothing but the race of a notify()
\* with an expiring wait() loses a notification.
WakeupsAccounted ==
    In({"asleep"}) # {} /\ ~wasted => Free <= Cardinality(In({"woken"}))
=============================================================================
