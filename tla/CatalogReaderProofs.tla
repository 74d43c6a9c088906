------------------------ MODULE CatalogReaderProofs -------------------------
(***************************************************************************)
(* Theorems about CatalogReader, for any number of threads and connections *)
(* and any size of the pool.  Inv is the inductive invariant: what the     *)
(* borrowed connection of a thread is good for depends on nobody else      *)
(* having it (LentOnce), and that a refusal surfaces on no failure having  *)
(* been met by a call that is still under way (NothingHidden).             *)
(***************************************************************************)
EXTENDS CatalogReader, TLAPS

\* A call goes on only while the server has refused it nothing.
NothingHidden ==
    \A t \in Threads : step[t] # "idle" => "server" \notin met[t]

\* A thread has a connection, or is promised one, only where its call says so.
Places ==
    \A t \in Threads :
        /\ step[t] \in {"idle", "borrowing"} => t \notin Borrowers
        /\ t \in promised => step[t] = "borrowing"

Inv ==
    /\ TypeOKC
    /\ LentOnce
    /\ Places
    /\ IdleOutsideTransactions
    /\ NothingHidden
    /\ RefusalsSurface

\* Initially nobody has borrowed anything, nor has any call met a failure.
LEMMA InitHolds == InitC => Inv
<1> SUFFICES ASSUME InitC PROVE Inv
  OBVIOUS
<1> USE DEF InitC, InitL
<1>1. TypeOKC
  BY DEF TypeOKC, Borrowers, Jobs, Steps, SessionStates
<1>2. LentOnce /\ Places /\ IdleOutsideTransactions
  BY DEF LentOnce, Borrowers, Places, IdleOutsideTransactions
<1>3. NothingHidden /\ RefusalsSurface
  BY DEF NothingHidden, RefusalsSurface
<1> QED
  BY <1>1, <1>2, <1>3 DEF Inv

\* Only shelf, promised, lent, step and session matter to the first half of Inv,
\* and step, job, answer and met to the second; each action keeps both.
LEMMA StepKeeps == Inv /\ [NextC]_varsC => Inv'
<1> SUFFICES ASSUME Inv, [NextC]_varsC PROVE Inv'
  OBVIOUS
<1> USE NoConnIsNone
<1> USE DEF Inv, TypeOKC, LentOnce, Borrowers, Places, IdleOutsideTransactions,
        NothingHidden, RefusalsSurface, Jobs, Steps, SessionStates, reading, varsL
<1>1. ASSUME NEW t \in Threads, Metadata(t) PROVE Inv'
  <2>1. TypeOKC'
    BY <1>1 DEF Metadata, Starts, Moves
  <2>2. LentOnce'
    BY <1>1 DEF Metadata, Starts, Moves
  <2>3. Places' /\ IdleOutsideTransactions'
    BY <1>1 DEF Metadata, Starts, Moves
  <2>4. NothingHidden' /\ RefusalsSurface'
    BY <1>1 DEF Metadata, Starts, Moves
  <2> QED
    BY <2>1, <2>2, <2>3, <2>4
<1>2. ASSUME NEW t \in Threads, GetCompletions(t) PROVE Inv'
  BY <1>2 DEF GetCompletions, Starts, Moves
<1>3. ASSUME NEW t \in Threads, Borrow(t) PROVE Inv'
  <2>1. TypeOKC'
    BY <1>3 DEF Borrow, Lend, Moves
  <2>2. LentOnce'
    BY <1>3 DEF Borrow, Lend, Moves
  <2>3. Places' /\ IdleOutsideTransactions'
    BY <1>3 DEF Borrow, Lend, Moves
  <2>4. NothingHidden' /\ RefusalsSurface'
    BY <1>3 DEF Borrow, Lend, Moves
  <2> QED
    BY <2>1, <2>2, <2>3, <2>4
<1>4. ASSUME NEW t \in Threads, Reserve(t) PROVE Inv'
  BY <1>4 DEF Reserve, Promise
<1>5. ASSUME NEW t \in Threads, BorrowNew(t) PROVE Inv'
  <2>1. TypeOKC'
    BY <1>5 DEF BorrowNew, Deliver, Moves
  <2>2. LentOnce'
    BY <1>5 DEF BorrowNew, Deliver, Moves
  <2>3. Places' /\ IdleOutsideTransactions'
    BY <1>5 DEF BorrowNew, Deliver, Moves
  <2>4. NothingHidden' /\ RefusalsSurface'
    BY <1>5 DEF BorrowNew, Deliver, Moves
  <2> QED
    BY <2>1, <2>2, <2>3, <2>4
<1>6. ASSUME NEW t \in Threads, BorrowFails(t) PROVE Inv'
  BY <1>6 DEF BorrowFails, BreakPromise, Meets, Ends, Moves
<1>7. ASSUME NEW t \in Threads, Begin(t) PROVE Inv'
  BY <1>7 DEF Begin, Leaves, Moves
<1>8. ASSUME NEW t \in Threads, BeginFails(t) PROVE Inv'
  BY <1>8 DEF BeginFails, Leaves, Drop, Meets, Ends, Moves
<1>9. ASSUME NEW t \in Threads, Answers(t) PROVE Inv'
  BY <1>9 DEF Answers, Moves
<1>10. ASSUME NEW t \in Threads, Misreads(t) PROVE Inv'
  <2> USE DEF Misreads, MisreadsShow, FallsBack, Drop, Meets, Moves
  <2>1. TypeOKC'
    <3>1. met' \in [Threads -> SUBSET {"misread", "server"}]
      BY <1>10
    <3>2. misreads' \in [Threads -> Nat]
      BY <1>10
    <3>3. lent' \in [Threads -> Conns \cup {NoConn}] /\ job' \in [Threads -> Jobs]
      BY <1>10
    <3>4. step' \in [Threads -> Steps] /\ useShow' \in BOOLEAN
      BY <1>10
    <3>5. \A u \in Threads :
             step'[u] \in {"beginning", "running", "answered"} => lent'[u] # NoConn
      BY <1>10
    <3> QED
      BY <1>10, <3>1, <3>2, <3>3, <3>4, <3>5
  <2>2. LentOnce'
    BY <1>10
  <2>3. Places' /\ IdleOutsideTransactions'
    BY <1>10
  <2>4. NothingHidden' /\ RefusalsSurface'
    BY <1>10
  <2> QED
    BY <2>1, <2>2, <2>3, <2>4
<1>10a. ASSUME NEW t \in Threads, MisreadsAndFails(t) PROVE Inv'
  BY <1>10a DEF MisreadsAndFails, Leaves, Drop, Ends, Moves
<1>11. ASSUME NEW t \in Threads, Refused(t) PROVE Inv'
  BY <1>11 DEF Refused, Leaves, Drop, Meets, Ends, Moves
<1>12. ASSUME NEW t \in Threads, CompletionsRefused(t) PROVE Inv'
  BY <1>12 DEF CompletionsRefused, GiveBack, Leaves, Drop, Return, Meets, Ends, Moves
<1>13. ASSUME NEW t \in Threads, Finish(t) PROVE Inv'
  BY <1>13 DEF Finish, GiveBack, Leaves, Drop, Return, Ends, Moves
<1>14. ASSUME NEW t \in Threads, FinishFails(t) PROVE Inv'
  BY <1>14 DEF FinishFails, Leaves, Drop, Meets, Ends, Moves
<1>15. ASSUME NEW c \in Conns, ServerDrops(c) PROVE Inv'
  BY <1>15 DEF ServerDrops
<1>16. ASSUME Close PROVE Inv'
  BY <1>16 DEF Close, Shut
<1>17. ASSUME UNCHANGED varsC PROVE Inv'
  BY <1>17 DEF varsC
<1> QED
  BY <1>1, <1>2, <1>3, <1>4, <1>5, <1>6, <1>7, <1>8, <1>9, <1>10, <1>10a, <1>11,
     <1>12, <1>13, <1>14, <1>15, <1>16, <1>17 DEF NextC

\* Inv holds in every state of every behaviour.
THEOREM Invariance == SpecC => []Inv
  BY InitHolds, StepKeeps, PTL DEF SpecC

\* The variables keep their types, and a thread that uses a connection has one:
\* the cursor of _metadata_cursor() never outlives the loan.
THEOREM TypeCorrect == SpecC => []TypeOKC
<1>1. Inv => TypeOKC
  BY DEF Inv
<1> QED
  BY <1>1, Invariance, PTL

\* No idle connection of the pool is inside a transaction.
THEOREM IdleIsOutside == SpecC => []IdleOutsideTransactions
<1>1. Inv => IdleOutsideTransactions
  BY DEF Inv
<1> QED
  BY <1>1, Invariance, PTL

\* No thread asks for a connection while it has one, so readers that wait for
\* each other cannot use the pool up.
THEOREM NobodyHoldsAndWaits == SpecC => []NoHoldAndWait
<1>1. Inv => NoHoldAndWait
  BY DEF Inv, Places, NoHoldAndWait
<1> QED
  BY <1>1, Invariance, PTL

\* A catalog call raises exactly when the server refused something: the fallback
\* hides the driver's own failures and no others.
THEOREM RefusalsAreRaised == SpecC => []RefusalsSurface
<1>1. Inv => RefusalsSurface
  BY DEF Inv
<1> QED
  BY <1>1, Invariance, PTL

-----------------------------------------------------------------------------
(* How often the SHOW path fails *)

\* The SHOW path is off as soon as a thread has found it broken, and that thread
\* has left it.
DoomedOnce ==
    \A t \in Threads :
        /\ misreads[t] <= 1
        /\ misreads[t] # 0 => ~useShow /\ (step[t] = "idle" \/ job[t] # "show")

\* A step other than Misreads counts nothing, and brings nobody onto the path once
\* it is off.
LEMMA NobodyJoins ==
    ASSUME Inv, [NextC]_varsC, ~\E t \in Threads : Misreads(t)
    PROVE  /\ misreads' = misreads
           /\ useShow' = useShow
           /\ \A u \in Threads : ~useShow /\ (step[u] = "idle" \/ job[u] # "show") =>
                                    step'[u] = "idle" \/ job'[u] # "show"
<1> DEFINE Kept ==
      /\ misreads' = misreads
      /\ useShow' = useShow
      /\ \A u \in Threads : ~useShow /\ (step[u] = "idle" \/ job[u] # "show") =>
                               step'[u] = "idle" \/ job'[u] # "show"
<1> USE DEF Inv, TypeOKC
<1>1. ASSUME NEW t \in Threads, Metadata(t) \/ GetCompletions(t) PROVE Kept
  BY <1>1 DEF Metadata, GetCompletions, Starts, Moves
<1>2. ASSUME NEW t \in Threads,
             Borrow(t) \/ BorrowNew(t) \/ Begin(t) \/ Answers(t)
      PROVE  Kept
  <2>1. step[t] # "idle"
    BY <1>2 DEF Borrow, BorrowNew, Deliver, Places, Begin, Answers
  <2>2. job' = job /\ misreads' = misreads /\ useShow' = useShow
    BY <1>2 DEF Borrow, BorrowNew, Begin, Answers
  <2>3. \A u \in Threads \ {t} : step'[u] = step[u]
    BY <1>2 DEF Borrow, BorrowNew, Begin, Answers, Moves
  <2> QED
    BY <2>1, <2>2, <2>3
<1>3. ASSUME NEW t \in Threads,
             \/ BorrowFails(t) \/ BeginFails(t) \/ MisreadsAndFails(t) \/ Refused(t)
             \/ CompletionsRefused(t) \/ Finish(t) \/ FinishFails(t)
      PROVE  Kept
  <2>1. step' = [step EXCEPT ![t] = "idle"] /\ job' = job
    BY <1>3 DEF BorrowFails, BeginFails, MisreadsAndFails, Refused,
       CompletionsRefused, Finish, FinishFails, Ends, Moves
  <2>2. misreads' = misreads /\ useShow' = useShow
    BY <1>3 DEF BorrowFails, BeginFails, MisreadsAndFails, Refused,
       CompletionsRefused, Finish, FinishFails
  <2> QED
    BY <2>1, <2>2
<1>4. ASSUME \/ \E t \in Threads : Reserve(t)
             \/ \E c \in Conns : ServerDrops(c)
             \/ Close \/ UNCHANGED varsC
      PROVE  Kept
  BY <1>4 DEF Reserve, ServerDrops, Close, varsC, reading
<1> QED
  BY Zenon, <1>1, <1>2, <1>3, <1>4 DEF NextC

LEMMA DoomedStep ==
    ASSUME Inv, DoomedOnce, [NextC]_varsC
    PROVE  DoomedOnce'
<1>1. ASSUME NEW t \in Threads, Misreads(t) PROVE DoomedOnce'
  <2>1. /\ job[t] = "show" /\ step[t] # "idle"
        /\ misreads' = [misreads EXCEPT ![t] = @ + 1]
        /\ job' = [job EXCEPT ![t] = "query"]
        /\ step' = [step EXCEPT ![t] = "borrowing"]
        /\ ~useShow'
    BY <1>1 DEF Misreads, MisreadsShow, FallsBack, Moves
  <2>2. misreads[t] = 0
    BY <2>1 DEF DoomedOnce
  <2> QED
    BY <2>1, <2>2 DEF DoomedOnce, Inv, TypeOKC
<1>2. CASE ~\E t \in Threads : Misreads(t)
  BY <1>2, NobodyJoins DEF DoomedOnce
<1> QED
  BY <1>1, <1>2

\* "The first failure switches this off": each thread that reads the catalog has
\* the driver's indexing error come out of the SHOW path once at most, however
\* many threads there are (_metadata()).
THEOREM DoomedOnceEach == SpecC => []OneDoomedAttemptEach
<1>1. InitC => DoomedOnce
  BY DEF InitC, DoomedOnce
<1>2. Inv /\ DoomedOnce /\ [NextC]_varsC => DoomedOnce'
  BY DoomedStep
<1>3. DoomedOnce => OneDoomedAttemptEach
  BY DEF DoomedOnce, OneDoomedAttemptEach
<1> QED
  BY <1>1, <1>2, <1>3, Invariance, PTL DEF SpecC
=============================================================================
