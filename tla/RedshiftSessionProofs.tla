---------------------- MODULE RedshiftSessionProofs -----------------------
(***************************************************************************)
(* Proofs about RedshiftSession, for any number of statements.             *)
(***************************************************************************)
EXTENDS RedshiftSession, TLAPS

\* A server that answers every connection of a session alike.
UniformServer == ProbeAnswers \subseteq {{TRUE}, {FALSE}}

\* Calls happen in an open session only, and nothing before one.
Phases ==
    /\ op # "rest" => phase = "open"
    /\ phase = "new" => tx = "idle" /\ mode = "Manual" /\ pending = {} /\ durable = {}
    /\ op = "beginning" => tx = "idle" /\ (mode = "Manual" \/ readOnly)

\* An aborted transaction is on its way to being rolled back, or a commit() that
\* raised has left it behind in Manual mode.
AbortedIsKnown ==
    tx = "aborted" =>
        \/ op = "answered" /\ outcome \in Failures
        \/ op \in {"rest", "running"} /\ told = "error" /\ mode = "Manual"

\* What makes a read-only session read only: the main connection's default, or
\* a transaction opened read only around every statement.
ReadOnlyKept ==
    readOnly =>
        /\ durable = {}
        /\ pending = {}
        /\ phase \in {"open", "closed"} =>
              probe = {mainRO} /\ sessionRO = mainRO /\ (mainRO \/ honoured)
        /\ ~mainRO /\ tx # "idle" => txRO
        /\ ~mainRO /\ op = "running" /\ alive => tx # "idle"

\* In Auto mode only a read-only session is ever found inside a transaction,
\* save for what a statement that is just returning has left behind.
AutoOutside ==
    mode = "Auto" /\ tx # "idle" =>
        readOnly \/ (op = "answered" /\ outcome # "rows")

\* What execute() is about to report as done has been committed.
AutoWriteDone ==
    mode = "Auto" /\ op = "answered" /\ stmt = "write" /\ outcome = "done" =>
        n \in durable

\* In Manual mode every statement runs inside a transaction, while there is a
\* connection to have one.
ManualInside ==
    /\ mode = "Manual" /\ op = "running" /\ alive => tx # "idle"
    /\ ~alive => tx = "idle" /\ pending = {}

\* In Auto mode no write waits for a commit.
AutoEmpty == mode = "Auto" => pending = {}

\* In Auto mode only a session that is made read only by its transactions opens
\* any; the user's own BEGIN is undone as it returns.
AutoBare ==
    /\ mode = "Auto" /\ op = "beginning" => readOnly /\ ~sessionRO
    /\ mode = "Auto" /\ tx # "idle" =>
          \/ readOnly /\ ~sessionRO
          \/ op = "answered" /\ stmt = "begin" /\ outcome # "rows"

Shape ==
    Phases /\ AbortedIsKnown /\ AutoLeavesNothingOpen /\ AutoOutside

Kept == ReadOnlyKept /\ AutoWriteDone

-----------------------------------------------------------------------------
\* Every step keeps the flags Boolean.
LEMMA FlagsStep ==
    FlagsOK /\ [Next]_vars => FlagsOK'
<1> SUFFICES ASSUME FlagsOK, [Next]_vars PROVE FlagsOK'
  OBVIOUS
<1> USE DEF FlagsOK, env, setup, server, call, cancelling
<1>1. CASE Open
  BY Zenon, <1>1 DEF Open, Refuses, Configure
<1>2. CASE OpenFails
  BY Zenon, <1>2 DEF OpenFails
<1>3. CASE OpenPooled
  BY Zenon, <1>3 DEF OpenPooled, Configure
<1>4. CASE ToggleTransactionMode
  BY Zenon, <1>4 DEF ToggleTransactionMode, Rollback, Undone, AtRest
<1>5. CASE RollbackButton
  BY Zenon, <1>5 DEF RollbackButton, Rollback, Undone, AtRest
<1>6. CASE CommitButton
  BY Zenon, <1>6 DEF CommitButton, ServerCommits, AtRest
<1>7. CASE CommitButtonFails
  BY Zenon, <1>7 DEF CommitButtonFails, CommitIsLost, CommitIsRefused,
              CommitIsCanceled, ServerCommits, Undone, AtRest
<1>8. ASSUME NEW kind \in Kinds, Submit(kind) PROVE FlagsOK'
  BY Zenon, <1>8 DEF Submit, NeedsExplicitBegin, AtRest
<1>9. CASE BeginDone
  BY Zenon, <1>9 DEF BeginDone
<1>10. CASE BeginFails
  BY Zenon, <1>10 DEF BeginFails
<1>11. CASE Succeeds
  BY Zenon, <1>11 DEF Succeeds, ServerCommits, Undone, Writable
<1>12. ASSUME NEW e \in Failures, Fails(e) PROVE FlagsOK'
  BY Zenon, <1>12 DEF Fails
<1>13. CASE FailsDead
  BY Zenon, <1>13 DEF FailsDead
<1>14. CASE Return
  BY Zenon, <1>14 DEF Return, EndImplicitTransaction, Rollback, Undone, IsCanceled
<1>15. ASSUME NEW c \in cursors, FetchAll(c) PROVE FlagsOK'
  BY Zenon, <1>15 DEF FetchAll, EndImplicitTransaction, Rollback, Undone, AtRest
<1>16. CASE LoseConnection
  BY Zenon, <1>16 DEF LoseConnection, Writable
<1>17. CASE Close
  BY Zenon, <1>17 DEF Close, AtRest
<1>18. CASE AskCancel
  BY Zenon, <1>18 DEF AskCancel, QueryRunning
<1>19. CASE SendCancel
  BY Zenon, <1>19 DEF SendCancel
<1>20. CASE CancelFails
  BY Zenon, <1>20 DEF CancelFails
<1>21. CASE CancelReturns
  BY Zenon, <1>21 DEF CancelReturns
<1>22. CASE CancelLapses
  BY Zenon, <1>22 DEF CancelLapses
<1>23. CASE UNCHANGED vars
  BY Zenon, <1>23 DEF vars
<1> QED
  BY <1>1, <1>2, <1>3, <1>4, <1>5, <1>6, <1>7, <1>8, <1>9, <1>10, <1>11,
     <1>12, <1>13, <1>14, <1>15, <1>16, <1>17, <1>18, <1>19, <1>20, <1>21,
     <1>22, <1>23 DEF Next

\* Every step keeps the other variables in their ranges.
LEMMA ValuesStep ==
    FlagsOK /\ ValuesOK /\ [Next]_vars => ValuesOK'
<1> SUFFICES ASSUME FlagsOK, ValuesOK, [Next]_vars PROVE ValuesOK'
  OBVIOUS
<1> USE DEF FlagsOK, ValuesOK, Ops, Kinds, Failures, Outcomes, env, setup,
            server, call, cancelling
<1>1. CASE Open
  BY <1>1 DEF Open, Refuses, Configure
<1>2. CASE OpenFails
  BY <1>2 DEF OpenFails
<1>3. CASE OpenPooled
  BY <1>3 DEF OpenPooled, Configure
<1>4. CASE ToggleTransactionMode
  BY <1>4 DEF ToggleTransactionMode, Rollback, Undone, AtRest
<1>5. CASE RollbackButton
  BY <1>5 DEF RollbackButton, Rollback, Undone, AtRest
<1>6. CASE CommitButton
  BY <1>6 DEF CommitButton, ServerCommits, AtRest
<1>7. CASE CommitButtonFails
  BY <1>7 DEF CommitButtonFails, CommitIsLost, CommitIsRefused,
              CommitIsCanceled, ServerCommits, Undone, AtRest
<1>8. ASSUME NEW kind \in Kinds, Submit(kind) PROVE ValuesOK'
  BY <1>8 DEF Submit, NeedsExplicitBegin, AtRest
<1>9. CASE BeginDone
  BY <1>9 DEF BeginDone
<1>10. CASE BeginFails
  BY <1>10 DEF BeginFails
<1>11. CASE Succeeds
  BY <1>11 DEF Succeeds, ServerCommits, Undone, Writable
<1>12. ASSUME NEW e \in Failures, Fails(e) PROVE ValuesOK'
  BY <1>12 DEF Fails
<1>13. CASE FailsDead
  BY <1>13 DEF FailsDead
<1>14. CASE Return
  BY <1>14 DEF Return, EndImplicitTransaction, Rollback, Undone, IsCanceled
<1>15. ASSUME NEW c \in cursors, FetchAll(c) PROVE ValuesOK'
  BY <1>15 DEF FetchAll, EndImplicitTransaction, Rollback, Undone, AtRest
<1>16. CASE LoseConnection
  BY <1>16 DEF LoseConnection, Writable
<1>17. CASE Close
  BY <1>17 DEF Close, AtRest
<1>18. CASE AskCancel
  BY <1>18 DEF AskCancel, QueryRunning
<1>19. CASE SendCancel
  BY <1>19 DEF SendCancel
<1>20. CASE CancelFails
  BY <1>20 DEF CancelFails
<1>21. CASE CancelReturns
  BY <1>21 DEF CancelReturns
<1>22. CASE CancelLapses
  BY <1>22 DEF CancelLapses
<1>23. CASE UNCHANGED vars
  BY <1>23 DEF vars
<1> QED
  BY <1>1, <1>2, <1>3, <1>4, <1>5, <1>6, <1>7, <1>8, <1>9, <1>10, <1>11,
     <1>12, <1>13, <1>14, <1>15, <1>16, <1>17, <1>18, <1>19, <1>20, <1>21,
     <1>22, <1>23 DEF Next

\* Every step keeps to the statements that were submitted.
LEMMA NumbersStep ==
    NumbersOK /\ [Next]_vars => NumbersOK'
<1> SUFFICES ASSUME NumbersOK, [Next]_vars PROVE NumbersOK'
  OBVIOUS
<1> USE DEF SessionAssumption, NumbersOK, env, setup, server, call,
            cancelling
<1>1. CASE Open
  BY <1>1 DEF Open, Refuses, Configure
<1>2. CASE OpenFails
  BY <1>2 DEF OpenFails
<1>3. CASE OpenPooled
  BY <1>3 DEF OpenPooled, Configure
<1>4. CASE ToggleTransactionMode
  BY <1>4 DEF ToggleTransactionMode, Rollback, Undone, AtRest
<1>5. CASE RollbackButton
  BY <1>5 DEF RollbackButton, Rollback, Undone, AtRest
<1>6. CASE CommitButton
  BY <1>6 DEF CommitButton, ServerCommits, AtRest
<1>7. CASE CommitButtonFails
  BY <1>7 DEF CommitButtonFails, CommitIsLost, CommitIsRefused,
              CommitIsCanceled, ServerCommits, Undone, AtRest
<1>8. ASSUME NEW kind \in Kinds, Submit(kind) PROVE NumbersOK'
  <2>1. /\ n < MaxStatements
        /\ n' = n + 1
        /\ UNCHANGED <<cursors, pending, durable>>
    BY <1>8 DEF Submit
  <2>2. n' \in 0..MaxStatements /\ 1..n \subseteq 1..n'
    BY <2>1, SessionAssumption
  <2> QED
    BY <2>1, <2>2
<1>9. CASE BeginDone
  BY <1>9 DEF BeginDone
<1>10. CASE BeginFails
  BY <1>10 DEF BeginFails
<1>11. CASE Succeeds
  <2>1. /\ n # 0
        /\ UNCHANGED <<n, cursors>>
        /\ pending' \subseteq pending \cup {n}
        /\ durable' \subseteq durable \cup pending \cup {n}
    BY <1>11 DEF Succeeds, ServerCommits, Undone
  <2> QED
    BY <2>1
<1>12. ASSUME NEW e \in Failures, Fails(e) PROVE NumbersOK'
  BY <1>12 DEF Fails
<1>13. CASE FailsDead
  BY <1>13 DEF FailsDead
<1>14. CASE Return
  <2>1. /\ n # 0
        /\ op' = "rest"
        /\ UNCHANGED <<n, durable>>
        /\ pending' \subseteq pending
        /\ cursors' \subseteq cursors \cup {n}
    BY <1>14 DEF Return, EndImplicitTransaction, Rollback, Undone
  <2> QED
    BY <2>1
<1>15. ASSUME NEW c \in cursors, FetchAll(c) PROVE NumbersOK'
  BY <1>15 DEF FetchAll, EndImplicitTransaction, Rollback, Undone, AtRest
<1>16. CASE LoseConnection
  <2>1. /\ UNCHANGED <<op, n, cursors>>
        /\ pending' = {}
        /\ \/ durable' \subseteq durable \cup pending
           \/ n # 0 /\ durable' \subseteq durable \cup {n}
    BY <1>16 DEF LoseConnection
  <2> QED
    BY <2>1
<1>17. CASE Close
  BY <1>17 DEF Close, AtRest
<1>18. CASE AskCancel
  BY <1>18 DEF AskCancel, QueryRunning
<1>19. CASE SendCancel
  BY <1>19 DEF SendCancel
<1>20. CASE CancelFails
  BY <1>20 DEF CancelFails
<1>21. CASE CancelReturns
  BY <1>21 DEF CancelReturns
<1>22. CASE CancelLapses
  BY <1>22 DEF CancelLapses
<1>23. CASE UNCHANGED vars
  BY <1>23 DEF vars
<1> QED
  BY <1>1, <1>2, <1>3, <1>4, <1>5, <1>6, <1>7, <1>8, <1>9, <1>10, <1>11,
     <1>12, <1>13, <1>14, <1>15, <1>16, <1>17, <1>18, <1>19, <1>20, <1>21,
     <1>22, <1>23 DEF Next

\* Every call leaves the transaction as it should be between calls.
LEMMA ShapeStep ==
    TypeOK /\ Shape /\ [Next]_vars => Shape'
<1> SUFFICES ASSUME TypeOK, Shape, [Next]_vars PROVE Shape'
  OBVIOUS
<1> USE DEF TypeOK, FlagsOK, ValuesOK, Shape, Phases, AbortedIsKnown,
            AutoLeavesNothingOpen, AutoOutside, AtRest, Ops, Kinds,
            Failures, Outcomes, env, setup, server, call, cancelling
<1>1. CASE Open
  BY <1>1 DEF Open, Refuses, Configure
<1>2. CASE OpenFails
  BY <1>2 DEF OpenFails
<1>3. CASE OpenPooled
  BY <1>3 DEF OpenPooled, Configure
<1>4. CASE ToggleTransactionMode
  BY <1>4 DEF ToggleTransactionMode, Rollback, Undone, AtRest
<1>5. CASE RollbackButton
  BY <1>5 DEF RollbackButton, Rollback, Undone, AtRest
<1>6. CASE CommitButton
  BY <1>6 DEF CommitButton, ServerCommits, AtRest
<1>7. CASE CommitButtonFails
  BY <1>7 DEF CommitButtonFails, CommitIsLost, CommitIsRefused,
              CommitIsCanceled, ServerCommits, Undone, AtRest
<1>8. ASSUME NEW kind \in Kinds, Submit(kind) PROVE Shape'
  BY <1>8 DEF Submit, NeedsExplicitBegin, AtRest
<1>9. CASE BeginDone
  BY <1>9 DEF BeginDone
<1>10. CASE BeginFails
  BY <1>10 DEF BeginFails
<1>11. CASE Succeeds
  BY <1>11 DEF Succeeds, ServerCommits, Undone, Writable
<1>12. ASSUME NEW e \in Failures, Fails(e) PROVE Shape'
  BY <1>12 DEF Fails
<1>13. CASE FailsDead
  BY <1>13 DEF FailsDead
<1>14. CASE Return
  BY <1>14 DEF Return, EndImplicitTransaction, Rollback, Undone, IsCanceled
<1>15. ASSUME NEW c \in cursors, FetchAll(c) PROVE Shape'
  BY <1>15 DEF FetchAll, EndImplicitTransaction, Rollback, Undone, AtRest
<1>16. CASE LoseConnection
  BY <1>16 DEF LoseConnection, Writable
<1>17. CASE Close
  BY <1>17 DEF Close, AtRest
<1>18. CASE AskCancel
  BY <1>18 DEF AskCancel, QueryRunning
<1>19. CASE SendCancel
  BY <1>19 DEF SendCancel
<1>20. CASE CancelFails
  BY <1>20 DEF CancelFails
<1>21. CASE CancelReturns
  BY <1>21 DEF CancelReturns
<1>22. CASE CancelLapses
  BY <1>22 DEF CancelLapses
<1>23. CASE UNCHANGED vars
  BY <1>23 DEF vars
<1> QED
  BY <1>1, <1>2, <1>3, <1>4, <1>5, <1>6, <1>7, <1>8, <1>9, <1>10, <1>11,
     <1>12, <1>13, <1>14, <1>15, <1>16, <1>17, <1>18, <1>19, <1>20, <1>21,
     <1>22, <1>23 DEF Next

\* Every step keeps a read-only session read only, if the server is uniform,
\* and every write of Auto mode.
LEMMA KeptStep ==
    UniformServer /\ TypeOK /\ Shape /\ Kept /\ [Next]_vars => Kept'
<1> SUFFICES ASSUME UniformServer, TypeOK, Shape, Kept, [Next]_vars PROVE Kept'
  OBVIOUS
<1>0. ASSUME NEW works \in probe PROVE probe = {works} /\ works \in BOOLEAN
  <2>1. probe = {TRUE} \/ probe = {FALSE}
    BY DEF UniformServer, TypeOK, ValuesOK
  <2> QED
    BY <2>1
<1> USE DEF UniformServer, TypeOK, FlagsOK, ValuesOK, Shape, Phases,
            AbortedIsKnown, AutoOutside, Kept, ReadOnlyKept,
            AutoWriteDone, Ops, Kinds, Failures, Outcomes, env, setup,
            server, call, cancelling
<1>1. CASE Open
  <2> PICK works \in probe :
        /\ ~Refuses(works)
        /\ Configure(works)
        /\ mainRO' = (readOnly /\ works)
    BY <1>1 DEF Open
  <2>1. probe = {works} /\ works \in BOOLEAN
    BY <1>0, Zenon
  <2>2. readOnly => mainRO' = works /\ sessionRO' = works /\ (works \/ honoured)
    BY <2>1 DEF Refuses, Configure
  <2> QED
    BY <1>1, <2>1, <2>2 DEF Open
<1>2. CASE OpenFails
  BY <1>2 DEF OpenFails
<1>3. CASE OpenPooled
  BY <1>3 DEF OpenPooled, Configure
<1>4. CASE ToggleTransactionMode
  BY <1>4 DEF ToggleTransactionMode, Rollback, Undone, AtRest
<1>5. CASE RollbackButton
  BY <1>5 DEF RollbackButton, Rollback, Undone, AtRest
<1>6. CASE CommitButton
  BY <1>6 DEF CommitButton, ServerCommits, AtRest
<1>7. CASE CommitButtonFails
  BY <1>7 DEF CommitButtonFails, CommitIsLost, CommitIsRefused,
              CommitIsCanceled, ServerCommits, Undone, AtRest
<1>8. ASSUME NEW kind \in Kinds, Submit(kind) PROVE Kept'
  BY <1>8 DEF Submit, NeedsExplicitBegin, AtRest
<1>9. CASE BeginDone
  BY <1>9 DEF BeginDone
<1>10. CASE BeginFails
  BY <1>10 DEF BeginFails
<1>11. CASE Succeeds
  BY <1>11 DEF Succeeds, ServerCommits, Undone, Writable
<1>12. ASSUME NEW e \in Failures, Fails(e) PROVE Kept'
  BY <1>12 DEF Fails
<1>13. CASE FailsDead
  BY <1>13 DEF FailsDead
<1>14. CASE Return
  BY <1>14 DEF Return, EndImplicitTransaction, Rollback, Undone, IsCanceled
<1>15. ASSUME NEW c \in cursors, FetchAll(c) PROVE Kept'
  BY <1>15 DEF FetchAll, EndImplicitTransaction, Rollback, Undone, AtRest
<1>16. CASE LoseConnection
  BY <1>16 DEF LoseConnection, Writable
<1>17. CASE Close
  BY <1>17 DEF Close, AtRest
<1>18. CASE AskCancel
  BY <1>18 DEF AskCancel, QueryRunning
<1>19. CASE SendCancel
  BY <1>19 DEF SendCancel
<1>20. CASE CancelFails
  BY <1>20 DEF CancelFails
<1>21. CASE CancelReturns
  BY <1>21 DEF CancelReturns
<1>22. CASE CancelLapses
  BY <1>22 DEF CancelLapses
<1>23. CASE UNCHANGED vars
  BY <1>23 DEF vars
<1> QED
  BY <1>1, <1>2, <1>3, <1>4, <1>5, <1>6, <1>7, <1>8, <1>9, <1>10, <1>11,
     <1>12, <1>13, <1>14, <1>15, <1>16, <1>17, <1>18, <1>19, <1>20, <1>21,
     <1>22, <1>23 DEF Next

\* Every step keeps Manual mode's statements inside of a transaction.
LEMMA InsideStep ==
    TypeOK /\ Shape /\ ManualInside /\ [Next]_vars => ManualInside'
<1> SUFFICES ASSUME TypeOK, Shape, ManualInside, [Next]_vars PROVE ManualInside'
  OBVIOUS
<1> USE DEF TypeOK, FlagsOK, ValuesOK, Shape, Phases, AbortedIsKnown,
            ManualInside, Ops, Kinds, Failures, Outcomes, env, setup, server,
            call, cancelling
<1>1. CASE Open
  BY <1>1 DEF Open, Refuses, Configure
<1>2. CASE OpenFails
  BY <1>2 DEF OpenFails
<1>3. CASE OpenPooled
  BY <1>3 DEF OpenPooled, Configure
<1>4. CASE ToggleTransactionMode
  BY <1>4 DEF ToggleTransactionMode, Rollback, Undone, AtRest
<1>5. CASE RollbackButton
  BY <1>5 DEF RollbackButton, Rollback, Undone, AtRest
<1>6. CASE CommitButton
  BY <1>6 DEF CommitButton, ServerCommits, AtRest
<1>7. CASE CommitButtonFails
  BY <1>7 DEF CommitButtonFails, CommitIsLost, CommitIsRefused,
              CommitIsCanceled, ServerCommits, Undone, AtRest
<1>8. ASSUME NEW kind \in Kinds, Submit(kind) PROVE ManualInside'
  BY <1>8 DEF Submit, NeedsExplicitBegin, AtRest
<1>9. CASE BeginDone
  BY <1>9 DEF BeginDone
<1>10. CASE BeginFails
  BY <1>10 DEF BeginFails
<1>11. CASE Succeeds
  BY <1>11 DEF Succeeds, ServerCommits, Undone, Writable
<1>12. ASSUME NEW e \in Failures, Fails(e) PROVE ManualInside'
  BY <1>12 DEF Fails
<1>13. CASE FailsDead
  BY <1>13 DEF FailsDead
<1>14. CASE Return
  BY <1>14 DEF Return, EndImplicitTransaction, Rollback, Undone, IsCanceled
<1>15. ASSUME NEW c \in cursors, FetchAll(c) PROVE ManualInside'
  BY <1>15 DEF FetchAll, EndImplicitTransaction, Rollback, Undone, AtRest
<1>16. CASE LoseConnection
  BY <1>16 DEF LoseConnection, Writable
<1>17. CASE Close
  BY <1>17 DEF Close, AtRest
<1>18. CASE AskCancel
  BY <1>18 DEF AskCancel, QueryRunning
<1>19. CASE SendCancel
  BY <1>19 DEF SendCancel
<1>20. CASE CancelFails
  BY <1>20 DEF CancelFails
<1>21. CASE CancelReturns
  BY <1>21 DEF CancelReturns
<1>22. CASE CancelLapses
  BY <1>22 DEF CancelLapses
<1>23. CASE UNCHANGED vars
  BY <1>23 DEF vars
<1> QED
  BY <1>1, <1>2, <1>3, <1>4, <1>5, <1>6, <1>7, <1>8, <1>9, <1>10, <1>11,
     <1>12, <1>13, <1>14, <1>15, <1>16, <1>17, <1>18, <1>19, <1>20, <1>21,
     <1>22, <1>23 DEF Next

\* Every step keeps Auto mode free of writes that wait, if the server is uniform.
LEMMA AutoEmptyStep ==
    TypeOK /\ Shape /\ Kept /\ AutoEmpty /\ [Next]_vars => AutoEmpty'
<1> SUFFICES ASSUME TypeOK, Shape, Kept, AutoEmpty, [Next]_vars PROVE AutoEmpty'
  OBVIOUS
<1> USE DEF TypeOK, FlagsOK, ValuesOK, Shape, Phases, AbortedIsKnown,
            AutoOutside, Kept, ReadOnlyKept, AutoEmpty, Ops, Kinds, Failures,
            Outcomes, env, setup, server, call, cancelling
<1>1. CASE Open
  BY <1>1 DEF Open, Refuses, Configure
<1>2. CASE OpenFails
  BY <1>2 DEF OpenFails
<1>3. CASE OpenPooled
  BY <1>3 DEF OpenPooled, Configure
<1>4. CASE ToggleTransactionMode
  BY <1>4 DEF ToggleTransactionMode, Rollback, Undone, AtRest
<1>5. CASE RollbackButton
  BY <1>5 DEF RollbackButton, Rollback, Undone, AtRest
<1>6. CASE CommitButton
  BY <1>6 DEF CommitButton, ServerCommits, AtRest
<1>7. CASE CommitButtonFails
  BY <1>7 DEF CommitButtonFails, CommitIsLost, CommitIsRefused,
              CommitIsCanceled, ServerCommits, Undone, AtRest
<1>8. ASSUME NEW kind \in Kinds, Submit(kind) PROVE AutoEmpty'
  BY <1>8 DEF Submit, NeedsExplicitBegin, AtRest
<1>9. CASE BeginDone
  BY <1>9 DEF BeginDone
<1>10. CASE BeginFails
  BY <1>10 DEF BeginFails
<1>11. CASE Succeeds
  BY <1>11 DEF Succeeds, ServerCommits, Undone, Writable
<1>12. ASSUME NEW e \in Failures, Fails(e) PROVE AutoEmpty'
  BY <1>12 DEF Fails
<1>13. CASE FailsDead
  BY <1>13 DEF FailsDead
<1>14. CASE Return
  BY <1>14 DEF Return, EndImplicitTransaction, Rollback, Undone, IsCanceled
<1>15. ASSUME NEW c \in cursors, FetchAll(c) PROVE AutoEmpty'
  BY <1>15 DEF FetchAll, EndImplicitTransaction, Rollback, Undone, AtRest
<1>16. CASE LoseConnection
  BY <1>16 DEF LoseConnection, Writable
<1>17. CASE Close
  BY <1>17 DEF Close, AtRest
<1>18. CASE AskCancel
  BY <1>18 DEF AskCancel, QueryRunning
<1>19. CASE SendCancel
  BY <1>19 DEF SendCancel
<1>20. CASE CancelFails
  BY <1>20 DEF CancelFails
<1>21. CASE CancelReturns
  BY <1>21 DEF CancelReturns
<1>22. CASE CancelLapses
  BY <1>22 DEF CancelLapses
<1>23. CASE UNCHANGED vars
  BY <1>23 DEF vars
<1> QED
  BY <1>1, <1>2, <1>3, <1>4, <1>5, <1>6, <1>7, <1>8, <1>9, <1>10, <1>11,
     <1>12, <1>13, <1>14, <1>15, <1>16, <1>17, <1>18, <1>19, <1>20, <1>21,
     <1>22, <1>23 DEF Next

\* Every step keeps Auto mode to the transactions it needs, if the server is uniform.
LEMMA AutoBareStep ==
    UniformServer /\ TypeOK /\ Shape /\ Kept /\ AutoBare /\ [Next]_vars => AutoBare'
<1> SUFFICES ASSUME UniformServer, TypeOK, Shape, Kept, AutoBare, [Next]_vars
             PROVE  AutoBare'
  OBVIOUS
<1> USE DEF UniformServer, TypeOK, FlagsOK, ValuesOK, Shape, Phases,
            AbortedIsKnown, AutoOutside, Kept, ReadOnlyKept, AutoBare, Ops, Kinds, Failures,
            Outcomes, env, setup, server, call, cancelling
<1>1. CASE Open
  BY <1>1 DEF Open, Refuses, Configure
<1>2. CASE OpenFails
  BY <1>2 DEF OpenFails
<1>3. CASE OpenPooled
  BY <1>3 DEF OpenPooled, Configure
<1>4. CASE ToggleTransactionMode
  BY <1>4 DEF ToggleTransactionMode, Rollback, Undone, AtRest
<1>5. CASE RollbackButton
  BY <1>5 DEF RollbackButton, Rollback, Undone, AtRest
<1>6. CASE CommitButton
  BY <1>6 DEF CommitButton, ServerCommits, AtRest
<1>7. CASE CommitButtonFails
  BY <1>7 DEF CommitButtonFails, CommitIsLost, CommitIsRefused,
              CommitIsCanceled, ServerCommits, Undone, AtRest
<1>8. ASSUME NEW kind \in Kinds, Submit(kind) PROVE AutoBare'
  BY <1>8 DEF Submit, NeedsExplicitBegin, AtRest
<1>9. CASE BeginDone
  BY <1>9 DEF BeginDone
<1>10. CASE BeginFails
  BY <1>10 DEF BeginFails
<1>11. CASE Succeeds
  BY <1>11 DEF Succeeds, ServerCommits, Undone, Writable
<1>12. ASSUME NEW e \in Failures, Fails(e) PROVE AutoBare'
  BY <1>12 DEF Fails
<1>13. CASE FailsDead
  BY <1>13 DEF FailsDead
<1>14. CASE Return
  BY <1>14 DEF Return, EndImplicitTransaction, Rollback, Undone, IsCanceled
<1>15. ASSUME NEW c \in cursors, FetchAll(c) PROVE AutoBare'
  BY <1>15 DEF FetchAll, EndImplicitTransaction, Rollback, Undone, AtRest
<1>16. CASE LoseConnection
  BY <1>16 DEF LoseConnection, Writable
<1>17. CASE Close
  BY <1>17 DEF Close, AtRest
<1>18. CASE AskCancel
  BY <1>18 DEF AskCancel, QueryRunning
<1>19. CASE SendCancel
  BY <1>19 DEF SendCancel
<1>20. CASE CancelFails
  BY <1>20 DEF CancelFails
<1>21. CASE CancelReturns
  BY <1>21 DEF CancelReturns
<1>22. CASE CancelLapses
  BY <1>22 DEF CancelLapses
<1>23. CASE UNCHANGED vars
  BY <1>23 DEF vars
<1> QED
  BY <1>1, <1>2, <1>3, <1>4, <1>5, <1>6, <1>7, <1>8, <1>9, <1>10, <1>11,
     <1>12, <1>13, <1>14, <1>15, <1>16, <1>17, <1>18, <1>19, <1>20, <1>21,
     <1>22, <1>23 DEF Next

\* No step but a commit makes anything durable in Manual mode.
LEMMA GateStep ==
    TypeOK /\ ManualInside /\ [Next]_vars =>
        (mode = "Manual" /\ durable' # durable =>
            CommitButton \/ CommitButtonFails \/ (op = "running" /\ stmt = "commit"))
<1> SUFFICES ASSUME TypeOK, ManualInside, [Next]_vars, mode = "Manual",
                    durable' # durable
             PROVE  CommitButton \/ CommitButtonFails
                    \/ (op = "running" /\ stmt = "commit")
  OBVIOUS
<1> USE DEF TypeOK, ValuesOK, Kinds, ManualInside, env, setup, server, call, cancelling
<1>1. CASE Open
  BY <1>1 DEF Open, Refuses, Configure
<1>2. CASE OpenFails
  BY <1>2 DEF OpenFails
<1>3. CASE OpenPooled
  BY <1>3 DEF OpenPooled, Configure
<1>4. CASE ToggleTransactionMode
  BY <1>4 DEF ToggleTransactionMode, Rollback, Undone, AtRest
<1>5. CASE RollbackButton
  BY <1>5 DEF RollbackButton, Rollback, Undone, AtRest
<1>6. CASE CommitButton
  BY <1>6 DEF CommitButton, ServerCommits, AtRest
<1>7. CASE CommitButtonFails
  BY <1>7 DEF CommitButtonFails, CommitIsLost, CommitIsRefused,
              CommitIsCanceled, ServerCommits, Undone, AtRest
<1>8. ASSUME NEW kind \in Kinds, Submit(kind) PROVE FALSE
  BY <1>8 DEF Submit, NeedsExplicitBegin, AtRest
<1>9. CASE BeginDone
  BY <1>9 DEF BeginDone
<1>10. CASE BeginFails
  BY <1>10 DEF BeginFails
<1>11. CASE Succeeds
  BY <1>11 DEF Succeeds, ServerCommits, Undone, Writable
<1>12. ASSUME NEW e \in Failures, Fails(e) PROVE FALSE
  BY <1>12 DEF Fails
<1>13. CASE FailsDead
  BY <1>13 DEF FailsDead
<1>14. CASE Return
  BY <1>14 DEF Return, EndImplicitTransaction, Rollback, Undone, IsCanceled
<1>15. ASSUME NEW c \in cursors, FetchAll(c) PROVE FALSE
  BY <1>15 DEF FetchAll, EndImplicitTransaction, Rollback, Undone, AtRest
<1>16. CASE LoseConnection
  BY <1>16 DEF LoseConnection, Writable
<1>17. CASE Close
  BY <1>17 DEF Close, AtRest
<1>18. CASE AskCancel
  BY <1>18 DEF AskCancel, QueryRunning
<1>19. CASE SendCancel
  BY <1>19 DEF SendCancel
<1>20. CASE CancelFails
  BY <1>20 DEF CancelFails
<1>21. CASE CancelReturns
  BY <1>21 DEF CancelReturns
<1>22. CASE CancelLapses
  BY <1>22 DEF CancelLapses
<1>23. CASE UNCHANGED vars
  BY <1>23 DEF vars
<1> QED
  BY <1>1, <1>2, <1>3, <1>4, <1>5, <1>6, <1>7, <1>8, <1>9, <1>10, <1>11,
     <1>12, <1>13, <1>14, <1>15, <1>16, <1>17, <1>18, <1>19, <1>20, <1>21,
     <1>22, <1>23 DEF Next

\* No step loses the writes of a transaction, but for those that give it up.
LEMMA LastsStep ==
    TypeOK /\ Shape /\ ManualInside /\ AutoEmpty /\ [Next]_vars =>
        (~(pending \subseteq pending' \cup durable') =>
            \/ RollbackButton
            \/ ToggleTransactionMode
            \/ op = "running" /\ stmt = "rollback"
            \/ op = "answered" /\ outcome \in Failures
            \/ CommitButtonFails
            \/ tx = "aborted" /\ told = "error"
            \/ alive /\ ~alive')
<1> SUFFICES ASSUME TypeOK, Shape, ManualInside, AutoEmpty, [Next]_vars,
                    ~(pending \subseteq pending' \cup durable')
             PROVE  \/ RollbackButton
                    \/ ToggleTransactionMode
                    \/ op = "running" /\ stmt = "rollback"
                    \/ op = "answered" /\ outcome \in Failures
                    \/ CommitButtonFails
                    \/ tx = "aborted" /\ told = "error"
                    \/ alive /\ ~alive'
  OBVIOUS
<1> USE DEF TypeOK, FlagsOK, ValuesOK, Shape, Phases, AbortedIsKnown,
            ManualInside, AutoEmpty, Ops, Kinds, Failures, Outcomes, env,
            setup, server, call, cancelling
<1>1. CASE Open
  BY <1>1 DEF Open, Refuses, Configure
<1>2. CASE OpenFails
  BY <1>2 DEF OpenFails
<1>3. CASE OpenPooled
  BY <1>3 DEF OpenPooled, Configure
<1>4. CASE ToggleTransactionMode
  BY <1>4 DEF ToggleTransactionMode, Rollback, Undone, AtRest
<1>5. CASE RollbackButton
  BY <1>5 DEF RollbackButton, Rollback, Undone, AtRest
<1>6. CASE CommitButton
  BY <1>6 DEF CommitButton, ServerCommits, AtRest
<1>7. CASE CommitButtonFails
  BY <1>7 DEF CommitButtonFails, CommitIsLost, CommitIsRefused,
              CommitIsCanceled, ServerCommits, Undone, AtRest
<1>8. ASSUME NEW kind \in Kinds, Submit(kind) PROVE FALSE
  BY <1>8 DEF Submit, NeedsExplicitBegin, AtRest
<1>9. CASE BeginDone
  BY <1>9 DEF BeginDone
<1>10. CASE BeginFails
  BY <1>10 DEF BeginFails
<1>11. CASE Succeeds
  BY <1>11 DEF Succeeds, ServerCommits, Undone, Writable
<1>12. ASSUME NEW e \in Failures, Fails(e) PROVE FALSE
  BY <1>12 DEF Fails
<1>13. CASE FailsDead
  BY <1>13 DEF FailsDead
<1>14. CASE Return
  BY <1>14 DEF Return, EndImplicitTransaction, Rollback, Undone, IsCanceled
<1>15. ASSUME NEW c \in cursors, FetchAll(c) PROVE FALSE
  BY <1>15 DEF FetchAll, EndImplicitTransaction, Rollback, Undone, AtRest
<1>16. CASE LoseConnection
  BY <1>16 DEF LoseConnection, Writable
<1>17. CASE Close
  BY <1>17 DEF Close, AtRest
<1>18. CASE AskCancel
  BY <1>18 DEF AskCancel, QueryRunning
<1>19. CASE SendCancel
  BY <1>19 DEF SendCancel
<1>20. CASE CancelFails
  BY <1>20 DEF CancelFails
<1>21. CASE CancelReturns
  BY <1>21 DEF CancelReturns
<1>22. CASE CancelLapses
  BY <1>22 DEF CancelLapses
<1>23. CASE UNCHANGED vars
  BY <1>23 DEF vars
<1> QED
  BY <1>1, <1>2, <1>3, <1>4, <1>5, <1>6, <1>7, <1>8, <1>9, <1>10, <1>11,
     <1>12, <1>13, <1>14, <1>15, <1>16, <1>17, <1>18, <1>19, <1>20, <1>21,
     <1>22, <1>23 DEF Next

\* No step but a commit() that raises leaves an aborted transaction at rest.
LEMMA PoisonStep ==
    TypeOK /\ Shape /\ [Next]_vars =>
        (op' = "rest" /\ tx' = "aborted" =>
            CommitButtonFails \/ (op = "rest" /\ tx = "aborted"))
<1> SUFFICES ASSUME TypeOK, Shape, [Next]_vars, op' = "rest", tx' = "aborted"
             PROVE  CommitButtonFails \/ (op = "rest" /\ tx = "aborted")
  OBVIOUS
<1> USE DEF TypeOK, FlagsOK, ValuesOK, Shape, Phases, AbortedIsKnown, Ops,
            Kinds, Failures, Outcomes, env, setup, server, call, cancelling
<1>1. CASE Open
  BY <1>1 DEF Open, Refuses, Configure
<1>2. CASE OpenFails
  BY <1>2 DEF OpenFails
<1>3. CASE OpenPooled
  BY <1>3 DEF OpenPooled, Configure
<1>4. CASE ToggleTransactionMode
  BY <1>4 DEF ToggleTransactionMode, Rollback, Undone, AtRest
<1>5. CASE RollbackButton
  BY <1>5 DEF RollbackButton, Rollback, Undone, AtRest
<1>6. CASE CommitButton
  BY <1>6 DEF CommitButton, ServerCommits, AtRest
<1>7. CASE CommitButtonFails
  BY <1>7 DEF CommitButtonFails, CommitIsLost, CommitIsRefused,
              CommitIsCanceled, ServerCommits, Undone, AtRest
<1>8. ASSUME NEW kind \in Kinds, Submit(kind) PROVE op = "rest" /\ tx = "aborted"
  BY <1>8 DEF Submit, NeedsExplicitBegin, AtRest
<1>9. CASE BeginDone
  BY <1>9 DEF BeginDone
<1>10. CASE BeginFails
  BY <1>10 DEF BeginFails
<1>11. CASE Succeeds
  BY <1>11 DEF Succeeds, ServerCommits, Undone, Writable
<1>12. ASSUME NEW e \in Failures, Fails(e) PROVE op = "rest" /\ tx = "aborted"
  BY <1>12 DEF Fails
<1>13. CASE FailsDead
  BY <1>13 DEF FailsDead
<1>14. CASE Return
  BY <1>14 DEF Return, EndImplicitTransaction, Rollback, Undone, IsCanceled
<1>15. ASSUME NEW c \in cursors, FetchAll(c) PROVE op = "rest" /\ tx = "aborted"
  BY <1>15 DEF FetchAll, EndImplicitTransaction, Rollback, Undone, AtRest
<1>16. CASE LoseConnection
  BY <1>16 DEF LoseConnection, Writable
<1>17. CASE Close
  BY <1>17 DEF Close, AtRest
<1>18. CASE AskCancel
  BY <1>18 DEF AskCancel, QueryRunning
<1>19. CASE SendCancel
  BY <1>19 DEF SendCancel
<1>20. CASE CancelFails
  BY <1>20 DEF CancelFails
<1>21. CASE CancelReturns
  BY <1>21 DEF CancelReturns
<1>22. CASE CancelLapses
  BY <1>22 DEF CancelLapses
<1>23. CASE UNCHANGED vars
  BY <1>23 DEF vars
<1> QED
  BY <1>1, <1>2, <1>3, <1>4, <1>5, <1>6, <1>7, <1>8, <1>9, <1>10, <1>11,
     <1>12, <1>13, <1>14, <1>15, <1>16, <1>17, <1>18, <1>19, <1>20, <1>21,
     <1>22, <1>23 DEF Next

-----------------------------------------------------------------------------
(* The theorems *)

\* Before a session is opened, everything asserted of it holds.
LEMMA InitHolds == Init => TypeOK /\ Shape /\ Kept
<1> SUFFICES ASSUME Init PROVE TypeOK /\ Shape /\ Kept
  OBVIOUS
<1>1. FlagsOK
  BY Zenon DEF Init, FlagsOK
<1>2. ValuesOK
  BY DEF Init, ValuesOK, Ops, Kinds, Outcomes, Failures
<1>3. NumbersOK
  BY SessionAssumption DEF Init, NumbersOK, SessionAssumption
<1>4. Shape
  BY DEF Init, Shape, Phases, AbortedIsKnown, AutoLeavesNothingOpen,
         AutoOutside, AtRest
<1>5. Kept
  BY DEF Init, Kept, ReadOnlyKept, AutoWriteDone
<1> QED
  BY <1>1, <1>2, <1>3, <1>4, <1>5 DEF TypeOK

\* The variables keep their types, for any number of statements.
THEOREM TypeCorrect == Spec => []TypeOK
<1>1. Init => TypeOK
  BY InitHolds
<1>2. TypeOK /\ [Next]_vars => TypeOK'
  BY FlagsStep, ValuesStep, NumbersStep DEF TypeOK
<1> QED
  BY <1>1, <1>2, PTL DEF Spec

\* Between calls the transaction is in the shape the mode asks for.
THEOREM ShapeInvariance == Spec => []Shape
<1>1. Init => Shape
  BY InitHolds
<1>2. TypeOK /\ Shape /\ [Next]_vars => Shape'
  BY ShapeStep
<1> QED
  BY <1>1, <1>2, TypeCorrect, PTL DEF Spec

\* Whatever failed, was cancelled or lost, only a commit() that raises leaves
\* the connection in an aborted transaction.
THEOREM PoisonedByCommitOnly == Spec => OnlyCommitPoisons
<1> DEFINE Poisons ==
      op' = "rest" /\ tx' = "aborted" =>
          \/ CommitButtonFails
          \/ op = "rest" /\ tx = "aborted"
<1>1. TypeOK /\ Shape /\ [Next]_vars => [Poisons]_vars
  BY PoisonStep
<1> QED
  BY <1>1, TypeCorrect, ShapeInvariance, PTL DEF Spec, OnlyCommitPoisons

\* In Auto mode no transaction outlives the statement it was opened for.
THEOREM NothingLeftOpen == Spec => []AutoLeavesNothingOpen
<1>1. Shape => AutoLeavesNothingOpen
  BY DEF Shape
<1> QED
  BY <1>1, ShapeInvariance, PTL

\* With a server that answers all connections alike, the read-only guarantee
\* and the fate of Auto mode's writes are invariant.
THEOREM KeptInvariance == ASSUME UniformServer PROVE Spec => []Kept
<1>1. Init => Kept
  BY InitHolds
<1>2. TypeOK /\ Shape /\ Kept /\ [Next]_vars => Kept'
  BY KeptStep
<1> QED
  BY <1>1, <1>2, TypeCorrect, ShapeInvariance, PTL DEF Spec

\* A read-only session makes nothing durable, if all its connections are
\* answered alike; SessionReadOnlyFlag.cfg shows that the condition is needed.
THEOREM ReadOnlySafe == ASSUME UniformServer PROVE Spec => []ReadOnlyHolds
<1>1. Kept => ReadOnlyHolds
  BY DEF Kept, ReadOnlyKept, ReadOnlyHolds
<1> QED
  BY <1>1, KeptInvariance, PTL

\* A write that execute() reports as done in Auto mode is never rolled back.
THEOREM AutoWritesAreDurable == ASSUME UniformServer PROVE Spec => AutoWritesLast
<1> DEFINE Lasts ==
      Return /\ mode = "Auto" /\ stmt = "write" /\ outcome = "done" => n \in durable'
<1>1. Kept => Lasts
  BY DEF Kept, AutoWriteDone, Return, EndImplicitTransaction, Rollback, Undone
<1>2. Kept /\ [Next]_vars => [Lasts]_vars
  BY <1>1
<1> QED
  BY <1>2, KeptInvariance, PTL DEF Spec, AutoWritesLast

\* Manual mode's statements are all inside of a transaction.
THEOREM InsideInvariance == Spec => []ManualInside
<1>1. Init => ManualInside
  BY DEF Init, ManualInside
<1>2. TypeOK /\ Shape /\ ManualInside /\ [Next]_vars => ManualInside'
  BY InsideStep
<1> QED
  BY <1>1, <1>2, TypeCorrect, ShapeInvariance, PTL DEF Spec

\* In Manual mode a write becomes durable by a commit of the user's only.
THEOREM ManualGateHolds == Spec => ManualGate
<1> DEFINE Gate ==
      mode = "Manual" /\ durable' # durable =>
          \/ CommitButton
          \/ CommitButtonFails
          \/ op = "running" /\ stmt = "commit"
<1>1. TypeOK /\ ManualInside /\ [Next]_vars => [Gate]_vars
  BY GateStep
<1> QED
  BY <1>1, TypeCorrect, InsideInvariance, PTL DEF Spec, ManualGate

\* In Auto mode no write waits for a commit, with a uniform server.
THEOREM AutoEmptyInvariance == ASSUME UniformServer PROVE Spec => []AutoEmpty
<1>1. Init => AutoEmpty
  BY DEF Init, AutoEmpty
<1>2. TypeOK /\ Shape /\ Kept /\ AutoEmpty /\ [Next]_vars => AutoEmpty'
  BY AutoEmptyStep
<1> QED
  BY <1>1, <1>2, TypeCorrect, ShapeInvariance, KeptInvariance, PTL DEF Spec

\* In Auto mode a session opens no transaction but to be read only.
THEOREM AutoBareInvariance == ASSUME UniformServer PROVE Spec => []AutoBare
<1>1. Init => AutoBare
  BY DEF Init, AutoBare
<1>2. TypeOK /\ Shape /\ Kept /\ AutoBare /\ [Next]_vars => AutoBare'
  BY AutoBareStep
<1> QED
  BY <1>1, <1>2, TypeCorrect, ShapeInvariance, KeptInvariance, PTL DEF Spec

\* A transaction's writes are lost only when the user gives them up, a statement
\* or a commit fails, or the connection is lost.
THEOREM TransactionsLast == ASSUME UniformServer PROVE Spec => ManualTransactionLasts
<1> DEFINE Lasts ==
      ~(pending \subseteq pending' \cup durable') =>
          \/ RollbackButton
          \/ ToggleTransactionMode
          \/ op = "running" /\ stmt = "rollback"
          \/ op = "answered" /\ outcome \in Failures
          \/ CommitButtonFails
          \/ tx = "aborted" /\ told = "error"
          \/ alive /\ ~alive'
<1>1. TypeOK /\ Shape /\ ManualInside /\ AutoEmpty /\ [Next]_vars => [Lasts]_vars
  BY LastsStep
<1> QED
  BY <1>1, TypeCorrect, ShapeInvariance, InsideInvariance, AutoEmptyInvariance,
     PTL DEF Spec, ManualTransactionLasts
=============================================================================
