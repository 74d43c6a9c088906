-------------------------- MODULE RedshiftSession --------------------------
(***************************************************************************)
(* HarlequinRedshiftConnection (adapter.py) and its one main connection:   *)
(* how a session is opened, what execute(), fetchall(), commit(),          *)
(* rollback(), toggle_transaction_mode() and cancel() do to the server's   *)
(* transaction, and which writes become durable.                           *)
(*                                                                         *)
(* Harlequin makes one call at a time on the main connection (the driver   *)
(* is not thread-safe).  cancel() and the users of the pool run on other   *)
(* threads, so their steps come between any two steps of a call.  A call   *)
(* is cut where it waits for the server.                                   *)
(***************************************************************************)
EXTENDS Naturals

CONSTANTS
    MaxStatements,  \* bound: how many statements the user submits
    ProbeAnswers    \* a set of sets: in one session, the set of the answers
                    \* connections get to _try_session_read_only()

ASSUME SessionAssumption ==
    /\ MaxStatements \in Nat
    /\ ProbeAnswers \subseteq SUBSET BOOLEAN

VARIABLES
    readOnly,   \* self.read_only
    probe,      \* the answers this session's connections get
    honoured,   \* the server honours "begin read only"
    phase,      \* "new", then "refused", or "open" and "closed"
    sessionRO,  \* self._session_read_only
    mainRO,     \* the main connection's default really is read only
    mode,       \* the label of self._transaction_mode
    pid,        \* self._backend_pid is known
    alive,      \* the main connection's socket is up
    tx,         \* the main connection's transaction at the server
    txRO,       \* that transaction was opened read only
    op,         \* where execute() is: see Ops
    stmt,       \* the kind of the statement execute() runs, or ran last
    outcome,    \* how the server, or the driver, ended that statement
    told,       \* what the user's last call brought
    n,          \* the number of the statement
    cursors,    \* the statements whose rows are not fetched yet
    pending,    \* the writes of the open transaction
    durable,    \* the writes that are committed
    canceler,   \* where cancel() is
    armed       \* a CANCEL has reached the server and not yet hit anything

env == <<readOnly, probe, honoured>>
setup == <<phase, sessionRO, mainRO, mode, pid>>
server == <<alive, tx, txRO, pending, durable>>
call == <<op, stmt, outcome, told, n, cursors>>
cancelling == <<canceler, armed>>
vars == <<env, setup, server, call, cancelling>>

\* What is run on the main connection, as far as a transaction can tell; "set"
\* changes a setting of the session and returns no rows.
Kinds == {"read", "set", "write", "begin", "commit", "rollback"}

\* No call / _begin() waits / cur.execute(query) waits, the server is busy with
\* it / the server has answered, execute() has not returned.
Ops == {"rest", "beginning", "running", "answered"}

\* "lookalike": an error that is no cancellation, though its text mentions
\* "cancel" and "user" or "request", say as part of a relation's name.
Failures == {"error", "lookalike", "canceled"}
Outcomes == Failures \cup {"none", "rows", "done"}

Init ==
    /\ readOnly \in BOOLEAN
    /\ probe \in ProbeAnswers
    /\ honoured \in BOOLEAN
    /\ phase = "new"
    /\ sessionRO = FALSE
    /\ mainRO = FALSE
    /\ mode = "Manual"                  \* the first toggle makes it Auto
    /\ pid = FALSE
    /\ alive = FALSE
    /\ tx = "idle"
    /\ txRO = FALSE
    /\ op = "rest"
    /\ stmt = "read"
    /\ outcome = "none"
    /\ told = "none"
    /\ n = 0
    /\ cursors = {}
    /\ pending = {}
    /\ durable = {}
    /\ canceler = "idle"
    /\ armed = FALSE

AtRest == phase = "open" /\ op = "rest"

\* self._query_running is set just around cur.execute(query).
QueryRunning == op \in {"running", "answered"}

\* _is_canceled()
IsCanceled(e) == e \in {"canceled", "lookalike"}

-----------------------------------------------------------------------------
(* Setting up connections *)

\* _configure_connection() on a connection that gets the answer `works` to
\* _try_session_read_only(); the answer is kept for all connections together.
Configure(works) == sessionRO' = (readOnly /\ works)

\* _assert_read_only_transactions() refuses the connection.
Refuses(works) == readOnly /\ ~works /\ ~honoured

\* __init__ with a main connection that opens.
Open ==
    /\ phase = "new"
    /\ \E works \in probe :
          /\ ~Refuses(works)
          /\ Configure(works)
          /\ mainRO' = (readOnly /\ works)
    /\ phase' = "open"
    /\ mode' = "Auto"
    /\ pid' \in BOOLEAN                 \* _read_session() may fail
    /\ alive' = TRUE
    /\ UNCHANGED <<env, tx, txRO, pending, durable, call, cancelling>>

\* __init__ raises: no connection, or none that is read only.
OpenFails ==
    /\ phase = "new"
    /\ phase' = "refused"
    /\ UNCHANGED <<env, sessionRO, mainRO, mode, pid, server, call, cancelling>>

\* A user of the pool opens another connection, which may be refused.
OpenPooled ==
    /\ phase = "open"
    /\ \E works \in probe : Configure(works)
    /\ UNCHANGED <<env, phase, mainRO, mode, pid, server, call, cancelling>>

-----------------------------------------------------------------------------
(* Transactions *)

\* The transaction is over, and none of its writes is committed.
Undone ==
    /\ tx' = "idle"
    /\ txRO' = FALSE
    /\ pending' = {}
    /\ UNCHANGED durable

\* rollback().  It swallows errors.  Nothing but a lost connection, and with it
\* the end of the transaction, makes a ROLLBACK fail.
Rollback == Undone /\ UNCHANGED alive

\* Slips: the transaction is ended in Manual mode too, or not at all; one of
\* the two reasons for an explicit begin is forgotten; a toggle leaves the
\* transaction open.
EndAnyTransaction == Rollback
BeginInManualOnly == mode # "Auto"
BeginInReadOnlyOnly == readOnly /\ ~sessionRO
ToggleLeavesOpen ==
    /\ AtRest
    /\ mode' = IF mode = "Auto" THEN "Manual" ELSE "Auto"
    /\ UNCHANGED <<env, phase, sessionRO, mainRO, pid, server, call, cancelling>>

\* _end_implicit_transaction()
EndImplicitTransaction ==
    IF mode = "Auto" THEN Rollback ELSE UNCHANGED server

NeedsExplicitBegin == mode # "Auto" \/ (readOnly /\ ~sessionRO)

ToggleTransactionMode ==
    /\ AtRest
    /\ mode' = IF mode = "Auto" THEN "Manual" ELSE "Auto"
    /\ Rollback
    /\ UNCHANGED <<env, phase, sessionRO, mainRO, pid, call, cancelling>>

\* The Rollback button, which only Manual mode has.
RollbackButton ==
    /\ AtRest
    /\ mode = "Manual"
    /\ Rollback
    /\ UNCHANGED <<env, setup, call, cancelling>>

\* What a COMMIT does at the server; one of an aborted transaction rolls back.
ServerCommits ==
    /\ durable' = IF tx = "aborted" THEN durable ELSE durable \cup pending
    /\ pending' = {}
    /\ tx' = "idle"
    /\ txRO' = FALSE

\* The Commit button: conn.commit() is sent whether or not a transaction is open.
CommitButton ==
    /\ AtRest
    /\ mode = "Manual"
    /\ alive
    /\ ServerCommits
    /\ told' = "nothing"
    /\ UNCHANGED <<env, setup, alive, op, stmt, outcome, n, cursors, cancelling>>

\* The connection is, or gets, lost, perhaps after the server has committed.
CommitIsLost ==
    /\ (alive /\ ServerCommits) \/ Undone
    /\ alive' = FALSE
    /\ UNCHANGED armed

\* The server refuses to commit, say for a conflict with another transaction.
CommitIsRefused ==
    /\ alive
    /\ tx = "active"
    /\ Undone
    /\ UNCHANGED <<alive, armed>>

\* A late CANCEL hits the COMMIT, before the server has begun to commit.
CommitIsCanceled ==
    /\ alive
    /\ armed
    /\ armed' = FALSE
    /\ tx' = IF tx = "active" THEN "aborted" ELSE tx
    /\ UNCHANGED <<alive, txRO, pending, durable>>

\* commit() raises.  It does not roll back what the COMMIT has left open.
CommitButtonFails ==
    /\ AtRest
    /\ mode = "Manual"
    /\ CommitIsLost \/ CommitIsRefused \/ CommitIsCanceled
    /\ told' = "error"
    /\ UNCHANGED <<env, setup, op, stmt, outcome, n, cursors, canceler>>

-----------------------------------------------------------------------------
(* execute() and fetchall() *)

Submit(kind) ==
    /\ AtRest
    /\ n < MaxStatements
    /\ n' = n + 1
    /\ stmt' = kind
    /\ outcome' = "none"
    /\ op' = IF NeedsExplicitBegin /\ tx = "idle" THEN "beginning" ELSE "running"
    /\ UNCHANGED <<env, setup, server, told, cursors, cancelling>>

\* _begin() returns and the query is sent.
BeginDone ==
    /\ op = "beginning"
    /\ alive
    /\ tx' = "active"
    /\ txRO' = (readOnly /\ honoured)
    /\ op' = "running"
    /\ UNCHANGED <<env, setup, alive, pending, durable, stmt, outcome, told, n,
                   cursors, cancelling>>

\* _begin() raises: hit by a CANCEL, or the connection is lost.
BeginFails ==
    /\ op = "beginning"
    /\ armed \/ ~alive
    /\ op' = "rest"
    /\ told' = "error"
    /\ armed' = FALSE
    /\ UNCHANGED <<env, setup, server, stmt, outcome, n, cursors, canceler>>

\* The server accepts a write, in a transaction or on its own.
Writable == ~mainRO /\ ~txRO

\* The server runs the statement to its end; in an aborted transaction, nothing
\* but what ends it.
Succeeds ==
    /\ op = "running"
    /\ alive
    /\ tx = "aborted" => stmt \in {"commit", "rollback"}
    /\ op' = "answered"
    /\ outcome' = IF stmt = "read" THEN "rows" ELSE "done"
    /\ \/ /\ stmt \in {"read", "set"}
          /\ UNCHANGED <<tx, txRO, pending, durable>>
       \/ /\ stmt = "write"
          /\ Writable
          /\ IF tx = "active" THEN pending' = pending \cup {n} /\ UNCHANGED durable
                              ELSE durable' = durable \cup {n} /\ UNCHANGED pending
          /\ UNCHANGED <<tx, txRO>>
       \/ /\ stmt = "begin"                 \* in a transaction, just a warning
          /\ tx' = "active"
          /\ UNCHANGED <<txRO, pending, durable>>
       \/ /\ stmt = "commit"
          /\ ServerCommits
       \/ stmt = "rollback" /\ Undone
    /\ UNCHANGED <<env, setup, alive, stmt, told, n, cursors, cancelling>>

\* The server ends the statement with an error of kind e.
Fails(e) ==
    /\ op = "running"
    /\ alive
    /\ e = "canceled" => armed
    /\ armed' = (armed /\ e # "canceled")
    /\ op' = "answered"
    /\ outcome' = e
    /\ tx' = IF tx = "active" THEN "aborted" ELSE tx
    /\ UNCHANGED <<env, setup, alive, txRO, pending, durable, stmt, told, n,
                   cursors, canceler>>

\* cur.execute() raises because the connection is gone.
FailsDead ==
    /\ op = "running"
    /\ ~alive
    /\ op' = "answered"
    /\ outcome' = "error"
    /\ UNCHANGED <<env, setup, server, stmt, told, n, cursors, cancelling>>

\* Slips: the driver's exception reaches the caller as it is; a cancelled
\* statement, or a fetched cursor, leaves its transaction as it was.
ReturnRaw ==
    /\ op = "answered"
    /\ op' = "rest"
    /\ told' = outcome
    /\ IF outcome \in Failures THEN Rollback ELSE UNCHANGED server
    /\ UNCHANGED <<env, setup, stmt, outcome, n, cursors, cancelling>>
ReturnUnlessCanceled ==
    /\ op = "answered"
    /\ op' = "rest"
    /\ told' = "nothing"
    /\ IF IsCanceled(outcome) THEN UNCHANGED server ELSE Rollback
    /\ UNCHANGED <<env, setup, stmt, outcome, n, cursors, cancelling>>
FetchOnly(c) ==
    /\ AtRest
    /\ c \in cursors
    /\ cursors' = cursors \ {c}
    /\ UNCHANGED <<env, setup, server, op, stmt, outcome, told, n, cancelling>>

\* execute() after cur.execute(): rows wait for fetchall(), a failure rolls
\* back, anything else ends the implicit transaction.
Return ==
    /\ op = "answered"
    /\ op' = "rest"
    /\ \/ /\ outcome = "rows"
          /\ cursors' = cursors \cup {n}
          /\ told' = "rows"
          /\ UNCHANGED server
       \/ /\ outcome = "done"
          /\ EndImplicitTransaction
          /\ told' = "nothing"
          /\ UNCHANGED cursors
       \/ /\ outcome \in Failures
          /\ Rollback
          /\ told' = IF IsCanceled(outcome) THEN "nothing" ELSE "error"
          /\ UNCHANGED cursors
    /\ UNCHANGED <<env, setup, stmt, outcome, n, cancelling>>

\* fetchall() of a cursor: the driver has the rows already.
FetchAll(c) ==
    /\ AtRest
    /\ c \in cursors
    /\ cursors' = cursors \ {c}
    /\ EndImplicitTransaction
    /\ UNCHANGED <<env, setup, op, stmt, outcome, told, n, cancelling>>

\* The server forgets the transaction; a statement, or a COMMIT, that was on
\* its way may have been done all the same.
LoseConnection ==
    /\ phase = "open"
    /\ alive
    /\ alive' = FALSE
    /\ tx' = "idle"
    /\ txRO' = FALSE
    /\ pending' = {}
    /\ \/ durable' = durable
       \/ /\ op = "running"
          /\ \/ stmt = "commit" /\ tx = "active" /\ durable' = durable \cup pending
             \/ /\ stmt = "write"
                /\ tx = "idle"
                /\ Writable
                /\ durable' = durable \cup {n}
    /\ UNCHANGED <<env, setup, call, cancelling>>

Close ==
    /\ AtRest
    /\ phase' = "closed"
    /\ alive' = FALSE
    /\ tx' = "idle"
    /\ txRO' = FALSE
    /\ pending' = {}
    /\ UNCHANGED <<env, sessionRO, mainRO, mode, pid, durable, call, cancelling>>

-----------------------------------------------------------------------------
(* cancel(), on a thread of its own *)

\* The test of _query_running; with nothing to cancel, cancel() returns.
AskCancel ==
    /\ canceler = "idle"
    /\ phase = "open"
    /\ pid
    /\ QueryRunning
    /\ canceler' = "borrowing"
    /\ UNCHANGED <<env, setup, server, call, armed>>

\* Slip: CANCEL is sent on the main connection, once that is free.
SendCancelOnMain ==
    /\ canceler = "borrowing"
    /\ op = "rest"
    /\ canceler' = "idle"
    /\ armed' = alive
    /\ UNCHANGED <<env, setup, server, call>>

\* The pool has lent a connection, and CANCEL <pid> reaches the server.
SendCancel ==
    /\ canceler = "borrowing"
    /\ canceler' = "idle"
    /\ armed' = alive
    /\ UNCHANGED <<env, setup, server, call>>

\* No connection within 5 seconds, a closed pool, or CANCEL fails.
CancelFails ==
    /\ canceler = "borrowing"
    /\ canceler' = "failed"
    /\ UNCHANGED <<env, setup, server, call, armed>>

CancelReturns ==
    /\ canceler = "failed"
    /\ canceler' = "idle"
    /\ UNCHANGED <<env, setup, server, call, armed>>

\* A CANCEL that finds the session idle comes to nothing, or stays to hit what
\* the session runs next (the comment in cancel()).
CancelLapses ==
    /\ armed
    /\ op \in {"rest", "answered"}
    /\ armed' = FALSE
    /\ UNCHANGED <<env, setup, server, call, canceler>>

-----------------------------------------------------------------------------

Next ==
    \/ Open
    \/ OpenFails
    \/ OpenPooled
    \/ ToggleTransactionMode
    \/ RollbackButton
    \/ CommitButton
    \/ CommitButtonFails
    \/ \E kind \in Kinds : Submit(kind)
    \/ BeginDone
    \/ BeginFails
    \/ Succeeds
    \/ \E e \in Failures : Fails(e)
    \/ FailsDead
    \/ Return
    \/ \E c \in cursors : FetchAll(c)
    \/ LoseConnection
    \/ Close
    \/ AskCancel
    \/ SendCancel
    \/ CancelFails
    \/ CancelReturns
    \/ CancelLapses

Spec == Init /\ [][Next]_vars

\* What a thread of the program is in the middle of goes on.  The server need
\* not ever finish a statement by itself, but a CANCEL that it has received
\* while it is busy takes effect, and the user may do nothing at all.
Fairness ==
    /\ WF_vars(BeginDone \/ BeginFails)
    /\ WF_vars(Fails("canceled"))
    /\ WF_vars(FailsDead)
    /\ WF_vars(Return)
    /\ WF_vars(SendCancel)
    /\ WF_vars(CancelReturns)

FairSpec == Spec /\ Fairness

-----------------------------------------------------------------------------
(* Properties *)

FlagsOK ==
    /\ readOnly \in BOOLEAN
    /\ honoured \in BOOLEAN
    /\ sessionRO \in BOOLEAN
    /\ mainRO \in BOOLEAN
    /\ pid \in BOOLEAN
    /\ alive \in BOOLEAN
    /\ txRO \in BOOLEAN
    /\ armed \in BOOLEAN

ValuesOK ==
    /\ probe \in ProbeAnswers
    /\ phase \in {"new", "refused", "open", "closed"}
    /\ mode \in {"Auto", "Manual"}
    /\ tx \in {"idle", "active", "aborted"}
    /\ op \in Ops
    /\ stmt \in Kinds
    /\ outcome \in Outcomes
    /\ told \in {"none", "rows", "nothing", "error"}
    /\ canceler \in {"idle", "borrowing", "failed"}

\* Numbers of statements that have been submitted.
NumbersOK ==
    /\ n \in 0..MaxStatements
    /\ cursors \cup pending \cup durable \subseteq 1..n
    /\ op # "rest" => n # 0

\* Every variable has its type; in particular the user is never handed what
\* the driver or the server raised, only the adapter's own answers.
TypeOK == FlagsOK /\ ValuesOK /\ NumbersOK

\* "refuses to start rather than hand back a connection that would happily
\* write" (README, Read-only mode): nothing a read-only session runs, in either
\* mode, becomes durable.
ReadOnlyHolds == readOnly => durable = {}

\* Manual mode is a gate: a write becomes durable only when the user commits.
ManualGate ==
    [][mode = "Manual" /\ durable' # durable =>
          \/ CommitButton
          \/ CommitButtonFails
          \/ op = "running" /\ stmt = "commit"]_vars

\* "one transaction stays open across statements" (README, Transaction modes):
\* its writes are gone only if the user gives them up, by a button, by ROLLBACK,
\* or by leaving the mode, if a statement or the commit fails, or if the
\* connection is lost.  A COMMIT that reports success loses them only after
\* another one has failed, and the user has heard nothing else since.
ManualTransactionLasts ==
    [][~(pending \subseteq pending' \cup durable') =>
          \/ RollbackButton
          \/ ToggleTransactionMode
          \/ op = "running" /\ stmt = "rollback"
          \/ op = "answered" /\ outcome \in Failures
          \/ CommitButtonFails
          \/ tx = "aborted" /\ told = "error"
          \/ alive /\ ~alive']_vars

\* A transaction that Auto mode opened for one statement does not outlive it,
\* whatever became of the statement ("otherwise its snapshot would go stale",
\* _end_implicit_transaction()).
AutoLeavesNothingOpen ==
    AtRest /\ mode = "Auto" /\ cursors = {} => tx = "idle"

\* A write that execute() reports as done in Auto mode is durable: it is never
\* part of a transaction that a later call of the adapter rolls back.
AutoWritesLast ==
    [][Return /\ mode = "Auto" /\ stmt = "write" /\ outcome = "done" =>
          n \in durable']_vars

\* No call leaves the connection in a transaction that an error has aborted, in
\* which the next statement would fail whatever it is, but for a commit() that
\* raises: a COMMIT that was cancelled aborts the transaction, and commit() does
\* not roll back.
OnlyCommitPoisons ==
    [][op' = "rest" /\ tx' = "aborted" =>
          \/ CommitButtonFails
          \/ op = "rest" /\ tx = "aborted"]_vars

\* A query the user asked to cancel ends although the server never finishes
\* it, unless no second connection could carry the CANCEL.
CancelStops ==
    (canceler = "borrowing" /\ op = "running")
        ~> (op # "running" \/ canceler = "failed")

\* "True if the server ended the statement because it was cancelled"
\* (_is_canceled()): any other failure is reported to the user.
ErrorsReachTheUser ==
    [][Return /\ outcome \in Failures \ {"canceled"} => told' = "error"]_vars

\* "`CANCEL` is only sent while a statement is actually running" (CHANGELOG).
CancelOnlyWhileRunning == [][SendCancel => QueryRunning]_vars
=============================================================================
