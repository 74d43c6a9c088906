--------------------------- MODULE CatalogReader ---------------------------
(***************************************************************************)
(* What worker threads do with pooled connections: _metadata() and         *)
(* _catalog_query() read the catalog (adapter.py), get_completions() reads *)
(* routine names (completions.py).  A job borrows from the pool, which is  *)
(* taken as LendingPool promises it, may open a read-only transaction, has *)
(* the server answer, ends the transaction and gives the connection back.  *)
(***************************************************************************)
EXTENDS LendingPool

\* None stands for "no connection", as Python's None does.
ASSUME NoConnIsNone == NoConn \notin Conns

VARIABLES
    job,      \* what each thread's call is at: "show" is the driver's SHOW
              \* path, "query" a catalog query, "completions" routine names
    step,     \* where it is: see Steps
    answer,   \* what the thread's last call brought its caller
    met,      \* history: the kinds of failure the call has met
    misreads, \* history: how often each thread has found the SHOW path broken
    useShow,  \* self._use_show_metadata
    session   \* the state each connection is in at the server

reading == <<job, step, answer, met, misreads, useShow, session>>
varsC == <<varsL, reading>>

Jobs == {"show", "query", "completions"}

\* No call / in getconn() / in _begin() / waiting for the answer / answered.
Steps == {"idle", "borrowing", "beginning", "running", "answered"}

\* Outside of a transaction / in one / an error has left it in an unknown state
\* / the server has dropped an idle connection, which nobody has noticed yet.
SessionStates == {"clean", "open", "failed", "dropped"}

InitC ==
    /\ InitL
    /\ job = [t \in Threads |-> "query"]
    /\ step = [t \in Threads |-> "idle"]
    /\ answer = [t \in Threads |-> "none"]
    /\ met = [t \in Threads |-> {}]
    /\ misreads = [t \in Threads |-> 0]
    /\ useShow \in BOOLEAN              \* _supports_show_metadata()
    /\ session = [c \in Conns |-> "clean"]

Moves(t, next) == step' = [step EXCEPT ![t] = next]

\* The state of the connection that thread t has borrowed becomes s.
Leaves(t, s) == session' = [session EXCEPT ![lent[t]] = s]

\* The call returns to its caller.
Ends(t, a) ==
    /\ Moves(t, "idle")
    /\ answer' = [answer EXCEPT ![t] = a]
    /\ UNCHANGED job

\* putconn(): a pool that was closed meanwhile discards the connection.
GiveBack(t) == IF shut THEN Drop(t) ELSE Return(t)

Meets(t, kind) == met' = [met EXCEPT ![t] = @ \cup {kind}]

-----------------------------------------------------------------------------

Starts(t, j) ==
    /\ step[t] = "idle"
    /\ Moves(t, "borrowing")
    /\ job' = [job EXCEPT ![t] = j]
    /\ answer' = [answer EXCEPT ![t] = "none"]
    /\ met' = [met EXCEPT ![t] = {}]
    /\ UNCHANGED <<useShow, misreads, session, varsL>>

\* _metadata(): the SHOW path, unless it is off or a name holds a backslash.
Metadata(t) == (useShow /\ Starts(t, "show")) \/ Starts(t, "query")

GetCompletions(t) == Starts(t, "completions")

\* getconn() finds an idle connection.
Borrow(t) ==
    /\ step[t] = "borrowing"
    /\ Lend(t)
    /\ Moves(t, "beginning")
    /\ UNCHANGED <<job, answer, met, useShow, misreads, session>>

\* getconn() reserves a slot, and then opens a connection.
Reserve(t) ==
    /\ step[t] = "borrowing"
    /\ Promise(t)
    /\ UNCHANGED reading

BorrowNew(t) ==
    /\ Deliver(t)
    /\ Moves(t, "beginning")
    /\ session' = [session EXCEPT ![lent'[t]] = "clean"]
    /\ UNCHANGED <<job, answer, met, useShow, misreads>>

\* getconn() raises: no connection in time, a closed pool, or none could be
\* opened.  Both with blocks let the error out, wrapped or not.
BorrowFails(t) ==
    /\ step[t] = "borrowing"
    /\ BreakPromise(t) \/ (t \notin promised /\ UNCHANGED varsL)
    /\ Meets(t, "server")
    /\ Ends(t, "error")
    /\ UNCHANGED <<useShow, misreads, session>>

\* Slip: the cursor is used after the with block of the pool has ended.
BeginReleased(t) ==
    /\ step[t] = "beginning"
    /\ Moves(t, "running")
    /\ GiveBack(t)
    /\ UNCHANGED <<job, answer, met, useShow, misreads, session>>

\* _metadata_cursor() begins a read-only transaction if the session needs one.
Begin(t) ==
    /\ step[t] = "beginning"
    /\ Moves(t, "running")
    /\ \/ UNCHANGED session
       \/ /\ job[t] # "completions"
          /\ session[lent[t]] = "clean"
          /\ Leaves(t, "open")
    /\ UNCHANGED <<job, answer, met, useShow, misreads, varsL>>

\* _begin() fails, and with it the with block: the connection is discarded.
BeginFails(t) ==
    /\ step[t] = "beginning"
    /\ job[t] # "completions"
    /\ Leaves(t, "failed")
    /\ Drop(t)
    /\ Meets(t, "server")
    /\ Ends(t, "error")
    /\ UNCHANGED <<useShow, misreads>>

\* The connection has not been dropped under the thread that borrowed it.
Alive(t) == session[lent[t]] \in {"clean", "open"}

\* The server has answered, and the rows are read.
Answers(t) ==
    /\ step[t] = "running"
    /\ Alive(t)
    /\ Moves(t, "answered")
    /\ UNCHANGED <<job, answer, met, useShow, misreads, session, varsL>>

\* _metadata() goes on to the catalog query, for which it borrows again.
FallsBack(t) ==
    /\ Moves(t, "borrowing")
    /\ job' = [job EXCEPT ![t] = "query"]
    /\ UNCHANGED answer

MisreadsShow(t) ==
    /\ step[t] = "running"
    /\ job[t] = "show"
    /\ Alive(t)
    /\ Meets(t, "misread")
    /\ misreads' = [misreads EXCEPT ![t] = @ + 1]
    /\ FallsBack(t)
    /\ UNCHANGED session

\* Slips: the SHOW path is never switched off; the fallback runs inside of the
\* with block; every failure of the SHOW path is worked around.
MisreadsAgain(t) == MisreadsShow(t) /\ Drop(t) /\ UNCHANGED useShow
MisreadsHolding(t) == MisreadsShow(t) /\ useShow' = FALSE /\ UNCHANGED varsL
RefusedAndRetried(t) ==
    /\ step[t] = "running"
    /\ job[t] # "completions"
    /\ Leaves(t, "failed")
    /\ Drop(t)
    /\ Meets(t, "server")
    /\ (job[t] = "show" /\ FallsBack(t)) \/ (job[t] = "query" /\ Ends(t, "error"))
    /\ UNCHANGED <<useShow, misreads>>

\* The driver trips over its own column index: the connection is discarded,
\* the SHOW path is off from now on, and the catalog query is tried instead.
Misreads(t) == MisreadsShow(t) /\ Drop(t) /\ useShow' = FALSE

\* So it does, but the rollback on the way out of _metadata_cursor() fails too:
\* its error takes the place of the driver's, and is raised like a refusal.
MisreadsAndFails(t) ==
    /\ step[t] = "running"
    /\ job[t] = "show"
    /\ session[lent[t]] = "open"
    /\ met' = [met EXCEPT ![t] = @ \cup {"misread", "server"}]
    /\ Leaves(t, "failed")
    /\ Drop(t)
    /\ Ends(t, "error")
    /\ UNCHANGED <<useShow, misreads>>

\* The server refuses the statement, or the connection turns out to be lost.
Refused(t) ==
    /\ step[t] = "running"
    /\ job[t] # "completions"
    /\ Leaves(t, "failed")
    /\ Drop(t)
    /\ Meets(t, "server")
    /\ Ends(t, "error")
    /\ UNCHANGED <<useShow, misreads>>

\* _routine_completions() swallows the error: for the pool, all went well.
CompletionsRefused(t) ==
    /\ step[t] = "running"
    /\ job[t] = "completions"
    /\ Leaves(t, "failed")
    /\ GiveBack(t)
    /\ Meets(t, "server")
    /\ Ends(t, "rows")
    /\ UNCHANGED <<useShow, misreads>>

\* Slip: the with block of _metadata_cursor() ends without a rollback.
FinishInTransaction(t) ==
    /\ step[t] = "answered"
    /\ GiveBack(t)
    /\ Ends(t, "rows")
    /\ UNCHANGED <<met, useShow, misreads, session>>

\* The with blocks end: rollback if in a transaction, and putconn().
Finish(t) ==
    /\ step[t] = "answered"
    /\ Leaves(t, "clean")
    /\ GiveBack(t)
    /\ Ends(t, "rows")
    /\ UNCHANGED <<met, useShow, misreads>>

\* That rollback fails.
FinishFails(t) ==
    /\ step[t] = "answered"
    /\ session[lent[t]] = "open"
    /\ Leaves(t, "failed")
    /\ Drop(t)
    /\ Meets(t, "server")
    /\ Ends(t, "error")
    /\ UNCHANGED <<useShow, misreads>>

\* The server drops a connection that is idle; the pool does not test them.
ServerDrops(c) ==
    /\ c \in shelf
    /\ session' = [session EXCEPT ![c] = "dropped"]
    /\ UNCHANGED <<job, step, answer, met, useShow, misreads, varsL>>

Close == Shut /\ UNCHANGED reading

NextC ==
    \/ \E t \in Threads :
          \/ Metadata(t)
          \/ GetCompletions(t)
          \/ Borrow(t)
          \/ Reserve(t)
          \/ BorrowNew(t)
          \/ BorrowFails(t)
          \/ Begin(t)
          \/ BeginFails(t)
          \/ Answers(t)
          \/ Misreads(t)
          \/ MisreadsAndFails(t)
          \/ Refused(t)
          \/ CompletionsRefused(t)
          \/ Finish(t)
          \/ FinishFails(t)
    \/ \E c \in Conns : ServerDrops(c)
    \/ Close

SpecC == InitC /\ [][NextC]_varsC

-----------------------------------------------------------------------------
(* Properties *)

\* Every variable has its type.
TypeOKC ==
    /\ shelf \subseteq Conns
    /\ promised \subseteq Threads
    /\ lent \in [Threads -> Conns \cup {NoConn}]
    /\ shut \in BOOLEAN
    /\ job \in [Threads -> Jobs]
    /\ step \in [Threads -> Steps]
    /\ answer \in [Threads -> {"none", "rows", "error"}]
    /\ met \in [Threads -> SUBSET {"misread", "server"}]
    /\ misreads \in [Threads -> Nat]
    /\ useShow \in BOOLEAN
    /\ session \in [Conns -> SessionStates]
    /\ \A t \in Threads :
          step[t] \in {"beginning", "running", "answered"} => t \in Borrowers

\* No idle connection is inside a transaction, whose snapshot would go stale:
\* every way out of _metadata_cursor() ends it or gives the connection up.
IdleOutsideTransactions == \A c \in shelf : session[c] # "open"

\* No thread waits for a connection while it keeps one from the others: the
\* fallback borrows only after the SHOW path has given its connection back.
NoHoldAndWait ==
    \A t \in Threads : step[t] = "borrowing" => t \notin Borrowers

\* "The first failure switches this off" (_use_show_metadata): no thread pays
\* for a doomed attempt twice, though those under way at once all may fail.  Not
\* counted, for _metadata() never hears of it, is an attempt after which the
\* rollback fails as well.
OneDoomedAttemptEach == \A t \in Threads : misreads[t] <= 1

\* What the server refused is reported, never worked around, and nothing else
\* keeps the catalog from loading (_metadata()).
RefusalsSurface ==
    \A t \in Threads :
        step[t] = "idle" /\ job[t] # "completions" =>
            (answer[t] = "error" <=> "server" \in met[t])

\* "The driver leaves the session's transaction state undefined after an error,
\* and the next borrower must not inherit it" (connection()).
NothingInherited == \A c \in shelf : session[c] # "failed"
=============================================================================
