# A verification of harlequin-redshift

harlequin-redshift connects the Harlequin SQL IDE to Amazon Redshift. This
directory holds TLA+ models of it, the TLC configurations that check them on
small instances, and theorems about them that TLAPS proves for every instance.
All of the program is in `src/src/harlequin_redshift/`; line numbers below and
in `PROJECT.json` refer to that directory's files.

- [The system](#the-system): its parts, their state, what is hard about them
- [The modules](#the-modules): which models what, and how it corresponds
- [The runs](#the-runs): what is checked, on which instances, and why these
- [The proofs](#the-proofs): what is proved, from which assumptions, and how
- [Findings and observations](#findings-and-observations)
- [Environment](#environment): what is assumed of everything outside
- [Not modelled](#not-modelled) and [the plan](#the-plan)

## The system

Harlequin is a terminal application. Its user runs queries in an editor; worker
threads meanwhile load the catalog tree, the completions and search results, and
a key press cancels the query that is running. The driver, `redshift_connector`,
has `threadsafety = 1`: a connection may not be used by two threads at once.
That fact shapes the program: one *main* connection for the user's queries, and
a *pool* for all that happens beside them.

| Part | State it keeps | Operations | Interacts with |
|---|---|---|---|
| Connection pool, `pool.py` | `_idle`, `_num_connections`, `_closed`, a `threading.Condition` | `getconn`, `putconn`, `connection`, `close`, `open_connection` | worker threads and `cancel()` borrow; it calls back `_configure_connection` of the session |
| Session, `adapter.py` 258-617 | main connection, transaction mode, `_session_read_only`, `_query_running`, `_backend_pid` | `__init__`, `execute`, `fetchall`, `commit`, `rollback`, `toggle_transaction_mode`, `cancel`, `close` | the server's transaction; `cancel()` borrows from the pool |
| Catalog readers, `adapter.py` 621-713, 989-991, `completions.py` | `_use_show_metadata`, shared by all threads | `_metadata` with its fallback `_catalog_query`, `get_completions` | borrow from the pool; SHOW path of the driver; read-only transactions |
| Catalog tree and search, `adapter.py` 715-985, `catalog.py`, `catalog_queries.py` | items hold their label, names and parent | `fetch_children` of each level, `search_catalog` | read through the catalog readers |
| Quoting, `quoting.py` | none | identifiers, literals, LIKE patterns | catalog, search, interactions |
| Interactions, `interactions.py` | none of their own | write SQL into a buffer; run SHOW, drops, `set search_path` on the main connection | the user's confirmation; the session; the pool, to look into a container |
| Connection strings and options, `conn_str.py`, `cli_options.py`, and the adapter class | the strings and options of the adapter | parse, coerce and merge; `connection_id`, `connect` | the session's `connect_kwargs`; Harlequin's cache of catalogs |
| Keywords, type labels | constant tables | | |

What is hard in it, and what makes each part correct:

- **Pool.** Threads interleave around one lock, but connecting, configuring and
  closing happen outside of it, so the count of slots and the connections that
  really exist differ at times. Correct means: the count is the truth, no
  connection is shared or leaked, every path that frees capacity wakes somebody
  who waits for it, and a closed pool empties itself.
- **Session.** The server's transaction lives longer than a call. Its end depends
  on the mode, on whether the statement returned rows, failed or was cancelled,
  on when the rows are fetched, and on whether the session may write at all.
  `cancel()` runs beside all of that. Correct means: a read-only session makes
  nothing durable, Manual mode commits only when told to, Auto mode neither
  leaves a transaction behind nor loses a write, no statement leaves an aborted
  transaction to the next one, and a cancelled query ends.
- **Catalog readers.** Several of them find the fast path broken at once, borrow
  a second time for the fallback, may keep transactions open on what they give
  back, and must tell the driver's failures from the server's.
- **Tree and search.** The driver takes names for LIKE patterns, the search
  makes LIKE patterns of terms, and a search is a sequence of snapshots of a
  catalog that others change.
- **Interactions.** They share the main connection with the user: a drop joins
  the user's transaction, meets its mode, is cancelled or refused like any
  statement, and is announced by a handler that sees none of that. Between
  looking into a schema and dropping it, others act. Names must mean the same
  object to the server as to the tree. Correct means: an entry acts on its own
  item, nobody loses what was in view unasked, and what is announced holds.
- **Options.** A keyword has several spellings, four layers and three types, and
  two places that derive the endpoint from them.

Every such hazard is listed in `PROJECT.json` at the line where it bites, with
the properties that would notice it going wrong.

## The modules

### LendingPool, ConnectionPool, PoolRefinement, PoolWakeups

`LendingPool` is the abstract specification: connections on a shelf, promised,
or lent, and a pool that shuts. `ConnectionPool` is the code. A region under
`self._lock` is one action; each thing that is done outside of the lock is a
control state of the thread, so anything may happen in between:

| Code | Action | Thread goes to |
|---|---|---|
| `getconn()`, 90-105, first turn of the loop | `GetConn` (`TakeOrWait`) | `holding`, `opening` or `asleep`, or `out` when closed |
| the loop after `wait()` returned True | `Resume` (`TakeOrWait`) | the same |
| `wait()` runs out; it returns False; `PoolTimeoutError` | `Expire`, `RaiseTimeout` | `expired`, `out` |
| `redshift_connector.connect()` 73, 106-108 | `Connect`, `ConnectFails` | `configuring`, `failed` |
| `configure(conn)` 74-80 | `Configured`, `ConfigureFails` | `holding`, `failed` |
| `_num_connections -= 1; notify()` 108-112 | `ReleaseSlot` | `out` |
| `putconn()` 122-129, 122-130, `_discard` | `PutBack`, `PutAway`, `Discard` | `out`, `discarding`, `out` |
| `close()` 155-163 | `Close`, `CloseIdle`, `CloseReturns` | `closing`, `out` |

`num` is `_num_connections`, `idle` is `_idle` as a set (the code pops the
newest; the model lends any, which allows more), `held` is the local variable a
connection is in, `doomed` the list `close()` took, and `live` what is open at
the server. The Condition is external (`MoveAndWake`, `Notify`, `Expire`): as in
CPython, a waiter whose timer has run out stays on the list of waiters until it
has taken the lock again, so a notification may be spent on it. Threads take the
lock in any order.

`PoolRefinement` maps the one onto the other: the idle list is the shelf, a
thread in `opening`, `configuring` or `failed` has a promise, and one in
`holding` has a loan. `PoolWakeups` adds a history variable, `wasted`, for one
question: does every connection that is to be had have a woken thread on its way
to it, unless a notification was spent on an expiring wait?

### RedshiftSession

The main connection and the transaction it has at the server. A call is cut
where it waits for the server: `execute()` is `Submit`, then `BeginDone` or
`BeginFails` if `_needs_explicit_begin`, then an answer (`Succeeds`, `Fails`,
`FailsDead`), then `Return`, which contains everything from the answer to the
return of the call: the rollback after a failure, the decision whether it was a
cancellation, the end of the implicit transaction. `FetchAll` is `fetchall()`
with the end of the implicit transaction in it. The buttons are
`ToggleTransactionMode`, `CommitButton`, `CommitButtonFails`, `RollbackButton`.
`commit()` rolls nothing back when it raises, so what the server has made of the
COMMIT decides: the connection is lost, with the transaction durable or not
(`CommitIsLost`), the server has refused and rolled back (`CommitIsRefused`), or a
late CANCEL has hit it and left an aborted transaction on a live connection
(`CommitIsCanceled`), which the next COMMIT rolls back without a word.
`cancel()` is `AskCancel`, `SendCancel`, `CancelFails`, `CancelReturns` beside
all the others. `Open` and `OpenFails` are `__init__` with its read-only checks,
`OpenPooled` is another connection being configured by a worker thread, which
overwrites the session's one flag.

State: `sessionRO` is `_session_read_only`, `mode` the label of the transaction
mode, `pid` whether `_backend_pid` is known, `QueryRunning` is `_query_running`.
`tx`, `txRO`, `pending` and `durable` are the server's; a write is the number of
its statement. `armed` is a CANCEL that the server has received and that has not
hit anything yet. The statements are of six kinds: reads, writes, BEGIN, COMMIT,
ROLLBACK, and SET, which is neither refused by a read-only transaction nor
counted as a write. `told` is what the user's last call brought.

### CatalogReader

Worker threads that use the pool, which is taken as `LendingPool` promises it
(`ConnectionPool` is proved to keep that promise). A job is a call of the
driver's SHOW path, a catalog query, or the completions. `Metadata` decides by
`useShow` (`_use_show_metadata`); `Borrow`, `Reserve`/`BorrowNew` and
`BorrowFails` are `getconn()`; `Begin` is the read-only transaction of
`_metadata_cursor()`, which depends on the session and is left open here;
`Misreads` is one of `_DRIVER_INDEXING_ERRORS`: the with block ends with the
error, the connection is discarded, the SHOW path is switched off and the thread
borrows again for the fallback. If the rollback in the `finally` of
`_metadata_cursor()` fails as well, its error takes the place of the first one and
is raised, and nothing is switched off (`MisreadsAndFails`). `Refused` is any other
error,
`CompletionsRefused` one that `_routine_completions()` swallows, `Finish` the
regular end with its rollback. `session` says what state each connection is in
at the server; `ServerDrops` ends an idle one without anybody noticing.

### CatalogNames, CatalogSearch

`CatalogNames` has `like_contains()`, and LIKE itself as the server (escape `!`)
and the driver (escape `\`) evaluate it. `CatalogSearch` has the levels of the
tree (`GetDatabases`, `GetSchemas`, `GetRelations`, `GetColumns`, where `Answers`
says which rows come back on the SHOW path and from a catalog query), and
`search_catalog()` as a sequence of reads (`StartSearch`, `Read`, `ReadFails`,
`Deliver`) between which other sessions `Create` and `Drop`. An object is its
path of names; `found` is the dictionary of results, whose keys are the paths.
`always` and `ever` remember what the tree showed all through a search, and at
any time of it. Without `all_databases` the session lists the connected database
only (`Reaches`), by the driver's list of databases as by the queries of
`catalog_queries.py`; with it, the model takes the SHOW path to list as much of
another database as the catalog query does. `database` is `self.database`, which a
search asks for (820, 909, 942): if `_read_session()` fails it is the name as the
user typed it, one of `TypedNames`, and the search then finds nothing below it.

### CatalogItems, Interactions

`CatalogItems` is what an item is called (`QualifiedIdentifier`, `QueryName`),
which class a relation gets (`RelationClass`) and which entries its menu has
(`DatabaseMenu`, `SchemaMenu`, `RelationMenu`, `Offered`), the queries that the
menus write into the editor (one definition for each function, from
`ShowDescribeRelation` to `ShowStorageSummary`, and `Report` for the entry that
calls it), and, external, how the server reads the text: delimited identifiers
(`ReadNames`), literals (`ReadLiteral`), names of fewer parts (`Resolve`). A query
names a view, the level of the objects its rows are about, the names it filters
by, and whether it stops at a limit: `LargestTables` is the 100 of the storage
summary (interactions.py:457). `Covers` says which objects a view may have rows
about: some span all databases, the others the connected one; some miss no
object, the others may miss any (SVV_TABLE_INFO has no empty table). Names are
sequences of characters, because the quoting is what the properties are about; the
keywords of a statement are left out.

`Interactions` extends `RedshiftSession`. A drop is `DropRelation` or
`DropContainer` (the look through the pool, in the same step as the choice of the
entry), `Answer` if the modal was opened, `Execute`, `EntrySucceeds` or one of
the session's failures, and `EntryReturns` with the announcement and the refresh.
`SetSearchPath`, `RefuseSearchPath` and `ShowDefinition` (then `EntryFetches`)
are the other two entries that run a statement. Each of these steps is a step of
`RedshiftSession` on the session's variables, joined with what it does to the
catalog: `committed` is what other sessions see, `view` what the main connection
does, and `Settle` makes the two agree when a transaction ends. `OthersCreate`
and `OthersDrop` are other sessions. `database` is `connection.database`, which
keeps the spelling the user typed if `_read_session()` fails. Items outlive what
they show: the tree may offer any object that was ever listed, in the databases
that the session lists (`Items`, `Reaches`). The look into a container has the same
reach: of another database it would see nothing without `all_databases`, but then
no item of it is in the tree. `saw` is nevertheless all there was to list in any
database, so that a container the look cannot see into would count as seen.

### ConnectionOptions

The adapter object: `Construct` keeps the declared options, `ConnectionId` may be
asked for at any time after, and one of `Connect`, `Refuse` and `ConnectRaises`
comes once. A connection string is the parts it has (a URL with components and a
query, one that `urlsplit()` refuses, key=value pairs, words that make no string,
or nothing), a value is a text or number with its Python type, and a dictionary
with a `Bad` value is an exception: `Unreadable` is a `ConnStrError`, `Malformed`
the plain `ValueError` of `urlsplit()` (conn_str.py:126), which passes both through
`connection_id` (`Raised`) and through `connect()` (`ConnectRaises`). `Normalize`, `ParseUrl`,
`ConnStrToDict`, `BuildConnectKwargs` and `Identify` follow the functions of
those names; what Python makes of texts (`lower()`, `int()`, percent decoding)
comes in tables. `BasicOptions` to `FederatedOptions` are the sections of
`cli_options.py`, each option with the class it is declared with; `Flags`,
`Numbers` and `ManyValued` are those of one class.

## The runs

Each property of a passing run has a mutant in `PROJECT.json`: a plausible slip,
marked as a slip in its module, that makes TLC report exactly that property.

| Run | Instance | What it shows |
|---|---|---|
| `pool` | 4 threads, 2 slots, 4 connection names | the eight promises of the pool, among them the refinement of `LendingPool`, `WakeupsAccounted` and `ClosedPoolDrains` |
| `session` | 3 statements, either answer to the read-only questions | `ReadOnlyHolds`, `ManualGate`, `ManualTransactionLasts`, `AutoLeavesNothingOpen`, `AutoWritesLast`, `OnlyCommitPoisons`, `CancelStops`; 367,000 states |
| `catalog` | 3 threads, 2 slots, 3 connection names, symmetric | `IdleOutsideTransactions`, `NoHoldAndWait`, `OneDoomedAttemptEach`, `RefusalsSurface` |
| `catalog_search` | 11 objects in 2 databases, any legal subset of them at first, with `all_databases` and without, 2 changes, 4 terms, 3 kinds | `TreeShowsTheServer`, `SearchIsHonest`; 1,410,000 states |
| `interactions` | 10 objects in 2 databases, 1 menu entry, 1 other statement (a write), 1 change by others | `ActsOnTheItem`, `UnaskedTakesOnlyTheUnseen`, `AnnouncementsHold`, `ReadOnlyDropsNothing`, `ManualDropsWait`, `ReportsMatchTheItem`; 353,000 states |
| `options` | strings with up to 2 settings (the first from 16, the second and those of a URL's query from 8), malformed URLs, 62 option sets, URLs with up to 3 components | `HighestLayerWins`, `TypedForTheDriver`, `IdNamesTheEndpoint`, `UnknownStaysOut`, `SpelledEitherWay`; 71,000 states |
| `pool_timeout`, `pool_patience`, `session_read_only_flag`, `session_lookalike`, `session_late_cancel`, `catalog_inherit` | smaller | the findings below, each with its counterexample |

Why these instances are enough:

- *Pool.* Four threads and two slots are the least with both slots taken and two
  sleepers, of which a notification can pick the wrong one. A name is used again once its connection is closed at the
  server; no more than four connections are ever open together (with six names
  there are no more either), so four names suffice. The state space is finite
  without any further bound. The theorems lift the safety part to any number.
- *Session.* `MaxStatements` bounds the statements. Two are needed to have one
  leave a transaction or a cursor behind and the next meet it; the third allows
  a toggle, a cancellation and a fetch to come in between. `ProbeAnswers` is the
  set of answers the connections of one session may get to the read-only
  question: `Uniform` (all alike) in the passing run, `Varying` in the finding.
- *Catalog.* Three readers on two slots can block each other, and all three can
  have decided for the SHOW path before the first one finds it broken.
- *Search.* The objects are chosen so that names are a wildcard, the escape
  character, a backslash, and letters of both cases; some lie in a system
  schema, some in another database. Two changes allow an object to be dropped
  and created again between two queries of one search. `MCSpec` gives a name the
  user has spelt otherwise (`TypedNames` has one) to sessions without
  `all_databases` and without the SHOW path only: the spelling matters to
  the catalog queries of a search, which use neither. As no search uses the SHOW
  path, it starts them only once that is off.
- *Interactions.* One entry and one statement of the user's can come in either
  order, so that an entry meets a transaction the user has open, and the user's
  statement meets what an entry left. The objects are the least with a relation
  of the same path in two databases, a schema whose name reads like a dotted
  name (`d"."s`), a name with a backslash that would read as an escape, a schema
  that looks empty and holds a routine, and a relation that comes and goes.
  `LargestTables` is 1, with two tables in one schema. `MCSpec` lets a session that
  is not read only take a single answer of the server to the read-only question,
  which it never asks; a session without `all_databases`, which has the fewer
  items, is not read only; both it and a read-only one start with all objects,
  which others then drop. `cancel()` is called for the menu's statements only,
  though it may act on a later one; `session` calls it for any.
- *Options.* Every rule of precedence is about two settings of one key, so
  strings with two pairs, or components and one pair, and two options suffice.
  The pairs have one or two keys of every type, every spelling, good, bad and
  blank values, a key that no option declares, and a value with "://" in it. What
  comes second, or in a URL's query, is one of eight of them that can meet
  another setting of the same key; the theorems cover all the others.

**Fairness.** Only liveness properties use it. Pool: a thread inside the pool's
code goes on, a timer that is left alone runs out, opening a connection returns
(the driver connects with a timeout), and the with block of a borrower ends;
nobody needs to borrow or to close, and no order is assumed for the lock.
Session: `execute()` goes on once the server has answered, a CANCEL that the
server has received takes effect while it is busy, and `cancel()` either sends
CANCEL or fails (its wait for a connection is five seconds). The server is *not*
assumed to finish a statement by itself, and the user is not assumed to do
anything.

**Deadlock** is checked in all runs but those of the session and the
interactions, where a session that was closed or refused has nothing left to do,
and of the options, where an adapter connects once.

**Abstract specifications.** `ImplementsLending` in the run `pool` checks the
refinement, and the theorem `Implements` proves it. `RedshiftSession` is the
abstract specification of `Interactions` (theorem `ImplementsSession`): the menus
add nothing to what the user's own statements do to a session. For search, the reference is
`Shown` and `Wanted`: what a tree should show of the server, and what "contains
the term" means without patterns; for options, `Settings` ranks all that is set;
for menu queries, it is what lies below the item.

## The proofs

`tlapm` proves the eight modules below; the constants are arbitrary, subject to
the named assumptions, which TLC evaluates in the runs. Every invariant and every
action property that a run checks is a theorem, and so is the refinement.

**SequenceLayout** is about sequences that are made of pieces: `FlattenSeq` puts
each piece where the ones before it end (`FlattenSeqLayout`), and holds what its
pieces hold. `FlattenSeq` is defined by recursion, so this takes induction. The
library's induction theorems have an operator as a parameter and cannot be used;
`Induction` says the same of a *set* of numbers, and follows from the
well-foundedness of `<`, which is a fact without such a parameter.

**ConnectionPoolProofs**, from `PoolAssumption` (finitely many threads, at least
one slot, the value for "no connection" is none). The inductive invariant `IInv`
has besides `TypeOK`, `SlotAccounting`, `Exclusive`, `NoLeak` and
`ClosedIsFinal` four facts without which no step can be shown to keep them: the
idle set is finite, a thread has a connection in hand exactly in the states
between `connect()` and the end of its return, every sleeper is on the list of
waiters, and only `close()` leaves connections to be thrown away. There is one
lemma for each action that changes a count, and lemmas on how one thread's move
changes the number of occupied slots. `Implements` shows `Spec =>
ImplementsLending`: initial states map to initial states, and each step, given
`IInv`, to a step of `LendingPool` or to a stutter.

**PoolWakeupsProofs** continues with `WakeupsAccounted`. `WInv` adds to `IInv` that
nobody is on the list of waiters but threads inside of `wait()`; `NotifyForOne`
shows that a notification then wakes a sleeper, finds none, or is spent on an
expired wait, and the other lemmas weigh what becomes free against who is woken.

**RedshiftSessionProofs**, from `SessionAssumption`. `Shape` is the inductive
invariant about transactions: in which phases there is a call, that an aborted
transaction is on its way to be rolled back or what a commit that raised has left
in Manual mode (`AbortedIsKnown`), and when Auto mode may be found inside a
transaction at all. It gives `PoisonedByCommitOnly`, an action property, and
`NothingLeftOpen` unconditionally. `Kept` adds what makes a session read only (`ReadOnlyKept`:
either the connection's default, or a read-only transaction around each
statement that runs) and that a finished write is durable before it is reported.
It is inductive only if all connections of a session get the same answer to the
read-only question, so `ReadOnlySafe` and `AutoWritesAreDurable` carry the
assumption `UniformServer`. The run `session_read_only_flag` shows that the
assumption cannot be dropped. `ManualGateHolds` needs `ManualInside` (in Manual
mode every statement runs inside of a transaction while there is a connection),
and `TransactionsLast` needs `AutoEmpty` (in Auto mode no write waits for a
commit), without which a change of mode could lose one. `AutoBare` sharpens when
Auto mode is inside of a transaction: only where transactions are what makes the
session read only, or while the user's own BEGIN returns.

**CatalogReaderProofs**, from `NoConnIsNone`. `Inv` adds to the properties that a
connection has one borrower and is not on the shelf (`LentOnce`), that a thread
has a connection or a promise only where its call says so (`Places`), and that a
call under way has been refused nothing so far (`NothingHidden`). `DoomedOnceEach`
counts for each thread: one that has gone over to the catalog query has switched
the SHOW path off, and nobody enters that path once it is off. What it does not
count is `MisreadsAndFails`.

**CatalogSearchProofs**, from `CatalogSearchAssumption` (objects are paths of one
to four names). It begins with patterns: LIKE, a recursive function over pattern
and text, matches `like_contains(term)` exactly where the text contains the term,
for any characters, the wildcards and the escape character included
(`LikeContainsIsOccursIn`), and a name as a pattern matches itself (`LikeItself`).
`TreeIsTheServer` follows from the second and from `Closed` (the server has what
each of its objects is in): each level of the tree, asked either way, is what
`Shown` says. `IInv` adds to `Closed` the types, `Underway`
(what a search has found is wanted and was shown at some time of it, and what was
shown throughout and is wanted has been found or will be by a question still to
be put) and the property `SearchIsHonest` itself, which `SearchKeepsPromise`
proves for all terms, kinds and catalogs and any number of changes by others.

**InteractionsProofs**, from both modules' assumptions. It begins with what is
quoted: where the characters of a name lie in its quotation (`DoubledLayout`),
and that the server, reading character by character, comes back to the name:
`LiteralsMeanThemselves`, `IdentifiersMeanThemselves`, and, for the names of a
path with dots between them, `DottedNamesMeanThemselves`. These hold for any
characters. `ReportsAlwaysMatch` follows, since a query filters by exactly the
names of its item and a limit takes a subset of what it matches, and
`TargetIsTheItem`: the object the server takes a statement
to be about is the item it was written for.

`Entries` is the first inductive invariant: types, what a statement under way has to do
with the menu entry it runs for (`MenuOK`), and that both views of the catalog
agree outside of a transaction (`Agrees`). From it `SessionStep` shows that each
step is one of the session's or none, hence `ImplementsSession : SpecI => Spec`,
and with it every theorem about the session holds here too. Three use that at
once: `ReadOnlyNeverDrops` takes `Kept` from there (and with it `UniformServer`),
`ManualDropsAlwaysWait` takes `ManualInside`, and `AnnouncementsAreTrue` takes
`AutoBare`: a drop or a switch that is announced in Auto mode ran outside of any
transaction, where both views of the catalog are one.

`Suits` is the second: both catalogs have what their objects are in (`WholeOK`),
and an entry under way has the item it was chosen for, in the connected database
if it is a switch, with nothing below it that the adapter saw if nobody was asked
(`ItemOK`). `EntriesActOnTheirItems` and `UnaskedTakesNothingSeen` follow.
The assumption about objects, `InteractionsAssumption`, says that each is a path
of one to three names and no name is empty; that what comes and goes, or is not
listed, holds no other object; and that the server knows no second database by a
name the user may have typed for the connected one, without which "Set Search
Path" could be offered for the wrong one.

**ConnectionOptionsProofs**, from `ConnectionOptionsAssumption`: a port is a
number; `int()` of a number's own text is that number; `lower()` leaves the names
of the parts of a URL alone; and Harlequin passes an option as its class's type or
as a text. `OptionsInv` says what a connection's keywords and an id come from.
What `_normalize()` makes of a string, and the adapter of a list of options, are
folds; what is proved of them is proved by induction over the parts. On this rest
`HighestLayerAlwaysWins`, `DriverGetsTypes` (which compares the declarations of
`cli_options.py` with the tables of `conn_str.py`) and `AlwaysSpelledEitherWay`, while
`IdIsTheEndpoint` and `UnknownNeverReach` need only what becomes of the result.

Only model-checked: the liveness properties `ClosedPoolDrains` and `CancelStops`,
which rest on fairness and `ENABLED`, out of the prover's reach. The steps of
their arguments that are safety properties are theorems (`WakeupsAccounted`,
`SlotAccounting`, `OnlyCommitPoisons`).

## Findings and observations

Six runs end in a counterexample to what the program says of itself. Each is
under "findings" in `PROJECT.json` with the sentence it contradicts.

1. `pool_timeout` (pool.py:101). A notification that reaches a waiter whose timer
   has just run out is lost: the waiter raises without looking at the pool again
   and without passing it on. Another waiter times out beside a free connection.
2. `pool_patience` (pool.py:101). `deadline_wait` is a duration that every turn of
   the loop starts anew; with barging threads a borrower waits without end.
3. `session_read_only_flag` (adapter.py:359). The answer of the connection that
   was configured last decides whether the *main* connection needs `begin read
   only`. It takes a server that answers connections differently, for example
   because an attempt to set the default failed on one of them.
4. `session_lookalike` (adapter.py:161). An error that mentions "cancel" and
   "user" or "request" is not reported.
5. `session_late_cancel` (adapter.py:594). CANCEL may be sent after the statement
   it was meant for.
6. `catalog_inherit` (completions.py:77). An error that is swallowed inside of the
   with block keeps the pool from discarding the connection.

Observations that no run states:

- `putconn()` gives the slot back before it closes a discarded connection
  (pool.py:124, 130), so for a moment more than `max_size` connections exist.
- In Auto mode a BEGIN the user runs is rolled back at once
  (`_end_implicit_transaction()`), and the statements after it commit singly.
- `commit()` does not roll back what it could not commit (adapter.py:523-530). After
  a COMMIT that was cancelled the transaction is aborted: a second press of Commit
  reports success and has the server roll back, and a statement fails once before
  `execute()` rolls back for it. `OnlyCommitPoisons` and `ManualTransactionLasts`
  name the case.
- A cancelled or failed statement in Manual mode rolls back the whole
  transaction (adapter.py:559-563); `ManualTransactionLasts` allows for it.
- The hint "You may need to restart Harlequin" (adapter.py:561-570) is never
  given, because `rollback()` swallows all errors; the branch for `fallback is
  None` (671-680) is never taken, because every caller passes a fallback.
- If the rollback that `_metadata_cursor()` makes over the driver's indexing error
  fails too (adapter.py:637-638), `_metadata()` sees only the second error: the SHOW
  path stays on, although "the first failure switches this off" (298-302).
- A search asks for `self.database` (adapter.py:820, 909, 942). If `_read_session()`
  has failed and the user spelt the name otherwise, it finds databases only.
- `search_catalog()` says that each level is matched by the metadata call that
  builds it in the tree; it is matched by a catalog query of its own
  (CHANGELOG.md:44 says so). `TreeShowsTheServer` and `SearchIsHonest` together
  show that the two agree.
- "The drops go through Harlequin's confirmation modal" (interactions.py:5) and
  "behind a confirmation" (520) do not hold of a schema or database that looks
  empty (589, 611): it is dropped unasked, with CASCADE, and with it go routines,
  which the tree never lists, and what others have created since the look.
  `UnaskedTakesOnlyTheUnseen` states what does hold.
- A drop that was cancelled is announced as done, since `execute()` returns None
  for it and raises nothing (539, 586, 608). In Manual mode the announcement
  comes before the commit, and a rollback undoes it.
- A failing or cancelled menu entry in Manual mode rolls back the user's own open
  work with it (adapter.py:559-563).
- In a read-only session whose server takes no session-wide default, `set
  search_path` runs in a transaction of its own that is rolled back at once, so
  "Editor context switched" is not so (95); CHANGELOG.md:11 says that "Set Search
  Path" works. `AnnouncementsHold` excepts it.
- The views SVV_TABLE_INFO, PG_CONSTRAINT, SVV_EXTERNAL_TABLES and SVV_MV_INFO
  cover the connected database only (interactions.py:211, 433), yet the entries
  that read them are offered for items of other databases, and then report on
  the connected database's schema or relation of that name.
- The storage summary stops at 100 tables (interactions.py:457), and SVV_TABLE_INFO,
  from which it and Show Table Info are read, has no empty tables.
- If `_read_session()` fails, `connection.database` keeps the user's spelling; if
  that differs from the server's, items of the connected database count as
  another's, and Set Search Path is refused for all of them.
- `all_databases` in a connection string or as text in a profile stays text, and
  "off" counts as true (adapter.py:288): `_BOOL_KEYS` lacks it, although
  "every option that is not a string is converted here" (`_coerce()`,
  conn_str.py:88-89); a driver's keyword
  `database_metadata_current_db_only` given in a string is overwritten (289), and
  the option `--database-metadata-current-db-only` that a message recommends
  (676) does not exist.
- For a URL that `urlsplit()` refuses, such as one with half a pair of brackets in its
  host, `connection_id` and `connect()` raise a plain `ValueError` (conn_str.py:126
  is outside of the `try`), where the one should be None and the other a connection
  error.
- A key in a connection string that no option declares does reach the driver;
  only options are filtered.
- A keyword string with a URL as a value (`login_url=https://...`) is taken for a
  URL with an unknown scheme and refused (conn_str.py:176).
- A keyword string may name any integer as its port, a URL only 0 to 65535.
- `sslrootcert`, a file in libpq, becomes the driver's `sslmode`
  (conn_str.py:32), and replaces one that was given before it.
- A timeout of 0 reaches the driver, but the pool waits 30 seconds (adapter.py:315).
- `connection_id` names host, port and database, which with IAM may all be left to
  their defaults; two clusters that differ in `cluster_identifier` share one id.

## Environment

The models assume of what is outside of `src/`:

- Harlequin makes one call at a time on the main connection; only `cancel()` and
  the users of the pool run beside it, and there is one `cancel()` at a time.
- A ROLLBACK on the main connection fails only if the connection is lost: the
  server refuses none, and a CANCEL that arrives during one has no effect on it.
- A COMMIT may be refused, which rolls back, or be hit by a CANCEL before the server
  has begun to commit, which aborts the transaction. A COMMIT of an aborted
  transaction rolls it back and reports success, as in PostgreSQL.
- A lost connection may have carried out the statement, or the COMMIT, that was
  under way.
- The driver has read all rows when `cur.execute()` returns.
- A CANCEL that finds the session idle lapses, or hits what runs next: the
  comment at adapter.py:595 says it can.
- Users do not change the session's read-only default by hand.
- `threading.Condition` behaves as in CPython (see above), in any order.
- Menu entries run one at a time, in the thread of the user's calls; if the look
  into a container fails, nothing else happens.
- Told `database_metadata_current_db_only`, the driver lists the connected database
  only: "By default the catalog shows the connected database" (src/README.md:100).
- DROP SCHEMA CASCADE takes what is in the schema; dependents elsewhere are left
  out. What an open transaction has created or dropped is locked. SET is undone
  by a rollback, as in PostgreSQL. DROP DATABASE runs outside of transactions only.
- No second database answers to a name that the user may have typed for the
  connected one. What holds other objects is listed, and others leave it in place.
- Harlequin passes flags as booleans or texts and lists as lists; `urlsplit`,
  `parse_qsl` and `shlex` find the parts of a string.
- LIKE is case-sensitive; `%`, `_` and the escape character are its only
  special characters; each query reads one snapshot.

## Not modelled

- Rows, column types, row limits and the wording of messages: the properties do
  not tell them apart. The order of search results.
- Insert Columns at Cursor and Preview Data, which write text into the editor that
  names their item as `QueryName` and `QualifiedIdentifier` do, and `_one_line()`,
  which keeps the header of a definition a comment.
- IAM and federated login: the driver does it; the adapter passes the keywords on.
- `keywords.tsv` and the type labels (adapter.py:993-1106): constant tables
  without state, from which nothing but labels is made.
- Tests, the build and the CI.

## The plan

Done, in this order: the pool with its refinement and proofs; the session with
its proofs; the catalog readers with theirs; tree and search; items and
interactions over the session, with proofs; connection strings and options, with
proofs.

Done since: proofs of tree and search, of all of the options, and of what quoting
makes of names, so that each safety property of the runs is now a theorem.

What is left: the parts of the liveness arguments that are safety properties, as
theorems of their own (who waits in a closed pool has been woken, or is about to
be; a CANCEL that has reached a busy server stays armed until it hits), and lemmas
about the operators that more than one module of proofs could cite.
