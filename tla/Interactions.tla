---------------------------- MODULE Interactions ----------------------------
(***************************************************************************)
(* The context menus of the catalog tree that run a statement              *)
(* (interactions.py): drops, SHOW, and "Set Search Path".  They share the  *)
(* main connection with the user's own statements, so every step here is a *)
(* step of RedshiftSession or leaves the session alone; what is added is   *)
(* the catalog, as committed and as the main connection sees it, and other *)
(* sessions that change it meanwhile.                                      *)
(***************************************************************************)
EXTENDS RedshiftSession, CatalogItems

CONSTANTS
    Universe,    \* the paths of the objects that may exist
    Hidden,      \* those the tree does not list: routines in a schema, say
    Volatile,    \* those that users create and other sessions create or drop
    TypeOf,      \* the type of each relation the tree lists
    TypedNames,  \* how the user may have spelt the name of the database
    UserKinds,   \* bound: what the user runs beside the menus
    MaxChanges,  \* bound: objects created or dropped by other sessions
    MaxMenus     \* bound: how many menu entries the user chooses

\* Every object has a name.
Names == Seq(STRING) \ {<<>>}

\* What holds other objects can be listed and lasts, and no other database has
\* a name by which the server knows the connected one.
ASSUME InteractionsAssumption ==
    /\ \A o \in Universe :
          /\ o \in Seq(Names)
          /\ Len(o) \in 1..3
          /\ Len(o) > 1 => Front(o) \in Universe \ (Hidden \cup Volatile)
          /\ o[1] \in TypedNames => o[1] = Connected
    /\ Hidden \subseteq Universe
    /\ Volatile \subseteq Universe
    /\ UserKinds \subseteq Kinds
    /\ MaxChanges \in Nat
    /\ MaxMenus \in Nat

VARIABLES
    committed,  \* the objects and the search path, without open transactions
    view,       \* the same as the main connection has them
    allDatabases,  \* connection.all_databases
    database,   \* connection.database
    menu,       \* the menu entry that is under way
    notice,     \* what the driver has just been asked to tell the user
    changes,    \* how many objects other sessions created or dropped
    menus       \* how many entries were chosen

catalog == <<committed, view>>
settings == <<allDatabases, database>>
bounds == <<changes, menus>>
all == <<vars, catalog, settings, menu, notice, bounds>>

NoMenu == [act |-> "none", item |-> <<>>, at |-> "closed", asked |-> FALSE,
           saw |-> {}, number |-> 0]

Menus == [act : {"none", "drop", "use", "show"},
          item : {<<>>} \cup Universe,
          at : {"closed", "asking", "ready", "running", "fetching"},
          asked : BOOLEAN,
          saw : SUBSET Universe,
          number : Nat]

Notices == {"none", "dropped", "switched", "definition", "no definition",
            "could not", "elsewhere"}

Below(item) == {o \in Universe : IsPrefix(item, o)}

\* What the tree can list of the catalog.
Listed(objects) == objects \ Hidden

Class(item) ==
    CASE Len(item) = 1 -> "database"
      [] Len(item) = 2 -> "schema"
      [] OTHER         -> RelationClass(TypeOf[item])

\* The databases that a look into an item covers; the driver's list of
\* databases, from which the tree is made, is of the same (README, "By default
\* the catalog shows the connected database").
Reaches(db) == allDatabases \/ db = Connected

\* Items stay in the tree, with their children, until it is reloaded, so any
\* object that is or was listed has one.
Items(act) ==
    {i \in Listed(Universe) : Reaches(i[1]) /\ act \in Offered(Class(i))}

InitI ==
    /\ Init
    /\ \E missing \in SUBSET Volatile :
          committed = [objects |-> Universe \ missing, path |-> <<>>]
    /\ view = committed
    /\ allDatabases \in BOOLEAN
    /\ database = <<>>
    /\ menu = NoMenu
    /\ notice = "none"
    /\ changes = 0
    /\ menus = 0

-----------------------------------------------------------------------------
(* Choosing a menu entry *)

\* Nothing here touches the session.
Choose(act, item, at, asked, saw) ==
    /\ phase = "open"
    /\ menu = NoMenu
    /\ menus < MaxMenus
    /\ menus' = menus + 1
    /\ menu' = [act |-> act, item |-> item, at |-> at, asked |-> asked,
                saw |-> saw, number |-> 0]
    /\ notice' = "none"
    /\ UNCHANGED <<vars, catalog, settings, changes>>

\* Slip: a container that was never opened is trusted to be empty.
DropUnopened(item) ==
    \E asked \in BOOLEAN :
        Choose("drop", item, IF asked THEN "asking" ELSE "ready", asked,
               Listed(committed.objects))

\* execute_drop_relation_statement(): confirm_and_execute().
DropRelation(item) == Choose("drop", item, "asking", TRUE, {})

\* execute_drop_schema_statement() and execute_drop_database_statement(): the
\* user is asked if the item has children, or if a look through the pool finds
\* any, which it cannot in a database out of reach.  `saw` is all that there is
\* to list at the time of the look, in whatever database.  If the look fails,
\* nothing happens.
DropContainer(item) ==
    LET children == {o \in Listed(committed.objects) :
                        /\ Reaches(item[1])
                        /\ Len(o) = Len(item) + 1
                        /\ IsPrefix(item, o)}
    IN  \/ Choose("drop", item, "asking", TRUE, {})
        \/ /\ children = {}
           /\ Choose("drop", item, "ready", FALSE, Listed(committed.objects))

\* execute_use_statement() of a schema in the connected database.
SetSearchPath(item) ==
    /\ InConnected(item, database)
    /\ Choose("use", item, "ready", FALSE, {})

\* It does nothing for a schema of any other.
RefuseSearchPath(item) ==
    /\ phase = "open"
    /\ menu = NoMenu
    /\ ~InConnected(item, database)
    /\ notice' = "elsewhere"
    /\ UNCHANGED <<vars, catalog, settings, menu, bounds>>

\* _show_definition()
ShowDefinition(item) == Choose("show", item, "ready", FALSE, {})

\* The user answers the modal.
Answer(yes) ==
    /\ menu.at = "asking"
    /\ menu' = IF yes THEN [menu EXCEPT !.at = "ready"] ELSE NoMenu
    /\ notice' = "none"
    /\ UNCHANGED <<vars, catalog, settings, bounds>>

-----------------------------------------------------------------------------
(* The server's catalog *)

With(c, objects) == [objects |-> objects, path |-> c.path]

\* At the end of a transaction both sides agree again, on what the main
\* connection had or, if that was rolled back, on what was committed.
Settle(commits) ==
    IF tx' = "idle"
    THEN LET left == IF commits THEN view ELSE committed
         IN  committed' = left /\ view' = left
    ELSE UNCHANGED catalog

\* A statement makes the catalog `after` for the main connection, and for all
\* when it runs outside of a transaction.
Change(after) ==
    /\ view' = after
    /\ committed' = IF tx = "idle" THEN after ELSE committed

Others ==
    /\ changes < MaxChanges
    /\ changes' = changes + 1
    /\ notice' = "none"
    /\ UNCHANGED <<vars, settings, menu, menus>>

\* Another session creates or drops an object.  What the open transaction has
\* created or dropped is locked.
OthersCreate(o) ==
    /\ o \in Volatile \ (committed.objects \cup view.objects)
    /\ Front(o) \in committed.objects \cap view.objects
    /\ committed' = With(committed, committed.objects \cup {o})
    /\ view' = With(view, view.objects \cup {o})
    /\ Others

OthersDrop(o) ==
    /\ o \in Volatile \cap committed.objects \cap view.objects
    /\ committed' = With(committed, committed.objects \ {o})
    /\ view' = With(view, view.objects \ {o})
    /\ Others

-----------------------------------------------------------------------------
(* Running the entry on the main connection *)

Running == menu.at = "running"

KindOf(act) ==
    CASE act = "drop" -> "write" [] act = "use" -> "set" [] act = "show" -> "read"

\* The name in the statement: DROP DATABASE has the qualified identifier, SET
\* search_path the schema's own name, and the others the query name.
NameIn(act, item) ==
    CASE act = "use"      -> QuoteIdentifier(item[2])
      [] Len(item) = 1    -> QualifiedIdentifier(item)
      [] OTHER            -> QueryName(item, database)

\* The object the server takes it to mean.
Target ==
    LET text == NameIn(menu.act, menu.item)
    IN  Resolve(text, Len(menu.item))

Execute ==
    /\ menu.at = "ready"
    /\ Submit(KindOf(menu.act))
    /\ menu' = [menu EXCEPT !.at = "running", !.number = n']
    /\ notice' = "none"
    /\ UNCHANGED <<catalog, settings, bounds>>

\* The catalog without the object, which was there, and all that is in it.
\* DROP DATABASE neither runs in a transaction nor drops the connected one.
Dropped(o) == With(view, view.objects \ Below(o))
CanDrop(o) ==
    /\ o \in view.objects
    /\ Len(o) = Len(menu.item)
    /\ Len(o) = 1 => tx = "idle" /\ o # <<Connected>>

EntrySucceeds ==
    /\ Running
    /\ Succeeds
    /\ \/ menu.act = "drop" /\ CanDrop(Target) /\ Change(Dropped(Target))
       \/ /\ menu.act = "use"               \* the schema need not exist
          /\ Len(Target) = 2
          /\ Change([objects |-> view.objects, path |-> Target])
       \/ menu.act = "show" /\ Target \in view.objects /\ UNCHANGED catalog
    /\ notice' = "none"
    /\ UNCHANGED <<settings, menu, bounds>>

\* The rest of the handler: a cancelled statement is no error to it.
EntryReturns ==
    /\ Running
    /\ Return \/ BeginFails
    /\ Settle(FALSE)
    /\ \/ /\ told' = "rows"
          /\ menu' = [menu EXCEPT !.at = "fetching"]
          /\ notice' = "none"
       \/ /\ told' = "error"
          /\ menu' = NoMenu
          /\ notice' = "could not"
       \/ /\ told' = "nothing"
          /\ menu' = NoMenu
          /\ notice' = CASE menu.act = "drop" -> "dropped"
                         [] menu.act = "use"  -> "switched"
                         [] menu.act = "show" -> "no definition"
    /\ UNCHANGED <<settings, bounds>>

EntryFetches ==
    /\ menu.at = "fetching"
    /\ FetchAll(menu.number)
    /\ Settle(FALSE)
    /\ menu' = NoMenu
    /\ notice' = "definition"
    /\ UNCHANGED <<settings, bounds>>

-----------------------------------------------------------------------------
(* Everything else the session does *)

\* _read_session() may leave the name as the user typed it.
OpenI ==
    /\ Open
    /\ database' \in IF pid' THEN {Connected} ELSE TypedNames
    /\ notice' = "none"
    /\ UNCHANGED <<catalog, allDatabases, menu, bounds>>

UserSubmits(kind) == ~Running /\ Submit(kind) /\ UNCHANGED catalog

\* A write of the user's may create an object.
UserSucceeds ==
    /\ ~Running
    /\ Succeeds
    /\ \/ Settle(stmt = "commit" /\ tx # "aborted")
       \/ \E o \in Volatile \ (view.objects \cup committed.objects) :
             /\ stmt = "write"
             /\ Front(o) \in view.objects
             /\ Change(With(view, view.objects \cup {o}))

UserReturns == ~Running /\ (Return \/ BeginFails) /\ Settle(FALSE)

UserFetches(c) == c # menu.number /\ FetchAll(c) /\ Settle(FALSE)

Commits ==
    \/ CommitButton /\ Settle(tx # "aborted")
    \/ CommitButtonFails /\ Settle(durable' # durable)

\* A drop may have been carried out before the connection was lost.
Loses ==
    /\ LoseConnection
    /\ IF durable' # durable /\ Running
       THEN CanDrop(Target) /\ Change(Dropped(Target))
       ELSE Settle(durable' # durable)

\* Steps that commit nothing.
Continues ==
    /\ \/ OpenFails \/ OpenPooled \/ ToggleTransactionMode \/ RollbackButton
       \/ BeginDone \/ (\E e \in Failures : Fails(e)) \/ FailsDead \/ Close
       \/ AskCancel \/ SendCancel \/ CancelFails \/ CancelReturns \/ CancelLapses
    /\ Settle(FALSE)

SessionGoesOn ==
    /\ \/ \E kind \in UserKinds : UserSubmits(kind)
       \/ UserSucceeds
       \/ UserReturns
       \/ \E c \in cursors : UserFetches(c)
       \/ Commits
       \/ Loses
       \/ Continues
    /\ notice' = "none"
    /\ UNCHANGED <<settings, menu, bounds>>

-----------------------------------------------------------------------------

Chooses ==
    \/ \E i \in Items("drop") : Len(i) = 3 /\ DropRelation(i)
    \/ \E i \in Items("drop") : Len(i) < 3 /\ DropContainer(i)
    \/ \E i \in Items("use") : SetSearchPath(i)
    \/ \E i \in Items("use") : RefuseSearchPath(i)
    \/ \E i \in Items("show") : ShowDefinition(i)
    \/ \E yes \in BOOLEAN : Answer(yes)

NextI ==
    \/ OpenI
    \/ Chooses
    \/ Execute
    \/ EntrySucceeds
    \/ EntryReturns
    \/ EntryFetches
    \/ \E o \in Universe : OthersCreate(o)
    \/ \E o \in Universe : OthersDrop(o)
    \/ SessionGoesOn

SpecI == InitI /\ [][NextI]_all

-----------------------------------------------------------------------------
(* Properties *)

\* Every variable has its type; the session's are among them.
TypeOKI ==
    /\ TypeOK
    /\ committed.objects \subseteq Universe
    /\ view.objects \subseteq Universe
    /\ allDatabases \in BOOLEAN
    /\ database \in {<<>>, Connected} \cup TypedNames
    /\ menu \in Menus
    /\ notice \in Notices
    /\ changes \in 0..MaxChanges
    /\ menus \in 0..MaxMenus

\* A menu entry acts on the object whose menu it is, however it is named, and
\* whatever database it is in: a drop takes this object and all that is in it
\* and nothing else, and the search path names this schema.
ActsOnTheItem ==
    [][/\ EntrySucceeds /\ menu.act = "drop" =>
             view.objects \ view'.objects = Below(menu.item) \cap view.objects
       /\ EntrySucceeds /\ menu.act = "use" => view'.path = menu.item]_all

\* "the drops go through Harlequin's confirmation modal" (interactions.py), as
\* far as it is so: a drop nobody confirmed takes nothing, but the empty schema
\* or database itself, that could be listed when the adapter looked into it.
\* What the tree never lists, what others created since, and what the open
\* transaction has created, goes with it.
UnaskedTakesOnlyTheUnseen ==
    [][Running /\ ~menu.asked /\ ~Others =>
          (view.objects \ view'.objects) \cap committed.objects \cap menu.saw
              \subseteq {menu.item}]_all

\* What the user has been told has been dropped, or switched to, is not undone
\* by the very call that did it; in Auto mode it is committed.  Excepted is
\* "Editor context switched" in a read-only session of a server without the
\* session default: there the setting is rolled back with the transaction
\* opened for it.  So is a statement taken for cancelled, which is announced
\* like one that was done.
AnnouncementsHold ==
    [][(/\ notice' \in {"dropped", "switched"}
        /\ outcome = "done"
        /\ ~(notice' = "switched" /\ mode = "Auto" /\ readOnly /\ ~sessionRO)) =>
           /\ view' = view
           /\ mode = "Auto" => committed' = view]_all

\* A read-only session drops nothing, from whatever menu: the catalog changes
\* only by other sessions.
ReadOnlyDropsNothing ==
    [][readOnly /\ committed'.objects # committed.objects => Others]_all

\* In Manual mode others see no drop, and the user can still take it back,
\* until the user commits.
ManualDropsWait ==
    [][mode = "Manual" /\ committed'.objects # committed.objects =>
          Others \/ Commits \/ (op = "running" /\ stmt = "commit")]_all

\* The queries that the menus write, each with the objects that are its item's.
Reports ==
    UNION {{[item |-> i, query |-> Report(i, r),
             about |-> {o \in Below(i) : Len(o) = Report(i, r).level}] :
               r \in Offered(Class(i)) \cap Reporting} :
           i \in Listed(Universe)}

\* A query from a menu returns rows about the objects of its item, however they
\* are named, and about no other; about all of them that the view it reads has
\* rows about, save for the storage summary, which stops at the largest; and
\* the views that the listings and the description of a relation read have rows
\* about every object ("Every relation under this item, local, external, and
\* shared alike", show_list_objects()).  Excepted are the views that cover only
\* the connected database, when the item is in another: they answer about the
\* objects of the same names in the connected one.
ReportsMatchTheItem ==
    AtRest /\ menu = NoMenu =>
      \A r \in Reports : \A covered \in Covers(r.query, Listed(view.objects)) :
        r.item[1] = Connected \/ r.query.source \in SpanningViews =>
          /\ \A rows \in Results(r.query, covered) :
                /\ rows \subseteq r.about
                /\ \/ rows = r.about \cap covered
                   \/ r.query.largest /\ Cardinality(rows) = LargestTables
          /\ r.query.source \in CompleteViews =>
                r.about \cap covered = r.about \cap Listed(view.objects)
=============================================================================
