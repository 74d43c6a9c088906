--------------------------- MODULE CatalogSearch ----------------------------
(***************************************************************************)
(* The catalog tree, one level at a time (_get_databases() and the like),  *)
(* and search_catalog(), which asks the server one query after the other   *)
(* while other sessions create and drop what it looks for (adapter.py,     *)
(* catalog_queries.py).  An object is its path: <<database>>,              *)
(* <<database, schema>>, and so on to the column.                          *)
(***************************************************************************)
EXTENDS CatalogNames, FiniteSets

CONSTANTS
    Universe,       \* the paths of all objects that may exist
    Connected,      \* the name of the connected database
    TypedNames,     \* how the user may have spelt that name
    SystemSchemas,  \* schema names the catalog does not show
    Terms,          \* what users search for
    MaxChanges      \* bound: objects created or dropped by other sessions

\* Names are sequences of characters, and no object lies below a column.
ASSUME CatalogSearchAssumption ==
    /\ \A p \in Universe : p \in Seq(Seq(STRING)) /\ Len(p) \in 1 .. 4
    /\ Connected \in Seq(STRING)
    /\ TypedNames \subseteq Seq(STRING)
    /\ Terms \subseteq Seq(STRING)
    /\ MaxChanges \in Nat

VARIABLES
    server,        \* the objects that exist
    changes,       \* how many were created or dropped
    useShow,       \* self._use_show_metadata
    allDatabases,  \* self.all_databases
    database,      \* self.database
    status,        \* of the search: "none", "running", "done" or "failed"
    term,          \* what is searched for
    kind,          \* at which levels: "all", "relations" or "columns"
    todo,          \* the queries still to be asked: <<level, pattern>>
    found,         \* results: the paths found so far
    always,        \* history: what the tree showed all through the search
    ever           \* history: what it showed at some time of the search

settings == <<allDatabases, database>>
searching == <<status, term, kind, todo, found>>
history == <<always, ever>>
vars == <<server, changes, useShow, settings, searching, history>>

Kinds == {"all", "relations", "columns"}

At(level) == {p \in server : Len(p) = level}

IsUserSchema(schema) == schema \notin SystemSchemas

-----------------------------------------------------------------------------
(* The tree *)

\* The databases whose contents the session can list, and that the driver names
\* in its list of them, which is told by database_metadata_current_db_only.
Reaches(db) == allDatabases \/ db = Connected

\* Slip: a backslash in a name goes into the driver's pattern as it is.
UsesShowAnyway(names) == useShow

\* _metadata(): the SHOW path, which takes names for LIKE patterns, or else the
\* catalog query, which binds them.
UsesShow(names) ==
    useShow /\ \A n \in names : Backslash \notin Range(n)

\* Does a row about the object p answer a question about these names?
Answers(p, names) ==
    /\ Reaches(p[1])
    /\ \A i \in DOMAIN names :
          IF i = 1 \/ ~UsesShow({names[k] : k \in 2 .. Len(names)})
          THEN p[i] = names[i]
          ELSE Like(names[i], Backslash, p[i])

GetDatabases == {p \in At(1) : Reaches(p[1])}

GetSchemas(db) == {p \in At(2) : Answers(p, <<db>>) /\ IsUserSchema(p[2])}

\* The rows of other relations that the pattern let in are filtered out, and
\* the items made of the rest lie below the node that was opened.
Children(names) ==
    LET level == Len(names) + 1
        rows == {p \in At(level) : Answers(p, names)}
        matching == {p \in rows : Tail(SubSeq(p, 1, Len(names))) = Tail(names)}
    IN  {Append(names, p[level]) : p \in matching}

GetRelations(db, schema) == Children(<<db, schema>>)

GetColumns(db, schema, relation) == Children(<<db, schema, relation>>)

\* What a user sees who opens every node.
Tree ==
    LET schemas == UNION {GetSchemas(p[1]) : p \in GetDatabases}
        relations == UNION {GetRelations(p[1], p[2]) : p \in schemas}
        columns == UNION {GetColumns(p[1], p[2], p[3]) : p \in relations}
    IN  GetDatabases \cup schemas \cup relations \cup columns

\* What the tree should show: "By default the catalog shows the connected
\* database. Pass `--all-databases` to show every database" (README), of each
\* every object, but for the schemas of the system.
Shown ==
    {p \in server : Reaches(p[1]) /\ (Len(p) > 1 => IsUserSchema(p[2]))}

-----------------------------------------------------------------------------
(* search_catalog() *)

SearchPatterns(t) ==
    IF Lower(t) = t THEN <<LikeContains(t)>>
    ELSE <<LikeContains(t), LikeContains(Lower(t))>>

Levels(k) ==
    IF k = "all" THEN <<2, 3, 4>> ELSE IF k = "relations" THEN <<3>> ELSE <<4>>

\* The queries of a search, level by level, pattern by pattern.
Queries(t, k) ==
    LET atLevel(l) == [i \in DOMAIN SearchPatterns(t) |-> <<l, SearchPatterns(t)[i]>>]
    IN  (IF k = "all" THEN << <<1, t>> >> ELSE <<>>)
        \o FlattenSeq([i \in DOMAIN Levels(k) |-> atLevel(Levels(k)[i])])

Init ==
    /\ server \in {S \in SUBSET Universe :
                      <<Connected>> \in S /\ \A p \in S : Len(p) > 1 => Front(p) \in S}
    /\ changes = 0
    /\ useShow \in BOOLEAN
    /\ allDatabases \in BOOLEAN
    /\ database \in {Connected} \cup TypedNames    \* _read_session() may fail
    /\ status = "none"
    /\ term = <<>>
    /\ kind = "all"
    /\ todo = <<>>
    /\ found = {}
    /\ always = {}
    /\ ever = {}

StartSearch(t, k) ==
    /\ status = "none"
    /\ term' = t
    /\ kind' = k
    /\ found' = {}
    /\ IF t = <<>>
       THEN status' = "done" /\ todo' = <<>>
       ELSE status' = "running" /\ todo' = Queries(t, k)
    /\ always' = Shown
    /\ ever' = Shown
    /\ UNCHANGED <<server, changes, useShow, settings>>

\* The databases are all read, and matched here, regardless of case.
MatchDatabases ==
    {p \in GetDatabases : OccursIn(Lower(term), Lower(p[1]))}

\* _catalog_query(): the connected database only, if that is self.database, and
\* one snapshot for each query.
MatchNames(level, pattern) ==
    {p \in At(level) :
        /\ p[1] = Connected
        /\ p[1] = database
        /\ Like(pattern, LikeEscape, p[level])
        /\ IsUserSchema(p[2])}

\* The next query is answered; the last answer ends the search.
Read ==
    /\ status = "running"
    /\ LET level == Head(todo)[1]
           pattern == Head(todo)[2]
       IN  found' = found \cup
               (IF level = 1 THEN MatchDatabases ELSE MatchNames(level, pattern))
    /\ todo' = Tail(todo)
    /\ status' = IF Len(todo) = 1 THEN "done" ELSE "running"
    /\ UNCHANGED <<server, changes, useShow, settings, term, kind, history>>

\* Slip: a query that fails leaves the caller with what was found before.
ReadFailsSilently ==
    /\ status = "running"
    /\ status' = "done"
    /\ UNCHANGED <<server, changes, useShow, settings, term, kind, todo, found, history>>

\* A query fails, and search_catalog() with it.
ReadFails ==
    /\ status = "running"
    /\ status' = "failed"
    /\ todo' = <<>>
    /\ found' = {}
    /\ UNCHANGED <<server, changes, useShow, settings, term, kind, history>>

\* The caller takes the results or the error; nothing else of the search is left.
Deliver ==
    /\ status \in {"done", "failed"}
    /\ status' = "none"
    /\ term' = <<>>
    /\ kind' = "all"
    /\ found' = {}
    /\ always' = {}
    /\ ever' = {}
    /\ UNCHANGED <<server, changes, useShow, settings, todo>>

\* The driver has tripped over its own metadata, on this or another thread.
ShowBreaks ==
    /\ useShow
    /\ useShow' = FALSE
    /\ UNCHANGED <<server, changes, settings, searching, history>>

-----------------------------------------------------------------------------
(* Other sessions *)

\* The histories are kept while a search is under way.
Remember ==
    IF status = "running"
    THEN always' = always \cap Shown' /\ ever' = ever \cup Shown'
    ELSE UNCHANGED history

Create(p) ==
    /\ changes < MaxChanges
    /\ p \notin server
    /\ Len(p) > 1 => Front(p) \in server
    /\ server' = server \cup {p}
    /\ changes' = changes + 1
    /\ UNCHANGED <<useShow, settings, searching>>
    /\ Remember

Drop(p) ==
    /\ changes < MaxChanges
    /\ p \in server
    /\ p # <<Connected>>
    /\ server' = {q \in server : ~IsPrefix(p, q)}
    /\ changes' = changes + 1
    /\ UNCHANGED <<useShow, settings, searching>>
    /\ Remember

Next ==
    \/ \E t \in Terms, k \in Kinds : StartSearch(t, k)
    \/ Read
    \/ ReadFails
    \/ Deliver
    \/ ShowBreaks
    \/ \E p \in Universe : Create(p) \/ Drop(p)

Spec == Init /\ [][Next]_vars

-----------------------------------------------------------------------------
(* Properties *)

\* Every variable has its type; a search that has ended owes no query.
TypeOK ==
    /\ server \subseteq Universe
    /\ changes \in 0 .. MaxChanges
    /\ {useShow, allDatabases} \subseteq BOOLEAN
    /\ database \in {Connected} \cup TypedNames
    /\ status \in {"none", "running", "done", "failed"}
    /\ term \in Terms \cup {<<>>}
    /\ kind \in Kinds
    /\ status = "running" <=> todo # <<>>
    /\ found \subseteq Universe
    /\ always \subseteq ever /\ ever \subseteq Universe

\* Opening every node shows each object where it is, and nothing else: neither
\* names with wildcards nor a broken SHOW path add, move or hide an object
\* (_get_schemas(), _get_relations(), _get_columns()).
TreeShowsTheServer == Tree = Shown

\* "Every catalog item whose label contains `term`", typed or in lower case
\* (search_catalog(), README "Catalog search").
Wanted(p) ==
    /\ term # <<>>
    /\ kind = "relations" => Len(p) = 3
    /\ kind = "columns" => Len(p) = 4
    /\ IF Len(p) = 1
       THEN OccursIn(Lower(term), Lower(p[1]))
       ELSE /\ p[1] = Connected
            /\ OccursIn(term, Last(p)) \/ OccursIn(Lower(term), Last(p))

\* A session that could not read the name of its database, and was given it in
\* another spelling, looks for databases only.
Findable(p) == Wanted(p) /\ (Len(p) = 1 \/ database = Connected)

\* Whatever other sessions do meanwhile, a search finds each wanted object that
\* was in the tree all the while, and none that was never there (search_catalog(),
\* "a match is the item the user would have reached by opening nodes"), unless the
\* session does not know how its database is spelt.
SearchIsHonest ==
    status = "done" =>
        /\ \A p \in always : Findable(p) => p \in found
        /\ \A p \in found : Wanted(p) /\ p \in ever
=============================================================================
