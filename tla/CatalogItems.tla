---------------------------- MODULE CatalogItems ----------------------------
(***************************************************************************)
(* What catalog items are called (catalog.py, quoting.py), what the SQL    *)
(* says that their context menus write (interactions.py), and which        *)
(* objects the server takes that SQL to be about.  An item is the path of  *)
(* its object, a name is a sequence of characters, and so is SQL text,     *)
(* whose keywords are left out.                                            *)
(***************************************************************************)
EXTENDS Naturals, Sequences, SequencesExt

CONSTANTS
    Connected,      \* the database of the session, as the server spells it
    LargestTables   \* the limit of the storage summary: 100

Quote == "\""
Apostrophe == "'"
Escape == "\\"

-----------------------------------------------------------------------------
(* Quoting *)

\* Every character of `text` that is one of `chars` twice.
Doubled(text, chars) ==
    FlattenSeq([i \in DOMAIN text |->
        IF text[i] \in chars THEN <<text[i], text[i]>> ELSE <<text[i]>>])

\* Slip: a literal's backslashes are left alone.
QuoteApostrophes(value) ==
    <<Apostrophe>> \o Doubled(value, {Apostrophe}) \o <<Apostrophe>>

QuoteIdentifier(name) == <<Quote>> \o Doubled(name, {Quote}) \o <<Quote>>

QuoteLiteral(value) ==
    <<Apostrophe>> \o Doubled(value, {Escape, Apostrophe}) \o <<Apostrophe>>

\* The parts, quoted one by one, with dots in between.
Dotted(parts) ==
    Tail(FlattenSeq([i \in DOMAIN parts |-> <<".">> \o QuoteIdentifier(parts[i])]))

-----------------------------------------------------------------------------
(* The server's lexical rules *)

\* One character more of a dotted sequence of delimited identifiers: the names
\* so far, and the one that is being read.
NamesStep(s, c) ==
    CASE s.at = "between" /\ c = Quote -> [s EXCEPT !.at = "inside"]
      [] s.at = "inside" /\ c = Quote  -> [s EXCEPT !.at = "quote"]
      [] s.at = "inside" /\ c # Quote  -> [s EXCEPT !.name = Append(@, c)]
      [] s.at = "quote" /\ c = Quote   -> [s EXCEPT !.at = "inside", !.name = Append(@, c)]
      [] s.at = "quote" /\ c = "."     -> [at |-> "between", name |-> <<>>,
                                           names |-> Append(s.names, s.name)]
      [] OTHER                         -> [s EXCEPT !.at = "wrong"]

\* The names in such a sequence; <<>> if it is none.
ReadNames(text) ==
    LET after[i \in 0 .. Len(text)] ==
            IF i = 0 THEN [at |-> "between", name |-> <<>>, names |-> <<>>]
            ELSE NamesStep(after[i - 1], text[i])
        end == after[Len(text)]
    IN  IF end.at = "quote" THEN Append(end.names, end.name) ELSE <<>>

\* One character more of a string literal; a backslash escapes what follows it.
LiteralStep(s, c) ==
    CASE s.at = "before" /\ c = Apostrophe -> [s EXCEPT !.at = "inside"]
      [] s.at = "inside" /\ c = Escape     -> [s EXCEPT !.at = "escape"]
      [] s.at = "inside" /\ c = Apostrophe -> [s EXCEPT !.at = "quote"]
      [] s.at = "inside" /\ c \notin {Escape, Apostrophe} ->
            [s EXCEPT !.value = Append(@, c)]
      [] s.at = "escape" \/ (s.at = "quote" /\ c = Apostrophe) ->
            [at |-> "inside", value |-> Append(s.value, c)]
      [] OTHER                             -> [s EXCEPT !.at = "wrong"]

\* What a string literal stands for.  No name is Garbled, which stands for a
\* text that is no literal.
Garbled == <<"">>
ReadLiteral(text) ==
    LET after[i \in 0 .. Len(text)] ==
            IF i = 0 THEN [at |-> "before", value |-> <<>>]
            ELSE LiteralStep(after[i - 1], text[i])
        end == after[Len(text)]
    IN  IF end.at = "quote" THEN end.value ELSE Garbled

\* The object of this level that the text names in a session of the connected
\* database: a name one part short of it is the connected database's.
Resolve(text, level) ==
    LET names == ReadNames(text)
    IN  IF level > 1 /\ Len(names) = level - 1 THEN <<Connected>> \o names ELSE names

-----------------------------------------------------------------------------
(* Items.  `database` is connection.database, the adapter's idea of the name *)
(* of the connected database. *)

\* DatabaseCatalogItem.is_connected_database, of the item's database.
InConnected(item, database) == item[1] = database

QualifiedIdentifier(item) == Dotted(item)

\* Slip: relations of any database get two-part names.
QueryNameTwoPart(item, database) ==
    Dotted(IF Len(item) > 1 THEN Tail(item) ELSE item)

\* query_name: the database is named only where it has to be.
QueryName(item, database) ==
    Dotted(IF Len(item) > 1 /\ InConnected(item, database) THEN Tail(item) ELSE item)

\* _RELATION_CLASSES: the types that each class of items represents.
Spellings ==
    [table    |-> {"TABLE", "BASE TABLE", "PARTITIONED TABLE", "SYSTEM TABLE",
                   "LOCAL TEMPORARY", "TEMPORARY TABLE"},
     view     |-> {"VIEW", "TEMPORARY VIEW", "SYSTEM VIEW"},
     mview    |-> {"MATERIALIZED VIEW"},
     external |-> {"EXTERNAL TABLE", "FOREIGN TABLE"},
     extview  |-> {"EXTERNAL VIEW"},
     shared   |-> {"SHARED TABLE", "SHARED VIEW"}]

\* relation_class(): an unfamiliar type is shown as a table.
RelationClass(type) ==
    IF \E c \in DOMAIN Spellings : type \in Spellings[c]
    THEN CHOOSE c \in DOMAIN Spellings : type \in Spellings[c]
    ELSE "table"

\* The menus (INTERACTIONS): "drop", "show" and "use" run a statement, the
\* others write a query into the editor.
DatabaseMenu == {"schemas", "objects", "storage", "drop"}
SchemaMenu == {"use", "objects", "storage", "drop"}
RelationMenu == {"preview", "describe"}

Offered(class) ==
    CASE class = "database" -> DatabaseMenu
      [] class = "schema"   -> SchemaMenu
      [] class = "table"    -> RelationMenu \cup {"show", "design", "info",
                                                  "constraints", "drop"}
      [] class = "view"     -> RelationMenu \cup {"show", "drop"}
      [] class = "mview"    -> RelationMenu \cup {"show", "mvinfo", "drop"}
      [] class = "external" -> RelationMenu \cup {"show", "location", "drop"}
      [] OTHER              -> RelationMenu

-----------------------------------------------------------------------------
(* The server's views of its catalog *)

\* The spanning ones have rows about the objects of all databases, the others
\* about those of the connected one.  The complete ones miss no object that the
\* tree lists; of the others, svv_table_info has no empty table, pg_constraint
\* only the tables with a constraint, and so on.
SpanningViews == {"svv_all_columns", "svv_redshift_columns", "svv_all_tables",
                  "svv_all_schemas"}
CompleteViews == {"svv_all_columns", "svv_all_tables", "svv_all_schemas"}

\* A query asks a view about objects of one level, with these names where they
\* are not AnyName, and for all of them or for the LargestTables largest.
AnyName == <<>>
Query(source, level, names) ==
    [source |-> source, level |-> level, names |-> names, largest |-> FALSE]

\* The objects of that level that its view may have rows about.
Covers(query, objects) ==
    LET known == {o \in objects :
                    /\ Len(o) = query.level
                    /\ query.source \in SpanningViews \/ o[1] = Connected}
    IN  IF query.source \in CompleteViews THEN {known} ELSE SUBSET known

Meant(query, covered) ==
    {o \in covered : \A k \in DOMAIN o : query.names[k] \in {AnyName, o[k]}}

\* The objects it returns rows about, of those that its view covers.
Results(query, covered) ==
    LET meant == Meant(query, covered)
    IN  IF query.largest /\ Cardinality(meant) > LargestTables
        THEN kSubset(LargestTables, meant)
        ELSE {meant}

-----------------------------------------------------------------------------
(* The queries written into the editor: the show_*() functions *)

Named(name) == ReadLiteral(QuoteLiteral(name))

\* The filter by the parts `ks` of the item's path.
By(item, ks) ==
    [k \in 1 .. 3 |-> IF k \in ks \cap DOMAIN item THEN Named(item[k]) ELSE AnyName]

ShowDescribeRelation(item) == Query("svv_all_columns", 3, By(item, 1 .. 3))
ShowDescribeTableDesign(item) == Query("svv_redshift_columns", 3, By(item, 1 .. 3))
ShowTableInfo(item) == Query("svv_table_info", 3, By(item, 2 .. 3))
ShowDescribeTableConstraints(item) == Query("pg_constraint", 3, By(item, 2 .. 3))
ShowExternalTableDefinition(item) == Query("svv_external_tables", 3, By(item, 2 .. 3))
ShowMaterializedViewInfo(item) == Query("svv_mv_info", 3, By(item, 2 .. 3))
ShowListObjects(item) == Query("svv_all_tables", 3, By(item, 1 .. 2))
ShowListSchemas(item) == Query("svv_all_schemas", 2, By(item, {1}))
ShowStorageSummary(item) ==
    [Query("svv_table_info", 3, By(item, {2})) EXCEPT !.largest = TRUE]

\* The query that a menu entry writes; "preview" reads the relation itself.
Reporting == {"describe", "design", "info", "constraints", "location", "mvinfo",
              "objects", "schemas", "storage"}
Report(item, entry) ==
    CASE entry = "describe"    -> ShowDescribeRelation(item)
      [] entry = "design"      -> ShowDescribeTableDesign(item)
      [] entry = "info"        -> ShowTableInfo(item)
      [] entry = "constraints" -> ShowDescribeTableConstraints(item)
      [] entry = "location"    -> ShowExternalTableDefinition(item)
      [] entry = "mvinfo"      -> ShowMaterializedViewInfo(item)
      [] entry = "objects"     -> ShowListObjects(item)
      [] entry = "schemas"     -> ShowListSchemas(item)
      [] entry = "storage"     -> ShowStorageSummary(item)
=============================================================================
