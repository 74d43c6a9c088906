-------------------------- MODULE MCCatalogSearch ---------------------------
\* CatalogSearch for TLC: a few objects whose names are wildcards, escapes and
\* letters of both cases, and terms that match them one way or the other.
EXTENDS CatalogSearch

D == <<"d">>
Objects == {
    <<D>>, << <<"A">> >>,
    << <<"A">>, <<"a">> >>,
    <<D, <<"_">> >>,
    <<D, <<"a">> >>,
    <<D, <<"a">>, <<"A", "!">> >>,
    <<D, <<"a">>, <<"A", "!">>, <<"_">> >>,
    <<D, <<"\\", "a">> >>,
    <<D, <<"\\", "a">>, <<"_", "a">> >>,
    <<D, <<"p">> >>,
    <<D, <<"p">>, <<"a">> >> }

Spelt == { <<"D">> }
System == { <<"p">> }
Wildcards == { <<>>, <<"A">>, <<"_">>, <<"!">> }

\* How the user spelt the database matters only to the catalog queries of a search,
\* which all_databases leaves alone: one kind of session has such a spelling.
MCInit == Init /\ (database = Connected \/ ~(allDatabases \/ useShow))

\* A search asks no SHOW command: users search once the switch for them is off.
MCNext == Next /\ (useShow' => status' = "none")
MCSpec == MCInit /\ [][MCNext]_vars
=============================================================================
