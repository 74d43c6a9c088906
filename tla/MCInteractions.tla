--------------------------- MODULE MCInteractions ---------------------------
\* Interactions for TLC: the connected database d has a schema s and one whose
\* name reads like a dotted one; another database has its own s.t.
EXTENDS Interactions

d == <<"d">>
e == <<"e">>
s == <<"s">>
t == <<"t">>
ConnectedName == d
Dot == <<"d", "\"", ".", "\"", "s">>     \* d"."s
Slash == <<"\\", "t">>                    \* \t
Routine == <<"f">>
Uniform == {{TRUE}, {FALSE}}

Objects == {<<d>>, <<d, s>>, <<d, s, t>>, <<d, s, Slash>>, <<d, Dot>>,
            <<d, Dot, t>>, <<d, Dot, Routine>>, <<e>>, <<e, s>>, <<e, s, t>>}
Routines == {<<d, Dot, Routine>>}
Coming == {<<d, Dot, t>>}
Types == [o \in {x \in Objects : Len(x) = 3} |->
            CASE o[3] = Slash -> "SHARED TABLE"
              [] o[2] = Dot   -> "EXTERNAL VIEW"
              [] OTHER        -> "TABLE"]
Spelt == {<<"D">>}    \* spelt as the server has it, it is the case of a pid

\* What a server answers about read-only transactions matters only to a session
\* that asks: the other sessions are explored with one answer.  A session that
\* sees the connected database only has the fewer items, and is explored as one
\* that may write.  Either starts with all objects: other sessions drop them.
MCInit ==
    /\ InitI
    /\ readOnly \/ (honoured /\ probe = {TRUE})
    /\ readOnly => allDatabases
    /\ readOnly \/ ~allDatabases => committed.objects = Universe

\* Bound: cancel() is called for the menu's statements only, though it may then
\* act on a later one; the session's runs call it for any.
MCNext == NextI /\ (canceler' # canceler /\ canceler' = "borrowing"
                        => menu.at = "running")
MCSpec == MCInit /\ [][MCNext]_all
=============================================================================
