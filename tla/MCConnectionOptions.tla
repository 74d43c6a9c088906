------------------------- MODULE MCConnectionOptions -------------------------
\* ConnectionOptions for TLC: one or two keys of every kind, in every layer.
EXTENDS ConnectionOptions, TLC

Lowercase == "HOST" :> "host" @@ "H" :> "h" @@ "OFF" :> "off" @@ " yes" :> "yes"
             @@ "Postgres" :> "postgres"
Decoded == "a%2Fb" :> "a/b" @@ "p%2Cq" :> "p,q"
Numerals == "0" :> "0" @@ "07" :> "7" @@ "7" :> "7" @@ "5" :> "5" @@ "99999" :> "99999"
PortTexts == {"0", "07", "5"}
Lists == "p, q" :> "p,q" @@ "," :> ""
Url == "https://idp"

\* Keywords of every type and spelling, good values, bad values and blanks.
Pairs ==
    {<<"host", "h">>, <<"HOST", "">>, <<"port", "07">>, <<"port", "x">>,
     <<"dbname", "a">>, <<"database", "b">>, <<"options", "z">>, <<"ssl", "OFF">>,
     <<"iam", "maybe">>, <<"db_groups", "p, q">>, <<"connect_timeout", "0">>,
     <<"login_url", Url>>, <<"all_databases", "off">>, <<"shiny", "1">>,
     <<"serverless", " yes">>, <<Owned, "1">>}

\* Those that any other pair may precede, or that come in a query.
Latter ==
    {<<"HOST", "">>, <<"port", "07">>, <<"port", "x">>, <<"dbname", "a">>,
     <<"database", "b">>, <<"options", "z">>, <<"login_url", Url>>, <<Owned, "1">>}

Strings(form, pairs) == [form |-> form, pairs |-> pairs]
Keywords == {Strings("pairs", <<p>>) : p \in Pairs}
            \cup {Strings("pairs", <<p, q>>) : p \in Pairs, q \in Latter}
Urls ==
    {[form |-> "url", scheme |-> scheme, pairs |-> pairs,
      parts |-> [host |-> host, port |-> port, database |-> database]] :
        scheme \in {"Postgres"},
        pairs \in {<<>>} \cup {<<p>> : p \in Latter} \cup {<<<<"db_groups", "p%2Cq">>>>},
        host \in {"", "H"}, port \in {"", "07", "99999"}, database \in {"", "a%2Fb"}}
Unknown == {[u EXCEPT !.scheme = "mysql"] : u \in {x \in Urls : x.pairs = <<>>}}
Malformations ==
    {[form |-> "malformed", scheme |-> scheme] : scheme \in {"Postgres", "mysql"}}
Single == Keywords \cup Urls \cup Unknown \cup Malformations
          \cup {[form |-> "empty"], [form |-> "words"]}
InputLists ==
    {<<>>} \cup {<<s>> : s \in Single}
    \cup {<<s, s>> : s \in {Strings("pairs", <<<<"host", "h">>>>), [form |-> "words"]}
                             \cup Malformations}

\* What Harlequin passes of these options: at most two of them.
Given ==
    {<<"port", Text("5")>>, <<"port", Text("x")>>, <<"database", Text("g")>>,
     <<"database", Unset>>, <<"ssl", Bool(TRUE)>>, <<"iam", Text("OFF")>>,
     <<"db_groups", Value("list", "r")>>, <<"all_databases", Bool(TRUE)>>,
     <<"all_databases", Bool(FALSE)>>, <<"all_databases", Text("off")>>,
     <<"bogus", Text("b")>>}
Options ==
    {<<>>} \cup {(g[1] :> g[2]) @@ (h[1] :> h[2]) : g, h \in Given}
=============================================================================
