-------------------------- MODULE ConnectionOptions --------------------------
(***************************************************************************)
(* How the adapter (adapter.py) turns connection strings (conn_str.py) and *)
(* the options that Harlequin passes it (cli_options.py) into the keywords *)
(* of the driver's connect() and into the id under which Harlequin caches  *)
(* the catalog.  A dictionary is a function of its keys, and a value       *)
(* carries its Python type.  A dictionary with a Bad value stands for an   *)
(* exception.                                                              *)
(***************************************************************************)
EXTENDS Naturals, Sequences, SequencesExt, Functions

CONSTANTS
    Inputs,     \* the lists of connection strings the user may give
    OptionSets, \* the options that Harlequin may pass, unknown ones included
    \* What Python makes of the texts it changes: strip() and lower(), percent
    \* decoding, the numbers int() reads, those that are ports, and lists
    Lower, Percent, Numeral, Ports, Listed,
    Links       \* the texts that contain "://"

VARIABLES
    stage,      \* "new", "made", "connected", "refused" or "raised"
    conn_str,   \* the adapter's connection strings
    options,    \* the options it keeps
    passed,     \* the options it was passed
    id,         \* the last connection_id: host, port and database
    kwargs,     \* connection.connect_kwargs
    spans,      \* connection.all_databases
    patience    \* how long the pool waits for a free connection

vars == <<stage, conn_str, options, passed, id, kwargs, spans, patience>>

-----------------------------------------------------------------------------
(* Values *)

Value(type, of) == [type |-> type, of |-> of]
Text(of) == Value("text", of)
Number(of) == Value("int", of)
Bool(b) == Value("bool", IF b THEN "True" ELSE "False")
Unset == Value("unset", "")     \* None, () or []
Bad == Value("bad", "")

\* What Python makes of a text, unless it leaves the text alone.
Via(table, text) == IF text \in DOMAIN table THEN table[text] ELSE text

\* dict.update(); the defaults are what is updated by the rest.
Updated(dict, more) ==
    [k \in DOMAIN dict \cup DOMAIN more |->
        IF k \in DOMAIN more THEN more[k] ELSE dict[k]]
Put(dict, key, value) == Updated(dict, [k \in {key} |-> value])

\* bool(value)
Truthy(value) == value \notin {Text(""), Number("0"), Bool(FALSE), Value("list", "")}

-----------------------------------------------------------------------------
(* Connection strings: nothing, words that make no string, key=value pairs,  *)
(* a URL with a query, or one that urlsplit() does not take, as "[::1" is no  *)
(* host. *)

Schemes == {"redshift", "redshift+redshift_connector", "postgres", "postgresql"}

\* Other spellings of a driver keyword; one of them drops the key.
Dropped == "(dropped)"
Aliases ==
    [dbname |-> "database", username |-> "user", connect_timeout |-> "timeout",
     passwd |-> "password", pwd |-> "password", sslrootcert |-> "sslmode",
     options |-> Dropped, serverless |-> "is_serverless",
     workgroup |-> "serverless_work_group", clusterid |-> "cluster_identifier",
     aws_profile |-> "profile", aws_region |-> "region"]
Keyword(raw) == Via(Aliases, Via(Lower, raw))

IntKeys ==
    {"port", "timeout", "max_prepared_statements", "client_protocol_version",
     "idp_response_timeout", "listen_port", "tcp_keepalive_idle",
     "tcp_keepalive_interval", "tcp_keepalive_count"}
BoolKeys ==
    {"ssl", "ssl_insecure", "iam", "auto_create", "allow_db_user_override",
     "force_lowercase", "database_metadata_current_db_only", "enable_table_types",
     "numeric_to_float", "is_serverless", "group_federation", "iam_disable_cache",
     "tcp_keepalive"}
ListKeys == {"db_groups"}
Truths == {"1", "true", "t", "yes", "y", "on"}
Falsehoods == {"0", "false", "f", "no", "n", "off"}

\* _coerce(): texts become what the driver expects of the key.
Coerce(key, value) ==
    LET word == Via(Lower, value.of)
    IN  CASE value.type = "text" /\ key \in IntKeys ->
                IF value.of \in DOMAIN Numeral THEN Number(Numeral[value.of]) ELSE Bad
          [] value.type = "text" /\ key \in BoolKeys ->
                IF word \in Truths \cup Falsehoods THEN Bool(word \in Truths) ELSE Bad
          [] value.type = "text" /\ key \in ListKeys ->
                Value("list", Via(Listed, value.of))
          [] OTHER -> value

Broken(dict) == \E k \in DOMAIN dict : dict[k] = Bad
Unreadable == [ConnStrError |-> Bad]
Malformed == [ValueError |-> Bad]    \* raised by urlsplit(), expected by nobody

\* Slip: types are chosen by the key as the user spells it.
AddAsSpelt(dict, p) ==
    IF Broken(dict) \/ Keyword(p[1]) = Dropped THEN dict
    ELSE Put(dict, Keyword(p[1]), Coerce(Via(Lower, p[1]), Text(p[2])))

\* A later pair replaces an earlier one, a bad one ends it all.
Add(dict, p) ==
    IF Broken(dict) \/ Keyword(p[1]) = Dropped THEN dict
    ELSE Put(dict, Keyword(p[1]), Coerce(Keyword(p[1]), Text(p[2])))

\* _normalize(): dict[i] is what the first i pairs make.
Normalize(pairs) ==
    LET dict[i \in 0 .. Len(pairs)] ==
            IF i = 0 THEN <<>> ELSE Add(dict[i - 1], pairs[i])
        end == dict[Len(pairs)]
    IN  IF Broken(end) THEN Unreadable ELSE end

\* The components that the URL has, decoded.
Components(url) ==
    [part \in {p \in DOMAIN url.parts : url.parts[p] # ""} |->
        LET text == url.parts[part]
        IN  CASE part = "host" -> Text(Via(Percent, Via(Lower, text)))
              [] part = "port" -> IF text \in Ports THEN Number(Numeral[text]) ELSE Bad
              [] OTHER         -> Text(Via(Percent, text))]

\* parse_qsl(): the pairs of the query, without the blank ones.
Queried(url) ==
    FlattenSeq([i \in DOMAIN url.pairs |->
        IF url.pairs[i][2] = "" THEN <<>>
        ELSE << <<url.pairs[i][1], Via(Percent, url.pairs[i][2])>> >>])

\* Slip: the query outranks the components.
ParseUrlQueryFirst(url) ==
    LET dict == Updated(Components(url), Normalize(Queried(url)))
    IN  IF url.form = "malformed" THEN Malformed
        ELSE IF Broken(dict) THEN Unreadable ELSE dict

\* _parse_url()
ParseUrl(url) ==
    LET query == Normalize(Queried(url))
        dict == Updated(query, Components(url))
    IN  IF url.form = "malformed" THEN Malformed
        ELSE IF Broken(query) \/ Broken(dict) THEN Unreadable ELSE dict

\* conn_str_to_dict(): whatever has a "://" in it is taken for a URL.
ConnStrToDict(string) ==
    CASE string.form = "empty" -> <<>>
      [] string.form = "words" -> Unreadable
      [] string.form \in {"url", "malformed"} ->
            IF Via(Lower, string.scheme) \in Schemes THEN ParseUrl(string) ELSE Unreadable
      [] string.form = "pairs" ->
            IF \E i \in DOMAIN string.pairs : string.pairs[i][2] \in Links
            THEN Unreadable
            ELSE Normalize(string.pairs)

-----------------------------------------------------------------------------
(* Options *)

\* What cli_options.py declares, section by section: a TextOption or SelectOption
\* is a text, or a number if it has _int_validator.
Declare(class, names) == {[name |-> n, class |-> class] : n \in names}

BasicOptions ==
    Declare("text", {"host", "database", "user", "password"})
    \cup Declare("number", {"port"})
DriverOptions ==
    Declare("text", {"application_name", "client_protocol_version"})
    \cup Declare("number", {"timeout", "max_prepared_statements"})
    \cup Declare("flag", {"numeric_to_float", "tcp_keepalive"})
SslOptions == Declare("text", {"sslmode"}) \cup Declare("flag", {"ssl", "ssl_insecure"})
CatalogOptions == Declare("flag", {"all_databases", "enable_table_types"})
IamOptions ==
    Declare("text", {"profile", "region", "cluster_identifier", "access_key_id",
                     "secret_access_key", "session_token", "db_user"})
    \cup Declare("flag", {"iam", "auto_create"})
    \cup Declare("list", {"db_groups"})
ServerlessOptions ==
    Declare("text", {"serverless_acct_id", "serverless_work_group"})
    \cup Declare("flag", {"is_serverless"})
FederatedOptions ==
    Declare("text", {"credentials_provider", "idp_host", "login_url", "preferred_role",
                     "role_arn", "web_identity_token", "auth_profile", "endpoint_url"})
    \cup Declare("flag", {"group_federation"})

REDSHIFT_OPTIONS ==
    BasicOptions \cup DriverOptions \cup SslOptions \cup CatalogOptions
        \cup IamOptions \cup ServerlessOptions \cup FederatedOptions

Declared == {o.name : o \in REDSHIFT_OPTIONS}

OfClass(section, class) == {o.name : o \in {p \in section : p.class = class}}
Flags == OfClass(REDSHIFT_OPTIONS, "flag")
Numbers == OfClass(REDSHIFT_OPTIONS, "number")
ManyValued == OfClass(REDSHIFT_OPTIONS, "list")

\* Slip: an option that is not set counts.
ChosenOrNot(opts) == [k \in DOMAIN opts |-> Coerce(k, opts[k])]

\* The options that are set, typed.
Chosen(opts) ==
    [k \in {o \in DOMAIN opts : opts[o] # Unset} |-> Coerce(k, opts[k])]

\* conn_str[0] if conn_str else ""
First(strings) == IF strings = <<>> THEN [form |-> "empty"] ELSE strings[1]

\* Slip: the connection string outranks the options.
BuildStringFirst(strings, opts) ==
    LET dict == ConnStrToDict(First(strings))
        chosen == Chosen(opts)
    IN  IF Broken(dict) THEN dict
        ELSE IF Broken(chosen) THEN Unreadable ELSE Updated(chosen, dict)

\* build_connect_kwargs()
BuildConnectKwargs(strings, opts) ==
    LET dict == ConnStrToDict(First(strings))
        chosen == Chosen(opts)
    IN  IF Broken(dict) THEN dict
        ELSE IF Broken(chosen) THEN Unreadable ELSE Updated(dict, chosen)

-----------------------------------------------------------------------------
(* What the model is given *)

\* The components that a URL may have, and what else a user can write.
Parts == {"host", "port", "user", "password", "database"}
PairLists == Seq(STRING \X STRING)
IsConnectionString(s) ==
    \/ s.form \in {"empty", "words", "malformed"}
    \/ s.form = "pairs" /\ s.pairs \in PairLists
    \/ s.form = "url" /\ s.pairs \in PairLists /\ DOMAIN s.parts \subseteq Parts

\* Harlequin passes an option as a value of its class, or as a text.
OptionTypes(k) ==
    IF k \in Flags THEN {"text", "bool"}
    ELSE IF k \in Numbers THEN {"text", "int"}
    ELSE IF k \in ManyValued THEN {"text", "list"}
    ELSE {"text", "int", "bool", "list"}

\* int() reads what it writes, and lower() leaves the names of components alone.
ASSUME ConnectionOptionsAssumption ==
    /\ Ports \subseteq DOMAIN Numeral
    /\ \A text \in DOMAIN Numeral :
          Numeral[text] \in DOMAIN Numeral /\ Numeral[Numeral[text]] = Numeral[text]
    /\ \A part \in Parts : Via(Lower, part) = part
    /\ \A strings \in Inputs : /\ strings \in Seq(Range(strings))
                               /\ \A i \in DOMAIN strings : IsConnectionString(strings[i])
    /\ \A opts \in OptionSets : \A k \in DOMAIN opts :
          opts[k] = Unset \/ opts[k] \in [type : OptionTypes(k), of : STRING]

-----------------------------------------------------------------------------
(* The adapter and its connection *)

Endpoint ==
    [host |-> Text("localhost"), port |-> Number("5439"), database |-> Text("dev")]
Defaults ==
    Updated(Endpoint, [timeout |-> Number("30"), application_name |-> Text("harlequin")])
Owned == "database_metadata_current_db_only"  \* the keyword the adapter decides
Asked == "all_databases"                       \* the option it decides it by

Unasked == <<"unasked">>

Raised == <<"raised">>

\* Slip: the options are forgotten.
IdentifyByString(strings, opts) ==
    LET built == ConnStrToDict(First(strings))
        dict == Updated(Endpoint, built)
    IN  IF built = Malformed THEN Raised
        ELSE IF Broken(built) THEN <<>>
        ELSE <<dict.host.of, dict.port.of, dict.database.of>>

\* connection_id's host, port and database; None is <<>>, and a ValueError of
\* another kind than ConnStrError is Raised.
Identify(strings, opts) ==
    LET built == BuildConnectKwargs(strings, opts)
        dict == Updated(Endpoint, built)
    IN  IF built = Malformed THEN Raised
        ELSE IF Broken(built) THEN <<>>
        ELSE <<dict.host.of, dict.port.of, dict.database.of>>

InitO ==
    /\ stage = "new"
    /\ conn_str = <<>> /\ options = <<>> /\ passed = <<>>
    /\ id = Unasked
    /\ kwargs = <<>> /\ spans = FALSE /\ patience = Number("30")

\* Slip: the adapter keeps whatever it is passed.
ConstructWithAll(strings, opts) ==
    /\ stage = "new" /\ stage' = "made"
    /\ conn_str' = strings /\ passed' = opts /\ options' = opts
    /\ UNCHANGED <<id, kwargs, spans, patience>>

\* HarlequinRedshiftAdapter(): of the options, the declared ones are kept.
Construct(strings, opts) ==
    /\ stage = "new"
    /\ stage' = "made"
    /\ conn_str' = strings
    /\ passed' = opts
    /\ options' = Restrict(opts, DOMAIN opts \cap Declared)
    /\ UNCHANGED <<id, kwargs, spans, patience>>

\* connection_id, which Harlequin may read before or after it connects.
ConnectionId ==
    /\ stage # "new"
    /\ id' = Identify(conn_str, options)
    /\ UNCHANGED <<stage, conn_str, options, passed, kwargs, spans, patience>>

\* connect(), as far as the pool: it takes one string at most, and the string
\* and the options have to be readable.
Connect ==
    LET full == Updated(Defaults, BuildConnectKwargs(conn_str, options))
        all == Asked \in DOMAIN full /\ Truthy(full[Asked])
    IN  /\ stage = "made"
        /\ Len(conn_str) <= 1
        /\ ~Broken(full)
        /\ stage' = "connected"
        /\ spans' = all
        /\ kwargs' = Put(Restrict(full, DOMAIN full \ {Asked}), Owned, Bool(~all))
        /\ patience' = IF Truthy(full.timeout) THEN full.timeout ELSE Defaults.timeout
        /\ UNCHANGED <<conn_str, options, passed, id>>

\* Otherwise it raises the error that Harlequin expects of it ...
Refuse ==
    /\ stage = "made"
    /\ Len(conn_str) > 1 \/ BuildConnectKwargs(conn_str, options) = Unreadable
    /\ stage' = "refused"
    /\ UNCHANGED <<conn_str, options, passed, id, kwargs, spans, patience>>

\* ... or urlsplit()'s.
ConnectRaises ==
    /\ stage = "made"
    /\ Len(conn_str) <= 1 /\ BuildConnectKwargs(conn_str, options) = Malformed
    /\ stage' = "raised"
    /\ UNCHANGED <<conn_str, options, passed, id, kwargs, spans, patience>>

NextO ==
    \/ \E strings \in Inputs, opts \in OptionSets : Construct(strings, opts)
    \/ ConnectionId
    \/ Connect
    \/ Refuse
    \/ ConnectRaises

SpecO == InitO /\ [][NextO]_vars

-----------------------------------------------------------------------------
(* Properties *)

\* The keywords are values the driver can be given: nothing unset or unreadable
\* is among them, and there are always an endpoint, a timeout and a name.
TypeOKO ==
    /\ stage \in {"new", "made", "connected", "refused", "raised"}
    /\ conn_str \in Inputs \cup {<<>>}
    /\ passed \in OptionSets \cup {<<>>}
    /\ DOMAIN options \subseteq DOMAIN passed
    /\ id \in {Unasked, Raised} \/ Len(id) \in {0, 3}
    /\ spans \in BOOLEAN
    /\ patience.type = "int" /\ patience # Number("0")
    /\ \A k \in DOMAIN kwargs : kwargs[k].type \in {"text", "int", "bool", "list"}
    /\ stage = "connected" => DOMAIN Defaults \cup {Owned} \subseteq DOMAIN kwargs

\* The pairs and the components of a connection string.
PairsOf(string) ==
    IF string.form = "url" THEN Queried(string)
    ELSE IF string.form = "pairs" THEN string.pairs ELSE <<>>
PartsOf(string) == IF string.form = "url" THEN Components(string) ELSE <<>>

\* Every setting of a keyword in any of the layers, under the driver's name for
\* it: the options, the components of a URL, the pairs in their order, and the
\* adapter's defaults.
Settings ==
    LET pairs == PairsOf(First(conn_str))
        parts == PartsOf(First(conn_str))
    IN  {[key |-> k, rank |-> Len(pairs) + 2, value |-> options[k]] :
            k \in {o \in DOMAIN options : options[o] # Unset}}
        \cup {[key |-> k, rank |-> Len(pairs) + 1, value |-> parts[k]] : k \in DOMAIN parts}
        \cup {[key |-> Keyword(pairs[i][1]), rank |-> i, value |-> Text(pairs[i][2])] :
                i \in DOMAIN pairs}
        \cup {[key |-> k, rank |-> 0, value |-> Defaults[k]] : k \in DOMAIN Defaults}

Outranked(set) ==
    \E higher \in Settings : higher.key = set.key /\ higher.rank > set.rank

\* The driver gets, of each keyword, what the highest layer says that sets it,
\* however that layer spells the keyword, and gets every keyword that is set, but
\* for the one that the adapter decides itself.  That one goes by the highest
\* layer that says something of all_databases, where any text that is not empty
\* counts as yes, "off" too, and without such a layer the session sees its own database.
HighestLayerWins ==
    stage = "connected" =>
        /\ \A set \in Settings :
              \/ set.key \in {Dropped, Owned}
              \/ Outranked(set)
              \/ set.key = Asked /\ spans = Truthy(set.value)
              \/ /\ set.key \in DOMAIN kwargs
                 /\ kwargs[set.key] = Coerce(set.key, set.value)
        /\ spans => \E set \in Settings : set.key = Asked

\* What cli_options.py declares a flag, a number or a list reaches the driver as
\* one, from whichever layer it comes: what conn_str.py types are the keys that
\* cli_options.py declares so.  The exception is all_databases, a flag that no
\* table of conn_str.py names; it does not reach the driver, and HighestLayerWins
\* says how it is read.
TypedForTheDriver ==
    \A k \in DOMAIN kwargs :
        /\ k \in Flags => kwargs[k].type = "bool"
        /\ k \in Numbers => kwargs[k].type = "int"
        /\ k \in ManyValued => kwargs[k].type = "list"

\* An id that is read before or after connecting names the endpoint that the
\* connection is opened to; there is none when the one connection string or an
\* option is refused as unreadable.  It is not there to be read at all just when
\* connect() raises what it should not, which only a malformed URL makes it do.
\* (Two clusters that are reached through IAM may still have one endpoint, as far
\* as the adapter knows, and share an id.)
IdNamesTheEndpoint ==
    id # Unasked =>
        /\ stage = "connected" =>
              id = <<kwargs.host.of, kwargs.port.of, kwargs.database.of>>
        /\ stage = "refused" /\ Len(conn_str) <= 1 => id = <<>>
        /\ stage = "raised" => id = Raised
        /\ id = Raised => First(conn_str).form = "malformed"

\* An option that the adapter does not declare never reaches the driver, and
\* neither does its own all_databases: every other keyword is a default, a
\* declared option or a key of the connection string.
UnknownStaysOut ==
    stage = "connected" =>
        DOMAIN kwargs \subseteq
            (Declared \ {Asked}) \cup DOMAIN Defaults \cup {Owned}
                \cup DOMAIN ConnStrToDict(First(conn_str))

\* A URL says what the keyword string says that has the pairs of its query and
\* then its components.  They part where the URL's port is out of range or a
\* value looks like a URL itself.
SpelledEitherWay ==
    \A i \in DOMAIN conn_str :
        LET url == conn_str[i]
            parts == SetToSeq(DOMAIN Components(url))
            pairs == Queried(url)
                     \o [j \in DOMAIN parts |-> <<parts[j], Components(url)[parts[j]].of>>]
        IN  \/ url.form # "url" \/ Via(Lower, url.scheme) \notin Schemes
            \/ Broken(Components(url)) \/ \E j \in DOMAIN pairs : pairs[j][2] \in Links
            \/ ConnStrToDict(url) = ConnStrToDict([form |-> "pairs", pairs |-> pairs])
=============================================================================
