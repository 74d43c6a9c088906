----------------------- MODULE ConnectionOptionsProofs -----------------------
(***************************************************************************)
(* Proofs about ConnectionOptions, for every connection string and every   *)
(* set of options.  Most of the work is to say what a string says: pair by *)
(* pair for _normalize() (IsReadable), component by component for a URL    *)
(* (IsUnderstood).  The invariant then says what connect() makes of it.    *)
(***************************************************************************)
EXTENDS ConnectionOptions, SequenceLayout, FiniteSetTheorems, TLAPS

\* A dictionary that is updated has the keys of both, and the new values first.
LEMMA Updates ==
    ASSUME NEW f, NEW g
    PROVE  /\ DOMAIN Updated(f, g) = DOMAIN f \cup DOMAIN g
           /\ \A k \in DOMAIN g : Updated(f, g)[k] = g[k]
           /\ \A k \in DOMAIN f \ DOMAIN g : Updated(f, g)[k] = f[k]
    BY DEF Updated

\* One key more, or another value for it.
LEMMA Puts ==
    ASSUME NEW f, NEW key, NEW v
    PROVE  /\ DOMAIN Put(f, key, v) = DOMAIN f \cup {key}
           /\ \A k \in DOMAIN f \ {key} : Put(f, key, v)[k] = f[k]
<1> DEFINE one == [k \in {key} |-> v]
<1>1. DOMAIN one = {key}
    OBVIOUS
<1> HIDE DEF one
<1>2. /\ DOMAIN Updated(f, one) = DOMAIN f \cup {key}
      /\ \A k \in DOMAIN f \ {key} : Updated(f, one)[k] = f[k]
    BY <1>1, Updates
<1> QED
    BY <1>2 DEF Put, one

\* A dictionary that is restricted keeps the values of the keys it keeps.
LEMMA Restrictions ==
    ASSUME NEW f, NEW S
    PROVE  /\ DOMAIN Restrict(f, S) = S
           /\ \A k \in S : Restrict(f, S)[k] = f[k]
    BY DEF Restrict

\* The keys that defaults are for.
LEMMA DefaultKeys ==
    /\ DOMAIN Endpoint = {"host", "port", "database"}
    /\ DOMAIN Defaults = {"host", "port", "database", "timeout", "application_name"}
    /\ \A k \in DOMAIN Endpoint : Defaults[k] = Endpoint[k]
    /\ \A k \in DOMAIN Defaults : Defaults[k] # Bad
<1>1. DOMAIN Endpoint = {"host", "port", "database"}
    BY DEF Endpoint
<1> DEFINE rest == [timeout |-> Number("30"), application_name |-> Text("harlequin")]
<1>2. DOMAIN rest = {"timeout", "application_name"}
    OBVIOUS
<1>3. Defaults = Updated(Endpoint, rest)
    BY DEF Defaults
<1>4. /\ DOMAIN Defaults = DOMAIN Endpoint \cup DOMAIN rest
      /\ \A k \in DOMAIN rest : Defaults[k] = rest[k]
      /\ \A k \in DOMAIN Endpoint \ DOMAIN rest : Defaults[k] = Endpoint[k]
    <2> HIDE DEF rest
    <2> QED
        BY <1>3, Updates
<1>5. \A of : Text(of) # Bad /\ Number(of) # Bad
    <2> SUFFICES ASSUME NEW of
                 PROVE  Text(of) # Bad /\ Number(of) # Bad
        OBVIOUS
    <2>1. Text(of).type = "text" /\ Number(of).type = "int" /\ Bad.type = "bad"
        BY DEF Text, Number, Bad, Value
    <2> QED
        BY <2>1
<1>6. /\ Endpoint["host"] = Text("localhost")
      /\ Endpoint["port"] = Number("5439")
      /\ Endpoint["database"] = Text("dev")
    BY DEF Endpoint
<1>7. rest["timeout"] = Number("30") /\ rest["application_name"] = Text("harlequin")
    OBVIOUS
<1> HIDE DEF rest
<1> QED
    BY <1>1, <1>2, <1>4, <1>5, <1>6, <1>7

\* Defaults do not make a dictionary readable or unreadable.
LEMMA DefaultsAreReadable ==
    ASSUME NEW dict, ~Broken(dict)
    PROVE  ~Broken(Updated(Endpoint, dict)) /\ ~Broken(Updated(Defaults, dict))
<1>1. \A k \in DOMAIN Endpoint : Endpoint[k] # Bad
    BY DefaultKeys
<1>2. \A k \in DOMAIN Defaults : Defaults[k] # Bad
    BY DefaultKeys
<1>3. ASSUME NEW f, \A k \in DOMAIN f : f[k] # Bad
      PROVE  ~Broken(Updated(f, dict))
    BY <1>3 DEF Broken, Updated
<1> QED
    BY <1>1, <1>2, <1>3

\* Two dictionaries that are no exceptions make one that is none.
LEMMA BothReadable ==
    ASSUME NEW f, NEW g, ~Broken(f), ~Broken(g)
    PROVE  ~Broken(Updated(f, g))
    BY DEF Broken, Updated

\* What exceptions are.
LEMMA Exceptions ==
    /\ Broken(Unreadable) /\ Broken(Malformed) /\ Unreadable # Malformed
<1>1. /\ DOMAIN Unreadable = {"ConnStrError"} /\ Unreadable["ConnStrError"] = Bad
      /\ DOMAIN Malformed = {"ValueError"} /\ Malformed["ValueError"] = Bad
    BY DEF Unreadable, Malformed
<1>2. "ConnStrError" # "ValueError"
    OBVIOUS
<1> QED
    BY <1>1, <1>2 DEF Broken

\* No default mends a dictionary that cannot be read.
LEMMA BrokenStays ==
    ASSUME NEW dict, Broken(dict), NEW f
    PROVE  Broken(Updated(f, dict))
    BY DEF Broken, Updated

\* Endpoint and Defaults complete a dictionary alike where an id looks.
LEMMA SameEndpoint ==
    ASSUME NEW dict, NEW k \in DOMAIN Endpoint
    PROVE  Updated(Defaults, dict)[k] = Updated(Endpoint, dict)[k]
<1>1. k \in DOMAIN Defaults /\ Defaults[k] = Endpoint[k]
    BY DefaultKeys
<1> QED
    BY <1>1 DEF Updated

-----------------------------------------------------------------------------
(* What _normalize() makes of the pairs *)

\* What a pair says.
Said(p) == Coerce(Keyword(p[1]), Text(p[2]))

\* Nothing is said of a keyword but by a pair that names it, and the last one
\* that does has the say; a bad value is never among them.
IsReadable(dict, pairs, n) ==
    /\ dict = [k \in DOMAIN dict |-> dict[k]]
    /\ DOMAIN dict = {Keyword(pairs[i][1]) : i \in 1 .. n} \ {Dropped}
    /\ \A k \in DOMAIN dict : \E i \in 1 .. n :
          /\ Keyword(pairs[i][1]) = k /\ dict[k] = Said(pairs[i])
          /\ \A j \in 1 .. n : Keyword(pairs[j][1]) = k => j <= i
    /\ \A i \in 1 .. n : Keyword(pairs[i][1]) = Dropped \/ Said(pairs[i]) # Bad

HasBad(pairs, n) == \E i \in 1 .. n : Keyword(pairs[i][1]) # Dropped /\ Said(pairs[i]) = Bad

IsNormal(dict, pairs, n) ==
    /\ Broken(dict) => HasBad(pairs, n)
    /\ ~Broken(dict) => IsReadable(dict, pairs, n)

\* One pair more.
LEMMA Adds ==
    ASSUME NEW pairs, NEW n \in Nat, NEW dict, IsNormal(dict, pairs, n)
    PROVE  IsNormal(Add(dict, pairs[n + 1]), pairs, n + 1)
<1>1. PICK m, p : m = n + 1 /\ p = pairs[m]
    OBVIOUS
<1>2. /\ m \in Nat /\ m \in 1 .. m /\ 1 .. m = 1 .. n \cup {m}
      /\ \A i \in 1 .. n : i <= m
    BY <1>1
<1> SUFFICES IsNormal(Add(dict, p), pairs, m)
    BY <1>1
<1>3. CASE Broken(dict)
    <2>1. Add(dict, p) = dict
        BY <1>3 DEF Add
    <2> QED
        BY <1>2, <1>3, <2>1 DEF IsNormal, HasBad
<1>4. CASE ~Broken(dict) /\ Keyword(p[1]) = Dropped
    <2>1. Add(dict, p) = dict
        BY <1>4 DEF Add
    <2>2. IsReadable(dict, pairs, n)
        BY <1>4 DEF IsNormal
    <2>3. IsReadable(dict, pairs, m)
        <3>1. {Keyword(pairs[i][1]) : i \in 1 .. m} \ {Dropped} = {Keyword(pairs[i][1]) : i \in 1 .. n} \ {Dropped}
            BY <1>1, <1>2, <1>4
        <3>2. \A k \in DOMAIN dict : \E i \in 1 .. m :
                 /\ Keyword(pairs[i][1]) = k /\ dict[k] = Said(pairs[i])
                 /\ \A j \in 1 .. m : Keyword(pairs[j][1]) = k => j <= i
            <4> SUFFICES ASSUME NEW k \in DOMAIN dict
                         PROVE  \E i \in 1 .. m :
                                   /\ Keyword(pairs[i][1]) = k /\ dict[k] = Said(pairs[i])
                                   /\ \A j \in 1 .. m : Keyword(pairs[j][1]) = k => j <= i
                OBVIOUS
            <4>1. PICK i \in 1 .. n : /\ Keyword(pairs[i][1]) = k /\ dict[k] = Said(pairs[i])
                                      /\ \A j \in 1 .. n : Keyword(pairs[j][1]) = k => j <= i
                BY <2>2 DEF IsReadable
            <4>2. Keyword(pairs[m][1]) # k
                BY <1>1, <1>4, <2>2 DEF IsReadable
            <4>3. \A j \in 1 .. m : Keyword(pairs[j][1]) = k => j <= i
                BY <1>2, <4>1, <4>2
            <4> QED
                BY <1>2, <4>1, <4>3
        <3>3. \A i \in 1 .. m : Keyword(pairs[i][1]) = Dropped \/ Said(pairs[i]) # Bad
            BY <1>1, <1>2, <1>4, <2>2 DEF IsReadable
        <3> QED
            BY <2>2, <3>1, <3>2, <3>3 DEF IsReadable
    <2> QED
        BY <1>4, <2>1, <2>3 DEF IsNormal
<1>5. CASE ~Broken(dict) /\ Keyword(p[1]) # Dropped
    <2>1. PICK key, v : key = Keyword(p[1]) /\ v = Said(p)
        OBVIOUS
    <2>2. PICK more : more = Add(dict, p)
        OBVIOUS
    <2>3. more = Put(dict, key, v)
        BY <1>5, <2>1, <2>2 DEF Add, Said
    <2>4. /\ DOMAIN more = DOMAIN dict \cup {key}
          /\ more[key] = v
          /\ \A k \in DOMAIN dict \ {key} : more[k] = dict[k]
          /\ more = [k \in DOMAIN more |-> more[k]]
        <3>1. /\ DOMAIN Put(dict, key, v) = DOMAIN dict \cup {key}
              /\ \A k \in DOMAIN dict \ {key} : Put(dict, key, v)[k] = dict[k]
            BY Puts
        <3>2. more[key] = v
            BY <2>3 DEF Put, Updated
        <3>3. more = [k \in DOMAIN more |-> more[k]]
            BY <2>3 DEF Put, Updated
        <3> QED
            BY <2>3, <3>1, <3>2, <3>3
    <2>5. IsReadable(dict, pairs, n)
        BY <1>5 DEF IsNormal
    <2>6. Broken(more) <=> v = Bad
        BY <1>5, <2>4 DEF Broken
    <2>7. ASSUME v = Bad
          PROVE  HasBad(pairs, m)
        BY <1>1, <1>2, <1>5, <2>1, <2>7 DEF HasBad
    <2>8. ASSUME v # Bad
          PROVE  IsReadable(more, pairs, m)
        <3>1. DOMAIN more = {Keyword(pairs[i][1]) : i \in 1 .. m} \ {Dropped}
            <4>1. DOMAIN dict = {Keyword(pairs[i][1]) : i \in 1 .. n} \ {Dropped}
                BY <2>5 DEF IsReadable
            <4> QED
                BY <1>1, <1>2, <1>5, <2>1, <2>4, <4>1
        <3>2. ASSUME NEW k \in DOMAIN more
              PROVE  \E i \in 1 .. m :
                        /\ Keyword(pairs[i][1]) = k /\ more[k] = Said(pairs[i])
                        /\ \A j \in 1 .. m : Keyword(pairs[j][1]) = k => j <= i
            <4>1. CASE k = key
                BY <1>1, <1>2, <2>1, <2>4, <4>1
            <4>2. CASE k # key
                <5>1. k \in DOMAIN dict /\ more[k] = dict[k]
                    BY <2>4, <4>2
                <5>2. PICK i \in 1 .. n : /\ Keyword(pairs[i][1]) = k /\ dict[k] = Said(pairs[i])
                                          /\ \A j \in 1 .. n : Keyword(pairs[j][1]) = k => j <= i
                    BY <2>5, <5>1 DEF IsReadable
                <5>3. \A j \in 1 .. m : Keyword(pairs[j][1]) = k => j <= i
                    BY <1>1, <1>2, <2>1, <4>2, <5>2
                <5> QED
                    BY <1>2, <5>1, <5>2, <5>3
            <4> QED
                BY <4>1, <4>2
        <3>3. \A i \in 1 .. m : Keyword(pairs[i][1]) = Dropped \/ Said(pairs[i]) # Bad
            BY <1>1, <1>2, <2>1, <2>5, <2>8 DEF IsReadable
        <3> QED
            BY <2>4, <3>1, <3>2, <3>3 DEF IsReadable
    <2> QED
        BY <2>2, <2>6, <2>7, <2>8 DEF IsNormal
<1> QED
    BY <1>3, <1>4, <1>5

\* _normalize() goes through the pairs in their order.
LEMMA NormalizeSteps ==
    ASSUME NEW pairs, Len(pairs) \in Nat
    PROVE  \E dict : /\ dict[0] = <<>>
                     /\ \A i \in 1 .. Len(pairs) : dict[i] = Add(dict[i - 1], pairs[i])
                     /\ Normalize(pairs) = IF Broken(dict[Len(pairs)]) THEN Unreadable
                                           ELSE dict[Len(pairs)]
<1> DEFINE N == Len(pairs)
           D == 0 .. N
           Body(f, i) == IF i = 0 THEN <<>> ELSE Add(f[i - 1], pairs[i])
           Upto(f, n) == \A i \in D : i <= n => f[i] = Body(f, i)
           T == {n \in Nat : \E f : Upto(f, n)}
<1>1. N \in Nat
    OBVIOUS
<1> HIDE DEF N
<1>2. 0 \in T
    <2> DEFINE g == [i \in D |-> <<>>]
    <2>1. Upto(g, 0)
        BY <1>1
    <2> HIDE DEF Upto
    <2> QED
        BY <2>1
<1>3. ASSUME NEW f, NEW n \in Nat, Upto(f, n)
      PROVE  Upto([i \in D |-> Body(f, i)], n + 1)
    <2> DEFINE g == [i \in D |-> Body(f, i)]
    <2> SUFFICES ASSUME NEW i \in D, i <= n + 1
                 PROVE  g[i] = Body(g, i)
        OBVIOUS
    <2>1. CASE i = 0
        BY <2>1
    <2>2. CASE i # 0
        <3>1. i - 1 \in D /\ i - 1 <= n
            BY <1>1, <2>2
        <3>2. g[i - 1] = f[i - 1]
            BY <1>3, <3>1
        <3> QED
            BY <3>2
    <2> QED
        BY <2>1, <2>2
<1>4. ASSUME NEW n \in Nat, n \in T
      PROVE  n + 1 \in T
    <2>1. PICK f : Upto(f, n)
        BY <1>4
    <2>2. Upto([i \in D |-> Body(f, i)], n + 1)
        BY <1>3, <2>1
    <2> HIDE DEF Upto, Body
    <2> QED
        BY <2>2
<1>5. N \in T
    <2> HIDE DEF T
    <2> QED
        BY <1>1, <1>2, <1>4, Induction
<1>6. PICK f : Upto(f, N)
    BY <1>5
<1> DEFINE g == [i \in D |-> Body(f, i)]
<1>7. Upto(g, N + 1)
    <2> HIDE DEF Upto, Body
    <2> QED
        BY <1>1, <1>3, <1>6
<1>8. g = [i \in D |-> Body(g, i)]
    <2> HIDE DEF Body
    <2>1. \A i \in D : g[i] = Body(f, i)
        OBVIOUS
    <2>2. \A i \in D : g[i] = Body(g, i)
        <3> HIDE DEF g
        <3> QED
            BY <1>1, <1>7
    <2> QED
        BY <2>1, <2>2
<1> DEFINE chosen == CHOOSE dict : dict = [i \in D |-> Body(dict, i)]
<1>9. chosen = [i \in D |-> Body(chosen, i)]
    <2> HIDE DEF g
    <2> QED
        BY <1>8
<1>10. Normalize(pairs) = IF Broken(chosen[N]) THEN Unreadable ELSE chosen[N]
    BY DEF Normalize, N
<1> HIDE DEF chosen
<1>11. chosen[0] = <<>>
    BY <1>1, <1>9
<1>12. ASSUME NEW i \in 1 .. N
       PROVE  chosen[i] = Add(chosen[i - 1], pairs[i])
    <2>1. i \in D /\ i # 0
        BY <1>1
    <2> QED
        BY <1>9, <2>1
<1> QED
    BY <1>10, <1>11, <1>12 DEF N

\* It returns what the pairs say, unless there is a bad one among them.
LEMMA Normalized ==
    ASSUME NEW pairs, Len(pairs) \in Nat
    PROVE  /\ HasBad(pairs, Len(pairs)) => Normalize(pairs) = Unreadable
           /\ ~HasBad(pairs, Len(pairs)) =>
                  ~Broken(Normalize(pairs)) /\ IsReadable(Normalize(pairs), pairs, Len(pairs))
<1> DEFINE N == Len(pairs)
<1>1. N \in Nat
    OBVIOUS
<1>2. PICK dict : /\ dict[0] = <<>>
                  /\ \A i \in 1 .. N : dict[i] = Add(dict[i - 1], pairs[i])
                  /\ Normalize(pairs) = IF Broken(dict[N]) THEN Unreadable ELSE dict[N]
    BY NormalizeSteps
<1> HIDE DEF N
<1> DEFINE T == {n \in Nat : n <= N => IsNormal(dict[n], pairs, n)}
<1>3. 0 \in T
    <2>1. PICK none : none = dict[0]
        OBVIOUS
    <2>2. DOMAIN none = {} /\ 1 .. 0 = {}
        BY <1>2, <2>1
    <2>3. none = [k \in DOMAIN none |-> none[k]]
        BY <1>2, <2>1
    <2> QED
        BY <2>1, <2>2, <2>3 DEF IsNormal, Broken, IsReadable
<1>4. ASSUME NEW n \in Nat, n \in T
      PROVE  n + 1 \in T
    <2> SUFFICES ASSUME n + 1 <= N
                 PROVE  IsNormal(dict[n + 1], pairs, n + 1)
        OBVIOUS
    <2>1. n + 1 \in 1 .. N /\ (n + 1) - 1 = n /\ n <= N
        BY <1>1
    <2>2. IsNormal(dict[n], pairs, n)
        BY <1>4, <2>1
    <2>3. dict[n + 1] = Add(dict[n], pairs[n + 1])
        BY <1>2, <2>1
    <2> QED
        BY <2>2, <2>3, Adds
<1>5. IsNormal(dict[N], pairs, N)
    <2>1. N \in T
        <3> HIDE DEF T
        <3> QED
            BY <1>1, <1>3, <1>4, Induction
    <2> QED
        BY <1>1, <2>1
<1>6. ASSUME ~Broken(dict[N])
      PROVE  ~HasBad(pairs, N) /\ ~Broken(Normalize(pairs)) /\ IsReadable(Normalize(pairs), pairs, N)
    BY <1>2, <1>5, <1>6 DEF IsNormal, IsReadable, HasBad
<1>7. ASSUME Broken(dict[N])
      PROVE  HasBad(pairs, N) /\ Normalize(pairs) = Unreadable
    BY <1>2, <1>5, <1>7 DEF IsNormal
<1> QED
    BY <1>6, <1>7 DEF N

-----------------------------------------------------------------------------
(* What a value is made into *)

\* The types of values tell them apart.
LEMMA Types ==
    ASSUME NEW of
    PROVE  /\ Text(of).type = "text" /\ Text(of).of = of
           /\ Number(of).type = "int" /\ Number(of).of = of
           /\ Bool(of).type = "bool"
           /\ Value("list", of).type = "list"
           /\ Bad.type = "bad" /\ Unset.type = "unset"
    BY DEF Text, Number, Bool, Value, Bad, Unset

\* No keyword is of two types.
LEMMA OneType ==
    ASSUME NEW k
    PROVE  /\ k \in IntKeys => k \notin BoolKeys /\ k \notin ListKeys
           /\ k \in BoolKeys => k \notin ListKeys
    BY DEF IntKeys, BoolKeys, ListKeys

\* A text becomes what its keyword is of, and other values stay.
LEMMA Coerced ==
    ASSUME NEW k, NEW v
    PROVE  /\ v.type # "text" => Coerce(k, v) = v
           /\ v.type = "text" /\ k \in IntKeys =>
                  Coerce(k, v) = IF v.of \in DOMAIN Numeral THEN Number(Numeral[v.of]) ELSE Bad
           /\ v.type = "text" /\ k \in BoolKeys =>
                  Coerce(k, v) = IF Via(Lower, v.of) \in Truths \cup Falsehoods
                                 THEN Bool(Via(Lower, v.of) \in Truths) ELSE Bad
           /\ v.type = "text" /\ k \in ListKeys =>
                  Coerce(k, v) = Value("list", Via(Listed, v.of))
           /\ v.type = "text" /\ k \notin IntKeys \cup BoolKeys \cup ListKeys =>
                  Coerce(k, v) = v
<1>1. ASSUME v.type # "text"
      PROVE  Coerce(k, v) = v
    BY <1>1, Zenon DEF Coerce
<1>2. ASSUME v.type = "text", k \in IntKeys
      PROVE  Coerce(k, v) = IF v.of \in DOMAIN Numeral THEN Number(Numeral[v.of]) ELSE Bad
    BY <1>2, OneType, Zenon DEF Coerce
<1>3. ASSUME v.type = "text", k \in BoolKeys
      PROVE  Coerce(k, v) = IF Via(Lower, v.of) \in Truths \cup Falsehoods
                            THEN Bool(Via(Lower, v.of) \in Truths) ELSE Bad
    BY <1>3, OneType, Zenon DEF Coerce
<1>4. ASSUME v.type = "text", k \in ListKeys
      PROVE  Coerce(k, v) = Value("list", Via(Listed, v.of))
    BY <1>4, OneType, Zenon DEF Coerce
<1>5. ASSUME v.type = "text", k \notin IntKeys \cup BoolKeys \cup ListKeys
      PROVE  Coerce(k, v) = v
    BY <1>5, Zenon DEF Coerce
<1> QED
    BY <1>1, <1>2, <1>3, <1>4, <1>5

\* What the driver can be given for a keyword.
Fits(k, v) ==
    /\ v.type \in {"text", "int", "bool", "list"}
    /\ k \in Flags \ {Asked} => v.type = "bool"
    /\ k \in Numbers => v.type = "int"
    /\ k \in ManyValued => v.type = "list"

\* The options of a class are those of its sections.
LEMMA ClassOfDeclared ==
    ASSUME NEW of, NEW names, NEW class
    PROVE  OfClass(Declare(of, names), class) = IF of = class THEN names ELSE {}
<1>1. \A n : [name |-> n, class |-> of].name = n /\ [name |-> n, class |-> of].class = of
    OBVIOUS
<1>2. \A o : o \in Declare(of, names) <=> \E n \in names : o = [name |-> n, class |-> of]
    BY DEF Declare
<1>3. \A k : k \in OfClass(Declare(of, names), class) <=>
                \E o \in Declare(of, names) : o.class = class /\ k = o.name
    BY DEF OfClass
<1>4. ASSUME NEW k \in OfClass(Declare(of, names), class)
      PROVE  of = class /\ k \in names
    BY <1>1, <1>2, <1>3
<1>5. ASSUME of = class, NEW k \in names
      PROVE  k \in OfClass(Declare(of, names), class)
    <2>1. PICK o : o = [name |-> k, class |-> of]
        OBVIOUS
    <2> QED
        BY <1>2, <1>3, <1>5, <2>1
<1> QED
    BY <1>4, <1>5

LEMMA ClassOfBoth ==
    ASSUME NEW S, NEW T, NEW class
    PROVE  OfClass(S \cup T, class) = OfClass(S, class) \cup OfClass(T, class)
    BY DEF OfClass

\* The options that are flags, numbers and lists.
LEMMA Classes ==
    /\ Flags = {"numeric_to_float", "tcp_keepalive", "ssl", "ssl_insecure", "all_databases",
                "enable_table_types", "iam", "auto_create", "is_serverless",
                "group_federation"}
    /\ Numbers = {"port", "timeout", "max_prepared_statements"}
    /\ ManyValued = {"db_groups"}
<1> DEFINE If(of, class, names) == IF of = class THEN names ELSE {}
<1>1. \A of, names, class : OfClass(Declare(of, names), class) = If(of, class, names)
    BY ClassOfDeclared
<1> HIDE DEF If
<1>2. ASSUME NEW S, NEW a, NEW A, NEW class
      PROVE  OfClass(S \cup Declare(a, A), class) = OfClass(S, class) \cup If(a, class, A)
    <2>1. OfClass(S \cup Declare(a, A), class) = OfClass(S, class) \cup OfClass(Declare(a, A), class)
        BY ClassOfBoth
    <2>2. OfClass(Declare(a, A), class) = If(a, class, A)
        BY <1>1
    <2> QED
        BY <2>1, <2>2
<1>3. ASSUME NEW class
      PROVE  OfClass(REDSHIFT_OPTIONS, class) =
                 (((((OfClass(BasicOptions, class) \cup OfClass(DriverOptions, class))
                     \cup OfClass(SslOptions, class)) \cup OfClass(CatalogOptions, class))
                   \cup OfClass(IamOptions, class)) \cup OfClass(ServerlessOptions, class))
                 \cup OfClass(FederatedOptions, class)
    BY DEF REDSHIFT_OPTIONS, OfClass
<1>4. ASSUME NEW class
      PROVE  OfClass(BasicOptions, class) =
                 If("text", class, {"host", "database", "user", "password"})
                 \cup If("number", class, {"port"})
    <2>1. PICK A, B :
             /\ A = {"host", "database", "user", "password"}
             /\ B = {"port"}
        OBVIOUS
    <2>2. BasicOptions = Declare("text", A) \cup Declare("number", B)
        BY <2>1 DEF BasicOptions
    <2>3. OfClass(Declare("text", A), class) = If("text", class, A)
        BY <1>1
    <2>4. OfClass(Declare("text", A) \cup Declare("number", B), class) =
              OfClass(Declare("text", A), class) \cup If("number", class, B)
        BY <1>2
    <2> QED
        BY <2>1, <2>2, <2>3, <2>4
<1>5. ASSUME NEW class
      PROVE  OfClass(DriverOptions, class) =
                 (If("text", class, {"application_name", "client_protocol_version"})
                  \cup If("number", class, {"timeout", "max_prepared_statements"}))
                 \cup If("flag", class, {"numeric_to_float", "tcp_keepalive"})
    <2>1. PICK A, B, C :
             /\ A = {"application_name", "client_protocol_version"}
             /\ B = {"timeout", "max_prepared_statements"}
             /\ C = {"numeric_to_float", "tcp_keepalive"}
        OBVIOUS
    <2>2. DriverOptions = (Declare("text", A) \cup Declare("number", B)) \cup Declare("flag", C)
        BY <2>1 DEF DriverOptions
    <2>3. OfClass(Declare("text", A), class) = If("text", class, A)
        BY <1>1
    <2>4. OfClass(Declare("text", A) \cup Declare("number", B), class) =
              OfClass(Declare("text", A), class) \cup If("number", class, B)
        BY <1>2
    <2>5. PICK S : S = Declare("text", A) \cup Declare("number", B)
        OBVIOUS
    <2>6. OfClass(S \cup Declare("flag", C), class) = OfClass(S, class) \cup If("flag", class, C)
        BY <1>2
    <2> QED
        BY <2>1, <2>2, <2>3, <2>4, <2>5, <2>6
<1>6. ASSUME NEW class
      PROVE  OfClass(SslOptions, class) =
                 If("text", class, {"sslmode"}) \cup If("flag", class, {"ssl", "ssl_insecure"})
    <2>1. PICK A, B :
             /\ A = {"sslmode"}
             /\ B = {"ssl", "ssl_insecure"}
        OBVIOUS
    <2>2. SslOptions = Declare("text", A) \cup Declare("flag", B)
        BY <2>1 DEF SslOptions
    <2>3. OfClass(Declare("text", A), class) = If("text", class, A)
        BY <1>1
    <2>4. OfClass(Declare("text", A) \cup Declare("flag", B), class) =
              OfClass(Declare("text", A), class) \cup If("flag", class, B)
        BY <1>2
    <2> QED
        BY <2>1, <2>2, <2>3, <2>4
<1>7. ASSUME NEW class
      PROVE  OfClass(CatalogOptions, class) =
                 If("flag", class, {"all_databases", "enable_table_types"})
    BY <1>1 DEF CatalogOptions
<1>8. ASSUME NEW class
      PROVE  OfClass(IamOptions, class) =
                 (If("text", class, {"profile", "region", "cluster_identifier",
                                     "access_key_id", "secret_access_key",
                                     "session_token", "db_user"})
                  \cup If("flag", class, {"iam", "auto_create"}))
                 \cup If("list", class, {"db_groups"})
    <2>1. PICK A, B, C :
             /\ A = {"profile", "region", "cluster_identifier", "access_key_id",
                    "secret_access_key", "session_token", "db_user"}
             /\ B = {"iam", "auto_create"}
             /\ C = {"db_groups"}
        OBVIOUS
    <2>2. IamOptions = (Declare("text", A) \cup Declare("flag", B)) \cup Declare("list", C)
        BY <2>1 DEF IamOptions
    <2>3. OfClass(Declare("text", A), class) = If("text", class, A)
        BY <1>1
    <2>4. OfClass(Declare("text", A) \cup Declare("flag", B), class) =
              OfClass(Declare("text", A), class) \cup If("flag", class, B)
        BY <1>2
    <2>5. PICK S : S = Declare("text", A) \cup Declare("flag", B)
        OBVIOUS
    <2>6. OfClass(S \cup Declare("list", C), class) = OfClass(S, class) \cup If("list", class, C)
        BY <1>2
    <2> QED
        BY <2>1, <2>2, <2>3, <2>4, <2>5, <2>6
<1>9. ASSUME NEW class
      PROVE  OfClass(ServerlessOptions, class) =
                 If("text", class, {"serverless_acct_id", "serverless_work_group"})
                 \cup If("flag", class, {"is_serverless"})
    <2>1. PICK A, B :
             /\ A = {"serverless_acct_id", "serverless_work_group"}
             /\ B = {"is_serverless"}
        OBVIOUS
    <2>2. ServerlessOptions = Declare("text", A) \cup Declare("flag", B)
        BY <2>1 DEF ServerlessOptions
    <2>3. OfClass(Declare("text", A), class) = If("text", class, A)
        BY <1>1
    <2>4. OfClass(Declare("text", A) \cup Declare("flag", B), class) =
              OfClass(Declare("text", A), class) \cup If("flag", class, B)
        BY <1>2
    <2> QED
        BY <2>1, <2>2, <2>3, <2>4
<1>10. ASSUME NEW class
       PROVE  OfClass(FederatedOptions, class) =
                  If("text", class, {"credentials_provider", "idp_host", "login_url",
                                     "preferred_role", "role_arn", "web_identity_token",
                                     "auth_profile", "endpoint_url"})
                  \cup If("flag", class, {"group_federation"})
    <2>1. PICK A, B :
             /\ A = {"credentials_provider", "idp_host", "login_url", "preferred_role",
                    "role_arn", "web_identity_token", "auth_profile", "endpoint_url"}
             /\ B = {"group_federation"}
        OBVIOUS
    <2>2. FederatedOptions = Declare("text", A) \cup Declare("flag", B)
        BY <2>1 DEF FederatedOptions
    <2>3. OfClass(Declare("text", A), class) = If("text", class, A)
        BY <1>1
    <2>4. OfClass(Declare("text", A) \cup Declare("flag", B), class) =
              OfClass(Declare("text", A), class) \cup If("flag", class, B)
        BY <1>2
    <2> QED
        BY <2>1, <2>2, <2>3, <2>4
<1>11. \A names : /\ If("text", "flag", names) = {} /\ If("text", "number", names) = {}
                  /\ If("text", "list", names) = {}
                  /\ If("number", "flag", names) = {} /\ If("number", "list", names) = {}
                  /\ If("flag", "number", names) = {} /\ If("flag", "list", names) = {}
                  /\ If("list", "flag", names) = {} /\ If("list", "number", names) = {}
                  /\ If("flag", "flag", names) = names
                  /\ If("number", "number", names) = names
                  /\ If("list", "list", names) = names
    BY DEF If
<1>12. Flags = {"numeric_to_float", "tcp_keepalive", "ssl", "ssl_insecure", "all_databases",
                "enable_table_types", "iam", "auto_create", "is_serverless",
                "group_federation"}
    BY <1>3, <1>4, <1>5, <1>6, <1>7, <1>8, <1>9, <1>10, <1>11 DEF Flags
<1>13. Numbers = {"port", "timeout", "max_prepared_statements"}
    BY <1>3, <1>4, <1>5, <1>6, <1>7, <1>8, <1>9, <1>10, <1>11 DEF Numbers
<1>14. ManyValued = {"db_groups"}
    BY <1>3, <1>4, <1>5, <1>6, <1>7, <1>8, <1>9, <1>10, <1>11 DEF ManyValued
<1> QED
    BY <1>12, <1>13, <1>14

\* The declarations of the options and the tables of the keywords agree, but for
\* all_databases.
LEMMA TablesAgree ==
    /\ Flags \ {Asked} \subseteq BoolKeys /\ Numbers \subseteq IntKeys
    /\ ManyValued \subseteq ListKeys
    /\ \A k \in Flags : k \notin Numbers /\ k \notin ManyValued
    /\ \A k \in Numbers : k \notin ManyValued
<1>1. Flags \ {Asked} \subseteq BoolKeys
    BY Classes DEF Asked, BoolKeys
<1>2. Numbers \subseteq IntKeys
    BY Classes DEF IntKeys
<1>3. ManyValued \subseteq ListKeys
    BY Classes DEF ListKeys
<1>4. /\ \A k \in Flags : k \notin Numbers /\ k \notin ManyValued
      /\ \A k \in Numbers : k \notin ManyValued
    BY Classes
<1> QED
    BY <1>1, <1>2, <1>3, <1>4

\* A text that can be read for its keyword becomes something the driver can be
\* given.
LEMMA TextFits ==
    ASSUME NEW k, NEW v, v.type = "text", Coerce(k, v) # Bad
    PROVE  Fits(k, Coerce(k, v))
<1>1. CASE k \in IntKeys
    <2>1. PICK n : Coerce(k, v) = Number(n)
        BY <1>1, Coerced
    <2>2. Coerce(k, v).type = "int"
        BY <2>1, Types
    <2>3. k \notin Flags \ {Asked} /\ k \notin ManyValued
        BY <1>1, OneType, TablesAgree
    <2> QED
        BY <2>2, <2>3 DEF Fits
<1>2. CASE k \in BoolKeys
    <2>1. PICK b : Coerce(k, v) = Bool(b)
        BY <1>2, Coerced
    <2>2. Coerce(k, v).type = "bool"
        BY <2>1, Types
    <2>3. k \notin Numbers /\ k \notin ManyValued
        BY <1>2, OneType, TablesAgree
    <2> QED
        BY <2>2, <2>3 DEF Fits
<1>3. CASE k \in ListKeys
    <2>1. PICK n : Coerce(k, v) = Value("list", n)
        BY <1>3, Coerced
    <2>2. Coerce(k, v).type = "list"
        BY <2>1, Types
    <2>3. k \notin Numbers /\ k \notin Flags \ {Asked}
        BY <1>3, OneType, TablesAgree
    <2> QED
        BY <2>2, <2>3 DEF Fits
<1>4. CASE k \notin IntKeys \cup BoolKeys \cup ListKeys
    <2>1. Coerce(k, v).type = "text"
        BY <1>4, Coerced
    <2>2. k \notin Numbers /\ k \notin Flags \ {Asked} /\ k \notin ManyValued
        BY <1>4, TablesAgree
    <2> QED
        BY <2>1, <2>2 DEF Fits
<1> QED
    BY <1>1, <1>2, <1>3, <1>4

\* So does an option.
LEMMA OptionFits ==
    ASSUME NEW k, NEW v, v.type \in OptionTypes(k), Coerce(k, v) # Bad
    PROVE  Fits(k, Coerce(k, v))
<1>1. CASE v.type = "text"
    BY <1>1, TextFits
<1>2. CASE v.type # "text"
    <2>1. Coerce(k, v) = v
        BY <1>2, Coerced
    <2>2. CASE k \in Flags
        <3>1. v.type = "bool"
            BY <1>2, <2>2 DEF OptionTypes
        <3> QED
            BY <2>1, <2>2, <3>1, TablesAgree DEF Fits
    <2>3. CASE k \in Numbers
        <3>1. v.type = "int"
            BY <1>2, <2>3, TablesAgree DEF OptionTypes
        <3>2. k \notin Flags /\ k \notin ManyValued
            BY <2>3, TablesAgree
        <3> QED
            BY <2>1, <3>1, <3>2 DEF Fits
    <2>4. CASE k \in ManyValued
        <3>1. v.type = "list"
            BY <1>2, <2>4, TablesAgree DEF OptionTypes
        <3>2. k \notin Flags /\ k \notin Numbers
            BY <2>4, TablesAgree
        <3> QED
            BY <2>1, <3>1, <3>2 DEF Fits
    <2>5. CASE k \notin Flags \cup Numbers \cup ManyValued
        <3>1. v.type \in {"text", "int", "bool", "list"}
            BY <2>5 DEF OptionTypes
        <3> QED
            BY <2>1, <2>5, <3>1 DEF Fits
    <2> QED
        BY <2>2, <2>3, <2>4, <2>5
<1> QED
    BY <1>1, <1>2

-----------------------------------------------------------------------------
(* What a connection string says *)

\* A component is a text, or the number of a port, and there is no other
\* spelling of its name.
LEMMA Component ==
    ASSUME NEW url, DOMAIN url.parts \subseteq Parts, NEW k \in DOMAIN Components(url)
    PROVE  /\ k \in Parts
           /\ \/ k # "port" /\ \E of : Components(url)[k] = Text(of)
              \/ /\ k = "port"
                 /\ \/ Components(url)[k] = Bad
                    \/ \E text \in Ports : Components(url)[k] = Number(Numeral[text])
<1> DEFINE Has == {p \in DOMAIN url.parts : url.parts[p] # ""}
           Of(part) == LET text == url.parts[part]
                       IN  CASE part = "host" -> Text(Via(Percent, Via(Lower, text)))
                             [] part = "port" -> IF text \in Ports THEN Number(Numeral[text]) ELSE Bad
                             [] OTHER         -> Text(Via(Percent, text))
<1>1. Components(url) = [part \in Has |-> Of(part)]
    BY DEF Components
<1> HIDE DEF Of
<1>2. k \in Has /\ Components(url)[k] = Of(k)
    BY <1>1
<1>3. CASE k = "host"
    <2>1. Of(k) = Text(Via(Percent, Via(Lower, url.parts[k])))
        BY <1>3, Zenon DEF Of
    <2> QED
        BY <1>2, <1>3, <2>1
<1>4. CASE k = "port"
    <2>1. Of(k) = IF url.parts[k] \in Ports THEN Number(Numeral[url.parts[k]]) ELSE Bad
        <3>1. k # "host"
            BY <1>4
        <3> QED
            BY <1>4, <3>1, Zenon DEF Of
    <2> QED
        BY <1>2, <1>4, <2>1
<1>5. CASE k \notin {"host", "port"}
    <2>1. Of(k) = Text(Via(Percent, url.parts[k]))
        <3>1. k # "host" /\ k # "port"
            BY <1>5
        <3> QED
            BY <3>1, Zenon DEF Of
    <2> QED
        BY <1>2, <1>5, <2>1
<1> QED
    BY <1>3, <1>4, <1>5

\* No type is asked of a component but of the port.
LEMMA PartTypes ==
    /\ \A k \in Parts \ {"port"} :
          k \notin IntKeys \cup BoolKeys \cup ListKeys /\ k \notin Flags \cup Numbers \cup ManyValued
    /\ "port" \in IntKeys /\ "port" \notin Flags /\ "port" \notin ManyValued /\ "port" \in Parts
<1>1. \A k \in Parts \ {"port"} : k \notin IntKeys \cup BoolKeys \cup ListKeys
    BY DEF Parts, IntKeys, BoolKeys, ListKeys
<1>2. \A k \in Parts \ {"port"} : k \notin Flags \cup Numbers \cup ManyValued
    BY Classes DEF Parts
<1>3. "port" \in IntKeys /\ "port" \notin Flags /\ "port" \notin ManyValued /\ "port" \in Parts
    BY Classes DEF IntKeys, Parts
<1> QED
    BY <1>1, <1>2, <1>3

\* A component that can be read needs no more reading.
LEMMA ComponentFits ==
    ASSUME NEW url, DOMAIN url.parts \subseteq Parts, NEW k \in DOMAIN Components(url),
           Components(url)[k] # Bad
    PROVE  Fits(k, Components(url)[k]) /\ Coerce(k, Components(url)[k]) = Components(url)[k]
<1>1. CASE k # "port"
    <2>1. PICK of : Components(url)[k] = Text(of) /\ k \in Parts
        BY <1>1, Component
    <2>2. Components(url)[k].type = "text"
        BY <2>1, Types
    <2>3. Coerce(k, Components(url)[k]) = Components(url)[k]
        BY <1>1, <2>1, <2>2, Coerced, PartTypes
    <2> QED
        BY <1>1, <2>1, <2>2, <2>3, PartTypes DEF Fits
<1>2. CASE k = "port"
    <2>1. PICK text : Components(url)[k] = Number(Numeral[text])
        BY <1>2, Component
    <2>2. Components(url)[k].type = "int"
        BY <2>1, Types
    <2>3. Coerce(k, Components(url)[k]) = Components(url)[k]
        BY <2>2, Coerced
    <2> QED
        BY <1>2, <2>2, <2>3, PartTypes DEF Fits
<1> QED
    BY <1>1, <1>2

\* The pairs of a query are a sequence.
LEMMA QueryIsSequence ==
    ASSUME NEW url, url.pairs \in PairLists
    PROVE  \E S : Queried(url) \in Seq(S)
<1> DEFINE given == url.pairs
           Pair(i) == <<given[i][1], Via(Percent, given[i][2])>>
           S == {Pair(i) : i \in DOMAIN given}
           pieces == [i \in DOMAIN given |-> IF given[i][2] = "" THEN <<>> ELSE <<Pair(i)>>]
<1>1. Queried(url) = FlattenSeq(pieces)
    BY DEF Queried
<1>2. Len(given) \in Nat /\ DOMAIN given = 1 .. Len(given)
    BY DEF PairLists
<1>3. \A i \in DOMAIN given : pieces[i] \in Seq(S)
    <2> SUFFICES ASSUME NEW i \in DOMAIN given PROVE pieces[i] \in Seq(S)
        OBVIOUS
    <2>1. PICK p \in S : p = Pair(i)
        OBVIOUS
    <2>2. pieces[i] = <<>> \/ pieces[i] = <<p>>
        BY <2>1
    <2> HIDE DEF Pair, S, pieces
    <2>3. <<>> \in Seq(S) /\ <<p>> \in Seq(S)
        OBVIOUS
    <2> QED
        BY <2>2, <2>3
<1> HIDE DEF S, pieces, given
<1>4. pieces \in Seq(Seq(S))
    <2>1. pieces = [i \in 1 .. Len(given) |-> pieces[i]]
        BY <1>2 DEF pieces
    <2> QED
        BY <1>2, <1>3, <2>1
<1> QED
    BY <1>1, <1>4, FlattenSeqLayout

\* A connection string that is understood says of each keyword what its
\* component says, or else its last pair.
IsUnderstood(dict, pairs, parts) ==
    /\ Len(pairs) \in Nat /\ DOMAIN pairs = 1 .. Len(pairs)
    /\ DOMAIN dict = ({Keyword(pairs[i][1]) : i \in 1 .. Len(pairs)} \ {Dropped}) \cup DOMAIN parts
    /\ \A k \in DOMAIN parts : dict[k] = parts[k] /\ Fits(k, parts[k]) /\ Coerce(k, parts[k]) = parts[k]
    /\ \A k \in DOMAIN dict \ DOMAIN parts : \E i \in 1 .. Len(pairs) :
          /\ Keyword(pairs[i][1]) = k /\ dict[k] = Said(pairs[i]) /\ Said(pairs[i]) # Bad
          /\ \A j \in 1 .. Len(pairs) : Keyword(pairs[j][1]) = k => j <= i

\* What _normalize() returns, if it returns.
LEMMA PairsUnderstood ==
    ASSUME NEW pairs, NEW S, pairs \in Seq(S), ~Broken(Normalize(pairs))
    PROVE  IsUnderstood(Normalize(pairs), pairs, <<>>)
<1>1. Len(pairs) \in Nat /\ DOMAIN pairs = 1 .. Len(pairs)
    OBVIOUS
<1>2. IsReadable(Normalize(pairs), pairs, Len(pairs))
    <2>1. Broken(Unreadable) /\ Broken(Malformed)
        BY Exceptions
    <2> QED
        BY <1>1, <2>1, Normalized
<1>3. DOMAIN <<>> = {}
    OBVIOUS
<1>4. ASSUME NEW k \in DOMAIN Normalize(pairs)
      PROVE  \E i \in 1 .. Len(pairs) :
                /\ Keyword(pairs[i][1]) = k /\ Normalize(pairs)[k] = Said(pairs[i])
                /\ Said(pairs[i]) # Bad
                /\ \A j \in 1 .. Len(pairs) : Keyword(pairs[j][1]) = k => j <= i
    <2>1. PICK i \in 1 .. Len(pairs) :
             /\ Keyword(pairs[i][1]) = k /\ Normalize(pairs)[k] = Said(pairs[i])
             /\ \A j \in 1 .. Len(pairs) : Keyword(pairs[j][1]) = k => j <= i
        BY <1>2 DEF IsReadable
    <2>2. k # Dropped
        BY <1>2 DEF IsReadable
    <2>3. Said(pairs[i]) # Bad
        BY <1>2, <2>1, <2>2 DEF IsReadable
    <2> QED
        BY <2>1, <2>3
<1> QED
    BY <1>1, <1>2, <1>3, <1>4 DEF IsUnderstood, IsReadable

\* So it is with a URL, whose components go before its pairs.
LEMMA UrlUnderstood ==
    ASSUME NEW url, url.pairs \in PairLists, DOMAIN url.parts \subseteq Parts,
           ~Broken(ParseUrl(url))
    PROVE  IsUnderstood(ParseUrl(url), Queried(url), Components(url))
<1>0. PICK query, parts, pairs :
         query = Normalize(Queried(url)) /\ parts = Components(url) /\ pairs = Queried(url)
    OBVIOUS
<1>1. ~Broken(query) /\ ~Broken(Updated(query, parts)) /\ ParseUrl(url) = Updated(query, parts)
    <2>1. Broken(Unreadable) /\ Broken(Malformed)
        BY Exceptions
    <2> QED
        BY <1>0, <2>1 DEF ParseUrl
<1>2. PICK S : pairs \in Seq(S)
    BY <1>0, QueryIsSequence
<1>3. IsUnderstood(query, pairs, <<>>)
    BY <1>0, <1>1, <1>2, PairsUnderstood
<1>4. \A k \in DOMAIN parts : Fits(k, parts[k]) /\ Coerce(k, parts[k]) = parts[k]
    <2> SUFFICES ASSUME NEW k \in DOMAIN parts
                 PROVE  Fits(k, parts[k]) /\ Coerce(k, parts[k]) = parts[k]
        OBVIOUS
    <2>1. parts[k] # Bad
        <3>1. /\ DOMAIN Updated(query, parts) = DOMAIN query \cup DOMAIN parts
              /\ \A key \in DOMAIN parts : Updated(query, parts)[key] = parts[key]
              /\ \A key \in DOMAIN query \ DOMAIN parts : Updated(query, parts)[key] = query[key]
            BY Updates, Zenon
        <3>2. \A key \in DOMAIN Updated(query, parts) : Updated(query, parts)[key] # Bad
            BY <1>1, Zenon DEF Broken
        <3> QED
            BY <3>1, <3>2, Zenon
    <2> QED
        BY <1>0, <2>1, ComponentFits
<1>5. PICK dict : dict = Updated(query, parts)
    OBVIOUS
<1>6. /\ DOMAIN dict = DOMAIN query \cup DOMAIN parts
      /\ \A k \in DOMAIN parts : dict[k] = parts[k]
      /\ \A k \in DOMAIN query \ DOMAIN parts : dict[k] = query[k]
    <2>1. /\ DOMAIN Updated(query, parts) = DOMAIN query \cup DOMAIN parts
          /\ \A k \in DOMAIN parts : Updated(query, parts)[k] = parts[k]
          /\ \A k \in DOMAIN query \ DOMAIN parts : Updated(query, parts)[k] = query[k]
        BY Updates
    <2> QED
        BY <1>5, <2>1
<1>7. DOMAIN <<>> = {}
    OBVIOUS
<1>8. ASSUME NEW k \in DOMAIN dict \ DOMAIN parts
      PROVE  \E i \in 1 .. Len(pairs) :
                /\ Keyword(pairs[i][1]) = k /\ dict[k] = Said(pairs[i]) /\ Said(pairs[i]) # Bad
                /\ \A j \in 1 .. Len(pairs) : Keyword(pairs[j][1]) = k => j <= i
    <2>1. k \in DOMAIN query \ DOMAIN <<>> /\ dict[k] = query[k]
        BY <1>6, <1>7
    <2>2. PICK i \in 1 .. Len(pairs) :
             /\ Keyword(pairs[i][1]) = k /\ query[k] = Said(pairs[i]) /\ Said(pairs[i]) # Bad
             /\ \A j \in 1 .. Len(pairs) : Keyword(pairs[j][1]) = k => j <= i
        BY <1>3, <2>1 DEF IsUnderstood
    <2> QED
        BY <2>1, <2>2
<1>9. /\ Len(pairs) \in Nat /\ DOMAIN pairs = 1 .. Len(pairs)
      /\ DOMAIN dict = ({Keyword(pairs[i][1]) : i \in 1 .. Len(pairs)} \ {Dropped}) \cup DOMAIN parts
    BY <1>3, <1>6, <1>7 DEF IsUnderstood
<1>10. IsUnderstood(dict, pairs, parts)
    BY <1>4, <1>6, <1>8, <1>9 DEF IsUnderstood
<1> QED
    BY <1>0, <1>1, <1>5, <1>10

\* So it is with every connection string.
LEMMA StringUnderstood ==
    ASSUME NEW s, IsConnectionString(s), ~Broken(ConnStrToDict(s))
    PROVE  IsUnderstood(ConnStrToDict(s), PairsOf(s), PartsOf(s))
<1>0. Broken(Unreadable) /\ Broken(Malformed)
    BY Exceptions
<1>1. CASE s.form = "empty"
    <2>1. ConnStrToDict(s) = <<>>
        BY <1>1, Zenon DEF ConnStrToDict
    <2>2. PairsOf(s) = <<>> /\ PartsOf(s) = <<>>
        BY <1>1 DEF PairsOf, PartsOf
    <2>3. DOMAIN <<>> = {} /\ Len(<<>>) = 0 /\ 1 .. 0 = {}
        OBVIOUS
    <2>4. IsUnderstood(<<>>, <<>>, <<>>)
        BY <2>3 DEF IsUnderstood
    <2> QED
        BY <2>1, <2>2, <2>4
<1>2. CASE s.form = "words"
    <2>1. s.form # "empty"
        BY <1>2
    <2>2. ConnStrToDict(s) = Unreadable
        BY <1>2, <2>1, Zenon DEF ConnStrToDict
    <2> QED
        BY <1>0, <2>2
<1>3. CASE s.form = "url"
    <2>1. s.form # "empty" /\ s.form # "words" /\ s.form \in {"url", "malformed"}
        BY <1>3
    <2>2. ConnStrToDict(s) = IF Via(Lower, s.scheme) \in Schemes THEN ParseUrl(s) ELSE Unreadable
        BY <1>3, <2>1, Zenon DEF ConnStrToDict
    <2>3. ConnStrToDict(s) = ParseUrl(s)
        BY <1>0, <2>2
    <2>4. s.pairs \in PairLists /\ DOMAIN s.parts \subseteq Parts
        BY <1>3 DEF IsConnectionString
    <2>5. PairsOf(s) = Queried(s) /\ PartsOf(s) = Components(s)
        BY <1>3 DEF PairsOf, PartsOf
    <2>6. ~Broken(ParseUrl(s))
        BY <2>3
    <2> QED
        BY <2>3, <2>4, <2>5, <2>6, UrlUnderstood
<1>4. CASE s.form = "pairs"
    <2>1. s.form # "empty" /\ s.form # "words" /\ s.form \notin {"url", "malformed"}
        BY <1>4
    <2>2. ConnStrToDict(s) = IF \E i \in DOMAIN s.pairs : s.pairs[i][2] \in Links
                             THEN Unreadable
                             ELSE Normalize(s.pairs)
        BY <1>4, <2>1, Zenon DEF ConnStrToDict
    <2>3. ConnStrToDict(s) = Normalize(s.pairs)
        BY <1>0, <2>2
    <2>4. s.pairs \in PairLists
        BY <1>4 DEF IsConnectionString
    <2>5. PairsOf(s) = s.pairs /\ PartsOf(s) = <<>>
        BY <1>4 DEF PairsOf, PartsOf
    <2>6. \E S : s.pairs \in Seq(S)
        BY <2>4 DEF PairLists
    <2>7. ~Broken(Normalize(s.pairs))
        BY <2>3
    <2> QED
        BY <2>3, <2>5, <2>6, <2>7, PairsUnderstood
<1>5. CASE s.form = "malformed"
    <2>1. s.form # "empty" /\ s.form # "words" /\ s.form \in {"url", "malformed"}
        BY <1>5
    <2>2. ConnStrToDict(s) = IF Via(Lower, s.scheme) \in Schemes THEN ParseUrl(s) ELSE Unreadable
        BY <2>1, Zenon DEF ConnStrToDict
    <2>3. ParseUrl(s) = Malformed
        BY <1>5, Zenon DEF ParseUrl
    <2> QED
        BY <1>0, <2>2, <2>3
<1> QED
    BY <1>1, <1>2, <1>3, <1>4, <1>5 DEF IsConnectionString

\* Only a malformed URL is met with urlsplit()'s exception.
LEMMA StringMalformed ==
    ASSUME NEW s, IsConnectionString(s), ConnStrToDict(s) = Malformed
    PROVE  s.form = "malformed"
<1>0. Broken(Malformed) /\ Unreadable # Malformed
    BY Exceptions
<1>1. CASE s.form = "empty"
    <2>1. ConnStrToDict(s) = <<>>
        BY <1>1, Zenon DEF ConnStrToDict
    <2>2. DOMAIN <<>> = {}
        OBVIOUS
    <2>3. ~Broken(<<>>)
        BY <2>2 DEF Broken
    <2> QED
        BY <1>0, <2>1, <2>3
<1>2. CASE s.form = "words"
    <2>1. s.form # "empty"
        BY <1>2
    <2>2. ConnStrToDict(s) = Unreadable
        BY <1>2, <2>1, Zenon DEF ConnStrToDict
    <2> QED
        BY <1>0, <2>2
<1>3. CASE s.form = "url"
    <2>1. s.form # "empty" /\ s.form # "words" /\ s.form \in {"url", "malformed"}
        BY <1>3
    <2>2. ConnStrToDict(s) = IF Via(Lower, s.scheme) \in Schemes THEN ParseUrl(s) ELSE Unreadable
        BY <2>1, Zenon DEF ConnStrToDict
    <2>3. s.form # "malformed"
        BY <1>3
    <2>4. PICK query, dict :
             ParseUrl(s) = IF Broken(query) \/ Broken(dict) THEN Unreadable ELSE dict
        BY <2>3 DEF ParseUrl
    <2> QED
        BY <1>0, <2>2, <2>4
<1>4. CASE s.form = "pairs"
    <2>1. s.form # "empty" /\ s.form # "words" /\ s.form \notin {"url", "malformed"}
        BY <1>4
    <2>2. ConnStrToDict(s) = IF \E i \in DOMAIN s.pairs : s.pairs[i][2] \in Links
                             THEN Unreadable
                             ELSE Normalize(s.pairs)
        BY <1>4, <2>1, Zenon DEF ConnStrToDict
    <2>3. Len(s.pairs) \in Nat
        BY <1>4 DEF IsConnectionString, PairLists
    <2>4. Normalize(s.pairs) = Unreadable \/ ~Broken(Normalize(s.pairs))
        BY <2>3, Normalized
    <2> QED
        BY <1>0, <2>2, <2>4
<1> QED
    BY <1>1, <1>2, <1>3, <1>4 DEF IsConnectionString

\* What a connection string says the driver can be given.
LEMMA StringFits ==
    ASSUME NEW dict, NEW pairs, NEW parts, IsUnderstood(dict, pairs, parts), NEW k \in DOMAIN dict
    PROVE  Fits(k, dict[k])
<1>1. CASE k \in DOMAIN parts
    BY <1>1 DEF IsUnderstood
<1>2. CASE k \notin DOMAIN parts
    <2>1. PICK i \in 1 .. Len(pairs) :
             Keyword(pairs[i][1]) = k /\ dict[k] = Said(pairs[i]) /\ Said(pairs[i]) # Bad
        BY <1>2 DEF IsUnderstood
    <2>2. Said(pairs[i]) = Coerce(k, Text(pairs[i][2])) /\ Text(pairs[i][2]).type = "text"
        BY <2>1, Types DEF Said
    <2> QED
        BY <2>1, <2>2, TextFits
<1> QED
    BY <1>1, <1>2

-----------------------------------------------------------------------------
(* The invariant *)

\* What connect() makes of the strings and options.
Full == Updated(Defaults, BuildConnectKwargs(conn_str, options))

\* The keywords of a connection are those of the strings and options it was
\* made with, less the adapter's option and with the one that it decides.
KeywordsOK ==
    stage = "connected" =>
        /\ ~Broken(Full)
        /\ DOMAIN kwargs = (DOMAIN Full \ {Asked}) \cup {Owned}
        /\ \A k \in DOMAIN Full \ {Asked, Owned} : kwargs[k] = Full[k]
        /\ spans = (Asked \in DOMAIN Full /\ Truthy(Full[Asked]))

\* An adapter keeps declared options only, is asked for its id only once it is
\* there, and answers by what it keeps.
AdapterOK ==
    /\ DOMAIN options \subseteq Declared
    /\ stage = "new" => id = Unasked
    /\ id # Unasked => id = Identify(conn_str, options)
    /\ stage = "refused" =>
          Len(conn_str) > 1 \/ BuildConnectKwargs(conn_str, options) = Unreadable
    /\ stage = "raised" => BuildConnectKwargs(conn_str, options) = Malformed

\* Strings and options are some that can be given, and what the adapter decides
\* itself is of its type.
GivenOK ==
    /\ stage \in {"new", "made", "connected", "refused", "raised"}
    /\ conn_str \in Inputs \cup {<<>>}
    /\ passed \in OptionSets \cup {<<>>}
    /\ DOMAIN options \subseteq DOMAIN passed
    /\ \A k \in DOMAIN options : options[k] = passed[k]
    /\ spans \in BOOLEAN
    /\ patience.type = "int" /\ patience # Number("0")
    /\ stage # "connected" => kwargs = <<>>
    /\ stage = "connected" => kwargs[Owned].type = "bool"

OptionsInv == KeywordsOK /\ AdapterOK /\ GivenOK

\* What the adapter was given is a connection string, or nothing.
LEMMA GivenString == GivenOK => IsConnectionString(First(conn_str))
<1> SUFFICES ASSUME GivenOK
             PROVE  IsConnectionString(First(conn_str))
    OBVIOUS
<1>1. CASE conn_str = <<>>
    BY <1>1 DEF First, IsConnectionString
<1>2. CASE conn_str # <<>>
    <2>1. conn_str \in Inputs
        BY <1>2 DEF GivenOK
    <2>2. PICK S : conn_str \in Seq(S)
        BY <2>1, ConnectionOptionsAssumption
    <2>3. 1 \in DOMAIN conn_str
        BY <1>2, <2>2
    <2>4. IsConnectionString(conn_str[1])
        BY <2>1, <2>3, ConnectionOptionsAssumption
    <2> QED
        BY <1>2, <2>4 DEF First
<1> QED
    BY <1>1, <1>2

\* The options that are set can be given to the driver, if they can be read.
LEMMA ChosenFits ==
    GivenOK /\ ~Broken(Chosen(options)) =>
        \A k \in DOMAIN Chosen(options) :
            /\ k \in DOMAIN options /\ options[k] # Unset
            /\ Chosen(options)[k] = Coerce(k, options[k]) /\ Fits(k, Chosen(options)[k])
<1> SUFFICES ASSUME GivenOK, ~Broken(Chosen(options)), NEW k \in DOMAIN Chosen(options)
             PROVE  /\ k \in DOMAIN options /\ options[k] # Unset
                    /\ Chosen(options)[k] = Coerce(k, options[k])
                    /\ Fits(k, Chosen(options)[k])
    OBVIOUS
<1>1. k \in DOMAIN options /\ options[k] # Unset /\ Chosen(options)[k] = Coerce(k, options[k])
    BY DEF Chosen
<1>2. Coerce(k, options[k]) # Bad
    BY <1>1 DEF Broken
<1>3. passed \in OptionSets /\ k \in DOMAIN passed /\ options[k] = passed[k]
    <2>1. DOMAIN <<>> = {}
        OBVIOUS
    <2> QED
        BY <1>1, <2>1 DEF GivenOK
<1>4. options[k] \in [type : OptionTypes(k), of : STRING]
    BY <1>1, <1>3, ConnectionOptionsAssumption
<1>5. options[k].type \in OptionTypes(k)
    BY <1>4
<1> QED
    BY <1>1, <1>2, <1>5, OptionFits

\* The defaults need no reading.
LEMMA DefaultsFit ==
    \A k \in DOMAIN Defaults : Fits(k, Defaults[k]) /\ Coerce(k, Defaults[k]) = Defaults[k]
<1>1. /\ Endpoint["host"] = Text("localhost")
      /\ Endpoint["port"] = Number("5439")
      /\ Endpoint["database"] = Text("dev")
    BY DEF Endpoint
<1> DEFINE rest == [timeout |-> Number("30"), application_name |-> Text("harlequin")]
<1>2. /\ rest["timeout"] = Number("30") /\ rest["application_name"] = Text("harlequin")
      /\ DOMAIN rest = {"timeout", "application_name"}
    OBVIOUS
<1>3. Defaults = Updated(Endpoint, rest)
    BY DEF Defaults
<1> HIDE DEF rest
<1>4. /\ DOMAIN Defaults = DOMAIN Endpoint \cup DOMAIN rest
      /\ \A k \in DOMAIN rest : Defaults[k] = rest[k]
    <2>1. /\ DOMAIN Updated(Endpoint, rest) = DOMAIN Endpoint \cup DOMAIN rest
          /\ \A k \in DOMAIN rest : Updated(Endpoint, rest)[k] = rest[k]
          /\ \A k \in DOMAIN Endpoint \ DOMAIN rest : Updated(Endpoint, rest)[k] = Endpoint[k]
        BY Updates, Zenon
    <2> QED
        BY <1>3, <2>1
<1>5. /\ Defaults["host"] = Text("localhost")
      /\ Defaults["port"] = Number("5439")
      /\ Defaults["database"] = Text("dev")
      /\ Defaults["timeout"] = Number("30")
      /\ Defaults["application_name"] = Text("harlequin")
    BY <1>1, <1>2, <1>4, DefaultKeys
<1>6. ASSUME NEW k \in {"host", "database", "application_name"}
      PROVE  Fits(k, Defaults[k]) /\ Coerce(k, Defaults[k]) = Defaults[k]
    <2>1. Defaults[k].type = "text"
        BY <1>5, <1>6, Types
    <2>2. k \notin IntKeys \cup BoolKeys \cup ListKeys
        BY <1>6 DEF IntKeys, BoolKeys, ListKeys
    <2>3. k \notin Flags \cup Numbers \cup ManyValued
        BY <1>6, Classes
    <2> QED
        BY <2>1, <2>2, <2>3, Coerced DEF Fits
<1>7. ASSUME NEW k \in {"port", "timeout"}
      PROVE  Fits(k, Defaults[k]) /\ Coerce(k, Defaults[k]) = Defaults[k]
    <2>1. Defaults[k].type = "int"
        BY <1>5, <1>7, Types
    <2>2. k \notin Flags \cup ManyValued
        BY <1>7, Classes
    <2> QED
        BY <2>1, <2>2, Coerced DEF Fits
<1> QED
    BY <1>6, <1>7, DefaultKeys

\* What connect() makes of strings and options, layer by layer.
LEMMA Layers ==
    GivenOK /\ ~Broken(Full) =>
        \E dict :
            /\ IsUnderstood(dict, PairsOf(First(conn_str)), PartsOf(First(conn_str)))
            /\ ~Broken(Chosen(options))
            /\ DOMAIN Full = DOMAIN Defaults \cup DOMAIN dict \cup DOMAIN Chosen(options)
            /\ \A k \in DOMAIN Chosen(options) : Full[k] = Chosen(options)[k]
            /\ \A k \in DOMAIN dict \ DOMAIN Chosen(options) : Full[k] = dict[k]
            /\ \A k \in DOMAIN Defaults \ (DOMAIN dict \cup DOMAIN Chosen(options)) :
                  Full[k] = Defaults[k]
<1> SUFFICES ASSUME GivenOK, ~Broken(Full)
             PROVE  \E dict :
                       /\ IsUnderstood(dict, PairsOf(First(conn_str)), PartsOf(First(conn_str)))
                       /\ ~Broken(Chosen(options))
                       /\ DOMAIN Full = DOMAIN Defaults \cup DOMAIN dict \cup DOMAIN Chosen(options)
                       /\ \A k \in DOMAIN Chosen(options) : Full[k] = Chosen(options)[k]
                       /\ \A k \in DOMAIN dict \ DOMAIN Chosen(options) : Full[k] = dict[k]
                       /\ \A k \in DOMAIN Defaults \ (DOMAIN dict \cup DOMAIN Chosen(options)) :
                             Full[k] = Defaults[k]
    OBVIOUS
<1>1. PICK dict, chosen, built :
         /\ dict = ConnStrToDict(First(conn_str)) /\ chosen = Chosen(options)
         /\ built = BuildConnectKwargs(conn_str, options)
    OBVIOUS
<1>2. Full = Updated(Defaults, built) /\ ~Broken(built)
    BY <1>1, BrokenStays DEF Full
<1>3. ~Broken(dict) /\ ~Broken(chosen) /\ built = Updated(dict, chosen)
    <2>1. Broken(Unreadable) /\ Broken(Malformed)
        BY Exceptions
    <2> QED
        BY <1>1, <1>2, <2>1 DEF BuildConnectKwargs
<1>4. IsUnderstood(dict, PairsOf(First(conn_str)), PartsOf(First(conn_str)))
    BY <1>1, <1>3, GivenString, StringUnderstood
<1>5. /\ DOMAIN Updated(Defaults, built) = DOMAIN Defaults \cup DOMAIN built
      /\ \A k \in DOMAIN built : Updated(Defaults, built)[k] = built[k]
      /\ \A k \in DOMAIN Defaults \ DOMAIN built : Updated(Defaults, built)[k] = Defaults[k]
    BY Updates
<1>6. /\ DOMAIN Updated(dict, chosen) = DOMAIN dict \cup DOMAIN chosen
      /\ \A k \in DOMAIN chosen : Updated(dict, chosen)[k] = chosen[k]
      /\ \A k \in DOMAIN dict \ DOMAIN chosen : Updated(dict, chosen)[k] = dict[k]
    BY Updates
<1>7. /\ DOMAIN Full = DOMAIN Defaults \cup DOMAIN dict \cup DOMAIN chosen
      /\ \A k \in DOMAIN chosen : Full[k] = chosen[k]
      /\ \A k \in DOMAIN dict \ DOMAIN chosen : Full[k] = dict[k]
      /\ \A k \in DOMAIN Defaults \ (DOMAIN dict \cup DOMAIN chosen) : Full[k] = Defaults[k]
    BY <1>2, <1>3, <1>5, <1>6
<1> QED
    BY <1>1, <1>3, <1>4, <1>7

\* Everything in it can be given to the driver.
LEMMA FullFits == GivenOK /\ ~Broken(Full) => \A k \in DOMAIN Full : Fits(k, Full[k])
<1> SUFFICES ASSUME GivenOK, ~Broken(Full), NEW k \in DOMAIN Full
             PROVE  Fits(k, Full[k])
    OBVIOUS
<1>1. PICK dict :
         /\ IsUnderstood(dict, PairsOf(First(conn_str)), PartsOf(First(conn_str)))
         /\ ~Broken(Chosen(options))
         /\ DOMAIN Full = DOMAIN Defaults \cup DOMAIN dict \cup DOMAIN Chosen(options)
         /\ \A key \in DOMAIN Chosen(options) : Full[key] = Chosen(options)[key]
         /\ \A key \in DOMAIN dict \ DOMAIN Chosen(options) : Full[key] = dict[key]
         /\ \A key \in DOMAIN Defaults \ (DOMAIN dict \cup DOMAIN Chosen(options)) :
               Full[key] = Defaults[key]
    BY Layers
<1>2. CASE k \in DOMAIN Chosen(options)
    BY <1>1, <1>2, ChosenFits
<1>3. CASE k \in DOMAIN dict \ DOMAIN Chosen(options)
    BY <1>1, <1>3, StringFits
<1>4. CASE k \in DOMAIN Defaults \ (DOMAIN dict \cup DOMAIN Chosen(options))
    BY <1>1, <1>4, DefaultsFit
<1> QED
    BY <1>1, <1>2, <1>3, <1>4

\* Nothing is given, decided or asked for at first.
LEMMA OptionsInit == InitO => OptionsInv
<1> SUFFICES ASSUME InitO
             PROVE  OptionsInv
    OBVIOUS
<1>1. KeywordsOK /\ AdapterOK
    BY DEF InitO, KeywordsOK, AdapterOK
<1>2. Number("30").type = "int" /\ Number("30") # Number("0")
    <2>1. Number("30").of = "30" /\ Number("0").of = "0"
        BY Types
    <2> QED
        BY <2>1, Types
<1>3. GivenOK
    BY <1>2 DEF InitO, GivenOK
<1> QED
    BY <1>1, <1>3 DEF OptionsInv

\* The number of seconds that the pool waits is one, and not none.
LEMMA PatienceOfFull ==
    GivenOK /\ ~Broken(Full) =>
        LET seconds == IF Truthy(Full.timeout) THEN Full.timeout ELSE Defaults.timeout
        IN  seconds.type = "int" /\ seconds # Number("0")
<1> SUFFICES ASSUME GivenOK, ~Broken(Full)
             PROVE  LET seconds == IF Truthy(Full.timeout) THEN Full.timeout ELSE Defaults.timeout
                    IN  seconds.type = "int" /\ seconds # Number("0")
    OBVIOUS
<1>1. "timeout" \in DOMAIN Full
    <2>1. "timeout" \in DOMAIN Defaults
        BY DefaultKeys
    <2> QED
        BY <2>1, Layers
<1>2. Full["timeout"].type = "int"
    <2>1. "timeout" \in Numbers
        BY Classes
    <2> QED
        BY <1>1, <2>1, FullFits DEF Fits
<1>3. Truthy(Full["timeout"]) => Full["timeout"] # Number("0")
    BY DEF Truthy
<1>4. Defaults["timeout"].type = "int" /\ Defaults["timeout"] # Number("0")
    <2> DEFINE rest == [timeout |-> Number("30"), application_name |-> Text("harlequin")]
    <2>1. "timeout" \in DOMAIN rest /\ rest["timeout"] = Number("30")
        OBVIOUS
    <2> HIDE DEF rest
    <2>2. /\ DOMAIN Updated(Endpoint, rest) = DOMAIN Endpoint \cup DOMAIN rest
          /\ \A k \in DOMAIN rest : Updated(Endpoint, rest)[k] = rest[k]
          /\ \A k \in DOMAIN Endpoint \ DOMAIN rest : Updated(Endpoint, rest)[k] = Endpoint[k]
        BY Updates, Zenon
    <2>3. Defaults["timeout"] = Number("30")
        BY <2>1, <2>2 DEF Defaults, rest
    <2>4. Number("30").of = "30" /\ Number("0").of = "0" /\ Number("30").type = "int"
        BY Types
    <2> QED
        BY <2>3, <2>4
<1> QED
    BY <1>2, <1>3, <1>4

\* Every step keeps the invariant.
LEMMA OptionsStep == OptionsInv /\ [NextO]_vars => OptionsInv'
<1> SUFFICES ASSUME OptionsInv, [NextO]_vars
             PROVE  OptionsInv'
    OBVIOUS
<1>0. KeywordsOK /\ AdapterOK /\ GivenOK
    BY DEF OptionsInv
<1>1. ASSUME NEW strings \in Inputs, NEW opts \in OptionSets, Construct(strings, opts)
      PROVE  OptionsInv'
    <2>1. /\ DOMAIN options' = DOMAIN opts \cap Declared
          /\ \A k \in DOMAIN options' : options'[k] = opts[k]
        <3>1. /\ DOMAIN Restrict(opts, DOMAIN opts \cap Declared) = DOMAIN opts \cap Declared
              /\ \A k \in DOMAIN opts \cap Declared :
                    Restrict(opts, DOMAIN opts \cap Declared)[k] = opts[k]
            BY Restrictions
        <3> QED
            BY <1>1, <3>1 DEF Construct
    <2>2. KeywordsOK' /\ AdapterOK'
        BY <1>0, <1>1, <2>1 DEF Construct, KeywordsOK, AdapterOK
    <2>3. GivenOK'
        BY <1>0, <1>1, <2>1 DEF Construct, GivenOK
    <2> QED
        BY <2>2, <2>3 DEF OptionsInv
<1>2. CASE ConnectionId
    <2>1. KeywordsOK' /\ AdapterOK'
        BY <1>0, <1>2 DEF ConnectionId, KeywordsOK, AdapterOK, Full
    <2>2. GivenOK'
        BY <1>0, <1>2 DEF ConnectionId, GivenOK
    <2> QED
        BY <2>1, <2>2 DEF OptionsInv
<1>3. CASE Connect
    <2> DEFINE all == Asked \in DOMAIN Full /\ Truthy(Full[Asked])
               kept == Restrict(Full, DOMAIN Full \ {Asked})
               flag == Bool(~all)
    <2>1. /\ kwargs' = Put(kept, Owned, flag) /\ ~Broken(Full) /\ Full' = Full
          /\ spans' = all
          /\ patience' = IF Truthy(Full.timeout) THEN Full.timeout ELSE Defaults.timeout
        BY <1>3 DEF Connect, Full
    <2>2. /\ DOMAIN kept = DOMAIN Full \ {Asked}
          /\ \A k \in DOMAIN kept : kept[k] = Full[k]
        BY Restrictions
    <2>3. spans' \in BOOLEAN
        BY <2>1
    <2>4. flag.type = "bool"
        BY Types
    <2> HIDE DEF kept, all, flag
    <2>5. /\ DOMAIN kwargs' = (DOMAIN Full \ {Asked}) \cup {Owned}
          /\ \A k \in DOMAIN Full \ {Asked, Owned} : kwargs'[k] = Full[k]
        <3>1. /\ DOMAIN Put(kept, Owned, flag) = DOMAIN kept \cup {Owned}
              /\ \A k \in DOMAIN kept \ {Owned} : Put(kept, Owned, flag)[k] = kept[k]
            BY Puts
        <3> QED
            BY <2>1, <2>2, <3>1
    <2>6. /\ ~Broken(Full')
          /\ DOMAIN kwargs' = (DOMAIN Full' \ {Asked}) \cup {Owned}
          /\ \A k \in DOMAIN Full' \ {Asked, Owned} : kwargs'[k] = Full'[k]
          /\ spans' = (Asked \in DOMAIN Full' /\ Truthy(Full'[Asked]))
        BY <2>1, <2>5 DEF all
    <2>7. KeywordsOK'
        BY <2>6 DEF KeywordsOK
    <2>8. AdapterOK'
        BY <1>0, <1>3 DEF Connect, AdapterOK
    <2>9. kwargs'[Owned].type = "bool"
        <3>1. kwargs'[Owned] = flag
            BY <2>1 DEF Put, Updated
        <3> QED
            BY <2>4, <3>1
    <2>10. patience'.type = "int" /\ patience' # Number("0")
        BY <1>0, <2>1, PatienceOfFull
    <2>11. GivenOK'
        BY <1>0, <1>3, <2>3, <2>9, <2>10 DEF Connect, GivenOK
    <2> QED
        BY <2>7, <2>8, <2>11 DEF OptionsInv
<1>4. CASE Refuse
    <2>1. KeywordsOK' /\ AdapterOK'
        BY <1>0, <1>4 DEF Refuse, KeywordsOK, AdapterOK
    <2>2. GivenOK'
        BY <1>0, <1>4 DEF Refuse, GivenOK
    <2> QED
        BY <2>1, <2>2 DEF OptionsInv
<1>5. CASE ConnectRaises
    <2>1. KeywordsOK' /\ AdapterOK'
        BY <1>0, <1>5 DEF ConnectRaises, KeywordsOK, AdapterOK
    <2>2. GivenOK'
        BY <1>0, <1>5 DEF ConnectRaises, GivenOK
    <2> QED
        BY <2>1, <2>2 DEF OptionsInv
<1>6. CASE UNCHANGED vars
    BY <1>0, <1>6 DEF OptionsInv, vars, KeywordsOK, AdapterOK, GivenOK, Full
<1> QED
    BY <1>1, <1>2, <1>3, <1>4, <1>5, <1>6 DEF NextO

\* The invariant holds of every state the adapter reaches.
LEMMA OptionsInvariance == SpecO => []OptionsInv
    BY OptionsInit, OptionsStep, PTL DEF SpecO

-----------------------------------------------------------------------------
(* Properties *)

\* What the strings and options make is no exception of urlsplit()'s unless the
\* first string is malformed.
LEMMA BuildMalformed ==
    ASSUME IsConnectionString(First(conn_str)), BuildConnectKwargs(conn_str, options) = Malformed
    PROVE  First(conn_str).form = "malformed"
<1>1. PICK dict, chosen : dict = ConnStrToDict(First(conn_str)) /\ chosen = Chosen(options)
    OBVIOUS
<1>2. BuildConnectKwargs(conn_str, options) =
         IF Broken(dict) THEN dict
         ELSE IF Broken(chosen) THEN Unreadable ELSE Updated(dict, chosen)
    BY <1>1 DEF BuildConnectKwargs
<1>3. ~Broken(dict) /\ ~Broken(chosen) => ~Broken(Updated(dict, chosen))
    BY BothReadable
<1>4. dict = Malformed
    BY <1>2, <1>3, Exceptions
<1> QED
    BY <1>1, <1>4, StringMalformed

\* An id and a connection are made of the same dictionary, and so are what each of
\* them raises.
LEMMA InvNamesTheEndpoint == OptionsInv => IdNamesTheEndpoint
<1> SUFFICES ASSUME OptionsInv, id # Unasked
             PROVE  /\ stage = "connected" =>
                          id = <<kwargs.host.of, kwargs.port.of, kwargs.database.of>>
                    /\ stage = "refused" /\ Len(conn_str) <= 1 => id = <<>>
                    /\ stage = "raised" => id = Raised
                    /\ id = Raised => First(conn_str).form = "malformed"
    BY DEF IdNamesTheEndpoint
<1> DEFINE built == BuildConnectKwargs(conn_str, options)
           dict == Updated(Endpoint, built)
           named == <<dict.host.of, dict.port.of, dict.database.of>>
<1>1. id = IF built = Malformed THEN Raised ELSE IF Broken(built) THEN <<>> ELSE named
    BY DEF OptionsInv, AdapterOK, Identify
<1>2. <<>> # Raised /\ named # Raised
    <2> HIDE DEF dict
    <2>1. Len(Raised) = 1 /\ Len(named) = 3
        BY DEF Raised
    <2> HIDE DEF named
    <2> QED
        BY <2>1
<1> HIDE DEF built, named
<1>3. ASSUME stage = "connected"
      PROVE  id = <<kwargs.host.of, kwargs.port.of, kwargs.database.of>>
    <2>1. /\ ~Broken(Updated(Defaults, built))
          /\ \A k \in DOMAIN Updated(Defaults, built) \ {Asked, Owned} :
                kwargs[k] = Updated(Defaults, built)[k]
        BY <1>3 DEF OptionsInv, KeywordsOK, Full, built
    <2>2. ~Broken(built) /\ built # Malformed
        BY <2>1, BrokenStays, Exceptions
    <2>3. \A k \in DOMAIN Endpoint : kwargs[k] = dict[k]
        <3>1. DOMAIN Updated(Defaults, built) = DOMAIN Defaults \cup DOMAIN built
            BY Updates
        <3>2. \A k \in DOMAIN Endpoint :
                k \in DOMAIN Defaults /\ k # Asked /\ k # Owned
            BY DefaultKeys DEF Asked, Owned
        <3>3. \A k \in DOMAIN Endpoint : Updated(Defaults, built)[k] = dict[k]
            BY SameEndpoint
        <3> QED
            BY <2>1, <3>1, <3>2, <3>3
    <2>4. id = named
        BY <1>1, <2>2
    <2> QED
        BY <2>3, <2>4, DefaultKeys DEF named
<1>4. ASSUME stage = "refused", Len(conn_str) <= 1
      PROVE  id = <<>>
    <2>1. built = Unreadable
        <3> DEFINE many == Len(conn_str) > 1
        <3>1. ~many
            BY <1>4
        <3> QED
            BY <1>4, <3>1 DEF OptionsInv, AdapterOK, built
    <2> QED
        BY <1>1, <2>1, Exceptions
<1>5. ASSUME stage = "raised"
      PROVE  id = Raised
    BY <1>1, <1>5 DEF OptionsInv, AdapterOK, built
<1>6. ASSUME id = Raised
      PROVE  First(conn_str).form = "malformed"
    <2>1. built = Malformed
        BY <1>1, <1>2, <1>6
    <2>2. IsConnectionString(First(conn_str))
        BY GivenString DEF OptionsInv
    <2> QED
        BY <2>1, <2>2, BuildMalformed DEF built
<1> QED
    BY <1>3, <1>4, <1>5, <1>6

\* The id under which Harlequin caches a catalog names the endpoint the
\* connection is opened to, whenever it is asked for; it is None when connect()
\* is refused, and raises when connect() raises a plain ValueError, which takes a
\* malformed URL (adapter.py's connection_id, connect and __init__, _parse_url).
THEOREM IdIsTheEndpoint == SpecO => []IdNamesTheEndpoint
    BY OptionsInvariance, InvNamesTheEndpoint, PTL

\* No option that the adapter does not declare reaches the driver, nor does its
\* own all_databases (adapter.py's two __init__ methods).
THEOREM UnknownNeverReach == SpecO => []UnknownStaysOut
<1>1. OptionsInv => UnknownStaysOut
    <2> SUFFICES ASSUME OptionsInv, stage = "connected"
                 PROVE  DOMAIN kwargs \subseteq
                            (Declared \ {Asked}) \cup DOMAIN Defaults \cup {Owned}
                                \cup DOMAIN ConnStrToDict(First(conn_str))
        BY DEF UnknownStaysOut
    <2> DEFINE string == ConnStrToDict(First(conn_str))
               built == BuildConnectKwargs(conn_str, options)
    <2>1. /\ ~Broken(Updated(Defaults, built))
          /\ DOMAIN kwargs = (DOMAIN Updated(Defaults, built) \ {Asked}) \cup {Owned}
          /\ DOMAIN options \subseteq Declared
        BY DEF OptionsInv, KeywordsOK, AdapterOK, Full
    <2>2. ~Broken(built)
        BY <2>1, BrokenStays
    <2>3. Broken(Unreadable)
        BY Exceptions
    <2>4. built = Updated(string, Chosen(options))
        BY <2>2, <2>3 DEF BuildConnectKwargs
    <2>5. DOMAIN Chosen(options) \subseteq Declared
        BY <2>1 DEF Chosen
    <2> HIDE DEF string, built
    <2>6. DOMAIN Updated(Defaults, built)
             = DOMAIN Chosen(options) \cup DOMAIN string \cup DOMAIN Defaults
        <3>1. /\ DOMAIN Updated(Defaults, built) = DOMAIN Defaults \cup DOMAIN built
              /\ DOMAIN Updated(string, Chosen(options))
                    = DOMAIN string \cup DOMAIN Chosen(options)
            BY Updates
        <3> QED
            BY <2>4, <3>1
    <2> QED
        BY <2>1, <2>5, <2>6 DEF string
<1> QED
    BY <1>1, OptionsInvariance, PTL

\* A connected adapter's keywords can be given to the driver, all but one that
\* is the adapter's own and a flag.
LEMMA KeywordsFit ==
    OptionsInv /\ stage = "connected" =>
        /\ DOMAIN Defaults \cup {Owned} \subseteq DOMAIN kwargs
        /\ Asked \notin DOMAIN kwargs
        /\ kwargs[Owned].type = "bool"
        /\ \A k \in DOMAIN kwargs \ {Owned} : Fits(k, kwargs[k])
<1> SUFFICES ASSUME OptionsInv, stage = "connected"
             PROVE  /\ DOMAIN Defaults \cup {Owned} \subseteq DOMAIN kwargs
                    /\ Asked \notin DOMAIN kwargs
                    /\ kwargs[Owned].type = "bool"
                    /\ \A k \in DOMAIN kwargs \ {Owned} : Fits(k, kwargs[k])
    OBVIOUS
<1>1. /\ GivenOK /\ ~Broken(Full)
      /\ DOMAIN kwargs = (DOMAIN Full \ {Asked}) \cup {Owned}
      /\ \A k \in DOMAIN Full \ {Asked, Owned} : kwargs[k] = Full[k]
    BY DEF OptionsInv, KeywordsOK
<1>2. kwargs[Owned].type = "bool" /\ Asked # Owned
    BY <1>1 DEF GivenOK, Asked, Owned
<1>3. DOMAIN Defaults \subseteq DOMAIN Full
    BY <1>1, Layers
<1>4. Asked \notin DOMAIN Defaults
    BY DefaultKeys DEF Asked
<1>5. \A k \in DOMAIN kwargs \ {Owned} : Fits(k, kwargs[k])
    BY <1>1, <1>2, FullFits
<1> QED
    BY <1>1, <1>2, <1>3, <1>4, <1>5

\* Type correctness: whatever strings and options it is given, the adapter gives
\* the driver set and readable values only, an endpoint, a timeout and a name
\* among them, and waits for a positive number of seconds (adapter.py's two
\* __init__ methods and connect).
THEOREM OptionTypesCorrect == SpecO => []TypeOKO
<1>1. OptionsInv => TypeOKO
    <2> SUFFICES ASSUME OptionsInv
                 PROVE  TypeOKO
        OBVIOUS
    <2>1. GivenOK /\ AdapterOK
        BY DEF OptionsInv
    <2>2. id \in {Unasked, Raised} \/ Len(id) \in {0, 3}
        <3>1. CASE id # Unasked
            <4>1. PICK host, port, database :
                     id = Raised \/ id = <<>> \/ id = <<host, port, database>>
                <5>1. id = Identify(conn_str, options)
                    BY <2>1, <3>1 DEF AdapterOK
                <5>2. PICK built, dict :
                         id = IF built = Malformed THEN Raised
                              ELSE IF Broken(built) THEN <<>>
                              ELSE <<dict.host.of, dict.port.of, dict.database.of>>
                    BY <5>1, Zenon DEF Identify
                <5> QED
                    BY <5>2
            <4> QED
                BY <4>1
        <3> QED
            BY <3>1
    <2>3. \A k \in DOMAIN kwargs : kwargs[k].type \in {"text", "int", "bool", "list"}
        <3>1. CASE stage = "connected"
            BY <3>1, KeywordsFit DEF Fits
        <3>2. CASE stage # "connected"
            <4>1. kwargs = <<>> /\ DOMAIN <<>> = {}
                BY <2>1, <3>2 DEF GivenOK
            <4> QED
                BY <4>1
        <3> QED
            BY <3>1, <3>2
    <2>4. stage = "connected" => DOMAIN Defaults \cup {Owned} \subseteq DOMAIN kwargs
        BY KeywordsFit
    <2>5. /\ stage \in {"new", "made", "connected", "refused", "raised"}
          /\ conn_str \in Inputs \cup {<<>>} /\ passed \in OptionSets \cup {<<>>}
          /\ DOMAIN options \subseteq DOMAIN passed /\ spans \in BOOLEAN
          /\ patience.type = "int" /\ patience # Number("0")
        BY <2>1 DEF GivenOK
    <2> QED
        BY <2>2, <2>3, <2>4, <2>5 DEF TypeOKO
<1> QED
    BY <1>1, OptionsInvariance, PTL

\* What is declared a flag, a number or a list reaches the driver as one, whether
\* it comes from a URL, a keyword string or the options (conn_str.py's tables and
\* _coerce, cli_options.py).
THEOREM DriverGetsTypes == SpecO => []TypedForTheDriver
<1>1. OptionsInv => TypedForTheDriver
    <2> SUFFICES ASSUME OptionsInv, NEW k \in DOMAIN kwargs
                 PROVE  /\ k \in Flags => kwargs[k].type = "bool"
                        /\ k \in Numbers => kwargs[k].type = "int"
                        /\ k \in ManyValued => kwargs[k].type = "list"
        BY DEF TypedForTheDriver
    <2>1. stage = "connected"
        <3>1. DOMAIN <<>> = {}
            OBVIOUS
        <3> QED
            BY <3>1 DEF OptionsInv, GivenOK
    <2>2. CASE k = Owned
        <3>1. Owned \notin Numbers /\ Owned \notin ManyValued
            BY Classes DEF Owned
        <3> QED
            BY <2>1, <2>2, <3>1, KeywordsFit
    <2>3. CASE k # Owned
        BY <2>1, <2>3, KeywordsFit DEF Fits
    <2> QED
        BY <2>2, <2>3
<1> QED
    BY <1>1, OptionsInvariance, PTL

\* What a layer says of a keyword is what the driver gets, unless a higher layer
\* sets it.
LEMMA InvHighestLayerWins == OptionsInv => HighestLayerWins
<1> SUFFICES ASSUME OptionsInv, stage = "connected"
             PROVE  /\ \A set \in Settings :
                          \/ set.key \in {Dropped, Owned}
                          \/ Outranked(set)
                          \/ set.key = Asked /\ spans = Truthy(set.value)
                          \/ /\ set.key \in DOMAIN kwargs
                             /\ kwargs[set.key] = Coerce(set.key, set.value)
                    /\ spans => \E set \in Settings : set.key = Asked
    BY DEF HighestLayerWins
<1>1. /\ GivenOK /\ ~Broken(Full)
      /\ spans = (Asked \in DOMAIN Full /\ Truthy(Full[Asked]))
      /\ DOMAIN kwargs = (DOMAIN Full \ {Asked}) \cup {Owned}
      /\ \A k \in DOMAIN Full \ {Asked, Owned} : kwargs[k] = Full[k]
    BY DEF OptionsInv, KeywordsOK
<1>2. PICK string, pairs, parts, n :
         /\ string = First(conn_str) /\ pairs = PairsOf(string) /\ parts = PartsOf(string)
         /\ n = Len(pairs)
    OBVIOUS
<1>3. PICK chosen : chosen = Chosen(options)
    OBVIOUS
<1>4. PICK dict :
         /\ IsUnderstood(dict, pairs, parts)
         /\ DOMAIN Full = DOMAIN Defaults \cup DOMAIN dict \cup DOMAIN chosen
         /\ \A k \in DOMAIN chosen : Full[k] = chosen[k]
         /\ \A k \in DOMAIN dict \ DOMAIN chosen : Full[k] = dict[k]
         /\ \A k \in DOMAIN Defaults \ (DOMAIN dict \cup DOMAIN chosen) : Full[k] = Defaults[k]
    BY <1>1, <1>2, <1>3, Layers
<1>5. n \in Nat /\ DOMAIN pairs = 1 .. n
    BY <1>2, <1>4 DEF IsUnderstood
<1>6. /\ DOMAIN chosen = {o \in DOMAIN options : options[o] # Unset}
      /\ \A k \in DOMAIN chosen : chosen[k] = Coerce(k, options[k])
    BY <1>3 DEF Chosen
<1> DEFINE ByOption == {[key |-> k, rank |-> n + 2, value |-> options[k]] : k \in DOMAIN chosen}
           ByPart == {[key |-> k, rank |-> n + 1, value |-> parts[k]] : k \in DOMAIN parts}
           ByPair == {[key |-> Keyword(pairs[i][1]), rank |-> i, value |-> Text(pairs[i][2])] :
                        i \in 1 .. n}
           ByDefault == {[key |-> k, rank |-> 0, value |-> Defaults[k]] : k \in DOMAIN Defaults}
<1>7. Settings = ByOption \cup ByPart \cup ByPair \cup ByDefault
    <2>1. Settings =
             {[key |-> k, rank |-> n + 2, value |-> options[k]] : k \in DOMAIN chosen}
             \cup {[key |-> k, rank |-> n + 1, value |-> parts[k]] : k \in DOMAIN parts}
             \cup {[key |-> Keyword(pairs[i][1]), rank |-> i, value |-> Text(pairs[i][2])] :
                     i \in DOMAIN pairs}
             \cup {[key |-> k, rank |-> 0, value |-> Defaults[k]] : k \in DOMAIN Defaults}
        BY <1>2, <1>6 DEF Settings
    <2> QED
        BY <1>5, <2>1
<1>8. \A k \in DOMAIN chosen : \E higher \in Settings : higher.key = k /\ higher.rank = n + 2
    <2> SUFFICES ASSUME NEW k \in DOMAIN chosen
                 PROVE  \E higher \in Settings : higher.key = k /\ higher.rank = n + 2
        OBVIOUS
    <2>1. PICK set : set = [key |-> k, rank |-> n + 2, value |-> options[k]]
        OBVIOUS
    <2>2. set \in Settings
        BY <1>7, <2>1
    <2> QED
        BY <2>1, <2>2
<1>9. \A k \in DOMAIN parts : \E higher \in Settings : higher.key = k /\ higher.rank = n + 1
    <2> SUFFICES ASSUME NEW k \in DOMAIN parts
                 PROVE  \E higher \in Settings : higher.key = k /\ higher.rank = n + 1
        OBVIOUS
    <2>1. PICK set : set = [key |-> k, rank |-> n + 1, value |-> parts[k]]
        OBVIOUS
    <2>2. set \in Settings
        BY <1>7, <2>1
    <2> QED
        BY <2>1, <2>2
<1>10. \A i \in 1 .. n : \E higher \in Settings :
          higher.key = Keyword(pairs[i][1]) /\ higher.rank = i
    <2> SUFFICES ASSUME NEW i \in 1 .. n
                 PROVE  \E higher \in Settings :
                           higher.key = Keyword(pairs[i][1]) /\ higher.rank = i
        OBVIOUS
    <2>1. PICK set : set = [key |-> Keyword(pairs[i][1]), rank |-> i, value |-> Text(pairs[i][2])]
        OBVIOUS
    <2>2. set \in Settings
        BY <1>7, <2>1
    <2> QED
        BY <2>1, <2>2
<1>11. ASSUME NEW set \in Settings, set.key \notin {Dropped, Owned}, ~Outranked(set)
       PROVE  set.key \in DOMAIN Full /\ Full[set.key] = Coerce(set.key, set.value)
    <2>0. ~ \E higher \in Settings : higher.key = set.key /\ higher.rank > set.rank
        BY <1>11 DEF Outranked
    <2>1. CASE set \in ByOption
        <3>1. PICK k \in DOMAIN chosen : set.key = k /\ set.value = options[k]
            BY <2>1
        <3> QED
            BY <1>4, <1>6, <3>1
    <2>2. CASE set \in ByPart
        <3>1. PICK k \in DOMAIN parts : set.key = k /\ set.rank = n + 1 /\ set.value = parts[k]
            BY <2>2
        <3>2. k \notin DOMAIN chosen
            BY <1>5, <1>8, <2>0, <3>1
        <3>3. k \in DOMAIN dict /\ dict[k] = parts[k] /\ Coerce(k, parts[k]) = parts[k]
            BY <1>4 DEF IsUnderstood
        <3> QED
            BY <1>4, <3>1, <3>2, <3>3
    <2>3. CASE set \in ByPair
        <3>1. PICK i \in 1 .. n :
                 set.key = Keyword(pairs[i][1]) /\ set.rank = i /\ set.value = Text(pairs[i][2])
            BY <2>3
        <3>2. PICK k : k = set.key
            OBVIOUS
        <3>3. k \notin DOMAIN chosen /\ k \notin DOMAIN parts
            BY <1>5, <1>8, <1>9, <2>0, <3>1, <3>2
        <3>4. k \in DOMAIN dict \ DOMAIN parts
            BY <1>2, <1>4, <1>11, <3>1, <3>2, <3>3 DEF IsUnderstood
        <3>5. PICK last \in 1 .. n :
                 /\ Keyword(pairs[last][1]) = k /\ dict[k] = Said(pairs[last])
                 /\ \A j \in 1 .. n : Keyword(pairs[j][1]) = k => j <= last
            BY <1>2, <1>4, <3>4 DEF IsUnderstood
        <3>6. last = i
            <4>1. i <= last
                BY <3>1, <3>2, <3>5
            <4>2. ~(last > i)
                BY <1>10, <2>0, <3>1, <3>2, <3>5
            <4> QED
                BY <1>5, <4>1, <4>2
        <3>7. dict[k] = Coerce(k, set.value)
            BY <3>1, <3>2, <3>5, <3>6 DEF Said
        <3> QED
            BY <1>4, <3>2, <3>3, <3>4, <3>7
    <2>4. CASE set \in ByDefault
        <3>1. PICK k \in DOMAIN Defaults : set.key = k /\ set.rank = 0 /\ set.value = Defaults[k]
            BY <2>4
        <3>2. k \notin DOMAIN chosen /\ k \notin DOMAIN parts
            BY <1>5, <1>8, <1>9, <2>0, <3>1
        <3>3. k \notin DOMAIN dict
            <4>1. \A i \in 1 .. n : Keyword(pairs[i][1]) # k
                <5> SUFFICES ASSUME NEW i \in 1 .. n, Keyword(pairs[i][1]) = k
                             PROVE  FALSE
                    OBVIOUS
                <5>1. PICK higher \in Settings : higher.key = k /\ higher.rank = i
                    BY <1>10
                <5> QED
                    BY <1>5, <2>0, <3>1, <5>1
            <4> QED
                BY <1>2, <1>4, <3>2, <4>1 DEF IsUnderstood
        <3> QED
            BY <1>4, <3>1, <3>2, <3>3, DefaultsFit
    <2> QED
        BY <1>7, <1>11, <2>1, <2>2, <2>3, <2>4
<1>12. \A value : Coerce(Asked, value) = value
    <2>1. Asked \notin IntKeys /\ Asked \notin BoolKeys /\ Asked \notin ListKeys
        BY DEF Asked, IntKeys, BoolKeys, ListKeys
    <2> QED
        BY <2>1, Coerced
<1>13. ASSUME NEW set \in Settings, set.key \notin {Dropped, Owned}, ~Outranked(set)
       PROVE  \/ set.key = Asked /\ spans = Truthy(set.value)
              \/ set.key \in DOMAIN kwargs /\ kwargs[set.key] = Coerce(set.key, set.value)
    <2>1. set.key \in DOMAIN Full /\ Full[set.key] = Coerce(set.key, set.value)
        BY <1>11, <1>13
    <2>2. CASE set.key = Asked
        <3>1. PICK value : value = set.value
            OBVIOUS
        <3>2. Coerce(Asked, value) = value
            BY <1>12
        <3>3. Asked \in DOMAIN Full /\ Full[Asked] = value
            BY <2>1, <2>2, <3>1, <3>2
        <3> QED
            BY <1>1, <2>2, <3>1, <3>3, Zenon DEF Truthy
    <2>3. CASE set.key # Asked
        BY <1>1, <1>13, <2>1, <2>3
    <2> QED
        BY <2>2, <2>3
<1>14. ASSUME Asked \in DOMAIN Full
       PROVE  \E set \in Settings : set.key = Asked
    <2>1. Asked \in DOMAIN dict \cup DOMAIN chosen
        BY <1>4, <1>14, DefaultKeys DEF Asked
    <2>2. CASE Asked \in DOMAIN chosen
        BY <1>8, <2>2
    <2>3. CASE Asked \in DOMAIN parts
        BY <1>9, <2>3
    <2>4. CASE \E i \in 1 .. n : Keyword(pairs[i][1]) = Asked
        BY <1>10, <2>4
    <2>5. \/ Asked \in DOMAIN chosen \/ Asked \in DOMAIN parts
          \/ \E i \in 1 .. n : Keyword(pairs[i][1]) = Asked
        BY <1>2, <1>4, <2>1 DEF IsUnderstood
    <2> QED
        BY <2>2, <2>3, <2>4, <2>5
<1> QED
    BY <1>1, <1>13, <1>14

\* The driver gets of each keyword what the highest layer says that sets it,
\* however the layer spells it, and gets every keyword that is set
\* (build_connect_kwargs, _normalize, _parse_url and the adapter's __init__).
THEOREM HighestLayerAlwaysWins == SpecO => []HighestLayerWins
    BY OptionsInvariance, InvHighestLayerWins, PTL

-----------------------------------------------------------------------------
(* A URL in other words *)

\* A sequence of elements of S that holds them all.
IsListing(seq, S) ==
    \E n \in Nat : seq \in [1 .. n -> S] /\ \A x \in S : \E j \in 1 .. n : seq[j] = x

\* A finite set made into a sequence is all there.
LEMMA SetToSeqHasAll ==
    ASSUME NEW S, IsFiniteSet(S)
    PROVE  IsListing(SetToSeq(S), S)
<1>1. PICK n : n = Cardinality(S)
    OBVIOUS
<1>2. n \in Nat /\ ExistsBijection(1 .. n, S)
    BY <1>1, FS_CardinalityType
<1>3. \E f \in [1 .. n -> S] : IsInjective(f)
    <2>1. PICK f \in Bijection(1 .. n, S) : TRUE
        BY <1>2 DEF ExistsBijection
    <2> QED
        BY <2>1 DEF Bijection, Injection, IsInjective
<1>4. PICK seq : seq = SetToSeq(S)
    OBVIOUS
<1>5. seq \in [1 .. n -> S] /\ IsInjective(seq)
    BY <1>1, <1>3, <1>4 DEF SetToSeq
<1>6. seq \in Injection(1 .. n, S)
    BY <1>5 DEF Injection, IsInjective
<1>7. IsFiniteSet(1 .. n) /\ Cardinality(1 .. n) = n
    BY <1>2, FS_Interval
<1>8. seq \in Surjection(1 .. n, S)
    BY <1>1, <1>6, <1>7, FS_Injection
<1>9. \A x \in S : \E j \in 1 .. n : seq[j] = x
    BY <1>8 DEF Surjection
<1> QED
    BY <1>2, <1>4, <1>5, <1>9 DEF IsListing

\* A URL has few components.
LEMMA FewComponents ==
    ASSUME NEW url, DOMAIN url.parts \subseteq Parts
    PROVE  IsFiniteSet(DOMAIN Components(url))
<1>1. DOMAIN Components(url) \subseteq Parts
    BY Component
<1>2. IsFiniteSet(Parts)
    <2>1. IsFiniteSet({})
        BY FS_EmptySet
    <2>2. IsFiniteSet({} \cup {"host"})
        BY <2>1, FS_AddElement
    <2>3. IsFiniteSet(({} \cup {"host"}) \cup {"port"})
        BY <2>2, FS_AddElement
    <2>4. IsFiniteSet((({} \cup {"host"}) \cup {"port"}) \cup {"user"})
        BY <2>3, FS_AddElement
    <2>5. IsFiniteSet(((({} \cup {"host"}) \cup {"port"}) \cup {"user"}) \cup {"password"})
        BY <2>4, FS_AddElement
    <2>6. IsFiniteSet((((({} \cup {"host"}) \cup {"port"}) \cup {"user"}) \cup {"password"})
                         \cup {"database"})
        BY <2>5, FS_AddElement
    <2>7. (((({} \cup {"host"}) \cup {"port"}) \cup {"user"}) \cup {"password"}) \cup {"database"} = Parts
        BY DEF Parts
    <2> QED
        BY <2>6, <2>7
<1> QED
    BY <1>1, <1>2, FS_Subset

\* A component that is spelled as a pair says the same.
LEMMA SpelledAsPair ==
    ASSUME NEW url, DOMAIN url.parts \subseteq Parts, ~Broken(Components(url)),
           NEW k \in DOMAIN Components(url)
    PROVE  LET p == <<k, Components(url)[k].of>>
           IN  /\ Keyword(p[1]) = k /\ k # Dropped
               /\ Said(p) = Components(url)[k] /\ Said(p) # Bad
<1>1. k \in Parts /\ Components(url)[k] # Bad
    BY Component DEF Broken
<1>2. Keyword(k) = k
    <2>1. Via(Lower, k) = k
        BY <1>1, ConnectionOptionsAssumption
    <2>2. k \notin DOMAIN Aliases
        BY <1>1 DEF Parts, Aliases
    <2> QED
        BY <2>1, <2>2 DEF Keyword, Via
<1>3. k # Dropped
    BY <1>1 DEF Parts, Dropped
<1>4. Coerce(k, Text(Components(url)[k].of)) = Components(url)[k]
    <2>1. CASE k # "port"
        <3>1. PICK of : Components(url)[k] = Text(of)
            BY <2>1, Component
        <3>2. Text(of).of = of /\ Text(of).type = "text"
            BY Types
        <3>3. k \notin IntKeys \cup BoolKeys \cup ListKeys
            BY <1>1, <2>1, PartTypes
        <3>4. Coerce(k, Text(of)) = Text(of)
            BY <3>2, <3>3, Coerced
        <3> QED
            BY <3>1, <3>2, <3>4
    <2>2. CASE k = "port"
        <3>1. PICK text \in Ports : Components(url)[k] = Number(Numeral[text])
            BY <1>1, <2>2, Component
        <3>2. PICK m : m = Numeral[text]
            OBVIOUS
        <3>3. m \in DOMAIN Numeral /\ Numeral[m] = m
            BY <3>2, ConnectionOptionsAssumption
        <3>4. Number(m).of = m /\ Text(m).type = "text" /\ Text(m).of = m
            BY Types
        <3>5. Coerce(k, Text(m)) = Number(m)
            BY <2>2, <3>3, <3>4, Coerced, PartTypes
        <3> QED
            BY <3>1, <3>2, <3>4, <3>5
    <2> QED
        BY <2>1, <2>2
<1> QED
    BY <1>1, <1>2, <1>3, <1>4 DEF Said

\* Two dictionaries that say the same are the same.
LEMMA SameDict ==
    ASSUME NEW f, NEW g, f = [k \in DOMAIN f |-> f[k]], g = [k \in DOMAIN g |-> g[k]],
           DOMAIN f = DOMAIN g, \A k \in DOMAIN f : f[k] = g[k]
    PROVE  f = g
<1>1. [k \in DOMAIN f |-> f[k]] = [k \in DOMAIN g |-> g[k]]
    OBVIOUS
<1> QED
    BY <1>1

\* The keyword string that has the pairs of a URL's query and then its components
\* is read as the URL is.
LEMMA UrlInPairs ==
    ASSUME NEW url, url.form = "url", url.pairs \in PairLists, DOMAIN url.parts \subseteq Parts,
           ~Broken(Components(url)), NEW m \in Nat, NEW parts \in [1 .. m -> DOMAIN Components(url)],
           \A k \in DOMAIN Components(url) : \E j \in 1 .. m : parts[j] = k
    PROVE  ParseUrl(url) =
               Normalize(Queried(url) \o [j \in 1 .. m |-> <<parts[j], Components(url)[parts[j]].of>>])
<1>1. PICK C, q, tail, S :
         /\ C = Components(url) /\ q = Queried(url) /\ q \in Seq(S)
         /\ tail = [j \in 1 .. m |-> <<parts[j], Components(url)[parts[j]].of>>]
    BY QueryIsSequence
<1>2. PICK n : n = Len(q)
    OBVIOUS
<1>3. n \in Nat /\ q \in [1 .. n -> S]
    BY <1>1, <1>2
<1>4. ASSUME NEW j \in 1 .. m
      PROVE  /\ parts[j] \in DOMAIN C /\ Keyword(tail[j][1]) = parts[j] /\ parts[j] # Dropped
             /\ Said(tail[j]) = C[parts[j]] /\ Said(tail[j]) # Bad
    <2>1. PICK p : p = <<parts[j], Components(url)[parts[j]].of>>
        OBVIOUS
    <2>2. tail[j] = p
        BY <1>1, <2>1
    <2> QED
        BY <1>1, <2>1, <2>2, SpelledAsPair
<1>5. tail \in Seq(Range(tail)) /\ Len(tail) = m
    <2>1. tail = [j \in 1 .. m |-> tail[j]]
        BY <1>1
    <2>2. \A j \in 1 .. m : tail[j] \in Range(tail)
        BY <2>1 DEF Range
    <2> QED
        BY <2>1, <2>2
<1>6. PICK pairs : pairs = q \o tail
    OBVIOUS
<1>7. /\ pairs \in Seq(S \cup Range(tail)) /\ Len(pairs) = n + m
      /\ \A i \in 1 .. n : pairs[i] = q[i]
      /\ \A i \in n + 1 .. n + m : pairs[i] = tail[i - n]
    <2>1. PICK T : T = Range(tail)
        OBVIOUS
    <2>2. PICK U : U = S \cup T
        OBVIOUS
    <2>3. q \in Seq(S) /\ tail \in Seq(T) /\ S \subseteq U /\ T \subseteq U
        BY <1>1, <1>5, <2>1, <2>2
    <2>4. q \in Seq(U) /\ tail \in Seq(U)
        BY <2>3
    <2>5. /\ pairs \in Seq(U) /\ Len(pairs) = Len(q) + Len(tail)
          /\ \A i \in 1 .. Len(q) : pairs[i] = q[i]
          /\ \A i \in Len(q) + 1 .. Len(q) + Len(tail) : pairs[i] = tail[i - Len(q)]
        BY <1>6, <2>4
    <2> QED
        BY <1>2, <1>5, <2>1, <2>2, <2>5
<1>8. PICK query, dict : query = Normalize(q) /\ dict = Updated(query, C)
    OBVIOUS
<1>9. ParseUrl(url) = IF Broken(query) \/ Broken(dict) THEN Unreadable ELSE dict
    BY <1>1, <1>8 DEF ParseUrl
<1>10. PICK N : N = Normalize(pairs)
    OBVIOUS
<1>11. /\ HasBad(q, n) => query = Unreadable
       /\ ~HasBad(q, n) => ~Broken(query) /\ IsReadable(query, q, n)
    BY <1>2, <1>3, <1>8, Normalized
<1>12. /\ HasBad(pairs, n + m) => N = Unreadable
       /\ ~HasBad(pairs, n + m) => ~Broken(N) /\ IsReadable(N, pairs, n + m)
    BY <1>3, <1>7, <1>10, Normalized
<1>13. ASSUME NEW i \in 1 .. n + m
       PROVE  \/ i \in 1 .. n /\ pairs[i] = q[i]
              \/ i \notin 1 .. n /\ i - n \in 1 .. m /\ pairs[i] = tail[i - n]
    BY <1>3, <1>7
<1>14. \A i \in 1 .. n : i \in 1 .. n + m
    BY <1>3
<1>15. \A j \in 1 .. m : n + j \in 1 .. n + m /\ pairs[n + j] = tail[j] /\ n + j \notin 1 .. n
    <2> SUFFICES ASSUME NEW j \in 1 .. m
                 PROVE  n + j \in 1 .. n + m /\ pairs[n + j] = tail[j] /\ n + j \notin 1 .. n
        OBVIOUS
    <2>1. n + j \in n + 1 .. n + m /\ (n + j) - n = j
        BY <1>3
    <2> QED
        BY <1>3, <1>7, <2>1
<1>16. HasBad(pairs, n + m) <=> HasBad(q, n)
    <2>1. ASSUME HasBad(pairs, n + m)
          PROVE  HasBad(q, n)
        BY <1>4, <1>13, <2>1 DEF HasBad
    <2>2. ASSUME HasBad(q, n)
          PROVE  HasBad(pairs, n + m)
        BY <1>7, <1>14, <2>2 DEF HasBad
    <2> QED
        BY <2>1, <2>2
<1>17. CASE HasBad(q, n)
    <2>1. Broken(Unreadable) /\ Broken(Malformed)
        BY Exceptions
    <2>2. ParseUrl(url) = Unreadable
        BY <1>9, <1>11, <1>17, <2>1
    <2>3. N = Unreadable
        BY <1>12, <1>16, <1>17
    <2> QED
        BY <1>1, <1>6, <1>10, <2>2, <2>3
<1>18. CASE ~HasBad(q, n)
    <2>1. ~Broken(query) /\ IsReadable(query, q, n) /\ IsReadable(N, pairs, n + m)
        BY <1>11, <1>12, <1>16, <1>18
    <2>2. /\ DOMAIN dict = DOMAIN query \cup DOMAIN C
          /\ \A k \in DOMAIN C : dict[k] = C[k]
          /\ \A k \in DOMAIN query \ DOMAIN C : dict[k] = query[k]
        <3>1. /\ DOMAIN Updated(query, C) = DOMAIN query \cup DOMAIN C
              /\ \A k \in DOMAIN C : Updated(query, C)[k] = C[k]
              /\ \A k \in DOMAIN query \ DOMAIN C : Updated(query, C)[k] = query[k]
            BY Updates
        <3> QED
            BY <1>8, <3>1
    <2>3. dict = [k \in DOMAIN dict |-> dict[k]]
        BY <1>8 DEF Updated
    <2>4. ~Broken(dict)
        BY <1>1, <2>1, <2>2 DEF Broken
    <2>5. DOMAIN N = DOMAIN dict
        <3>1. DOMAIN N = {Keyword(pairs[i][1]) : i \in 1 .. n + m} \ {Dropped}
            BY <2>1 DEF IsReadable
        <3>2. DOMAIN query = {Keyword(q[i][1]) : i \in 1 .. n} \ {Dropped}
            BY <2>1 DEF IsReadable
        <3>3. ASSUME NEW k \in DOMAIN N
              PROVE  k \in DOMAIN dict
            <4>1. PICK i \in 1 .. n + m : k = Keyword(pairs[i][1]) /\ k # Dropped
                BY <3>1
            <4> QED
                BY <1>4, <1>13, <2>2, <3>2, <4>1
        <3>4. ASSUME NEW k \in DOMAIN query
              PROVE  k \in DOMAIN N
            <4>1. PICK i \in 1 .. n : k = Keyword(q[i][1]) /\ k # Dropped
                BY <3>2
            <4> QED
                BY <1>7, <1>14, <3>1, <4>1
        <3>5. ASSUME NEW k \in DOMAIN C
              PROVE  k \in DOMAIN N
            <4>1. PICK j \in 1 .. m : parts[j] = k
                BY <1>1
            <4>2. PICK i : i = n + j
                OBVIOUS
            <4>3. i \in 1 .. n + m /\ Keyword(pairs[i][1]) = k /\ k # Dropped
                BY <1>4, <1>15, <4>1, <4>2
            <4> QED
                BY <3>1, <4>3
        <3> QED
            BY <2>2, <3>3, <3>4, <3>5
    <2>6. ASSUME NEW k \in DOMAIN dict
          PROVE  dict[k] = N[k]
        <3>1. PICK i \in 1 .. n + m :
                 /\ Keyword(pairs[i][1]) = k /\ N[k] = Said(pairs[i])
                 /\ \A j \in 1 .. n + m : Keyword(pairs[j][1]) = k => j <= i
            BY <2>1, <2>5 DEF IsReadable
        <3>2. CASE k \in DOMAIN C
            <4>1. PICK j \in 1 .. m : parts[j] = k
                BY <1>1, <3>2
            <4>2. n + j <= i
                BY <1>4, <1>15, <3>1, <4>1
            <4>3. i \notin 1 .. n
                BY <1>3, <4>2
            <4>4. i - n \in 1 .. m /\ pairs[i] = tail[i - n]
                BY <1>13, <4>3
            <4>5. PICK t \in 1 .. m : t = i - n
                BY <4>4
            <4>6. parts[t] = k /\ Said(tail[t]) = C[k]
                BY <1>4, <3>1, <4>4, <4>5
            <4> QED
                BY <2>2, <3>1, <3>2, <4>4, <4>5, <4>6
        <3>3. CASE k \notin DOMAIN C
            <4>1. k \in DOMAIN query /\ dict[k] = query[k]
                BY <2>2, <3>3
            <4>2. i \in 1 .. n /\ pairs[i] = q[i]
                BY <1>4, <1>13, <3>1, <3>3
            <4>3. PICK last \in 1 .. n :
                     /\ Keyword(q[last][1]) = k /\ query[k] = Said(q[last])
                     /\ \A j \in 1 .. n : Keyword(q[j][1]) = k => j <= last
                BY <2>1, <4>1 DEF IsReadable
            <4>4. i <= last
                BY <3>1, <4>2, <4>3
            <4>5. last <= i
                BY <1>7, <1>14, <3>1, <4>3
            <4>6. i = last
                BY <1>3, <4>2, <4>4, <4>5
            <4> QED
                BY <3>1, <4>1, <4>2, <4>3, <4>6
        <3> QED
            BY <3>2, <3>3
    <2>7. N = [k \in DOMAIN N |-> N[k]]
        BY <2>1 DEF IsReadable
    <2>8. dict = N
        BY <2>3, <2>5, <2>6, <2>7, SameDict
    <2> QED
        BY <1>1, <1>6, <1>9, <1>10, <2>1, <2>4, <2>8
<1> QED
    BY <1>17, <1>18

\* So the spellings agree of every connection string that the adapter is given.
LEMMA InvSpelledEitherWay == OptionsInv => SpelledEitherWay
<1> SUFFICES ASSUME OptionsInv, NEW i \in DOMAIN conn_str
             PROVE  LET url == conn_str[i]
                        parts == SetToSeq(DOMAIN Components(url))
                        pairs == Queried(url)
                                 \o [j \in DOMAIN parts |-> <<parts[j], Components(url)[parts[j]].of>>]
                    IN  \/ url.form # "url" \/ Via(Lower, url.scheme) \notin Schemes
                        \/ Broken(Components(url)) \/ \E j \in DOMAIN pairs : pairs[j][2] \in Links
                        \/ ConnStrToDict(url) = ConnStrToDict([form |-> "pairs", pairs |-> pairs])
    BY DEF SpelledEitherWay
<1>1. PICK url, parts, pairs :
         /\ url = conn_str[i] /\ parts = SetToSeq(DOMAIN Components(url))
         /\ pairs = Queried(url)
                    \o [j \in DOMAIN parts |-> <<parts[j], Components(url)[parts[j]].of>>]
    OBVIOUS
<1> SUFFICES ASSUME url.form = "url", Via(Lower, url.scheme) \in Schemes,
                    ~Broken(Components(url)), ~ \E j \in DOMAIN pairs : pairs[j][2] \in Links
             PROVE  ConnStrToDict(url) = ConnStrToDict([form |-> "pairs", pairs |-> pairs])
    BY <1>1
<1>2. IsConnectionString(url)
    <2>1. DOMAIN <<>> = {}
        OBVIOUS
    <2>2. conn_str \in Inputs
        BY <2>1 DEF OptionsInv, GivenOK
    <2> QED
        BY <1>1, <2>2, ConnectionOptionsAssumption
<1>3. url.pairs \in PairLists /\ DOMAIN url.parts \subseteq Parts
    BY <1>2 DEF IsConnectionString
<1>4. ConnStrToDict(url) = ParseUrl(url)
    <2>1. url.form # "empty" /\ url.form # "words" /\ url.form \in {"url", "malformed"}
        OBVIOUS
    <2> QED
        BY <2>1, Zenon DEF ConnStrToDict
<1>5. ConnStrToDict([form |-> "pairs", pairs |-> pairs]) = Normalize(pairs)
    <2>1. PICK s : s = [form |-> "pairs", pairs |-> pairs]
        OBVIOUS
    <2>2. s.form = "pairs" /\ s.pairs = pairs
        BY <2>1
    <2>3. s.form # "empty" /\ s.form # "words" /\ s.form \notin {"url", "malformed"}
        BY <2>2
    <2>4. ConnStrToDict(s) = IF \E j \in DOMAIN s.pairs : s.pairs[j][2] \in Links
                             THEN Unreadable
                             ELSE Normalize(s.pairs)
        BY <2>2, <2>3, Zenon DEF ConnStrToDict
    <2> QED
        BY <2>1, <2>2, <2>4
<1>6. PICK m \in Nat : /\ parts \in [1 .. m -> DOMAIN Components(url)]
                       /\ \A k \in DOMAIN Components(url) : \E j \in 1 .. m : parts[j] = k
    <2>1. IsFiniteSet(DOMAIN Components(url))
        BY <1>3, FewComponents
    <2>2. IsListing(SetToSeq(DOMAIN Components(url)), DOMAIN Components(url))
        BY <2>1, SetToSeqHasAll
    <2>3. IsListing(parts, DOMAIN Components(url))
        BY <1>1, <2>2
    <2> QED
        BY <2>3 DEF IsListing
<1>7. ParseUrl(url) =
         Normalize(Queried(url) \o [j \in 1 .. m |-> <<parts[j], Components(url)[parts[j]].of>>])
    BY <1>3, <1>6, UrlInPairs
<1>8. DOMAIN parts = 1 .. m
    BY <1>6
<1> QED
    BY <1>1, <1>4, <1>5, <1>7, <1>8

\* A URL is read as the keyword string is that has the pairs of its query and
\* then its components, wherever both can spell them (conn_str.py's _parse_url,
\* _normalize and conn_str_to_dict).
THEOREM AlwaysSpelledEitherWay == SpecO => []SpelledEitherWay
    BY OptionsInvariance, InvSpelledEitherWay, PTL
=============================================================================
