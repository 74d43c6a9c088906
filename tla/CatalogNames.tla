---------------------------- MODULE CatalogNames ----------------------------
(***************************************************************************)
(* Names of catalog objects, the LIKE patterns that quoting.py writes for  *)
(* them, and what the server and the driver make of a pattern.  A name is  *)
(* a sequence of characters; the alphabet is the model's, "A" is its only  *)
(* upper-case letter.                                                      *)
(***************************************************************************)
EXTENDS Naturals, Sequences, SequencesExt

LikeEscape == "!"
Backslash == "\\"

Lower(name) == [i \in DOMAIN name |-> IF name[i] = "A" THEN "a" ELSE name[i]]

\* Does the name match the LIKE pattern?  match[i] are the places of the name
\* from where on the rest of it matches the pattern from its i-th character on.
Like(pattern, escape, name) ==
    LET Before(places) == {j \in DOMAIN name : j + 1 \in places}
        match[i \in 1 .. Len(pattern) + 1] ==
            IF i > Len(pattern) THEN {Len(name) + 1}
            ELSE IF pattern[i] = escape /\ i < Len(pattern)
            THEN {j \in Before(match[i + 2]) : name[j] = pattern[i + 1]}
            ELSE IF pattern[i] = "%"
            THEN UNION {1 .. j : j \in match[i + 1]}
            ELSE {j \in Before(match[i + 1]) : pattern[i] \in {"_", name[j]}}
    IN  1 \in match[1]

\* Slip: the term's own wildcards are not escaped.
LikeUnescaped(term) == <<"%">> \o term \o <<"%">>

\* like_contains(): the term anywhere, its wildcards taken literally.
LikeContains(term) ==
    LET Escaped(c) ==
            IF c \in {LikeEscape, "%", "_"} THEN <<LikeEscape, c>> ELSE <<c>>
    IN  <<"%">> \o FlattenSeq([i \in DOMAIN term |-> Escaped(term[i])]) \o <<"%">>

\* Reference: the term occurs in the name.
OccursIn(term, name) ==
    \E i \in 1 .. Len(name) - Len(term) + 1 :
        SubSeq(name, i, i + Len(term) - 1) = term
=============================================================================
