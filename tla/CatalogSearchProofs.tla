------------------------ MODULE CatalogSearchProofs -------------------------
(***************************************************************************)
(* Proofs about CatalogSearch.  What LIKE makes of a pattern is a          *)
(* recursive function of the place in it; the table of its values is       *)
(* compared with the term, character by character.  The tree shows the     *)
(* server because every object lies in objects that exist, and a search    *)
(* keeps its promise because what it still owes is in the tree and asked   *)
(* for by a query that is still to come.                                   *)
(***************************************************************************)
EXTENDS CatalogSearch, SequenceLayout, TLAPS

USE DEF settings

-----------------------------------------------------------------------------
(* Patterns *)

\* The pattern's i-th character is an escape for the next one.
Escapes(pattern, escape, i) == pattern[i] = escape /\ i < Len(pattern)

\* match says of each place of the name from which characters of the pattern on
\* the name matches from there on.
IsTable(match, pattern, escape, name) ==
    /\ match \in [1 .. Len(pattern) + 1 -> SUBSET (1 .. Len(name) + 1)]
    /\ match[Len(pattern) + 1] = {Len(name) + 1}
    /\ \A i \in 1 .. Len(pattern), j \in 1 .. Len(name) + 1 :
          /\ Escapes(pattern, escape, i)
             => (j \in match[i] <=> /\ j <= Len(name)
                                   /\ name[j] = pattern[i + 1]
                                   /\ j + 1 \in match[i + 2])
          /\ ~Escapes(pattern, escape, i) /\ pattern[i] = "%"
             => (j \in match[i] <=> \E k \in match[i + 1] : j <= k)
          /\ ~Escapes(pattern, escape, i) /\ pattern[i] # "%"
             => (j \in match[i] <=> /\ j <= Len(name)
                                   /\ pattern[i] \in {"_", name[j]}
                                   /\ j + 1 \in match[i + 1])

\* Like() looks its answer up in such a table.
LEMMA LikeTable ==
    ASSUME NEW S, NEW pattern \in Seq(S), NEW name \in Seq(S), NEW escape
    PROVE  \E match : /\ IsTable(match, pattern, escape, name)
                      /\ Like(pattern, escape, name) <=> 1 \in match[1]
<1> DEFINE P == Len(pattern)
           N == Len(name)
           D == 1 .. P + 1
           Before(places) == {j \in DOMAIN name : j + 1 \in places}
           Body(f, i) ==
              IF i > P THEN {N + 1}
              ELSE IF pattern[i] = escape /\ i < P
              THEN {j \in Before(f[i + 2]) : name[j] = pattern[i + 1]}
              ELSE IF pattern[i] = "%"
              THEN UNION {1 .. j : j \in f[i + 1]}
              ELSE {j \in Before(f[i + 1]) : pattern[i] \in {"_", name[j]}}
           From(f, n) == \A i \in D : i + n > P + 1 => f[i] = Body(f, i)
           T == {n \in Nat : \E f : From(f, n)}
<1>1. P \in Nat /\ N \in Nat
    OBVIOUS
<1>2. 0 \in T
    <2> HIDE DEF Body
    <2> SUFFICES From(<<>>, 0)
        OBVIOUS
    <2> QED
        BY <1>1
<1>3. ASSUME NEW f, NEW n \in Nat, From(f, n)
      PROVE  From([i \in D |-> Body(f, i)], n + 1)
    <2> DEFINE g == [i \in D |-> Body(f, i)]
    <2> SUFFICES ASSUME NEW i \in D, i + (n + 1) > P + 1
                 PROVE  g[i] = Body(g, i)
        OBVIOUS
    <2>1. CASE i > P
        BY <2>1
    <2>2. CASE i <= P
        <3>1. i + 1 \in D /\ (i + 1) + n > P + 1
            BY <1>1, <2>2
        <3>2. g[i + 1] = f[i + 1]
            BY <1>3, <3>1
        <3>3. i < P => i + 2 \in D /\ (i + 2) + n > P + 1
            BY <1>1, <2>2
        <3>4. i < P => g[i + 2] = f[i + 2]
            BY <1>3, <3>3
        <3>5. g[i] = Body(f, i)
            OBVIOUS
        <3> HIDE DEF g
        <3> QED
            BY <2>2, <3>2, <3>4, <3>5
    <2> HIDE DEF Body, g
    <2> QED
        BY <1>1, <2>1, <2>2
<1>4. ASSUME NEW n \in Nat, n \in T
      PROVE  n + 1 \in T
    <2>1. PICK f : From(f, n)
        BY <1>4
    <2> HIDE DEF From, Body
    <2>2. From([i \in D |-> Body(f, i)], n + 1)
        BY <1>3, <2>1
    <2> QED
        BY <2>2
<1>5. P + 1 \in T
    <2> HIDE DEF T
    <2> QED
        BY <1>1, <1>2, <1>4, Induction
<1>6. PICK f : From(f, P + 1)
    BY <1>5
<1> DEFINE g == [i \in D |-> Body(f, i)]
<1>7. From(g, P + 2)
    <2>1. (P + 1) + 1 = P + 2
        BY <1>1
    <2> HIDE DEF From, Body
    <2> QED
        BY <1>1, <1>3, <1>6, <2>1
<1>8. g = [i \in D |-> Body(g, i)]
    <2> HIDE DEF Body
    <2>1. \A i \in D : g[i] = Body(f, i)
        OBVIOUS
    <2>2. \A i \in D : g[i] = Body(g, i)
        <3> HIDE DEF g
        <3> QED
            BY <1>1, <1>7
    <2> QED
        BY <2>1, <2>2
<1> DEFINE match == CHOOSE match : match = [i \in D |-> Body(match, i)]
<1>9. match = [i \in D |-> Body(match, i)]
    <2>1. \E f1 : f1 = [i \in D |-> Body(f1, i)]
        BY <1>8, Zenon
    <2> HIDE DEF Body, D
    <2> QED
        BY <2>1, Zenon
<1>10. Like(pattern, escape, name) <=> 1 \in match[1]
    BY <1>1, ZenonT(60) DEF Like
<1> HIDE DEF match, Body, D
<1>11. ASSUME NEW i \in D
       PROVE  match[i] = Body(match, i)
    BY <1>9
<1>12. match[P + 1] = {N + 1}
    <2>1. P + 1 \in D /\ P + 1 > P
        BY <1>1 DEF D
    <2>2. match[P + 1] = Body(match, P + 1)
        BY <1>11, <2>1
    <2> QED
        BY <2>1, <2>2 DEF Body
<1>13. ASSUME NEW i \in 1 .. P
       PROVE  match[i] = IF pattern[i] = escape /\ i < P
                         THEN {j \in Before(match[i + 2]) : name[j] = pattern[i + 1]}
                         ELSE IF pattern[i] = "%"
                         THEN UNION {1 .. j : j \in match[i + 1]}
                         ELSE {j \in Before(match[i + 1]) : pattern[i] \in {"_", name[j]}}
    <2>1. i \in D /\ ~(i > P)
        BY <1>1 DEF D
    <2> QED
        BY <1>11, <2>1 DEF Body
<1> DEFINE Typed == {n \in Nat : \A i \in D : i + n > P + 1 => match[i] \subseteq 1 .. N + 1}
<1>14. 0 \in Typed
    BY <1>1 DEF D
<1>15. ASSUME NEW n \in Nat, n \in Typed
       PROVE  n + 1 \in Typed
    <2> SUFFICES ASSUME NEW i \in D, i + (n + 1) > P + 1
                 PROVE  match[i] \subseteq 1 .. N + 1
        OBVIOUS
    <2>1. CASE i = P + 1
        BY <1>1, <1>12, <2>1
    <2>2. CASE i \in 1 .. P
        <3>1. \A places : Before(places) \subseteq 1 .. N + 1
            BY <1>1
        <3>2. match[i + 1] \subseteq 1 .. N + 1
            BY <1>1, <1>15, <2>2 DEF D
        <3>3. UNION {1 .. j : j \in match[i + 1]} \subseteq 1 .. N + 1
            BY <1>1, <3>2
        <3> HIDE DEF Before
        <3> QED
            BY <1>13, <2>2, <3>1, <3>3
    <2> QED
        BY <1>1, <2>1, <2>2 DEF D
<1>16. match \in [D -> SUBSET (1 .. N + 1)]
    <2>1. P + 1 \in Typed
        <3> HIDE DEF Typed
        <3> QED
            BY <1>1, <1>14, <1>15, Induction
    <2>2. \A i \in D : match[i] \subseteq 1 .. N + 1
        BY <1>1, <2>1 DEF D
    <2> QED
        BY <1>9, <2>2
<1> DEFINE Escaping(i) == pattern[i] = escape /\ i < P
<1>17. ASSUME NEW i \in 1 .. P, NEW j \in 1 .. N + 1
       PROVE  /\ Escaping(i) => (j \in match[i] <=> /\ j <= N
                                                   /\ name[j] = pattern[i + 1]
                                                   /\ j + 1 \in match[i + 2])
              /\ ~Escaping(i) /\ pattern[i] = "%"
                 => (j \in match[i] <=> \E k \in match[i + 1] : j <= k)
              /\ ~Escaping(i) /\ pattern[i] # "%"
                 => (j \in match[i] <=> /\ j <= N
                                       /\ pattern[i] \in {"_", name[j]}
                                       /\ j + 1 \in match[i + 1])
    <2>0. DOMAIN name = 1 .. N
        OBVIOUS
    <2>1. CASE Escaping(i)
        <3>1. match[i] = {k \in Before(match[i + 2]) : name[k] = pattern[i + 1]}
            BY <1>13, <2>1
        <3>2. j \in match[i] <=> j \in 1 .. N /\ j + 1 \in match[i + 2] /\ name[j] = pattern[i + 1]
            BY <2>0, <3>1
        <3>3. j \in 1 .. N <=> j <= N
            BY <1>1
        <3> QED
            BY <2>1, <3>2, <3>3, Zenon
    <2>2. CASE ~Escaping(i) /\ pattern[i] = "%"
        <3>1. match[i] = UNION {1 .. k : k \in match[i + 1]}
            BY <1>13, <2>2
        <3>2. match[i + 1] \subseteq 1 .. N + 1
            <4>1. PICK after : after = i + 1
                OBVIOUS
            <4>2. after \in D
                BY <1>1, <4>1 DEF D
            <4>3. match[after] \in SUBSET (1 .. N + 1)
                BY <1>16, <4>2
            <4> QED
                BY <4>1, <4>3
        <3>3. j \in match[i] <=> \E k \in match[i + 1] : j \in 1 .. k
            BY <3>1, Zenon
        <3> QED
            BY <1>1, <2>2, <3>2, <3>3
    <2>3. CASE ~Escaping(i) /\ pattern[i] # "%"
        <3>1. match[i] = {k \in Before(match[i + 1]) : pattern[i] \in {"_", name[k]}}
            BY <1>13, <2>3
        <3>2. j \in match[i] <=> j \in 1 .. N /\ j + 1 \in match[i + 1] /\ pattern[i] \in {"_", name[j]}
            BY <2>0, <3>1
        <3>3. j \in 1 .. N <=> j <= N
            BY <1>1
        <3> QED
            BY <2>3, <3>2, <3>3, Zenon
    <2> QED
        BY <2>1, <2>2, <2>3
<1>18. IsTable(match, pattern, escape, name)
    BY <1>12, <1>16, <1>17 DEF IsTable, Escapes, D
<1> QED
    BY <1>10, <1>18

\* A name without escapes is a pattern that the name matches: the rows that the
\* SHOW path asks for are among those it gets.
LEMMA LikeItself ==
    ASSUME NEW S, NEW name \in Seq(S), NEW escape,
           \A i \in 1 .. Len(name) : name[i] # escape
    PROVE  Like(name, escape, name)
<1> DEFINE N == Len(name)
<1>1. PICK match : IsTable(match, name, escape, name) /\ (Like(name, escape, name) <=> 1 \in match[1])
    BY LikeTable
<1>2. N \in Nat
    OBVIOUS
<1>3. match[N + 1] = {N + 1}
    BY <1>1 DEF IsTable
<1>4. ASSUME NEW i \in 1 .. N, i + 1 \in match[i + 1]
      PROVE  i \in match[i]
    <2>1. i \in 1 .. N + 1 /\ i <= i + 1 /\ i <= N /\ ~Escapes(name, escape, i)
        BY <1>2 DEF Escapes
    <2>2. CASE name[i] = "%"
        BY <1>1, <1>4, <2>1, <2>2 DEF IsTable
    <2>3. CASE name[i] # "%"
        BY <1>1, <1>4, <2>1, <2>3 DEF IsTable
    <2> QED
        BY <2>2, <2>3
<1> DEFINE T == {n \in Nat : n <= N => N + 1 - n \in match[N + 1 - n]}
<1>5. 0 \in T
    <2>1. N + 1 - 0 = N + 1
        BY <1>2
    <2> QED
        BY <1>3, <2>1
<1>6. ASSUME NEW n \in Nat, n \in T
      PROVE  n + 1 \in T
    <2> SUFFICES ASSUME n + 1 <= N
                 PROVE  N + 1 - (n + 1) \in match[N + 1 - (n + 1)]
        OBVIOUS
    <2>1. PICK i : i = N + 1 - (n + 1) /\ i + 1 = N + 1 - n /\ i \in 1 .. N
        BY <1>2
    <2>2. i + 1 \in match[i + 1]
        BY <1>2, <1>6, <2>1
    <2> QED
        BY <1>4, <2>1, <2>2
<1>7. N \in T
    <2> HIDE DEF T
    <2> QED
        BY <1>2, <1>5, <1>6, Induction
<1>8. 1 \in match[1]
    <2>1. N + 1 - N = 1
        BY <1>2
    <2> QED
        BY <1>2, <1>7, <2>1
<1> QED
    BY <1>1, <1>8

\* What like_contains() makes of a character.
Escaped(c) == IF c \in {LikeEscape, "%", "_"} THEN <<LikeEscape, c>> ELSE <<c>>

\* The characters that patterns are written with are among these.
HasWildcards(chars) == \A c \in {LikeEscape, "%", "_"} : c \in chars

\* Where the characters of a term are in its pattern: the k-th of them begins at
\* at[k], and the closing "%" is at the end.
LEMMA LikeContainsLayout ==
    ASSUME NEW S, HasWildcards(S), NEW t \in Seq(S)
    PROVE  /\ LikeContains(t) \in Seq(S)
           /\ \E at \in [1 .. Len(t) + 1 -> Nat] :
                 /\ at[1] = 2
                 /\ LikeContains(t)[1] = "%"
                 /\ Len(LikeContains(t)) = at[Len(t) + 1]
                 /\ LikeContains(t)[at[Len(t) + 1]] = "%"
                 /\ \A k \in 1 .. Len(t) :
                       /\ at[k] > 1 /\ at[k] < at[k + 1] /\ at[k + 1] <= Len(LikeContains(t))
                       /\ t[k] \in {LikeEscape, "%", "_"}
                          => /\ at[k + 1] = at[k] + 2
                             /\ LikeContains(t)[at[k]] = LikeEscape
                             /\ LikeContains(t)[at[k] + 1] = t[k]
                       /\ t[k] \notin {LikeEscape, "%", "_"}
                          => /\ at[k + 1] = at[k] + 1
                             /\ LikeContains(t)[at[k]] = t[k]
<1> DEFINE n == Len(t)
           D == 1 .. n
           pieces == [i \in D |-> Escaped(t[i])]
<1>1. n \in Nat /\ DOMAIN t = D /\ \A k \in D : t[k] \in S
    OBVIOUS
<1>2. ASSUME NEW c \in S
      PROVE  Escaped(c) \in Seq(S)
    <2>1. PICK e : e = LikeEscape /\ e \in S
        BY DEF HasWildcards
    <2>2. <<e, c>> \in Seq(S) /\ <<c>> \in Seq(S)
        BY <2>1
    <2> QED
        BY <2>1, <2>2 DEF Escaped
<1>3. pieces \in Seq(Seq(S)) /\ Len(pieces) = n /\ \A k \in D : pieces[k] = Escaped(t[k])
    <2>1. \A k \in D : pieces[k] = Escaped(t[k]) /\ pieces[k] \in Seq(S)
        BY <1>1, <1>2
    <2>2. pieces = [k \in D |-> pieces[k]]
        OBVIOUS
    <2> HIDE DEF n, pieces
    <2> QED
        BY <1>1, <2>1, <2>2
<1> HIDE DEF pieces
<1>4. PICK gap : FlattenSeq(pieces) \in Seq(S) /\ IsLayout(gap, pieces, FlattenSeq(pieces))
    BY <1>3, FlattenSeqLayout
<1> DEFINE pattern == LikeContains(t)
<1>5. pattern = <<"%">> \o FlattenSeq(pieces) \o <<"%">>
    <2>1. \A c : Escaped(c) = IF c \in {LikeEscape, "%", "_"} THEN <<LikeEscape, c>> ELSE <<c>>
        BY DEF Escaped
    <2> QED
        BY <1>1, <2>1, Zenon DEF LikeContains, Escaped, pieces
<1> DEFINE P == Len(FlattenSeq(pieces)) + 2
<1>6. /\ P \in Nat
      /\ pattern \in Seq(S)
      /\ Len(pattern) = P
      /\ pattern[1] = "%"
      /\ pattern[P] = "%"
      /\ \A x \in 1 .. Len(FlattenSeq(pieces)) : pattern[x + 1] = FlattenSeq(pieces)[x]
    <2>1. PICK flat, wild : flat = FlattenSeq(pieces) /\ wild = "%" /\ wild \in S /\ flat \in Seq(S)
        BY <1>4 DEF HasWildcards
    <2>2. pattern = <<wild>> \o flat \o <<wild>>
        BY <1>5, <2>1
    <2>3. /\ <<wild>> \in Seq(S) /\ Len(<<wild>>) = 1 /\ <<wild>>[1] = wild
        BY <2>1
    <2> HIDE DEF pattern
    <2> DEFINE front == <<wild>> \o flat
    <2>4. /\ front \in Seq(S)
          /\ Len(front) = Len(flat) + 1
          /\ front[1] = wild
          /\ \A x \in 1 .. Len(flat) : front[x + 1] = flat[x]
        BY <2>1, <2>3
    <2> HIDE DEF front
    <2>5. /\ pattern \in Seq(S)
          /\ Len(pattern) = Len(flat) + 2
          /\ pattern[Len(flat) + 2] = wild
          /\ \A x \in 1 .. Len(flat) + 1 : pattern[x] = front[x]
        <3>1. pattern = front \o <<wild>>
            BY <2>2 DEF front
        <3> QED
            BY <2>1, <2>3, <2>4, <3>1
    <2>6. Len(flat) \in Nat
        BY <2>1
    <2>7. pattern[1] = wild /\ \A x \in 1 .. Len(flat) : pattern[x + 1] = flat[x]
        BY <2>4, <2>5, <2>6
    <2> QED
        BY <2>1, <2>5, <2>6, <2>7
<1> HIDE DEF pattern
<1>7. PICK at : at = [k \in 1 .. n + 1 |-> gap[k] + 2]
    OBVIOUS
<1>8. /\ gap \in [1 .. n + 1 -> Nat]
      /\ gap[1] = 0
      /\ gap[n + 1] = Len(FlattenSeq(pieces))
    BY <1>3, <1>4 DEF IsLayout
<1>9. /\ at \in [1 .. n + 1 -> Nat]
      /\ at[1] = 2
      /\ at[n + 1] = P
    BY <1>1, <1>6, <1>7, <1>8
<1>10. ASSUME NEW k \in D
       PROVE  /\ at[k] > 1 /\ at[k] < at[k + 1] /\ at[k + 1] <= P
              /\ t[k] \in {LikeEscape, "%", "_"}
                 => /\ at[k + 1] = at[k] + 2
                    /\ pattern[at[k]] = LikeEscape
                    /\ pattern[at[k] + 1] = t[k]
              /\ t[k] \notin {LikeEscape, "%", "_"}
                 => /\ at[k + 1] = at[k] + 1
                    /\ pattern[at[k]] = t[k]
    <2>1. /\ gap[k + 1] = gap[k] + Len(pieces[k])
          /\ gap[k + 1] <= Len(FlattenSeq(pieces))
          /\ \A i \in 1 .. Len(pieces[k]) : FlattenSeq(pieces)[gap[k] + i] = pieces[k][i]
        BY <1>3, <1>4 DEF IsLayout
    <2>0. /\ Len(FlattenSeq(pieces)) \in Nat /\ P = Len(FlattenSeq(pieces)) + 2
          /\ gap[k + 1] = gap[k] + Len(pieces[k])
          /\ gap[k + 1] <= Len(FlattenSeq(pieces))
        <3>1. FlattenSeq(pieces) \in Seq(S)
            BY <1>4, Zenon
        <3>2. Len(FlattenSeq(pieces)) \in Nat
            BY <3>1, LenProperties, Zenon
        <3> QED
            BY <2>1, <3>2, Zenon
    <2>2. /\ k \in 1 .. n + 1 /\ k + 1 \in 1 .. n + 1
          /\ at[k] = gap[k] + 2 /\ at[k + 1] = gap[k + 1] + 2
          /\ gap[k] \in Nat /\ gap[k + 1] \in Nat
        <3>1. k \in 1 .. n + 1 /\ k + 1 \in 1 .. n + 1
            BY <1>1
        <3> HIDE DEF n
        <3> QED
            BY <1>7, <1>8, <3>1
    <2>3. CASE t[k] \in {LikeEscape, "%", "_"}
        <3>1. pieces[k] = <<LikeEscape, t[k]>>
            BY <1>3, <2>3 DEF Escaped
        <3>2. Len(pieces[k]) = 2 /\ pieces[k][1] = LikeEscape /\ pieces[k][2] = t[k]
            BY <3>1
        <3>3. /\ gap[k] + 1 \in 1 .. Len(FlattenSeq(pieces))
              /\ gap[k] + 2 \in 1 .. Len(FlattenSeq(pieces))
            <4>1. Len(pieces[k]) = 2
                BY <3>2, Zenon
            <4>2. PICK g, f : g = gap[k] /\ f = Len(FlattenSeq(pieces))
                OBVIOUS
            <4>3. g \in Nat /\ f \in Nat /\ g + 2 <= f
                BY <2>0, <2>2, <4>1, <4>2
            <4> QED
                BY <4>2, <4>3
        <3>4. /\ FlattenSeq(pieces)[gap[k] + 1] = LikeEscape
              /\ FlattenSeq(pieces)[gap[k] + 2] = t[k]
            BY <2>1, <3>2
        <3>5. /\ pattern[(gap[k] + 1) + 1] = LikeEscape
              /\ pattern[(gap[k] + 2) + 1] = t[k]
            BY <1>6, <3>3, <3>4
        <3>6. (gap[k] + 1) + 1 = at[k] /\ (gap[k] + 2) + 1 = at[k] + 1
            BY <2>2
        <3>7. pattern[at[k]] = LikeEscape /\ pattern[at[k] + 1] = t[k]
            BY <3>5, <3>6
        <3>8. /\ at[k] > 1 /\ at[k] < at[k + 1] /\ at[k + 1] <= P
              /\ at[k + 1] = at[k] + 2
            <4>1. Len(pieces[k]) = 2
                BY <3>2, Zenon
            <4>2. PICK a, b, g, h, f :
                     /\ a = at[k] /\ b = at[k + 1] /\ g = gap[k] /\ h = gap[k + 1]
                     /\ f = Len(FlattenSeq(pieces))
                OBVIOUS
            <4>3. /\ g \in Nat /\ h \in Nat /\ f \in Nat
                  /\ a = g + 2 /\ b = h + 2 /\ P = f + 2 /\ h = g + 2 /\ h <= f
                BY <2>0, <2>2, <4>1, <4>2, Zenon
            <4>4. a > 1 /\ a < b /\ b <= P /\ b = a + 2
                BY <4>3
            <4> QED
                BY <4>2, <4>4, Zenon
        <3> QED
            BY <2>3, <3>7, <3>8, Zenon
    <2>4. CASE t[k] \notin {LikeEscape, "%", "_"}
        <3>1. pieces[k] = <<t[k]>>
            BY <1>3, <2>4 DEF Escaped
        <3>2. Len(pieces[k]) = 1 /\ pieces[k][1] = t[k]
            BY <3>1
        <3>3. gap[k] + 1 \in 1 .. Len(FlattenSeq(pieces))
            <4>1. Len(pieces[k]) = 1
                BY <3>2, Zenon
            <4>2. PICK g, f : g = gap[k] /\ f = Len(FlattenSeq(pieces))
                OBVIOUS
            <4>3. g \in Nat /\ f \in Nat /\ g + 1 <= f
                BY <2>0, <2>2, <4>1, <4>2
            <4> QED
                BY <4>2, <4>3
        <3>4. FlattenSeq(pieces)[gap[k] + 1] = t[k]
            BY <2>1, <3>2
        <3>5. pattern[(gap[k] + 1) + 1] = t[k]
            BY <1>6, <3>3, <3>4
        <3>6. (gap[k] + 1) + 1 = at[k]
            BY <2>2
        <3>7. pattern[at[k]] = t[k]
            BY <3>5, <3>6
        <3>8. /\ at[k] > 1 /\ at[k] < at[k + 1] /\ at[k + 1] <= P
              /\ at[k + 1] = at[k] + 1
            <4>1. Len(pieces[k]) = 1
                BY <3>2, Zenon
            <4>2. PICK a, b, g, h, f :
                     /\ a = at[k] /\ b = at[k + 1] /\ g = gap[k] /\ h = gap[k + 1]
                     /\ f = Len(FlattenSeq(pieces))
                OBVIOUS
            <4>3. /\ g \in Nat /\ h \in Nat /\ f \in Nat
                  /\ a = g + 2 /\ b = h + 2 /\ P = f + 2 /\ h = g + 1 /\ h <= f
                BY <2>0, <2>2, <4>1, <4>2, Zenon
            <4>4. a > 1 /\ a < b /\ b <= P /\ b = a + 1
                BY <4>3
            <4> QED
                BY <4>2, <4>4, Zenon
        <3> QED
            BY <2>4, <3>7, <3>8, Zenon
    <2> QED
        BY <2>3, <2>4
<1> QED
    BY <1>6, <1>9, <1>10 DEF pattern

\* The rest of the term t from its k-th character on is in the name from its j-th
\* character on.
Continues(t, k, name, j) ==
    /\ j + (Len(t) + 1 - k) <= Len(name) + 1
    /\ \A x \in k .. Len(t) : name[j + (x - k)] = t[x]

\* OccursIn() says so of some place and the whole term.
LEMMA OccursSomewhere ==
    ASSUME NEW S, NEW t \in Seq(S), NEW name \in Seq(S)
    PROVE  OccursIn(t, name) <=> \E j \in 1 .. Len(name) + 1 : Continues(t, 1, name, j)
<1> DEFINE n == Len(t)
           N == Len(name)
<1>1. n \in Nat /\ N \in Nat /\ (\A i \in 1 .. N : name[i] \in S)
    OBVIOUS
<1>2. ASSUME NEW i \in 1 .. N - n + 1
      PROVE  SubSeq(name, i, i + n - 1) = t <=> \A x \in 1 .. n : name[i + (x - 1)] = t[x]
    <2>1. PICK sub : sub = SubSeq(name, i, i + n - 1)
        OBVIOUS
    <2>2. /\ i \in Int /\ i + n - 1 \in Int
          /\ \A x \in i .. i + n - 1 : name[x] \in S
        BY <1>1
    <2>3. /\ sub \in Seq(S)
          /\ Len(sub) = IF i <= i + n - 1 THEN i + n - 1 - i + 1 ELSE 0
          /\ \A x \in 1 .. i + n - 1 - i + 1 : sub[x] = name[i + x - 1]
        BY <2>1, <2>2, SubSeqProperties
    <2>4. Len(sub) = n /\ \A x \in 1 .. n : sub[x] = name[i + (x - 1)]
        BY <1>1, <2>3
    <2>5. sub = t <=> \A x \in 1 .. n : sub[x] = t[x]
        BY <1>1, <2>3, <2>4, SeqEqual
    <2> QED
        BY <2>1, <2>4, <2>5
<1>3. ASSUME NEW j \in 1 .. N + 1
      PROVE  Continues(t, 1, name, j) <=> /\ j \in 1 .. N - n + 1
                                          /\ \A x \in 1 .. n : name[j + (x - 1)] = t[x]
    <2>1. j + (n + 1 - 1) <= N + 1 <=> j \in 1 .. N - n + 1
        BY <1>1
    <2> QED
        BY <2>1, Zenon DEF Continues
<1>4. OccursIn(t, name) <=> \E i \in 1 .. N - n + 1 : SubSeq(name, i, i + n - 1) = t
    BY DEF OccursIn
<1>5. \A i \in 1 .. N - n + 1 : i \in 1 .. N + 1
    BY <1>1
<1> HIDE DEF n, N
<1>6. ASSUME NEW i \in 1 .. N - n + 1
      PROVE  SubSeq(name, i, i + n - 1) = t <=> i \in 1 .. N + 1 /\ Continues(t, 1, name, i)
    BY <1>2, <1>3, <1>5
<1>7. ASSUME OccursIn(t, name)
      PROVE  \E j \in 1 .. N + 1 : Continues(t, 1, name, j)
    BY <1>4, <1>6, <1>7
<1>8. ASSUME NEW j \in 1 .. N + 1, Continues(t, 1, name, j)
      PROVE  OccursIn(t, name)
    <2>1. j \in 1 .. N - n + 1
        BY <1>3, <1>8
    <2>2. SubSeq(name, j, j + n - 1) = t
        BY <1>6, <1>8, <2>1
    <2> QED
        BY <1>4, <2>1, <2>2
<1> QED
    BY <1>7, <1>8 DEF N

\* like_contains() keeps what it promises: a name matches the pattern of a term
\* exactly when the term occurs in it, whatever characters the two are made of.
THEOREM LikeContainsIsOccursIn ==
    ASSUME NEW S, HasWildcards(S), NEW t \in Seq(S), NEW name \in Seq(S)
    PROVE  Like(LikeContains(t), LikeEscape, name) <=> OccursIn(t, name)
<1> DEFINE n == Len(t)
           N == Len(name)
           pattern == LikeContains(t)
           P == Len(pattern)
<1>1. pattern \in Seq(S)
    BY LikeContainsLayout
<1>2. PICK at \in [1 .. n + 1 -> Nat] :
         /\ at[1] = 2
         /\ pattern[1] = "%"
         /\ P = at[n + 1]
         /\ pattern[at[n + 1]] = "%"
         /\ \A k \in 1 .. n :
               /\ at[k] > 1 /\ at[k] < at[k + 1] /\ at[k + 1] <= P
               /\ t[k] \in {LikeEscape, "%", "_"}
                  => /\ at[k + 1] = at[k] + 2
                     /\ pattern[at[k]] = LikeEscape
                     /\ pattern[at[k] + 1] = t[k]
               /\ t[k] \notin {LikeEscape, "%", "_"}
                  => /\ at[k + 1] = at[k] + 1
                     /\ pattern[at[k]] = t[k]
    BY LikeContainsLayout
<1> HIDE DEF pattern
<1>3. PICK match : /\ IsTable(match, pattern, LikeEscape, name)
                   /\ Like(pattern, LikeEscape, name) <=> 1 \in match[1]
    BY <1>1, LikeTable
<1>4. n \in Nat /\ N \in Nat /\ P \in Nat /\ P >= 2
    <2>1. n \in Nat /\ N \in Nat /\ P \in Nat
        BY <1>1
    <2> HIDE DEF n, N, P
    <2>2. CASE n = 0
        BY <1>2, <2>1, <2>2
    <2>3. CASE n # 0
        <3>1. n \in 1 .. n
            BY <2>1, <2>3
        <3>2. n \in 1 .. n + 1 /\ n + 1 \in 1 .. n + 1
            BY <2>1, <2>3
        <3>3. at[n] > 1 /\ at[n] < at[n + 1]
            BY <1>2, <3>1
        <3>4. at[n] \in Nat /\ P = at[n + 1]
            BY <1>2, <3>2
        <3>5. P >= 2
            BY <2>1, <3>3, <3>4
        <3> QED
            BY <2>1, <3>5
    <2> QED
        BY <2>1, <2>2, <2>3
\* One character of the term after the other.
<1>5. ASSUME NEW k \in 1 .. n, NEW j \in 1 .. N + 1
      PROVE  j \in match[at[k]] <=> j <= N /\ name[j] = t[k] /\ j + 1 \in match[at[k + 1]]
    <2>1. at[k] \in 1 .. P /\ at[k] < P
        <3>1. k \in 1 .. n + 1 /\ k + 1 \in 1 .. n + 1
            BY <1>4
        <3> HIDE DEF n, N, P
        <3>2. at[k] \in Nat /\ at[k + 1] \in Nat
            BY <1>2, <3>1
        <3>3. at[k] > 1 /\ at[k] < at[k + 1] /\ at[k + 1] <= P
            BY <1>2
        <3> QED
            BY <1>4, <3>2, <3>3
    <2>2. CASE t[k] \in {LikeEscape, "%", "_"}
        <3>1. Escapes(pattern, LikeEscape, at[k])
            BY <1>2, <2>1, <2>2 DEF Escapes
        <3>2. j \in match[at[k]] <=> /\ j <= N
                                    /\ name[j] = pattern[at[k] + 1]
                                    /\ j + 1 \in match[at[k] + 2]
            BY <1>3, <2>1, <3>1 DEF IsTable
        <3> QED
            BY <1>2, <2>2, <3>2
    <2>3. CASE t[k] \notin {LikeEscape, "%", "_"}
        <3>1. ~Escapes(pattern, LikeEscape, at[k]) /\ pattern[at[k]] = t[k] /\ t[k] # "%"
            BY <1>2, <2>3 DEF Escapes
        <3>2. j \in match[at[k]] <=> /\ j <= N
                                    /\ t[k] \in {"_", name[j]}
                                    /\ j + 1 \in match[at[k] + 1]
            BY <1>3, <2>1, <3>1 DEF IsTable
        <3> QED
            BY <1>2, <2>3, <3>2
    <2> QED
        BY <2>2, <2>3
\* The last of them is followed by anything.
<1>6. ASSUME NEW j \in 1 .. N + 1
      PROVE  j \in match[at[n + 1]]
    <2>1. ~Escapes(pattern, LikeEscape, P) /\ P \in 1 .. P
        BY <1>4 DEF Escapes
    <2>2. match[P + 1] = {N + 1}
        BY <1>3 DEF IsTable
    <2> HIDE DEF n, N, P
    <2>3. pattern[P] = "%"
        BY <1>2
    <2>4. j \in match[P] <=> \E k \in match[P + 1] : j <= k
        BY <1>3, <2>1, <2>3 DEF IsTable, P, N
    <2>5. j <= N + 1
        BY <1>4
    <2>6. j \in match[P]
        BY <2>2, <2>4, <2>5
    <2> QED
        BY <1>2, <2>6
<1> DEFINE Fits(k) == \A j \in 1 .. N + 1 : j \in match[at[k]] <=> Continues(t, k, name, j)
           T == {m \in Nat : m <= n => Fits(n + 1 - m)}
<1>7. Fits(n + 1)
    BY <1>4, <1>6 DEF Continues
<1>8. ASSUME NEW k \in 1 .. n, Fits(k + 1)
      PROVE  Fits(k)
    <2> SUFFICES ASSUME NEW j \in 1 .. N + 1
                 PROVE  j \in match[at[k]] <=> Continues(t, k, name, j)
        OBVIOUS
    <2>1. CASE j <= N
        <3>1. j + 1 \in 1 .. N + 1
            BY <1>4, <2>1
        <3>2. j + 1 \in match[at[k + 1]] <=> Continues(t, k + 1, name, j + 1)
            BY <1>8, <3>1
        <3>3. Continues(t, k, name, j) <=> name[j] = t[k] /\ Continues(t, k + 1, name, j + 1)
            <4>1. j + (n + 1 - k) <= N + 1 <=> (j + 1) + (n + 1 - (k + 1)) <= N + 1
                BY <1>4
            <4>2. \A x \in k .. n : x = k \/ x \in k + 1 .. n
                BY <1>4
            <4>3. k \in k .. n /\ j + (k - k) = j /\ \A x \in k + 1 .. n : x \in k .. n
                BY <1>4
            <4>4. \A x \in k + 1 .. n : (j + 1) + (x - (k + 1)) = j + (x - k)
                BY <1>4
            <4> HIDE DEF n, N
            <4>5. (\A x \in k .. n : name[j + (x - k)] = t[x]) <=>
                      name[j] = t[k] /\ \A x \in k + 1 .. n : name[(j + 1) + (x - (k + 1))] = t[x]
                BY <4>2, <4>3, <4>4
            <4> QED
                BY <4>1, <4>5, Zenon DEF Continues, n, N
        <3> QED
            BY <1>5, <2>1, <3>2, <3>3
    <2>2. CASE j = N + 1
        <3>1. ~(j <= N) /\ ~(j + (n + 1 - k) <= N + 1)
            BY <1>4, <2>2
        <3>2. ~Continues(t, k, name, j)
            BY <3>1 DEF Continues
        <3> QED
            BY <1>5, <3>1, <3>2
    <2> QED
        BY <1>4, <2>1, <2>2
<1>9. n \in T
    <2>1. 0 \in T
        <3>1. n + 1 - 0 = n + 1
            BY <1>4
        <3> HIDE DEF Fits
        <3> QED
            BY <1>7, <3>1
    <2>2. ASSUME NEW m \in Nat, m \in T
          PROVE  m + 1 \in T
        <3> SUFFICES ASSUME m + 1 <= n
                     PROVE  Fits(n + 1 - (m + 1))
            OBVIOUS
        <3>1. PICK k : k = n + 1 - (m + 1) /\ k \in 1 .. n /\ k + 1 = n + 1 - m
            BY <1>4
        <3> HIDE DEF Fits
        <3>2. Fits(k + 1)
            BY <1>4, <2>2, <3>1
        <3> QED
            BY <1>8, <3>1, <3>2
    <2> HIDE DEF T
    <2> QED
        BY <1>4, <2>1, <2>2, Induction
<1>10. \A j \in 1 .. N + 1 : j \in match[2] <=> Continues(t, 1, name, j)
    <2>1. Fits(1)
        <3>1. n + 1 - n = 1
            BY <1>4
        <3> HIDE DEF Fits
        <3> QED
            BY <1>4, <1>9, <3>1
    <2> QED
        BY <1>2, <2>1
<1>11. 1 \in match[1] <=> \E j \in 1 .. N + 1 : j \in match[2]
    <2>1. ~Escapes(pattern, LikeEscape, 1)
        <3>1. "%" # LikeEscape
            BY DEF LikeEscape
        <3> QED
            BY <1>2, <3>1 DEF Escapes
    <2>2. 1 \in 1 .. P /\ 1 \in 1 .. P + 1 /\ 2 \in 1 .. P + 1 /\ 1 + 1 = 2 /\ 1 \in 1 .. N + 1
        BY <1>4
    <2> HIDE DEF n
    <2>3. pattern[1] = "%"
        BY <1>2
    <2>4. 1 \in match[1] <=> \E j \in match[1 + 1] : 1 <= j
        BY <1>3, <2>1, <2>2, <2>3 DEF IsTable
    <2>5. match[2] \subseteq 1 .. N + 1
        BY <1>3, <2>2 DEF IsTable
    <2>6. \A j \in 1 .. N + 1 : 1 <= j
        BY <1>4
    <2> HIDE DEF N, P
    <2> QED
        BY <2>2, <2>4, <2>5, <2>6
<1> QED
    BY <1>3, <1>10, <1>11, OccursSomewhere DEF pattern

-----------------------------------------------------------------------------
(* Types *)

\* What names, terms and patterns are made of; the characters that the source
\* writes into patterns are among the strings, which no prover knows.
Chars == STRING \cup {LikeEscape, "%", "_", "a"}

Name == Seq(Chars)
Query == (1 .. 4) \X Name

\* Names made of strings are names.
LEMMA StringsAreChars ==
    /\ HasWildcards(Chars) /\ "a" \in Chars
    /\ Seq(STRING) \subseteq Name
    /\ Seq(Seq(STRING)) \subseteq Seq(Name)
<1>1. HasWildcards(Chars) /\ "a" \in Chars
    BY DEF HasWildcards, Chars
<1>2. STRING \subseteq Chars
    BY DEF Chars
<1>3. Seq(STRING) \subseteq Name
    BY <1>2, SeqMonotonic, Zenon DEF Name
<1>4. Seq(Seq(STRING)) \subseteq Seq(Name)
    BY <1>3, SeqMonotonic, Zenon
<1> QED
    BY <1>1, <1>3, <1>4, Zenon

\* What the constants are assumed to be, for names of these characters.
LEMMA Constants ==
    /\ \A p \in Universe : p \in Seq(Name) /\ Len(p) \in 1 .. 4
    /\ Connected \in Name
    /\ Terms \subseteq Name
    /\ MaxChanges \in Nat
BY StringsAreChars, CatalogSearchAssumption, Zenon

\* A name in lower case is a name.
LEMMA LowerIsName ==
    ASSUME NEW t \in Name
    PROVE  Lower(t) \in Name
<1>1. "a" \in Chars
    BY StringsAreChars
<1> HIDE DEF Chars
<1> QED
    BY <1>1 DEF Lower, Name

Patterns(t) == {LikeContains(t), LikeContains(Lower(t))}

\* The queries of a search ask for what SearchPatterns() and Levels() say, and
\* at the first level for the term itself.
LEMMA QueriesAsk ==
    ASSUME NEW t \in Name, NEW k \in Kinds
    PROVE  /\ Queries(t, k) \in Seq(Query)
           /\ Queries(t, k) # <<>>
           /\ \A q : Holds(Queries(t, k), q) <=>
                 \/ k = "all" /\ q = <<1, t>>
                 \/ \E level \in 1 .. 4, pattern \in Patterns(t) :
                       Holds(Levels(k), level) /\ q = <<level, pattern>>
<1> DEFINE atLevel(l) == [i \in DOMAIN SearchPatterns(t) |-> <<l, SearchPatterns(t)[i]>>]
           pieces == [i \in DOMAIN Levels(k) |-> atLevel(Levels(k)[i])]
           flat == FlattenSeq(pieces)
           front == IF k = "all" THEN << <<1, t>> >> ELSE <<>>
<1>1. LikeContains(t) \in Name /\ LikeContains(Lower(t)) \in Name
    BY StringsAreChars, LowerIsName, LikeContainsLayout DEF Name
<1>2. /\ SearchPatterns(t) \in Seq(Name)
      /\ Len(SearchPatterns(t)) \in 1 .. 2
      /\ \A pattern : Holds(SearchPatterns(t), pattern) <=> pattern \in Patterns(t)
    <2>1. PICK a, b : a = LikeContains(t) /\ b = LikeContains(Lower(t))
        OBVIOUS
    <2>2. CASE Lower(t) = t
        <3>1. SearchPatterns(t) = <<a>> /\ a = b
            BY <2>1, <2>2 DEF SearchPatterns
        <3> QED
            BY <1>1, <2>1, <3>1 DEF Patterns, Holds
    <2>3. CASE Lower(t) # t
        <3>1. SearchPatterns(t) = <<a, b>>
            BY <2>1, <2>3 DEF SearchPatterns
        <3>2. a \in Name /\ b \in Name
            BY <1>1, <2>1
        <3>3. /\ SearchPatterns(t) \in Seq(Name) /\ Len(SearchPatterns(t)) = 2
              /\ SearchPatterns(t)[1] = a /\ SearchPatterns(t)[2] = b
            BY <3>1, <3>2
        <3> QED
            BY <2>1, <3>3 DEF Patterns, Holds
    <2> QED
        BY <2>2, <2>3
<1>3. /\ Levels(k) \in Seq(1 .. 4) /\ Len(Levels(k)) \in 1 .. 3
    <2>1. /\ <<2, 3, 4>> \in Seq(1 .. 4) /\ Len(<<2, 3, 4>>) = 3
          /\ <<3>> \in Seq(1 .. 4) /\ Len(<<3>>) = 1
          /\ <<4>> \in Seq(1 .. 4) /\ Len(<<4>>) = 1
        OBVIOUS
    <2>2. CASE k = "all"
        <3>1. Levels(k) = <<2, 3, 4>>
            BY <2>2, Zenon DEF Levels
        <3> QED
            BY <2>1, <3>1
    <2>3. CASE k = "relations"
        <3>1. Levels(k) = <<3>>
            BY <2>3, Zenon DEF Levels
        <3> QED
            BY <2>1, <3>1
    <2>4. CASE k = "columns"
        <3>1. Levels(k) = <<4>>
            BY <2>4, Zenon DEF Levels
        <3> QED
            BY <2>1, <3>1
    <2> QED
        BY <2>2, <2>3, <2>4, Zenon DEF Kinds
<1>4. PICK levels, patterns : levels = Levels(k) /\ patterns = SearchPatterns(t)
    OBVIOUS
<1>5. \A i \in 1 .. Len(levels) :
         /\ pieces[i] \in Seq(Query)
         /\ Len(pieces[i]) = Len(patterns)
         /\ \A x \in 1 .. Len(patterns) : pieces[i][x] = <<levels[i], patterns[x]>>
    <2>1. levels \in Seq(1 .. 4) /\ patterns \in Seq(Name) /\ DOMAIN patterns = 1 .. Len(patterns)
        BY <1>2, <1>3, <1>4
    <2> SUFFICES ASSUME NEW i \in 1 .. Len(levels)
                 PROVE  /\ pieces[i] \in Seq(Query)
                        /\ Len(pieces[i]) = Len(patterns)
                        /\ \A x \in 1 .. Len(patterns) : pieces[i][x] = <<levels[i], patterns[x]>>
        OBVIOUS
    <2>2. PICK l \in 1 .. 4 : l = levels[i]
        BY <2>1
    <2>3. pieces[i] = [x \in 1 .. Len(patterns) |-> <<l, patterns[x]>>]
        <3>1. pieces = [x \in DOMAIN levels |-> atLevel(levels[x])]
            BY <1>4
        <3>2. i \in DOMAIN levels
            BY <2>1
        <3>3. pieces[i] = atLevel(levels[i])
            <4> HIDE DEF atLevel
            <4> QED
                BY <3>1, <3>2
        <3> QED
            BY <1>4, <2>1, <2>2, <3>3
    <2> HIDE DEF pieces
    <2>4. \A x \in 1 .. Len(patterns) : <<l, patterns[x]>> \in Query
        BY <2>1, <2>2 DEF Query
    <2>5. Len(patterns) \in Nat
        BY <2>1
    <2> QED
        BY <2>2, <2>3, <2>4, <2>5
<1>6. pieces \in Seq(Seq(Query)) /\ Len(pieces) = Len(levels)
    <2>1. levels \in Seq(1 .. 4) /\ Len(levels) \in Nat /\ DOMAIN levels = 1 .. Len(levels)
        BY <1>3, <1>4
    <2>2. pieces = [i \in 1 .. Len(levels) |-> pieces[i]]
        BY <1>4, <2>1
    <2> HIDE DEF pieces
    <2> QED
        BY <1>5, <2>1, <2>2
<1> HIDE DEF pieces, atLevel
<1>7. flat \in Seq(Query)
    BY <1>6, FlattenSeqLayout
<1>8. \A q : Holds(flat, q) <=> \E level \in 1 .. 4, pattern \in Patterns(t) :
                                   Holds(levels, level) /\ q = <<level, pattern>>
    <2> SUFFICES ASSUME NEW q
                 PROVE  Holds(flat, q) <=> \E level \in 1 .. 4, pattern \in Patterns(t) :
                                              Holds(levels, level) /\ q = <<level, pattern>>
        OBVIOUS
    <2>1. Holds(flat, q) <=> \E i \in 1 .. Len(levels) : Holds(pieces[i], q)
        BY <1>6, FlattenSeqElements
    <2>2. ASSUME NEW i \in 1 .. Len(levels), Holds(pieces[i], q)
          PROVE  \E level \in 1 .. 4, pattern \in Patterns(t) :
                    Holds(levels, level) /\ q = <<level, pattern>>
        <3>1. PICK x \in 1 .. Len(patterns) : q = <<levels[i], patterns[x]>>
            <4>1. /\ Len(pieces[i]) = Len(patterns)
                  /\ \A x \in 1 .. Len(patterns) : pieces[i][x] = <<levels[i], patterns[x]>>
                BY <1>5, Zenon
            <4> QED
                BY <2>2, <4>1, Zenon DEF Holds
        <3>2. levels[i] \in 1 .. 4
            BY <1>3, <1>4
        <3>3. Holds(levels, levels[i]) /\ Holds(patterns, patterns[x])
            BY Zenon DEF Holds
        <3>4. patterns[x] \in Patterns(t)
            BY <1>2, <1>4, <3>3, Zenon
        <3> QED
            BY <3>1, <3>2, <3>3, <3>4, Zenon
    <2>3. ASSUME NEW level \in 1 .. 4, NEW pattern \in Patterns(t),
                 Holds(levels, level), q = <<level, pattern>>
          PROVE  \E i \in 1 .. Len(levels) : Holds(pieces[i], q)
        <3>1. PICK i \in 1 .. Len(levels) : levels[i] = level
            BY <2>3, Zenon DEF Holds
        <3>2. Holds(patterns, pattern)
            BY <1>2, <1>4, Zenon
        <3>3. PICK x \in 1 .. Len(patterns) : patterns[x] = pattern
            BY <3>2, Zenon DEF Holds
        <3>4. /\ Len(pieces[i]) = Len(patterns)
              /\ pieces[i][x] = q
            BY <1>5, <2>3, <3>1, <3>3, Zenon
        <3> QED
            BY <3>4, Zenon DEF Holds
    <2> HIDE DEF flat
    <2> QED
        BY <2>1, <2>2, <2>3, Zenon
<1> HIDE DEF flat, pieces, atLevel
<1>10. /\ front \in Seq(Query)
       /\ Len(front) = IF k = "all" THEN 1 ELSE 0
       /\ k = "all" => front[1] = <<1, t>>
    BY DEF Query
<1>11. Queries(t, k) = front \o flat
    BY Zenon DEF Queries, front, flat, pieces, atLevel
<1>12. flat # <<>>
    <2>1. 1 \in 1 .. Len(levels) /\ levels[1] \in 1 .. 4
        <3>1. Len(levels) \in 1 .. 3 /\ levels \in Seq(1 .. 4)
            BY <1>3, <1>4
        <3> QED
            BY <3>1
    <2>2. Holds(levels, levels[1])
        BY <2>1, Zenon DEF Holds
    <2>3. Holds(flat, <<levels[1], LikeContains(t)>>)
        BY <1>8, <2>1, <2>2, Zenon DEF Patterns
    <2> QED
        BY <2>3 DEF Holds
<1> HIDE DEF front
<1>13. front \o flat \in Seq(Query) /\ front \o flat # <<>>
    BY <1>7, <1>10, <1>12
<1>14. \A q : Holds(front \o flat, q) <=> Holds(front, q) \/ Holds(flat, q)
    BY <1>7, <1>10, HoldsConcatenated, Zenon
<1>15. \A q : Holds(front, q) <=> k = "all" /\ q = <<1, t>>
    <2>1. CASE k = "all"
        <3>1. Len(front) = 1 /\ front[1] = <<1, t>>
            BY <1>10, <2>1
        <3>2. \A j : j \in 1 .. 1 <=> j = 1
            OBVIOUS
        <3> QED
            BY <2>1, <3>1, <3>2, Zenon DEF Holds
    <2>2. CASE k # "all"
        <3>1. 1 .. Len(front) = {}
            BY <1>10, <2>2
        <3> QED
            BY <2>2, <3>1, Zenon DEF Holds
    <2> QED
        BY <2>1, <2>2
<1>16. Queries(t, k) \in Seq(Query) /\ Queries(t, k) # <<>>
    BY <1>11, <1>13, Zenon
<1>17. ASSUME NEW q
       PROVE  Holds(Queries(t, k), q) <=>
                 \/ k = "all" /\ q = <<1, t>>
                 \/ \E level \in 1 .. 4, pattern \in Patterns(t) :
                       Holds(Levels(k), level) /\ q = <<level, pattern>>
    <2>1. Holds(Queries(t, k), q) <=> Holds(front, q) \/ Holds(flat, q)
        BY <1>11, <1>14
    <2>2. Holds(front, q) <=> k = "all" /\ q = <<1, t>>
        BY <1>15, Zenon
    <2>3. Holds(flat, q) <=> \E level \in 1 .. 4, pattern \in Patterns(t) :
                                Holds(Levels(k), level) /\ q = <<level, pattern>>
        <3>1. Levels(k) = levels
            BY <1>4
        <3> QED
            BY <1>8, <3>1, Zenon
    <2> QED
        BY <2>1, <2>2, <2>3, Zenon
<1> QED
    BY <1>16, <1>17, Zenon

-----------------------------------------------------------------------------
(* The tree *)

\* Every object lies in objects that exist.
Closed == \A p \in server : Len(p) > 1 => Front(p) \in server

Typed == TypeOK /\ todo \in Seq(Query)

\* A question about an object's own names is answered with it: the SHOW path is
\* not taken for names with the driver's escape character.
LEMMA AnswersItself ==
    ASSUME NEW p \in Seq(Name), NEW names \in Seq(Name), Len(names) <= Len(p),
           \A i \in 1 .. Len(names) : p[i] = names[i],
           Reaches(p[1])
    PROVE  Answers(p, names)
<1>0. DOMAIN names = 1 .. Len(names)
    OBVIOUS
<1> SUFFICES ASSUME NEW i \in DOMAIN names,
                    ~(i = 1 \/ ~UsesShow({names[k] : k \in 2 .. Len(names)}))
             PROVE  Like(names[i], Backslash, p[i])
    <2>1. \A i \in DOMAIN names : p[i] = names[i]
        BY <1>0
    <2> QED
        BY <2>1, Zenon DEF Answers
<1>1. i \in 2 .. Len(names) /\ DOMAIN names = 1 .. Len(names)
    OBVIOUS
<1>2. p[i] = names[i] /\ names[i] \in Name
    BY <1>1
<1>3. Backslash \notin Range(names[i])
    BY <1>1, Zenon DEF UsesShow
<1>4. \A x \in 1 .. Len(names[i]) : names[i][x] # Backslash
    BY <1>2, <1>3 DEF Range, Name
<1> QED
    BY <1>2, <1>4, LikeItself DEF Name

\* A path is the path of what the object lies in and the object's own name.
LEMMA FrontOfPath ==
    ASSUME NEW p \in Seq(Name), Len(p) > 1
    PROVE  /\ Front(p) \in Seq(Name)
           /\ Len(Front(p)) = Len(p) - 1
           /\ \A i \in 1 .. Len(p) - 1 : Front(p)[i] = p[i]
           /\ p = Append(Front(p), p[Len(p)])
<1> DEFINE n == Len(p)
<1>1. n \in Nat /\ n - 1 \in Nat /\ \A i \in 1 .. n : p[i] \in Name
    OBVIOUS
<1>2. PICK front : front = SubSeq(p, 1, n - 1)
    OBVIOUS
<1>3. /\ front \in Seq(Name) /\ Len(front) = n - 1
      /\ \A i \in 1 .. n - 1 : front[i] = p[i]
    <2>1. front \in Seq(Name) /\ Len(front) = n - 1
        BY <1>1, <1>2
    <2>2. \A i \in 1 .. n - 1 : front[i] = p[i]
        BY <1>1, <1>2
    <2> QED
        BY <2>1, <2>2
<1>4. p = Append(front, p[n])
    <2>1. PICK q : q = Append(front, p[n])
        OBVIOUS
    <2>2. q \in Seq(Name) /\ Len(q) = n /\ \A i \in 1 .. n : q[i] = p[i]
        <3>1. p[n] \in Name
            BY <1>1
        <3>2. q \in Seq(Name) /\ Len(q) = (n - 1) + 1
            BY <1>3, <2>1, <3>1
        <3>3. \A i \in 1 .. n - 1 : q[i] = front[i]
            BY <1>3, <2>1, <3>1
        <3>4. q[n] = p[n]
            BY <1>1, <1>3, <2>1, <3>1
        <3> QED
            BY <1>1, <1>3, <3>2, <3>3, <3>4
    <2>3. q = p
        BY <2>2, SeqEqual
    <2> QED
        BY <2>1, <2>3
<1> QED
    BY <1>2, <1>3, <1>4 DEF Front

\* What is listed below a node is what the server has there: the rows of other
\* nodes, which a wildcard in a name lets in, are filtered out.
LEMMA ChildrenAreBelow ==
    ASSUME server \subseteq Universe, NEW n \in 2 .. 3, NEW names \in Seq(Name), Len(names) = n
    PROVE  Children(names) = {p \in At(n + 1) : Reaches(p[1]) /\ Front(p) = names}
<1> DEFINE level == Len(names) + 1
           matching == {p \in {p \in At(level) : Answers(p, names)} :
                           Tail(SubSeq(p, 1, Len(names))) = Tail(names)}
<1>1. Children(names) = {Append(names, p[level]) : p \in matching}
    BY DEF Children
<1>2. level \in 3 .. 4 /\ Len(names) = level - 1
    BY Len(names) = n
<1> HIDE DEF level
<1>3. \A p \in At(level) : p \in Seq(Name) /\ Len(p) = level /\ p \in server
    BY Constants, Zenon DEF At
<1>4. ASSUME NEW p \in matching
      PROVE  Reaches(p[1]) /\ Front(p) = names /\ Append(names, p[level]) = p
    <2>1. p \in At(level) /\ Answers(p, names)
        OBVIOUS
    <2>2. p \in Seq(Name) /\ Len(p) = level /\ Len(p) > 1
        BY <1>2, <1>3, <2>1
    <2>3. Reaches(p[1]) /\ p[1] = names[1]
        <3>1. 1 \in DOMAIN names
            BY <1>2
        <3> QED
            BY <2>1, <3>1, Zenon DEF Answers
    <2>4. PICK front : front = Front(p)
        OBVIOUS
    <2>5. /\ front \in Seq(Name) /\ Len(front) = Len(names)
          /\ front[1] = names[1]
          /\ p = Append(front, p[level])
        <3>1. /\ front \in Seq(Name) /\ Len(front) = Len(p) - 1
              /\ \A i \in 1 .. Len(p) - 1 : front[i] = p[i]
              /\ p = Append(front, p[Len(p)])
            BY <2>2, <2>4, FrontOfPath, Zenon
        <3>2. Len(p) - 1 = Len(names) /\ 1 \in 1 .. Len(p) - 1
            BY <1>2, <2>2
        <3> QED
            BY <2>2, <2>3, <3>1, <3>2, Zenon
    <2>6. Tail(front) = Tail(names)
        <3>1. Tail(SubSeq(p, 1, Len(names))) = Tail(names)
            BY <1>4, Zenon
        <3>2. Len(p) - 1 = Len(names)
            BY <1>2, <2>2
        <3>3. front = SubSeq(p, 1, Len(names))
            BY <2>4, <3>2, Zenon DEF Front
        <3> QED
            BY <3>1, <3>3, Zenon
    <2>7. front = names
        <3>1. \A i \in 1 .. Len(names) : front[i] = names[i]
            <4> TAKE i \in 1 .. Len(names)
            <4>1. CASE i = 1
                BY <2>5, <4>1
            <4>2. CASE i # 1
                <5>1. i - 1 \in 1 .. Len(names) - 1 /\ (i - 1) + 1 = i
                    BY <1>2, <4>2
                <5>2. Tail(front)[i - 1] = front[i] /\ Tail(names)[i - 1] = names[i]
                    BY <1>2, <2>5, <5>1
                <5> QED
                    BY <2>6, <5>2
            <4> QED
                BY <4>1, <4>2
        <3> QED
            BY <2>5, <3>1, SeqEqual
    <2> QED
        BY <2>3, <2>4, <2>5, <2>7
<1>5. ASSUME NEW p \in At(level), Reaches(p[1]), Front(p) = names
      PROVE  p \in matching /\ Append(names, p[level]) = p
    <2>1. p \in Seq(Name) /\ Len(p) = level /\ Len(p) > 1
        BY <1>2, <1>3
    <2>2. /\ \A i \in 1 .. Len(names) : p[i] = names[i]
          /\ p = Append(names, p[level])
        BY <1>2, <1>5, <2>1, FrontOfPath
    <2>3. Answers(p, names)
        BY <1>2, <1>5, <2>1, <2>2, AnswersItself
    <2>4. SubSeq(p, 1, Len(names)) = names
        BY <1>2, <1>5, <2>1 DEF Front
    <2> QED
        BY <2>2, <2>3, <2>4
<1> HIDE DEF matching
<1>6. \A p \in matching : p \in At(level)
    BY DEF matching
<1> QED
    BY <1>1, <1>2, <1>4, <1>5, <1>6 DEF level

\* Opening every node shows what the tree should show, because every object lies
\* in objects that the tree shows as well.
LEMMA TreeOfTheServer ==
    ASSUME server \subseteq Universe, Closed
    PROVE  TreeShowsTheServer
<1> DEFINE schemas == UNION {GetSchemas(p[1]) : p \in GetDatabases}
           relations == UNION {GetRelations(p[1], p[2]) : p \in schemas}
           columns == UNION {GetColumns(p[1], p[2], p[3]) : p \in relations}
           ShownAt(level) == {p \in At(level) : Reaches(p[1]) /\ IsUserSchema(p[2])}
           databases == {p \in At(1) : Reaches(p[1])}
<1>1. \A p \in server : p \in Seq(Name) /\ Len(p) \in 1 .. 4
    BY Constants
<1>2. ASSUME NEW level \in 2 .. 4, NEW p \in At(level)
      PROVE  /\ p \in server /\ p \in Seq(Name) /\ Len(p) = level /\ Len(p) > 1
             /\ Front(p) \in At(level - 1)
             /\ Front(p) \in Seq(Name) /\ Len(Front(p)) = level - 1
             /\ \A i \in 1 .. level - 1 : Front(p)[i] = p[i]
    <2>1. p \in server /\ p \in Seq(Name) /\ Len(p) = level /\ Len(p) > 1
        BY <1>1 DEF At
    <2>2. Front(p) \in server
        BY <2>1 DEF Closed
    <2>3. /\ Front(p) \in Seq(Name) /\ Len(Front(p)) = level - 1
          /\ \A i \in 1 .. level - 1 : Front(p)[i] = p[i]
        BY <2>1, FrontOfPath
    <2> QED
        BY <2>1, <2>2, <2>3 DEF At
<1>3. schemas = ShownAt(2)
    <2>1. \A db, p : Answers(p, <<db>>) <=> Reaches(p[1]) /\ p[1] = db
        <3>1. \A db : DOMAIN <<db>> = {1} /\ <<db>>[1] = db
            OBVIOUS
        <3> QED
            BY <3>1, Zenon DEF Answers
    <2>2. ASSUME NEW p \in ShownAt(2)
          PROVE  p \in schemas
        <3>1. Front(p) \in At(1) /\ Front(p)[1] = p[1]
            BY <1>2
        <3>2. Front(p) \in GetDatabases /\ p \in GetSchemas(Front(p)[1])
            BY <2>1, <3>1 DEF GetDatabases, GetSchemas
        <3> QED
            BY <3>2
    <2>3. \A p \in schemas : p \in ShownAt(2)
        BY <2>1 DEF GetSchemas
    <2> HIDE DEF schemas, ShownAt
    <2> QED
        BY <2>2, <2>3
<1>4. ASSUME NEW level \in 2 .. 3, NEW p \in At(level + 1)
      PROVE  Front(p) \in At(level) /\ (Front(p) \in ShownAt(level) <=> Reaches(p[1]) /\ IsUserSchema(p[2]))
    BY <1>2
<1>5. relations = ShownAt(3)
    <2>1. ASSUME NEW p \in schemas
          PROVE  GetRelations(p[1], p[2]) = {q \in At(3) : Reaches(q[1]) /\ Front(q) = p}
        <3>1. p \in Seq(Name) /\ Len(p) = 2
            BY <1>2, <1>3
        <3>2. p = <<p[1], p[2]>>
            BY <3>1
        <3>3. Children(p) = {q \in At(3) : Reaches(q[1]) /\ Front(q) = p}
            <4>1. 2 \in 2 .. 3 /\ 2 + 1 = 3
                OBVIOUS
            <4> HIDE DEF schemas, relations, columns, ShownAt
            <4>2. Children(p) = {q \in At(2 + 1) : Reaches(q[1]) /\ Front(q) = p}
                BY <3>1, <4>1, ChildrenAreBelow
            <4> QED
                BY <4>1, <4>2, Zenon
        <3> QED
            BY <3>2, <3>3 DEF GetRelations
    <2>2. ASSUME NEW q \in relations
          PROVE  q \in ShownAt(3)
        <3>1. PICK p \in schemas : q \in GetRelations(p[1], p[2])
            OBVIOUS
        <3>2. q \in At(3) /\ Reaches(q[1]) /\ Front(q) = p
            BY <2>1, <3>1
        <3> QED
            BY <1>3, <1>4, <3>2
    <2>3. ASSUME NEW q \in ShownAt(3)
          PROVE  q \in relations
        <3>1. q \in At(3) /\ Reaches(q[1]) /\ IsUserSchema(q[2])
            OBVIOUS
        <3>2. Front(q) \in schemas
            BY <1>3, <1>4, <3>1
        <3>3. q \in GetRelations(Front(q)[1], Front(q)[2])
            BY <2>1, <3>1, <3>2
        <3> QED
            BY <3>2, <3>3
    <2> HIDE DEF relations, ShownAt
    <2> QED
        BY <2>2, <2>3
<1>6. columns = ShownAt(4)
    <2>1. ASSUME NEW p \in relations
          PROVE  GetColumns(p[1], p[2], p[3]) = {q \in At(4) : Reaches(q[1]) /\ Front(q) = p}
        <3>1. p \in Seq(Name) /\ Len(p) = 3
            BY <1>2, <1>5
        <3>2. p = <<p[1], p[2], p[3]>>
            BY <3>1
        <3>3. Children(p) = {q \in At(4) : Reaches(q[1]) /\ Front(q) = p}
            <4>1. 3 \in 2 .. 3 /\ 3 + 1 = 4
                OBVIOUS
            <4> HIDE DEF schemas, relations, columns, ShownAt
            <4>2. Children(p) = {q \in At(3 + 1) : Reaches(q[1]) /\ Front(q) = p}
                BY <3>1, <4>1, ChildrenAreBelow
            <4> QED
                BY <4>1, <4>2, Zenon
        <3> QED
            BY <3>2, <3>3 DEF GetColumns
    <2>2. ASSUME NEW q \in columns
          PROVE  q \in ShownAt(4)
        <3>1. PICK p \in relations : q \in GetColumns(p[1], p[2], p[3])
            OBVIOUS
        <3>2. q \in At(4) /\ Reaches(q[1]) /\ Front(q) = p
            BY <2>1, <3>1
        <3> QED
            BY <1>4, <1>5, <3>2
    <2>3. ASSUME NEW q \in ShownAt(4)
          PROVE  q \in columns
        <3>1. q \in At(4) /\ Reaches(q[1]) /\ IsUserSchema(q[2])
            OBVIOUS
        <3>2. Front(q) \in relations
            BY <1>4, <1>5, <3>1
        <3>3. q \in GetColumns(Front(q)[1], Front(q)[2], Front(q)[3])
            BY <2>1, <3>1, <3>2
        <3> QED
            BY <3>2, <3>3
    <2> HIDE DEF columns, ShownAt
    <2> QED
        BY <2>2, <2>3
<1>7. Tree = databases \cup schemas \cup relations \cup columns
    BY Zenon DEF Tree, GetDatabases
<1>8. Shown = databases \cup ShownAt(2) \cup ShownAt(3) \cup ShownAt(4)
    <2> HIDE DEF schemas, relations, columns
    <2>1. \A p \in server : Len(p) = 1 \/ Len(p) = 2 \/ Len(p) = 3 \/ Len(p) = 4
        BY <1>1
    <2>2. ASSUME NEW p \in server
          PROVE  p \in Shown <=> p \in databases \cup ShownAt(2) \cup ShownAt(3) \cup ShownAt(4)
        BY <2>1 DEF Shown, At
    <2>3. \A p : p \in Shown \/ p \in databases \cup ShownAt(2) \cup ShownAt(3) \cup ShownAt(4) => p \in server
        BY Zenon DEF Shown, At
    <2> HIDE DEF databases, ShownAt
    <2> QED
        BY <2>2, <2>3
<1> HIDE DEF databases, schemas, relations, columns, ShownAt
<1> QED
    BY <1>3, <1>5, <1>6, <1>7, <1>8, Zenon DEF TreeShowsTheServer

-----------------------------------------------------------------------------
(* The search *)

\* The queries of the search under way, and what one that is asked now answers.
Asked(q) ==
    \/ kind = "all" /\ q = <<1, term>>
    \/ \E level \in 1 .. 4, pattern \in Patterns(term) :
          Holds(Levels(kind), level) /\ q = <<level, pattern>>

Answer(q) == IF q[1] = 1 THEN MatchDatabases ELSE MatchNames(q[1], q[2])

\* Would the query's answer hold p, were p in the tree?
Finds(q, p) ==
    /\ Len(p) = q[1]
    /\ IF q[1] = 1
       THEN OccursIn(Lower(term), Lower(p[1]))
       ELSE /\ p[1] = Connected /\ database = Connected
            /\ Like(q[2], LikeEscape, Last(p))

\* A wanted object that was in the tree all the while is found, or a query that
\* is still to be asked will find it, because it is in the tree now.
Underway ==
    status = "running" =>
        /\ term # <<>>
        /\ always \subseteq Shown /\ Shown \subseteq ever
        /\ \A i \in 1 .. Len(todo) : Asked(todo[i])
        /\ \A p \in found : Wanted(p) /\ p \in ever
        /\ \A p \in always : Findable(p) => p \in found \/ \E i \in 1 .. Len(todo) : Finds(todo[i], p)

IInv == Typed /\ Closed /\ Underway /\ SearchIsHonest

\* The levels that a search of each kind asks about.
LEMMA LevelsOf ==
    ASSUME NEW k \in Kinds, NEW level
    PROVE  Holds(Levels(k), level) <=>
               \/ k = "all" /\ level \in 2 .. 4
               \/ k = "relations" /\ level = 3
               \/ k = "columns" /\ level = 4
<1>1. \A e : Holds(<<2, 3, 4>>, e) <=> e \in 2 .. 4
    BY DEF Holds
<1>2. \A a, e : Holds(<<a>>, e) <=> e = a
    BY DEF Holds
<1>3. "all" # "relations" /\ "all" # "columns" /\ "relations" # "columns"
    OBVIOUS
<1>4. CASE k = "all"
    BY <1>1, <1>3, <1>4, Zenon DEF Levels
<1>5. CASE k = "relations"
    BY <1>2, <1>3, <1>5, Zenon DEF Levels
<1>6. CASE k = "columns"
    BY <1>2, <1>3, <1>6, Zenon DEF Levels
<1> QED
    BY <1>4, <1>5, <1>6, Zenon DEF Kinds

\* What the server knows an object by.
LEMMA Paths ==
    ASSUME server \subseteq Universe, NEW p \in server
    PROVE  /\ p \in Seq(Name) /\ Len(p) \in 1 .. 4
           /\ p[1] \in Name /\ Last(p) = p[Len(p)] /\ Last(p) \in Name
<1>1. p \in Seq(Name) /\ Len(p) \in 1 .. 4
    BY Constants
<1> QED
    BY <1>1 DEF Last

\* The patterns of a term find the names that it occurs in, as typed or in lower
\* case.
LEMMA PatternsFind ==
    ASSUME NEW t \in Name, NEW name \in Name
    PROVE  (\E pattern \in Patterns(t) : Like(pattern, LikeEscape, name)) <=>
               OccursIn(t, name) \/ OccursIn(Lower(t), name)
<1>1. \A s \in Name : Like(LikeContains(s), LikeEscape, name) <=> OccursIn(s, name)
    BY StringsAreChars, LikeContainsIsOccursIn, Zenon DEF Name
<1>2. Lower(t) \in Name
    BY LowerIsName
<1> QED
    BY <1>1, <1>2, Zenon DEF Patterns

\* A query's answer is what it would find in the tree.
LEMMA AnswerIsFound ==
    ASSUME Typed, NEW q \in Query
    PROVE  Answer(q) = {p \in Shown : Finds(q, p)}
<1>0. server \subseteq Universe
    BY DEF Typed, TypeOK
<1>1. CASE q[1] = 1
    <2>1. \A p : p \in Answer(q) <=>
                 p \in At(1) /\ Reaches(p[1]) /\ OccursIn(Lower(term), Lower(p[1]))
        BY <1>1, Zenon DEF Answer, MatchDatabases, GetDatabases
    <2>2. ASSUME NEW p \in server
          PROVE  p \in Answer(q) <=> p \in {x \in Shown : Finds(q, x)}
        <3>1. Finds(q, p) <=> Len(p) = 1 /\ OccursIn(Lower(term), Lower(p[1]))
            BY <1>1, Zenon DEF Finds
        <3>2. Len(p) = 1 => ~(Len(p) > 1)
            OBVIOUS
        <3> QED
            BY <2>1, <3>1, <3>2, Zenon DEF Shown, At
    <2>3. \A p : p \in Answer(q) => p \in server
        BY <2>1, Zenon DEF At
    <2>4. \A p : p \in Shown => p \in server
        BY Zenon DEF Shown
    <2> QED
        BY <2>2, <2>3, <2>4
<1>2. CASE q[1] # 1
    <2>1. \A p : p \in Answer(q) <=>
                 /\ p \in At(q[1])
                 /\ p[1] = Connected /\ p[1] = database
                 /\ Like(q[2], LikeEscape, p[q[1]])
                 /\ IsUserSchema(p[2])
        BY <1>2, Zenon DEF Answer, MatchNames
    <2>2. ASSUME NEW p \in server
          PROVE  p \in Answer(q) <=> p \in {x \in Shown : Finds(q, x)}
        <3>1. Finds(q, p) <=> /\ Len(p) = q[1]
                              /\ p[1] = Connected /\ database = Connected
                              /\ Like(q[2], LikeEscape, Last(p))
            BY <1>2, Zenon DEF Finds
        <3>2. q[1] \in 1 .. 4
            BY DEF Query
        <3>3. Len(p) = q[1] => Len(p) > 1 /\ Last(p) = p[q[1]]
            BY <1>2, <3>2 DEF Last
        <3>4. p[1] = Connected => Reaches(p[1])
            BY Zenon DEF Reaches
        <3> QED
            BY <2>1, <3>1, <3>3, <3>4, Zenon DEF Shown, At
    <2>3. \A p : p \in Answer(q) => p \in server
        BY <2>1, Zenon DEF At
    <2>4. \A p : p \in Shown => p \in server
        BY Zenon DEF Shown
    <2> QED
        BY <2>2, <2>3, <2>4
<1> QED
    BY <1>1, <1>2

\* Each query finds what is wanted, and each object that can be found is found by one.
LEMMA AskedIsFindable ==
    ASSUME Typed, term # <<>>, NEW p \in server
    PROVE  Findable(p) <=> \E q \in Query : Asked(q) /\ Finds(q, p)
<1>0. server \subseteq Universe /\ term \in Name /\ kind \in Kinds
    <2>1. <<>> \in Name
        BY DEF Name
    <2> QED
        BY <2>1, Constants DEF Typed, TypeOK
<1>1. /\ p \in Seq(Name) /\ Len(p) \in 1 .. 4
      /\ p[1] \in Name /\ Last(p) = p[Len(p)] /\ Last(p) \in Name
    BY <1>0, Paths
<1>2. LikeContains(term) \in Name /\ LikeContains(Lower(term)) \in Name
    BY <1>0, StringsAreChars, LowerIsName, LikeContainsLayout DEF Name
<1>3. Lower(term) \in Name
    BY <1>0, LowerIsName
<1>4. CASE Len(p) = 1
    <2>1. Findable(p) <=> kind = "all" /\ OccursIn(Lower(term), Lower(p[1]))
        <3>1. Len(p) # 3 /\ Len(p) # 4
            BY <1>4
        <3> QED
            BY <1>0, <1>4, <3>1 DEF Findable, Wanted, Kinds
    <2>2. ASSUME NEW q \in Query, Asked(q), Finds(q, p)
          PROVE  kind = "all" /\ OccursIn(Lower(term), Lower(p[1]))
        <3>1. q[1] = 1 /\ OccursIn(Lower(term), Lower(p[1]))
            BY <1>4, <2>2, Zenon DEF Finds
        <3>2. ~Holds(Levels(kind), 1)
            BY <1>0, LevelsOf
        <3> QED
            BY <2>2, <3>1, <3>2 DEF Asked
    <2>3. ASSUME kind = "all", OccursIn(Lower(term), Lower(p[1]))
          PROVE  \E q \in Query : Asked(q) /\ Finds(q, p)
        <3>1. PICK q : q = <<1, term>>
            OBVIOUS
        <3>2. q \in Query /\ q[1] = 1
            BY <1>0, <3>1 DEF Query
        <3> QED
            BY <1>4, <2>3, <3>1, <3>2, Zenon DEF Asked, Finds
    <2> QED
        BY <2>1, <2>2, <2>3
<1>5. CASE Len(p) # 1
    <2>1. Findable(p) <=> /\ Holds(Levels(kind), Len(p))
                          /\ p[1] = Connected /\ database = Connected
                          /\ OccursIn(term, Last(p)) \/ OccursIn(Lower(term), Last(p))
        <3>1. Len(p) \in 2 .. 4
            BY <1>1, <1>5
        <3>2. Holds(Levels(kind), Len(p)) <=> /\ kind = "relations" => Len(p) = 3
                                              /\ kind = "columns" => Len(p) = 4
            BY <1>0, <3>1, LevelsOf DEF Kinds
        <3> QED
            BY <1>5, <3>2, Zenon DEF Findable, Wanted
    <2>2. ASSUME NEW q \in Query, Asked(q), Finds(q, p)
          PROVE  /\ Holds(Levels(kind), Len(p))
                 /\ p[1] = Connected /\ database = Connected
                 /\ \E pattern \in Patterns(term) : Like(pattern, LikeEscape, Last(p))
        <3>1. /\ q[1] = Len(p) /\ q[1] # 1
              /\ p[1] = Connected /\ database = Connected
              /\ Like(q[2], LikeEscape, Last(p))
            BY <1>5, <2>2, Zenon DEF Finds
        <3>2. q # <<1, term>>
            <4>1. <<1, term>>[1] = 1
                OBVIOUS
            <4> QED
                BY <3>1, <4>1, Zenon
        <3>3. PICK level \in 1 .. 4, pattern \in Patterns(term) :
                 Holds(Levels(kind), level) /\ q = <<level, pattern>>
            BY <2>2, <3>2, Zenon DEF Asked
        <3>4. q[1] = level /\ q[2] = pattern
            BY <3>3
        <3> QED
            BY <3>1, <3>3, <3>4
    <2>3. ASSUME NEW pattern \in Patterns(term), Like(pattern, LikeEscape, Last(p)),
                 Holds(Levels(kind), Len(p)), p[1] = Connected, database = Connected
          PROVE  \E q \in Query : Asked(q) /\ Finds(q, p)
        <3>0. PICK q : q = <<Len(p), pattern>>
            OBVIOUS
        <3>1. q = <<Len(p), pattern>> /\ q[1] = Len(p) /\ q[2] = pattern
            BY <3>0
        <3>2. q \in Query
            BY <1>1, <1>2, <3>1 DEF Query, Patterns
        <3>3. Asked(q)
            BY <1>1, <2>3, <3>1, Zenon DEF Asked
        <3>4. Finds(q, p)
            BY <1>5, <2>3, <3>1, Zenon DEF Finds
        <3> QED
            BY <3>2, <3>3, <3>4
    <2>4. (\E pattern \in Patterns(term) : Like(pattern, LikeEscape, Last(p))) <=>
              OccursIn(term, Last(p)) \/ OccursIn(Lower(term), Last(p))
        BY <1>0, <1>1, PatternsFind, Zenon
    <2> QED
        BY <2>1, <2>2, <2>3, <2>4, Zenon
<1> QED
    BY <1>4, <1>5

\* No search is under way when the session begins.
LEMMA InitIInv == Init => IInv
<1> SUFFICES ASSUME Init
             PROVE  IInv
    OBVIOUS
<1>1. Typed
    BY Constants DEF Init, Typed, TypeOK, Kinds
<1>2. Closed
    BY Zenon DEF Init, Closed
<1>3. Underway /\ SearchIsHonest
    BY DEF Init, Underway, SearchIsHonest
<1> QED
    BY <1>1, <1>2, <1>3 DEF IInv

\* A queue is its head and, one place further on, its tail.
LEMMA NextQuery ==
    ASSUME NEW S, NEW s \in Seq(S), s # <<>>
    PROVE  /\ Head(s) \in S /\ Tail(s) \in Seq(S)
           /\ Head(s) = s[1] /\ 1 \in 1 .. Len(s)
           /\ Len(s) = 1 <=> Tail(s) = <<>>
           /\ \A i \in 1 .. Len(s) : i = 1 \/ (i - 1 \in 1 .. Len(Tail(s)) /\ Tail(s)[i - 1] = s[i])
           /\ \A i \in 1 .. Len(Tail(s)) : i + 1 \in 1 .. Len(s) /\ Tail(s)[i] = s[i + 1]
<1>1. /\ Len(s) \in Nat \ {0} /\ Tail(s) \in Seq(S) /\ Len(Tail(s)) = Len(s) - 1
      /\ Head(s) \in S /\ Head(s) = s[1] /\ 1 \in 1 .. Len(s)
    OBVIOUS
<1>2. \A i \in 1 .. Len(Tail(s)) : Tail(s)[i] = s[i + 1]
    BY <1>1
<1>3. \A i \in 1 .. Len(s) : i = 1 \/ (i - 1 \in 1 .. Len(Tail(s)) /\ Tail(s)[i - 1] = s[i])
    <2> TAKE i \in 1 .. Len(s)
    <2>1. CASE i = 1
        BY <2>1
    <2>2. CASE i # 1
        <3>1. i - 1 \in 1 .. Len(Tail(s)) /\ (i - 1) + 1 = i
            BY <1>1, <2>2
        <3> QED
            BY <1>2, <3>1
    <2> QED
        BY <2>1, <2>2
<1>4. Len(s) = 1 <=> Tail(s) = <<>>
    <2>1. PICK rest : rest = Tail(s)
        OBVIOUS
    <2>2. rest \in Seq(S) /\ Len(rest) = Len(s) - 1
        BY <1>1, <2>1
    <2>3. rest = <<>> <=> Len(rest) = 0
        BY <2>2, EmptySeq
    <2> QED
        BY <1>1, <2>1, <2>2, <2>3
<1>5. \A i \in 1 .. Len(Tail(s)) : i + 1 \in 1 .. Len(s)
    BY <1>1
<1> QED
    BY <1>1, <1>2, <1>3, <1>4, <1>5, Zenon

\* Every step keeps the types.
LEMMA TypedStays ==
    ASSUME IInv, [Next]_vars
    PROVE  Typed'
<1> USE DEF IInv, Typed
<1>0. /\ TypeOK /\ todo \in Seq(Query) /\ Len(todo) \in Nat
      /\ Shown \subseteq Universe
      /\ term \in Name /\ <<>> \in Name
      /\ MaxChanges \in Nat
    <2>1. <<>> \in Name
        BY DEF Name
    <2> QED
        BY <2>1, Constants DEF TypeOK, Shown
<1>1. ASSUME NEW t \in Terms, NEW k \in Kinds, StartSearch(t, k)
      PROVE  Typed'
    <2>1. Queries(t, k) \in Seq(Query) /\ Queries(t, k) # <<>>
        BY Constants, QueriesAsk
    <2>2. /\ t = <<>> => status' = "done" /\ todo' = <<>>
          /\ t # <<>> => status' = "running" /\ todo' = Queries(t, k)
          /\ term' = t /\ kind' = k /\ found' = {} /\ always' = Shown /\ ever' = Shown
          /\ UNCHANGED <<server, changes, useShow, settings>>
        BY <1>1, Zenon DEF StartSearch
    <2>3. /\ status' \in {"none", "running", "done", "failed"}
          /\ status' = "running" <=> todo' # <<>>
          /\ todo' \in Seq(Query)
        <3>1. CASE t = <<>>
            BY <2>2, <3>1
        <3>2. CASE t # <<>>
            BY <2>1, <2>2, <3>2
        <3> QED
            BY <3>1, <3>2
    <2>4. /\ server' = server /\ changes' = changes
          /\ useShow' = useShow /\ UNCHANGED settings
          /\ term' \in Terms /\ kind' \in Kinds /\ found' = {}
          /\ always' \subseteq ever' /\ ever' \subseteq Universe
        BY <1>0, <2>2
    <2> QED
        BY <1>0, <2>3, <2>4 DEF TypeOK
<1>2. CASE Read
    <2>1. todo # <<>>
        BY <1>0, <1>2 DEF Read, TypeOK
    <2>2. Head(todo) \in Query /\ Tail(todo) \in Seq(Query) /\ (Len(todo) = 1 <=> Tail(todo) = <<>>)
        BY <1>0, <2>1, NextQuery
    <2>3. found' = found \cup Answer(Head(todo))
        BY <1>2, Zenon DEF Read, Answer
    <2>4. Answer(Head(todo)) \subseteq Universe
        BY <1>0, <2>2, AnswerIsFound
    <2> QED
        BY <1>0, <1>2, <2>2, <2>3, <2>4 DEF Read, TypeOK, history
<1>3. CASE ReadFails
    BY <1>0, <1>3 DEF ReadFails, TypeOK, history
<1>4. CASE Deliver
    BY <1>0, <1>4 DEF Deliver, TypeOK, Kinds
<1>5. CASE ShowBreaks
    BY <1>0, <1>5 DEF ShowBreaks, TypeOK, searching, history
<1>6. ASSUME NEW p \in Universe, Create(p) \/ Drop(p)
      PROVE  Typed'
    <2>1. /\ UNCHANGED <<useShow, settings, searching>>
          /\ server' \subseteq Universe
          /\ changes < MaxChanges /\ changes' = changes + 1
          /\ Remember
        BY <1>0, <1>6 DEF Create, Drop, TypeOK
    <2>2. Shown' \subseteq Universe
        BY <2>1 DEF Shown
    <2>3. always' \subseteq ever' /\ ever' \subseteq Universe
        BY <1>0, <2>1, <2>2 DEF Remember, history, TypeOK
    <2>4. changes' \in 0 .. MaxChanges
        BY <1>0, <2>1 DEF TypeOK
    <2> QED
        BY <1>0, <2>1, <2>3, <2>4 DEF TypeOK, searching
<1>7. CASE UNCHANGED vars
    BY <1>0, <1>7 DEF vars, searching, history, TypeOK
<1> QED
    BY <1>1, <1>2, <1>3, <1>4, <1>5, <1>6, <1>7 DEF Next

\* What is below an object is below the object it lies in.
LEMMA PrefixOfFront ==
    ASSUME NEW p \in Seq(Name), NEW q \in Seq(Name), Len(q) > 1, IsPrefix(p, Front(q))
    PROVE  IsPrefix(p, q)
<1>1. /\ Front(q) \in Seq(Name) /\ Len(Front(q)) = Len(q) - 1
      /\ \A i \in 1 .. Len(q) - 1 : Front(q)[i] = q[i]
    BY FrontOfPath
<1>2. PICK n, front : n = Len(p) /\ front = Front(q)
    OBVIOUS
<1>3. n \in Nat /\ n <= Len(front) /\ n <= Len(q)
    BY <1>1, <1>2 DEF IsPrefix
<1>4. SubSeq(p, 1, n) = SubSeq(front, 1, n)
    BY <1>2 DEF IsPrefix
<1>5. SubSeq(front, 1, n) = SubSeq(q, 1, n)
    <2>1. \A i \in 1 .. n : front[i] = q[i]
        BY <1>1, <1>2, <1>3
    <2> QED
        BY <1>1, <1>2, <1>3, <2>1
<1> QED
    BY <1>2, <1>3, <1>4, <1>5 DEF IsPrefix

\* An object that is dropped takes with it what lies in it.
LEMMA ClosedStays ==
    ASSUME IInv, [Next]_vars
    PROVE  Closed'
<1> USE DEF IInv
<1>0. Closed /\ server \subseteq Universe
    BY DEF Typed, TypeOK
<1>1. CASE UNCHANGED server
    BY <1>0, <1>1 DEF Closed
<1>2. ASSUME NEW p \in Universe, Create(p)
      PROVE  Closed'
    BY <1>0, <1>2 DEF Create, Closed
<1>3. ASSUME NEW p \in Universe, Drop(p)
      PROVE  Closed'
    <2>1. server' = {q \in server : ~IsPrefix(p, q)}
        BY <1>3 DEF Drop
    <2>2. ASSUME NEW q \in server', Len(q) > 1
          PROVE  Front(q) \in server'
        <3>1. q \in server /\ ~IsPrefix(p, q) /\ Front(q) \in server
            BY <1>0, <2>1, <2>2 DEF Closed
        <3>2. p \in Seq(Name) /\ q \in Seq(Name)
            BY <1>0, <3>1, Constants
        <3>3. ~IsPrefix(p, Front(q))
            BY <2>2, <3>1, <3>2, PrefixOfFront
        <3> QED
            BY <2>1, <3>1, <3>3
    <2> QED
        BY <2>2 DEF Closed
<1> QED
    BY <1>1, <1>2, <1>3, Zenon
        DEF Next, StartSearch, Read, ReadFails, Deliver, ShowBreaks, vars

\* The answer to the next query: what is left to be found is left to the others.
LEMMA ReadKeepsPromise ==
    ASSUME IInv, Read
    PROVE  Underway' /\ SearchIsHonest'
<1>1. /\ Typed /\ server \subseteq Universe /\ status = "running" /\ todo # <<>> /\ todo \in Seq(Query)
    BY DEF IInv, Typed, TypeOK, Read
<1>2. /\ term # <<>>
      /\ always \subseteq Shown /\ Shown \subseteq ever
      /\ \A i \in 1 .. Len(todo) : Asked(todo[i])
      /\ \A p \in found : Wanted(p) /\ p \in ever
      /\ \A p \in always : Findable(p) => p \in found \/ \E i \in 1 .. Len(todo) : Finds(todo[i], p)
    BY <1>1 DEF IInv, Underway
<1>3. /\ found' = found \cup Answer(Head(todo))
      /\ todo' = Tail(todo)
      /\ status' = IF Len(todo) = 1 THEN "done" ELSE "running"
      /\ server' = server /\ UNCHANGED settings
      /\ term' = term /\ kind' = kind /\ always' = always /\ ever' = ever
    BY Zenon DEF Read, Answer, history
<1>4. /\ Head(todo) \in Query /\ Head(todo) = todo[1] /\ 1 \in 1 .. Len(todo)
      /\ Len(todo) = 1 <=> todo' = <<>>
      /\ \A i \in 1 .. Len(todo) : i = 1 \/ (i - 1 \in 1 .. Len(todo') /\ todo'[i - 1] = todo[i])
      /\ \A i \in 1 .. Len(todo') : i + 1 \in 1 .. Len(todo) /\ todo'[i] = todo[i + 1]
    BY <1>1, <1>3, NextQuery
<1>5. Answer(Head(todo)) = {p \in Shown : Finds(Head(todo), p)}
    BY <1>1, <1>4, AnswerIsFound
<1>6. Shown' = Shown /\ \A p : (Wanted(p)' <=> Wanted(p)) /\ (Findable(p)' <=> Findable(p))
    BY <1>3 DEF Shown, Findable, Wanted, Reaches
<1>7. \A q, p : (Asked(q)' <=> Asked(q)) /\ (Finds(q, p)' <=> Finds(q, p))
    BY <1>3, Zenon DEF Asked, Finds
<1>8. ASSUME NEW p \in found'
      PROVE  Wanted(p) /\ p \in ever
    <2>1. CASE p \in found
        BY <1>2, <2>1
    <2>2. CASE p \in Answer(Head(todo))
        <3>1. p \in Shown /\ Finds(Head(todo), p) /\ p \in server
            BY <1>5, <2>2 DEF Shown
        <3>2. Asked(Head(todo))
            BY <1>2, <1>4
        <3>3. Findable(p)
            BY <1>1, <1>2, <1>4, <3>1, <3>2, AskedIsFindable
        <3> QED
            BY <1>2, <3>1, <3>3 DEF Findable
    <2> QED
        BY <1>3, <2>1, <2>2
<1>9. ASSUME NEW p \in always, Findable(p)
      PROVE  p \in found' \/ \E i \in 1 .. Len(todo') : Finds(todo'[i], p)
    <2>1. CASE p \in found
        BY <1>3, <2>1
    <2>2. ASSUME NEW i \in 1 .. Len(todo), Finds(todo[i], p)
          PROVE  p \in found' \/ \E j \in 1 .. Len(todo') : Finds(todo'[j], p)
        <3>1. CASE i = 1
            BY <1>2, <1>3, <1>4, <1>5, <2>2, <3>1
        <3>2. CASE i # 1
            BY <1>4, <2>2, <3>2
        <3> QED
            BY <3>1, <3>2
    <2> QED
        BY <1>2, <1>9, <2>1, <2>2
<1>10. Underway'
    <2>1. \A i \in 1 .. Len(todo') : Asked(todo'[i])
        BY <1>2, <1>4
    <2> QED
        BY <1>2, <1>3, <1>6, <1>7, <1>8, <1>9, <2>1 DEF Underway
<1>11. SearchIsHonest'
    <2> SUFFICES ASSUME status' = "done"
                 PROVE  /\ \A p \in always' : Findable(p)' => p \in found'
                        /\ \A p \in found' : Wanted(p)' /\ p \in ever'
        BY DEF SearchIsHonest
    <2>1. todo' = <<>>
        BY <1>3, <1>4
    <2>2. \A i \in 1 .. Len(todo') : FALSE
        BY <2>1
    <2> QED
        BY <1>3, <1>6, <1>8, <1>9, <2>2
<1> QED
    BY <1>10, <1>11

\* The same of the state after a step.
LEMMA AskedWillBeFindable ==
    (Typed /\ term # <<>> =>
        \A p \in server : Findable(p) <=> \E q \in Query : Asked(q) /\ Finds(q, p))'
<1>1. Typed /\ term # <<>> =>
          \A p \in server : Findable(p) <=> \E q \in Query : Asked(q) /\ Finds(q, p)
    BY AskedIsFindable
<1> QED
    BY <1>1, PTL

\* A search that has begun owes all that is wanted to its queries.
LEMMA StartKeepsPromise ==
    ASSUME IInv, Typed', NEW t \in Terms, NEW k \in Kinds, StartSearch(t, k)
    PROVE  Underway' /\ SearchIsHonest'
<1>1. /\ t = <<>> => status' = "done"
      /\ t # <<>> => status' = "running" /\ todo' = Queries(t, k)
      /\ term' = t /\ kind' = k /\ found' = {} /\ always' = Shown /\ ever' = Shown
      /\ server' = server /\ UNCHANGED settings
    BY Zenon DEF StartSearch
<1>2. Shown' = Shown
    BY <1>1 DEF Shown, Reaches
<1>3. CASE t = <<>>
    <2>1. \A p : ~Findable(p)'
        BY <1>1, <1>3 DEF Findable, Wanted
    <2> QED
        BY <1>1, <1>3, <2>1 DEF Underway, SearchIsHonest
<1>4. CASE t # <<>>
    <2>1. /\ Queries(t, k) \in Seq(Query)
          /\ \A q : Holds(Queries(t, k), q) <=> Asked(q)'
        <3>1. t \in Name
            BY Constants
        <3>2. \A q : Asked(q)' <=>
                       \/ k = "all" /\ q = <<1, t>>
                       \/ \E level \in 1 .. 4, pattern \in Patterns(t) :
                             Holds(Levels(k), level) /\ q = <<level, pattern>>
            <4>1. term' = t /\ kind' = k
                BY <1>1
            <4> QED
                BY <4>1 DEF Asked
        <3>3. /\ Queries(t, k) \in Seq(Query)
              /\ \A q : Holds(Queries(t, k), q) <=>
                       \/ k = "all" /\ q = <<1, t>>
                       \/ \E level \in 1 .. 4, pattern \in Patterns(t) :
                             Holds(Levels(k), level) /\ q = <<level, pattern>>
            BY <3>1, QueriesAsk
        <3> QED
            BY <3>2, <3>3
    <2>2. \A i \in 1 .. Len(todo') : Asked(todo[i])'
        <3>1. todo' = Queries(t, k)
            BY <1>1, <1>4
        <3>2. \A i \in 1 .. Len(todo') : Holds(todo', todo'[i])
            BY DEF Holds
        <3>3. \A q : Holds(todo', q) => Asked(q)'
            BY <2>1, <3>1
        <3> QED
            BY <3>2, <3>3
    <2>3. ASSUME NEW p \in always', Findable(p)'
          PROVE  \E i \in 1 .. Len(todo') : Finds(todo[i], p)'
        <3>1. p \in server' /\ term' # <<>>
            BY <1>1, <1>2, <1>4 DEF Shown
        <3>2. PICK q \in Query : Asked(q)' /\ Finds(q, p)'
            BY <2>3, <3>1, AskedWillBeFindable
        <3>3. Holds(todo', q)
            BY <1>1, <1>4, <2>1, <3>2
        <3> QED
            BY <3>2, <3>3 DEF Holds
    <2>4. status' = "running" /\ term' # <<>> /\ found' = {}
        BY <1>1, <1>4
    <2>5. Underway'
        <3>1. /\ always' \subseteq Shown' /\ Shown' \subseteq ever'
              /\ \A p \in found' : Wanted(p)' /\ p \in ever'
            BY <1>1, <1>2
        <3> QED
            BY <2>2, <2>3, <2>4, <3>1 DEF Underway
    <2> QED
        BY <2>4, <2>5 DEF SearchIsHonest
<1> QED
    BY <1>3, <1>4

\* What other sessions create was not there all the while, and what they drop is
\* no longer wanted of the search.
LEMMA OthersKeepPromise ==
    ASSUME IInv, server' \subseteq Universe, UNCHANGED <<useShow, settings, searching>>, Remember
    PROVE  Underway' /\ SearchIsHonest'
<1>1. /\ status' = status /\ term' = term /\ kind' = kind /\ todo' = todo /\ found' = found
      /\ UNCHANGED settings
    BY DEF searching
<1>2. \A p : (Wanted(p)' <=> Wanted(p)) /\ (Findable(p)' <=> Findable(p))
    BY <1>1, Zenon DEF Findable, Wanted
<1>3. \A q, p : (Asked(q)' <=> Asked(q)) /\ (Finds(q, p)' <=> Finds(q, p))
    BY <1>1, Zenon DEF Asked, Finds
<1>4. CASE status = "running"
    <2>1. always' = always \cap Shown' /\ ever' = ever \cup Shown'
        BY <1>4 DEF Remember
    <2>2. status' = "running"
        BY <1>1, <1>4
    <2>3. /\ term # <<>>
          /\ \A i \in 1 .. Len(todo) : Asked(todo[i])
          /\ \A p \in found : Wanted(p) /\ p \in ever
          /\ \A p \in always : Findable(p) => p \in found \/ \E i \in 1 .. Len(todo) : Finds(todo[i], p)
        BY <1>4 DEF IInv, Underway
    <2>4. Underway'
        BY <1>1, <1>2, <1>3, <2>1, <2>3 DEF Underway
    <2> QED
        BY <2>2, <2>4 DEF SearchIsHonest
<1>5. CASE status # "running"
    <2>1. always' = always /\ ever' = ever
        BY <1>5 DEF Remember, history
    <2>2. Underway'
        BY <1>1, <1>5 DEF Underway
    <2>3. SearchIsHonest
        BY DEF IInv
    <2>4. SearchIsHonest'
        BY <1>1, <1>2, <2>1, <2>3 DEF SearchIsHonest
    <2> QED
        BY <2>2, <2>4
<1> QED
    BY <1>4, <1>5

\* Every step keeps the invariant.
LEMMA NextIInv == IInv /\ [Next]_vars => IInv'
<1> SUFFICES ASSUME IInv, [Next]_vars
             PROVE  IInv'
    OBVIOUS
<1>0. Typed' /\ Closed'
    BY TypedStays, ClosedStays
<1>1. ASSUME NEW t \in Terms, NEW k \in Kinds, StartSearch(t, k)
      PROVE  Underway' /\ SearchIsHonest'
    BY <1>0, <1>1, StartKeepsPromise
<1>2. ASSUME Read
      PROVE  Underway' /\ SearchIsHonest'
    BY <1>2, ReadKeepsPromise
<1>3. ASSUME ReadFails
      PROVE  Underway' /\ SearchIsHonest'
    <2>1. status' = "failed"
        BY <1>3 DEF ReadFails
    <2> QED
        BY <2>1 DEF Underway, SearchIsHonest
<1>4. ASSUME Deliver
      PROVE  Underway' /\ SearchIsHonest'
    <2>1. status' = "none"
        BY <1>4 DEF Deliver
    <2> QED
        BY <2>1 DEF Underway, SearchIsHonest
\* Nothing that the search has to do with depends on the SHOW path.
<1>5. ASSUME UNCHANGED <<server, settings, searching, history>>
      PROVE  Underway' /\ SearchIsHonest'
    <2>1. /\ status' = status /\ term' = term /\ kind' = kind /\ todo' = todo /\ found' = found
          /\ always' = always /\ ever' = ever /\ server' = server /\ UNCHANGED settings
        BY <1>5 DEF searching, history
    <2>2. Shown' = Shown /\ \A p : (Wanted(p)' <=> Wanted(p)) /\ (Findable(p)' <=> Findable(p))
        BY <2>1, Zenon DEF Shown, Findable, Wanted, Reaches
    <2>3. \A q, p : (Asked(q)' <=> Asked(q)) /\ (Finds(q, p)' <=> Finds(q, p))
        BY <2>1, Zenon DEF Asked, Finds
    <2>4. Underway'
        BY <2>1, <2>2, <2>3 DEF IInv, Underway
    <2>5. SearchIsHonest'
        BY <2>1, <2>2 DEF IInv, SearchIsHonest
    <2> QED
        BY <2>4, <2>5
<1>6. ASSUME NEW p \in Universe, Create(p) \/ Drop(p)
      PROVE  Underway' /\ SearchIsHonest'
    <2>1. server' \subseteq Universe
        BY <1>0 DEF Typed, TypeOK
    <2> QED
        BY <1>6, <2>1, OthersKeepPromise DEF Create, Drop
<1> QED
    BY <1>0, <1>1, <1>2, <1>3, <1>4, <1>5, <1>6 DEF IInv, Next, ShowBreaks, vars

-----------------------------------------------------------------------------
(* What the runs check, for whatever objects, terms and changes *)

\* The invariant holds in every reachable state.
LEMMA Invariant == Spec => []IInv
<1> QED
    BY InitIInv, NextIInv, PTL DEF Spec

\* Every variable has its type, and a search that has ended owes no query.
THEOREM SearchTypes == Spec => []TypeOK
<1>1. IInv => TypeOK
    BY DEF IInv, Typed
<1> QED
    BY <1>1, Invariant, PTL

\* The tree shows each object of the server where it is and nothing else,
\* whatever the names are made of and whether or not the SHOW path works.
THEOREM TreeIsTheServer == Spec => []TreeShowsTheServer
<1>1. IInv => TreeShowsTheServer
    BY TreeOfTheServer DEF IInv, Typed, TypeOK
<1> QED
    BY <1>1, Invariant, PTL

\* A search finds what is wanted and was there all the while, and nothing else,
\* whatever other sessions do between its queries.
THEOREM SearchKeepsPromise == Spec => []SearchIsHonest
<1>1. IInv => SearchIsHonest
    BY DEF IInv
<1> QED
    BY <1>1, Invariant, PTL
=============================================================================
