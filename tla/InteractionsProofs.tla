------------------------ MODULE InteractionsProofs -------------------------
(***************************************************************************)
(* Proofs about Interactions, for any catalog and any number of statements *)
(* and menu entries: the server reads what is quoted as the names it was   *)
(* made from, so queries and statements are about the item of the menu;    *)
(* the menus add nothing to the session's behaviour, so what is proved of  *)
(* it holds with them; and what they may do to the catalog in a read-only  *)
(* session and in Manual mode.                                             *)
(***************************************************************************)
EXTENDS Interactions, RedshiftSessionProofs, SequenceLayout

-----------------------------------------------------------------------------
(* What is quoted, character by character *)

\* The k-th character of text lies in twice after at[k] others, once or twice.
IsDoubled(at, twice, text, chars) ==
    /\ at \in [1 .. Len(text) + 1 -> Nat]
    /\ at[1] = 0
    /\ \A k \in 1 .. Len(text) :
          \/ /\ text[k] \in chars /\ at[k + 1] = at[k] + 2
             /\ twice[at[k] + 1] = text[k] /\ twice[at[k] + 2] = text[k]
          \/ /\ text[k] \notin chars /\ at[k + 1] = at[k] + 1
             /\ twice[at[k] + 1] = text[k]
    /\ \A k \in 1 .. Len(text) : at[k + 1] <= Len(twice)
    /\ Len(twice) = at[Len(text) + 1]

\* Doubled() does so.
LEMMA DoubledLayout ==
    ASSUME NEW S, NEW text \in Seq(S), NEW chars
    PROVE  /\ Doubled(text, chars) \in Seq(S)
           /\ \E at : IsDoubled(at, Doubled(text, chars), text, chars)
<1> DEFINE pieces == [i \in DOMAIN text |->
                        IF text[i] \in chars THEN <<text[i], text[i]>> ELSE <<text[i]>>]
<1>1. PICK L : L = Len(text)
    OBVIOUS
<1>2. L \in Nat /\ DOMAIN text = 1 .. L
    BY <1>1
<1>3. ASSUME NEW k \in 1 .. L
      PROVE  /\ pieces[k] \in Seq(S)
             /\ \/ /\ text[k] \in chars /\ Len(pieces[k]) = 2
                   /\ pieces[k][1] = text[k] /\ pieces[k][2] = text[k]
                \/ text[k] \notin chars /\ Len(pieces[k]) = 1 /\ pieces[k][1] = text[k]
    <2>1. PICK c \in S : c = text[k]
        BY <1>1
    <2>2. pieces[k] = IF c \in chars THEN <<c, c>> ELSE <<c>>
        BY <1>2, <2>1
    <2> HIDE DEF pieces
    <2> QED
        BY <2>1, <2>2
<1>4. pieces \in Seq(Seq(S)) /\ Len(pieces) = L
    <2>1. pieces = [k \in 1 .. L |-> pieces[k]]
        BY <1>2
    <2> HIDE DEF pieces
    <2> QED
        BY <1>2, <1>3, <2>1
<1>5. Doubled(text, chars) = FlattenSeq(pieces)
    BY DEF Doubled
<1> HIDE DEF pieces
<1>6. PICK twice : twice = FlattenSeq(pieces)
    OBVIOUS
<1>7. PICK at : twice \in Seq(S) /\ IsLayout(at, pieces, twice)
    BY <1>4, <1>6, FlattenSeqLayout
<1>8. /\ at \in [1 .. L + 1 -> Nat] /\ at[1] = 0 /\ Len(twice) = at[L + 1]
      /\ \A k \in 1 .. L : /\ at[k + 1] = at[k] + Len(pieces[k])
                           /\ at[k + 1] <= Len(twice)
                           /\ \A i \in 1 .. Len(pieces[k]) : twice[at[k] + i] = pieces[k][i]
    BY <1>4, <1>7 DEF IsLayout
<1>9. IsDoubled(at, twice, text, chars)
    <2>1. \A k \in 1 .. L :
             \/ /\ text[k] \in chars /\ at[k + 1] = at[k] + 2
                /\ twice[at[k] + 1] = text[k] /\ twice[at[k] + 2] = text[k]
             \/ /\ text[k] \notin chars /\ at[k + 1] = at[k] + 1
                /\ twice[at[k] + 1] = text[k]
        <3> SUFFICES ASSUME NEW k \in 1 .. L
                     PROVE  \/ /\ text[k] \in chars /\ at[k + 1] = at[k] + 2
                               /\ twice[at[k] + 1] = text[k] /\ twice[at[k] + 2] = text[k]
                            \/ /\ text[k] \notin chars /\ at[k + 1] = at[k] + 1
                               /\ twice[at[k] + 1] = text[k]
            OBVIOUS
        <3>1. PICK piece : piece = pieces[k]
            OBVIOUS
        <3>2. /\ at[k + 1] = at[k] + Len(piece)
              /\ \A i \in 1 .. Len(piece) : twice[at[k] + i] = piece[i]
            BY <1>8, <3>1
        <3>3. CASE text[k] \in chars /\ Len(piece) = 2 /\ piece[1] = text[k] /\ piece[2] = text[k]
            <4>1. 1 \in 1 .. Len(piece) /\ 2 \in 1 .. Len(piece)
                BY <3>3
            <4> QED
                BY <3>2, <3>3, <4>1
        <3>4. CASE text[k] \notin chars /\ Len(piece) = 1 /\ piece[1] = text[k]
            <4>1. 1 \in 1 .. Len(piece)
                BY <3>4
            <4> QED
                BY <3>2, <3>4, <4>1
        <3> QED
            BY <1>3, <3>1, <3>3, <3>4
    <2> QED
        BY <1>1, <1>8, <2>1 DEF IsDoubled
<1> QED
    BY <1>5, <1>6, <1>7, <1>9

\* Characters in quotation marks: the first and the last are the marks.
IsQuoted(text, mark, twice) ==
    /\ Len(twice) \in Nat
    /\ Len(text) = Len(twice) + 2
    /\ text[1] = mark /\ text[Len(twice) + 2] = mark
    /\ \A i \in 1 .. Len(twice) : text[i + 1] = twice[i]

\* A quotation is one.
LEMMA Quotation ==
    ASSUME NEW S, NEW twice \in Seq(S), NEW mark \in S
    PROVE  /\ <<mark>> \o twice \o <<mark>> \in Seq(S)
           /\ IsQuoted(<<mark>> \o twice \o <<mark>>, mark, twice)
<1>1. PICK text : text = <<mark>> \o twice \o <<mark>>
    OBVIOUS
<1>2. /\ text \in Seq(S) /\ Len(text) = Len(twice) + 2
      /\ text[1] = mark /\ text[Len(twice) + 2] = mark
      /\ \A i \in 1 .. Len(twice) : text[i + 1] = twice[i]
    BY <1>1
<1> QED
    BY <1>1, <1>2 DEF IsQuoted

\* A function on the first m numbers is a sequence.
LEMMA TypedSequence ==
    ASSUME NEW m \in Nat, NEW T, NEW f, f = [k \in 1 .. m |-> f[k]],
           \A k \in 1 .. m : f[k] \in T
    PROVE  f \in Seq(T) /\ Len(f) = m
<1>1. f \in [1 .. m -> T]
    OBVIOUS
<1> QED
    BY <1>1

-----------------------------------------------------------------------------
(* Literals *)

\* The first k characters of a text.
First(text, k) == [j \in 1 .. k |-> text[j]]

\* They are a text, which grows to the whole one, a character at a time.
LEMMA FirstGrows ==
    ASSUME NEW S, NEW text \in Seq(S)
    PROVE  /\ First(text, 0) = <<>>
           /\ \A k \in 1 .. Len(text) : First(text, k) = Append(First(text, k - 1), text[k])
           /\ First(text, Len(text)) = text
<1>1. \A k \in 0 .. Len(text) : First(text, k) \in Seq(S) /\ Len(First(text, k)) = k
    BY DEF First
<1>2. First(text, 0) = <<>>
    BY <1>1, EmptySeq
<1>3. First(text, Len(text)) = text
    BY DEF First
<1>4. ASSUME NEW k \in 1 .. Len(text)
      PROVE  First(text, k) = Append(First(text, k - 1), text[k])
    <2>1. PICK a, b : a = First(text, k - 1) /\ b = First(text, k)
        OBVIOUS
    <2>2. a \in Seq(S) /\ b \in Seq(S) /\ Len(a) = k - 1 /\ Len(b) = k /\ text[k] \in S
        BY <1>1, <2>1
    <2>3. \A j \in 1 .. k : b[j] = text[j]
        BY <2>1 DEF First
    <2>4. \A j \in 1 .. k - 1 : a[j] = text[j]
        BY <2>1 DEF First
    <2>5. Append(a, text[k]) \in Seq(S) /\ Len(Append(a, text[k])) = k
        BY <2>2
    <2>6. \A j \in 1 .. k : Append(a, text[k])[j] = b[j]
        BY <2>2, <2>3, <2>4
    <2>7. Append(a, text[k]) = b
        BY <2>2, <2>5, <2>6, SeqEqual
    <2> QED
        BY <2>1, <2>7
<1> QED
    BY <1>2, <1>3, <1>4

\* The server reads a literal character by character.
LEMMA LiteralSteps ==
    ASSUME NEW text, Len(text) \in Nat
    PROVE  \E after :
              /\ after[0] = [at |-> "before", value |-> <<>>]
              /\ \A i \in 1 .. Len(text) : after[i] = LiteralStep(after[i - 1], text[i])
              /\ ReadLiteral(text) = IF after[Len(text)].at = "quote"
                                     THEN after[Len(text)].value ELSE Garbled
<1> DEFINE N == Len(text)
           D == 0 .. N
           Body(f, i) == IF i = 0 THEN [at |-> "before", value |-> <<>>]
                         ELSE LiteralStep(f[i - 1], text[i])
           Upto(f, x) == \A i \in D : i <= x => f[i] = Body(f, i)
           T == {x \in Nat : \E f : Upto(f, x)}
<1>1. N \in Nat
    OBVIOUS
<1> HIDE DEF N
<1>2. 0 \in T
    <2> DEFINE g == [i \in D |-> [at |-> "before", value |-> <<>>]]
    <2>1. Upto(g, 0)
        BY <1>1
    <2> HIDE DEF Upto
    <2> QED
        BY <2>1
<1>3. ASSUME NEW f, NEW x \in Nat, Upto(f, x)
      PROVE  Upto([i \in D |-> Body(f, i)], x + 1)
    <2> DEFINE g == [i \in D |-> Body(f, i)]
    <2> SUFFICES ASSUME NEW i \in D, i <= x + 1
                 PROVE  g[i] = Body(g, i)
        OBVIOUS
    <2>1. CASE i = 0
        BY <2>1
    <2>2. CASE i # 0
        <3>1. i - 1 \in D /\ i - 1 <= x
            BY <1>1, <2>2
        <3>2. g[i - 1] = f[i - 1]
            BY <1>3, <3>1
        <3> QED
            BY <3>2
    <2> QED
        BY <2>1, <2>2
<1>4. ASSUME NEW x \in Nat, x \in T
      PROVE  x + 1 \in T
    <2>1. PICK f : Upto(f, x)
        BY <1>4
    <2>2. Upto([i \in D |-> Body(f, i)], x + 1)
        BY <1>3, <2>1
    <2> HIDE DEF Upto, Body
    <2> QED
        BY <2>2
<1>5. N \in T
    <2> HIDE DEF T
    <2> QED
        BY <1>1, <1>2, <1>4, Induction
<1>6. PICK f : Upto(f, N)
    BY <1>5
<1> DEFINE g == [i \in D |-> Body(f, i)]
<1>7. Upto(g, N + 1)
    <2> HIDE DEF Upto, Body
    <2> QED
        BY <1>1, <1>3, <1>6
<1>8. g = [i \in D |-> Body(g, i)]
    <2> HIDE DEF Body
    <2>1. \A i \in D : g[i] = Body(f, i)
        OBVIOUS
    <2>2. \A i \in D : g[i] = Body(g, i)
        <3> HIDE DEF g
        <3> QED
            BY <1>1, <1>7
    <2> QED
        BY <2>1, <2>2
<1> DEFINE chosen == CHOOSE after : after = [i \in D |-> Body(after, i)]
<1>9. chosen = [i \in D |-> Body(chosen, i)]
    <2> HIDE DEF g
    <2> QED
        BY <1>8
<1>10. ReadLiteral(text) = IF chosen[N].at = "quote" THEN chosen[N].value ELSE Garbled
    BY DEF ReadLiteral, N
<1> HIDE DEF chosen
<1>11. chosen[0] = [at |-> "before", value |-> <<>>]
    BY <1>1, <1>9
<1>12. ASSUME NEW i \in 1 .. N
       PROVE  chosen[i] = LiteralStep(chosen[i - 1], text[i])
    <2>1. i \in D /\ i # 0
        BY <1>1
    <2> QED
        BY <1>9, <2>1
<1> QED
    BY <1>10, <1>11, <1>12 DEF N

\* The state of reading inside a literal, with this value so far.
Inside(value) == [at |-> "inside", value |-> value]

\* One step, or two, from there: a character that needs no escape, and one that
\* has it.
LEMMA PlainCharacter ==
    ASSUME NEW value, NEW c, c \notin {Escape, Apostrophe}
    PROVE  LiteralStep(Inside(value), c) = Inside(Append(value, c))
BY DEF LiteralStep, Inside, Escape, Apostrophe

LEMMA EscapedCharacter ==
    ASSUME NEW value, NEW c, c \in {Escape, Apostrophe}
    PROVE  LiteralStep(LiteralStep(Inside(value), c), c) = Inside(Append(value, c))
<1>1. CASE c = Escape
    <2>1. LiteralStep(Inside(value), c) = [at |-> "escape", value |-> value]
        BY <1>1 DEF LiteralStep, Inside, Escape, Apostrophe
    <2>2. LiteralStep([at |-> "escape", value |-> value], c) = Inside(Append(value, c))
        BY DEF LiteralStep, Inside
    <2> QED
        BY <2>1, <2>2
<1>2. CASE c = Apostrophe
    <2>1. LiteralStep(Inside(value), c) = [at |-> "quote", value |-> value]
        BY <1>2 DEF LiteralStep, Inside, Escape, Apostrophe
    <2>2. LiteralStep([at |-> "quote", value |-> value], c) = Inside(Append(value, c))
        BY <1>2 DEF LiteralStep, Inside, Escape, Apostrophe
    <2> QED
        BY <2>1, <2>2
<1> QED
    BY <1>1, <1>2

\* The server reads a quoted literal as the text that was quoted.
LEMMA LiteralsMeanThemselves ==
    ASSUME NEW S, NEW value \in Seq(S)
    PROVE  ReadLiteral(QuoteLiteral(value)) = value
<1>1. PICK R : R = S \cup {Apostrophe}
    OBVIOUS
<1>2. value \in Seq(R) /\ Apostrophe \in R
    BY <1>1
<1> DEFINE chars == {Escape, Apostrophe}
<1>3. PICK twice : twice = Doubled(value, chars)
    OBVIOUS
<1>4. twice \in Seq(R) /\ Len(twice) \in Nat
    BY <1>2, <1>3, DoubledLayout
<1>5. PICK at : IsDoubled(at, twice, value, chars)
    BY <1>2, <1>3, DoubledLayout
<1>6. PICK text : text = <<Apostrophe>> \o twice \o <<Apostrophe>>
    OBVIOUS
<1>7. text \in Seq(R) /\ IsQuoted(text, Apostrophe, twice)
    BY <1>2, <1>4, <1>6, Quotation
<1>8. QuoteLiteral(value) = text
    BY <1>3, <1>6 DEF QuoteLiteral
<1>9. PICK after :
         /\ after[0] = [at |-> "before", value |-> <<>>]
         /\ \A i \in 1 .. Len(text) : after[i] = LiteralStep(after[i - 1], text[i])
         /\ ReadLiteral(text) = IF after[Len(text)].at = "quote"
                                THEN after[Len(text)].value ELSE Garbled
    <2>1. Len(text) \in Nat
        BY <1>7
    <2> QED
        BY <2>1, LiteralSteps
<1>10. PICK M, L : M = Len(value) /\ L = Len(twice)
    OBVIOUS
<1>11. M \in Nat /\ L \in Nat /\ Len(text) = L + 2
    BY <1>4, <1>7, <1>10 DEF IsQuoted
<1>12. after[1] = Inside(<<>>)
    <2>1. text[1] = Apostrophe /\ 1 \in 1 .. Len(text) /\ 1 - 1 = 0
        BY <1>7, <1>11 DEF IsQuoted
    <2>2. after[1] = LiteralStep([at |-> "before", value |-> <<>>], Apostrophe)
        BY <1>9, <2>1
    <2> QED
        BY <2>2 DEF LiteralStep, Inside
<1>13. ASSUME NEW i \in 1 .. L
       PROVE  after[i + 1] = LiteralStep(after[i], twice[i])
    <2>1. i + 1 \in 1 .. Len(text) /\ (i + 1) - 1 = i
        BY <1>11
    <2>2. text[i + 1] = twice[i]
        BY <1>7, <1>10 DEF IsQuoted
    <2> QED
        BY <1>9, <2>1, <2>2
<1> DEFINE Read(k) == after[at[k + 1] + 1] = Inside(First(value, k))
           T == {k \in Nat : k <= M => Read(k)}
<1>14. 0 \in T
    <2>1. at[0 + 1] + 1 = 1
        BY <1>5 DEF IsDoubled
    <2>2. First(value, 0) = <<>>
        BY FirstGrows
    <2> QED
        BY <1>12, <2>1, <2>2
<1>15. ASSUME NEW x \in Nat, x \in T
       PROVE  x + 1 \in T
    <2> SUFFICES ASSUME x + 1 <= M
                 PROVE  Read(x + 1)
        OBVIOUS
    <2>1. PICK k : k = x + 1
        OBVIOUS
    <2>2. k \in 1 .. M /\ x = k - 1 /\ x <= M
        BY <1>11, <2>1
    <2>3. PICK a, c, v : a = at[k] /\ c = value[k] /\ v = First(value, x)
        OBVIOUS
    <2>4. First(value, k) = Append(v, c)
        BY <1>10, <2>2, <2>3, FirstGrows
    <2>5. after[a + 1] = Inside(v)
        BY <1>15, <2>1, <2>2, <2>3
    <2>6. /\ \/ /\ c \in chars /\ at[k + 1] = a + 2
                /\ twice[a + 1] = c /\ twice[a + 2] = c
             \/ c \notin chars /\ at[k + 1] = a + 1 /\ twice[a + 1] = c
          /\ at[k + 1] <= L
          /\ a \in Nat
        <3>1. k \in 1 .. M + 1
            BY <2>2, <1>11
        <3> HIDE DEF chars
        <3> QED
            BY <1>5, <1>10, <2>2, <2>3, <3>1 DEF IsDoubled
    <2>7. CASE /\ c \in chars /\ at[k + 1] = a + 2
               /\ twice[a + 1] = c /\ twice[a + 2] = c
        <3>1. /\ a + 1 \in 1 .. L /\ a + 2 \in 1 .. L
              /\ (a + 1) + 1 = a + 2 /\ (a + 2) + 1 = at[k + 1] + 1
            BY <1>11, <2>6, <2>7
        <3>2. after[a + 2] = LiteralStep(Inside(v), c)
            BY <1>13, <2>5, <2>7, <3>1
        <3>3. after[at[k + 1] + 1] = LiteralStep(after[a + 2], c)
            BY <1>13, <2>7, <3>1
        <3>4. LiteralStep(LiteralStep(Inside(v), c), c) = Inside(Append(v, c))
            BY <2>7, EscapedCharacter
        <3> QED
            BY <2>1, <2>4, <3>2, <3>3, <3>4
    <2>8. CASE c \notin chars /\ at[k + 1] = a + 1 /\ twice[a + 1] = c
        <3>1. a + 1 \in 1 .. L /\ (a + 1) + 1 = at[k + 1] + 1
            BY <1>11, <2>6, <2>8
        <3>2. after[at[k + 1] + 1] = LiteralStep(Inside(v), c)
            BY <1>13, <2>5, <2>8, <3>1
        <3>3. LiteralStep(Inside(v), c) = Inside(Append(v, c))
            BY <2>8, PlainCharacter
        <3> QED
            BY <2>1, <2>4, <3>2, <3>3
    <2> QED
        BY <2>6, <2>7, <2>8
<1>16. Read(M)
    <2>1. M \in T
        <3> HIDE DEF T
        <3> QED
            BY <1>11, <1>14, <1>15, Induction
    <2> QED
        BY <1>11, <2>1
<1>17. after[L + 1] = Inside(value)
    <2>1. at[M + 1] = L
        BY <1>5, <1>10 DEF IsDoubled
    <2>2. First(value, M) = value
        BY <1>10, FirstGrows
    <2> QED
        BY <1>16, <2>1, <2>2
<1>18. after[L + 2] = [at |-> "quote", value |-> value]
    <2>1. text[L + 2] = Apostrophe /\ L + 2 \in 1 .. Len(text) /\ (L + 2) - 1 = L + 1
        BY <1>7, <1>10, <1>11 DEF IsQuoted
    <2>2. after[L + 2] = LiteralStep(Inside(value), Apostrophe)
        BY <1>9, <1>17, <2>1
    <2> QED
        BY <2>2 DEF LiteralStep, Inside, Escape, Apostrophe
<1> QED
    BY <1>8, <1>9, <1>11, <1>18

-----------------------------------------------------------------------------
(* Names *)

\* The server reads a dotted name character by character.
LEMMA NamesSteps ==
    ASSUME NEW text, Len(text) \in Nat
    PROVE  \E after :
              /\ after[0] = [at |-> "between", name |-> <<>>, names |-> <<>>]
              /\ \A i \in 1 .. Len(text) : after[i] = NamesStep(after[i - 1], text[i])
              /\ ReadNames(text) = IF after[Len(text)].at = "quote"
                                   THEN Append(after[Len(text)].names, after[Len(text)].name)
                                   ELSE <<>>
<1> DEFINE N == Len(text)
           D == 0 .. N
           Body(f, i) == IF i = 0 THEN [at |-> "between", name |-> <<>>, names |-> <<>>]
                         ELSE NamesStep(f[i - 1], text[i])
           Upto(f, x) == \A i \in D : i <= x => f[i] = Body(f, i)
           T == {x \in Nat : \E f : Upto(f, x)}
<1>1. N \in Nat
    OBVIOUS
<1> HIDE DEF N
<1>2. 0 \in T
    <2> DEFINE g == [i \in D |-> [at |-> "between", name |-> <<>>, names |-> <<>>]]
    <2>1. Upto(g, 0)
        BY <1>1
    <2> HIDE DEF Upto
    <2> QED
        BY <2>1
<1>3. ASSUME NEW f, NEW x \in Nat, Upto(f, x)
      PROVE  Upto([i \in D |-> Body(f, i)], x + 1)
    <2> DEFINE g == [i \in D |-> Body(f, i)]
    <2> SUFFICES ASSUME NEW i \in D, i <= x + 1
                 PROVE  g[i] = Body(g, i)
        OBVIOUS
    <2>1. CASE i = 0
        BY <2>1
    <2>2. CASE i # 0
        <3>1. i - 1 \in D /\ i - 1 <= x
            BY <1>1, <2>2
        <3>2. g[i - 1] = f[i - 1]
            BY <1>3, <3>1
        <3> QED
            BY <3>2
    <2> QED
        BY <2>1, <2>2
<1>4. ASSUME NEW x \in Nat, x \in T
      PROVE  x + 1 \in T
    <2>1. PICK f : Upto(f, x)
        BY <1>4
    <2>2. Upto([i \in D |-> Body(f, i)], x + 1)
        BY <1>3, <2>1
    <2> HIDE DEF Upto, Body
    <2> QED
        BY <2>2
<1>5. N \in T
    <2> HIDE DEF T
    <2> QED
        BY <1>1, <1>2, <1>4, Induction
<1>6. PICK f : Upto(f, N)
    BY <1>5
<1> DEFINE g == [i \in D |-> Body(f, i)]
<1>7. Upto(g, N + 1)
    <2> HIDE DEF Upto, Body
    <2> QED
        BY <1>1, <1>3, <1>6
<1>8. g = [i \in D |-> Body(g, i)]
    <2> HIDE DEF Body
    <2>1. \A i \in D : g[i] = Body(f, i)
        OBVIOUS
    <2>2. \A i \in D : g[i] = Body(g, i)
        <3> HIDE DEF g
        <3> QED
            BY <1>1, <1>7
    <2> QED
        BY <2>1, <2>2
<1> DEFINE chosen == CHOOSE after : after = [i \in D |-> Body(after, i)]
<1>9. chosen = [i \in D |-> Body(chosen, i)]
    <2> HIDE DEF g
    <2> QED
        BY <1>8
<1>10. ReadNames(text) = IF chosen[N].at = "quote"
                         THEN Append(chosen[N].names, chosen[N].name) ELSE <<>>
    BY DEF ReadNames, N
<1> HIDE DEF chosen
<1>11. chosen[0] = [at |-> "between", name |-> <<>>, names |-> <<>>]
    BY <1>1, <1>9
<1>12. ASSUME NEW i \in 1 .. N
       PROVE  chosen[i] = NamesStep(chosen[i - 1], text[i])
    <2>1. i \in D /\ i # 0
        BY <1>1
    <2> QED
        BY <1>9, <2>1
<1> QED
    BY <1>10, <1>11, <1>12 DEF N

\* The state of reading inside an identifier, after these names.
Amid(name, names) == [at |-> "inside", name |-> name, names |-> names]

\* One step, or two, from there.
LEMMA PlainInName ==
    ASSUME NEW name, NEW names, NEW c, c \notin {Quote}
    PROVE  NamesStep(Amid(name, names), c) = Amid(Append(name, c), names)
BY DEF NamesStep, Amid, Quote

LEMMA QuoteInName ==
    ASSUME NEW name, NEW names, NEW c, c \in {Quote}
    PROVE  NamesStep(NamesStep(Amid(name, names), c), c) = Amid(Append(name, c), names)
<1>1. NamesStep(Amid(name, names), c) = [at |-> "quote", name |-> name, names |-> names]
    BY DEF NamesStep, Amid, Quote
<1>2. NamesStep([at |-> "quote", name |-> name, names |-> names], c)
         = Amid(Append(name, c), names)
    BY DEF NamesStep, Amid, Quote
<1> QED
    BY <1>1, <1>2

\* The piece lies in the text, after its first `from` characters.
LiesAt(text, from, piece) ==
    /\ from \in Nat
    /\ from + Len(piece) <= Len(text)
    /\ \A i \in 1 .. Len(piece) : text[from + i] = piece[i]

\* after[i] is what the server has read after i characters.
Reads(after, text) ==
    /\ Len(text) \in Nat
    /\ \A i \in 1 .. Len(text) : after[i] = NamesStep(after[i - 1], text[i])

\* The server reads a quoted identifier as the name that was quoted.
LEMMA IdentifierIsRead ==
    ASSUME NEW S, NEW name \in Seq(S), NEW names, NEW after, NEW text, NEW from,
           Reads(after, text), LiesAt(text, from, QuoteIdentifier(name)),
           after[from] = [at |-> "between", name |-> <<>>, names |-> names]
    PROVE  after[from + Len(QuoteIdentifier(name))]
              = [at |-> "quote", name |-> name, names |-> names]
<1>1. PICK R : R = S \cup {Quote}
    OBVIOUS
<1>2. name \in Seq(R) /\ Quote \in R
    BY <1>1
<1>3. PICK twice : twice = Doubled(name, {Quote})
    OBVIOUS
<1>4. twice \in Seq(R) /\ Len(twice) \in Nat
    BY <1>2, <1>3, DoubledLayout
<1>5. PICK at : IsDoubled(at, twice, name, {Quote})
    BY <1>2, <1>3, DoubledLayout
<1>6. PICK q : q = <<Quote>> \o twice \o <<Quote>>
    OBVIOUS
<1>7. q \in Seq(R) /\ IsQuoted(q, Quote, twice)
    BY <1>2, <1>4, <1>6, Quotation
<1>8. QuoteIdentifier(name) = q
    BY <1>3, <1>6 DEF QuoteIdentifier
<1>9. LiesAt(text, from, q)
    BY <1>8
<1>10. PICK M, L, N : M = Len(name) /\ L = Len(twice) /\ N = Len(text)
    OBVIOUS
<1>11. /\ M \in Nat /\ L \in Nat /\ N \in Nat /\ from \in Nat
       /\ Len(q) = L + 2 /\ from + (L + 2) <= N
    BY <1>4, <1>7, <1>9, <1>10 DEF IsQuoted, LiesAt, Reads
<1>12. after[from + 1] = Amid(<<>>, names)
    <2>1. q[1] = Quote /\ 1 \in 1 .. Len(q)
        BY <1>7, <1>11 DEF IsQuoted
    <2>2. text[from + 1] = Quote
        BY <1>9, <2>1 DEF LiesAt
    <2>3. from + 1 \in 1 .. N /\ (from + 1) - 1 = from
        BY <1>11
    <2>4. after[from + 1] = NamesStep([at |-> "between", name |-> <<>>, names |-> names], Quote)
        BY <1>10, <2>2, <2>3 DEF Reads
    <2> QED
        BY <2>4 DEF NamesStep, Amid
<1>13. ASSUME NEW i \in 1 .. L
       PROVE  after[(from + i) + 1] = NamesStep(after[from + i], twice[i])
    <2>1. i + 1 \in 1 .. Len(q) /\ q[i + 1] = twice[i]
        BY <1>7, <1>10, <1>11 DEF IsQuoted
    <2>2. text[from + (i + 1)] = twice[i]
        BY <1>9, <2>1 DEF LiesAt
    <2>3. from + (i + 1) = (from + i) + 1 /\ (from + i) + 1 \in 1 .. N /\ ((from + i) + 1) - 1 = from + i
        BY <1>11
    <2> QED
        BY <1>10, <2>2, <2>3 DEF Reads
<1> DEFINE Read(k) == after[(from + at[k + 1]) + 1] = Amid(First(name, k), names)
           T == {k \in Nat : k <= M => Read(k)}
<1>14. 0 \in T
    <2>1. (from + at[0 + 1]) + 1 = from + 1
        BY <1>5, <1>11 DEF IsDoubled
    <2>2. First(name, 0) = <<>>
        BY FirstGrows
    <2> QED
        BY <1>12, <2>1, <2>2
<1>15. ASSUME NEW m \in Nat, m \in T
       PROVE  m + 1 \in T
    <2> SUFFICES ASSUME m + 1 <= M
                 PROVE  Read(m + 1)
        OBVIOUS
    <2>1. PICK k : k = m + 1
        OBVIOUS
    <2>2. k \in 1 .. M /\ m = k - 1 /\ m <= M
        BY <1>11, <2>1
    <2>3. PICK a, c, v : a = at[k] /\ c = name[k] /\ v = First(name, m)
        OBVIOUS
    <2>4. First(name, k) = Append(v, c)
        BY <1>10, <2>2, <2>3, FirstGrows
    <2>5. after[(from + a) + 1] = Amid(v, names)
        BY <1>15, <2>1, <2>2, <2>3
    <2>6. /\ \/ /\ c \in {Quote} /\ at[k + 1] = a + 2
                /\ twice[a + 1] = c /\ twice[a + 2] = c
             \/ c \notin {Quote} /\ at[k + 1] = a + 1 /\ twice[a + 1] = c
          /\ at[k + 1] <= L
          /\ a \in Nat
        <3>1. k \in 1 .. M + 1
            BY <2>2, <1>11
        <3>2. PICK marks : marks = {Quote}
            OBVIOUS
        <3>3. IsDoubled(at, twice, name, marks)
            BY <1>5, <3>2
        <3> HIDE <3>2
        <3>4. /\ \/ /\ c \in marks /\ at[k + 1] = a + 2
                    /\ twice[a + 1] = c /\ twice[a + 2] = c
                 \/ c \notin marks /\ at[k + 1] = a + 1 /\ twice[a + 1] = c
              /\ at[k + 1] <= L
              /\ a \in Nat
            BY <1>10, <2>2, <2>3, <3>1, <3>3 DEF IsDoubled
        <3> QED
            BY <3>2, <3>4, Zenon
    <2>7. CASE /\ c \in {Quote} /\ at[k + 1] = a + 2
               /\ twice[a + 1] = c /\ twice[a + 2] = c
        <3>1. /\ a + 1 \in 1 .. L /\ a + 2 \in 1 .. L
              /\ from + (a + 1) = (from + a) + 1 /\ from + (a + 2) = (from + (a + 1)) + 1
              /\ (from + at[k + 1]) + 1 = (from + (a + 2)) + 1
            BY <1>11, <2>6, <2>7
        <3>2. after[from + (a + 2)] = NamesStep(Amid(v, names), c)
            BY <1>13, <2>5, <2>7, <3>1
        <3>3. after[(from + at[k + 1]) + 1] = NamesStep(after[from + (a + 2)], c)
            BY <1>13, <2>7, <3>1
        <3>4. NamesStep(NamesStep(Amid(v, names), c), c) = Amid(Append(v, c), names)
            BY <2>7, QuoteInName
        <3> QED
            BY <2>1, <2>4, <3>2, <3>3, <3>4
    <2>8. CASE c \notin {Quote} /\ at[k + 1] = a + 1 /\ twice[a + 1] = c
        <3>1. /\ a + 1 \in 1 .. L /\ from + (a + 1) = (from + a) + 1
              /\ (from + at[k + 1]) + 1 = (from + (a + 1)) + 1
            BY <1>11, <2>6, <2>8
        <3>2. after[(from + at[k + 1]) + 1] = NamesStep(Amid(v, names), c)
            BY <1>13, <2>5, <2>8, <3>1
        <3>3. NamesStep(Amid(v, names), c) = Amid(Append(v, c), names)
            BY <2>8, PlainInName
        <3> QED
            BY <2>1, <2>4, <3>2, <3>3
    <2> QED
        BY <2>6, <2>7, <2>8
<1>16. Read(M)
    <2>1. M \in T
        <3> HIDE DEF T
        <3> QED
            BY <1>11, <1>14, <1>15, Induction
    <2> QED
        BY <1>11, <2>1
<1>17. after[(from + L) + 1] = Amid(name, names)
    <2>1. at[M + 1] = L
        BY <1>5, <1>10 DEF IsDoubled
    <2>2. First(name, M) = name
        BY <1>10, FirstGrows
    <2> QED
        BY <1>16, <2>1, <2>2
<1>18. after[from + (L + 2)] = [at |-> "quote", name |-> name, names |-> names]
    <2>1. q[L + 2] = Quote /\ L + 2 \in 1 .. Len(q)
        BY <1>7, <1>10, <1>11 DEF IsQuoted
    <2>2. text[from + (L + 2)] = Quote
        BY <1>9, <2>1 DEF LiesAt
    <2>3. from + (L + 2) \in 1 .. N /\ (from + (L + 2)) - 1 = (from + L) + 1
        BY <1>11
    <2>4. after[from + (L + 2)] = NamesStep(Amid(name, names), Quote)
        BY <1>10, <1>17, <2>2, <2>3 DEF Reads
    <2> QED
        BY <2>4 DEF NamesStep, Amid, Quote
<1> QED
    BY <1>8, <1>11, <1>18

\* A quoted name is a text of at least two characters.
LEMMA IdentifierIsText ==
    ASSUME NEW S, Quote \in S, NEW name \in Seq(S)
    PROVE  QuoteIdentifier(name) \in Seq(S) /\ Len(QuoteIdentifier(name)) >= 2
<1>1. PICK twice : twice = Doubled(name, {Quote})
    OBVIOUS
<1>2. twice \in Seq(S)
    BY <1>1, DoubledLayout
<1>3. PICK q : q = <<Quote>> \o twice \o <<Quote>>
    OBVIOUS
<1>4. q \in Seq(S) /\ IsQuoted(q, Quote, twice)
    BY <1>2, <1>3, Quotation
<1>5. QuoteIdentifier(name) = q
    BY <1>1, <1>3 DEF QuoteIdentifier
<1> QED
    BY <1>4, <1>5 DEF IsQuoted

\* What a name alone is read as.
LEMMA IdentifiersMeanThemselves ==
    ASSUME NEW S, NEW name \in Seq(S)
    PROVE  ReadNames(QuoteIdentifier(name)) = <<name>>
<1>1. PICK R : R = S \cup {Quote}
    OBVIOUS
<1>2. name \in Seq(R) /\ Quote \in R
    BY <1>1
<1>3. PICK text : text = QuoteIdentifier(name)
    OBVIOUS
<1>4. text \in Seq(R) /\ Len(text) \in Nat
    BY <1>2, <1>3, IdentifierIsText
<1>5. PICK after :
         /\ after[0] = [at |-> "between", name |-> <<>>, names |-> <<>>]
         /\ \A i \in 1 .. Len(text) : after[i] = NamesStep(after[i - 1], text[i])
         /\ ReadNames(text) = IF after[Len(text)].at = "quote"
                              THEN Append(after[Len(text)].names, after[Len(text)].name)
                              ELSE <<>>
    BY <1>4, NamesSteps
<1>6. Reads(after, text) /\ LiesAt(text, 0, QuoteIdentifier(name))
    BY <1>3, <1>4, <1>5 DEF Reads, LiesAt
<1>7. after[0 + Len(QuoteIdentifier(name))] = [at |-> "quote", name |-> name, names |-> <<>>]
    BY <1>2, <1>5, <1>6, IdentifierIsRead
<1>8. after[Len(text)] = [at |-> "quote", name |-> name, names |-> <<>>]
    BY <1>3, <1>4, <1>7
<1>9. ReadNames(text) = Append(<<>>, name)
    BY <1>5, <1>8
<1> QED
    BY <1>3, <1>9

\* What names are read as that are quoted one by one, with dots in between.
LEMMA DottedNamesMeanThemselves ==
    ASSUME NEW S, NEW parts \in Seq(Seq(S)), parts # <<>>
    PROVE  ReadNames(Dotted(parts)) = parts
<1>1. PICK R : R = S \cup {Quote, "."}
    OBVIOUS
<1>2. PICK M : M = Len(parts)
    OBVIOUS
<1>3. M \in Nat /\ M # 0 /\ DOMAIN parts = 1 .. M
    BY <1>2, EmptySeq
<1>4. Quote \in R /\ "." \in R /\ \A k \in 1 .. M : parts[k] \in Seq(S) /\ parts[k] \in Seq(R)
    <2>1. \A k \in 1 .. M : parts[k] \in Seq(S)
        BY <1>2
    <2>2. \A s \in Seq(S) : s \in Seq(R)
        BY <1>1
    <2> QED
        BY <1>1, <2>1, <2>2
<1> DEFINE seqs == [k \in DOMAIN parts |-> <<".">> \o QuoteIdentifier(parts[k])]
<1>5. ASSUME NEW k \in 1 .. M
      PROVE  /\ seqs[k] \in Seq(R)
             /\ Len(QuoteIdentifier(parts[k])) \in Nat
             /\ Len(QuoteIdentifier(parts[k])) >= 2
             /\ Len(seqs[k]) = Len(QuoteIdentifier(parts[k])) + 1
             /\ seqs[k][1] = "."
             /\ \A i \in 1 .. Len(QuoteIdentifier(parts[k])) :
                   seqs[k][i + 1] = QuoteIdentifier(parts[k])[i]
    <2>1. PICK q : q = QuoteIdentifier(parts[k])
        OBVIOUS
    <2>2. q \in Seq(R) /\ Len(q) >= 2
        BY <1>4, <2>1, IdentifierIsText
    <2>3. seqs[k] = <<".">> \o q
        BY <1>3, <2>1
    <2> HIDE DEF seqs
    <2>4. /\ <<".">> \o q \in Seq(R) /\ Len(<<".">> \o q) = Len(q) + 1 /\ Len(q) \in Nat
          /\ (<<".">> \o q)[1] = "."
          /\ \A i \in 1 .. Len(q) : (<<".">> \o q)[i + 1] = q[i]
        BY <1>4, <2>2
    <2> QED
        BY <2>1, <2>2, <2>3, <2>4
<1>6. seqs \in Seq(Seq(R)) /\ Len(seqs) = M
    <2>1. seqs = [k \in 1 .. M |-> seqs[k]]
        BY <1>3
    <2> HIDE DEF seqs
    <2>2. \A k \in 1 .. M : seqs[k] \in Seq(R)
        BY <1>5, Zenon
    <2> QED
        BY <1>3, <2>1, <2>2, TypedSequence, Zenon
<1>7. Dotted(parts) = Tail(FlattenSeq(seqs))
    BY DEF Dotted
<1> HIDE DEF seqs
<1>8. PICK flat : flat = FlattenSeq(seqs)
    OBVIOUS
<1>9. PICK at : flat \in Seq(R) /\ IsLayout(at, seqs, flat)
    BY <1>6, <1>8, FlattenSeqLayout
<1>10. /\ at \in [1 .. M + 1 -> Nat] /\ at[1] = 0 /\ at[M + 1] = Len(flat)
       /\ \A k \in 1 .. M : /\ at[k + 1] = at[k] + Len(seqs[k])
                            /\ at[k + 1] <= Len(flat)
                            /\ \A i \in 1 .. Len(seqs[k]) : flat[at[k] + i] = seqs[k][i]
    BY <1>6, <1>9 DEF IsLayout
<1>11. Len(flat) \in Nat /\ Len(flat) >= 3
    <2>1. 1 \in 1 .. M /\ 1 + 1 = 2 /\ Len(seqs[1]) >= 3
        BY <1>3, <1>5
    <2>2. at[2] = at[1] + Len(seqs[1]) /\ at[2] <= Len(flat)
        BY <1>10, <2>1
    <2>3. Len(flat) \in Nat
        BY <1>9
    <2>4. PICK l : l = Len(seqs[1]) /\ l \in Nat
        BY <1>5, <2>1
    <2> QED
        BY <1>10, <2>1, <2>2, <2>3, <2>4
<1>12. PICK text : text = Tail(flat)
    OBVIOUS
<1>13. /\ Len(text) = Len(flat) - 1 /\ Len(text) \in Nat
       /\ \A i \in 1 .. Len(text) : text[i] = flat[i + 1]
    BY <1>9, <1>11, <1>12
<1>14. PICK after :
          /\ after[0] = [at |-> "between", name |-> <<>>, names |-> <<>>]
          /\ \A i \in 1 .. Len(text) : after[i] = NamesStep(after[i - 1], text[i])
          /\ ReadNames(text) = IF after[Len(text)].at = "quote"
                               THEN Append(after[Len(text)].names, after[Len(text)].name)
                               ELSE <<>>
    BY <1>13, NamesSteps
<1>15. Reads(after, text)
    BY <1>13, <1>14 DEF Reads
<1> DEFINE Between(names) == [at |-> "between", name |-> <<>>, names |-> names]
           After(k) == after[at[k]] = Between(First(parts, k - 1))
<1>16. ASSUME NEW k \in 1 .. M, After(k)
       PROVE  /\ at[k + 1] - 1 \in Nat
              /\ at[k + 1] <= Len(flat)
              /\ after[at[k + 1] - 1]
                    = [at |-> "quote", name |-> parts[k], names |-> First(parts, k - 1)]
    <2>1. PICK q, l, a : q = QuoteIdentifier(parts[k]) /\ l = Len(q) /\ a = at[k]
        OBVIOUS
    <2>2. k \in 1 .. M + 1 /\ a \in Nat
        BY <1>3, <1>10, <2>1
    <2>3. /\ l \in Nat /\ l >= 2 /\ Len(seqs[k]) = l + 1
          /\ \A i \in 1 .. l : seqs[k][i + 1] = q[i]
        BY <1>5, <2>1
    <2>4. /\ at[k + 1] = a + (l + 1)
          /\ at[k + 1] <= Len(flat)
          /\ \A i \in 1 .. l + 1 : flat[a + i] = seqs[k][i]
        BY <1>10, <2>1, <2>3
    <2>41. /\ a \in Nat /\ l \in Nat /\ l >= 2 /\ Len(text) \in Nat
           /\ a + (l + 1) <= Len(text) + 1
        <3>1. a + (l + 1) <= Len(flat)
            BY <2>4, Zenon
        <3>2. Len(flat) = Len(text) + 1
            BY <1>11, <1>13
        <3>3. Len(text) \in Nat
            BY <1>13, Zenon
        <3> QED
            BY <2>2, <2>3, <3>1, <3>2, <3>3, Zenon
    <2>5. ASSUME NEW i \in 1 .. l
          PROVE  text[a + i] = q[i]
        <3>1. a + i \in 1 .. Len(text) /\ (a + i) + 1 = a + (i + 1) /\ i + 1 \in 1 .. l + 1
            BY <2>41
        <3>2. text[a + i] = flat[a + (i + 1)]
            BY <1>13, <3>1
        <3> QED
            BY <2>3, <2>4, <3>1, <3>2
    <2>6. LiesAt(text, a, q)
        <3>1. a + l <= Len(text)
            BY <2>41
        <3> QED
            BY <2>1, <2>2, <2>5, <3>1, Zenon DEF LiesAt
    <2>7. PICK names : names = First(parts, k - 1)
        OBVIOUS
    <2>8. after[a] = [at |-> "between", name |-> <<>>, names |-> names]
        BY <1>16, <2>1, <2>7
    <2>9. PICK name : name = parts[k] /\ name \in Seq(S)
        BY <1>4
    <2>10. LiesAt(text, a, QuoteIdentifier(name))
        BY <2>1, <2>6, <2>9
    <2>11. after[a + Len(QuoteIdentifier(name))]
              = [at |-> "quote", name |-> name, names |-> names]
        BY <1>15, <2>8, <2>9, <2>10, IdentifierIsRead
    <2>12. at[k + 1] - 1 = a + l /\ a + l \in Nat
        <3>1. at[k + 1] = a + (l + 1)
            BY <2>4, Zenon
        <3> QED
            BY <2>41, <3>1
    <2>13. after[a + l] = [at |-> "quote", name |-> parts[k], names |-> First(parts, k - 1)]
        BY <2>1, <2>7, <2>9, <2>11, Zenon
    <2> QED
        BY <2>4, <2>12, <2>13, Zenon
<1> DEFINE T == {k \in Nat : k + 1 <= M => After(k + 1)}
<1>17. 0 \in T
    <2>1. First(parts, 0) = <<>>
        BY FirstGrows
    <2>2. 0 + 1 = 1 /\ 1 - 1 = 0
        OBVIOUS
    <2> QED
        BY <1>10, <1>14, <2>1, <2>2
<1>18. ASSUME NEW m \in Nat, m \in T
       PROVE  m + 1 \in T
    <2> SUFFICES ASSUME (m + 1) + 1 <= M
                 PROVE  After((m + 1) + 1)
        OBVIOUS
    <2>1. PICK k : k = m + 1
        OBVIOUS
    <2>2. /\ k \in 1 .. M /\ k + 1 \in 1 .. M /\ k \in 1 .. M + 1 /\ k + 1 \in 1 .. M + 1
          /\ (k + 1) + 1 \in 1 .. M + 1 /\ (k + 1) - 1 = k
        BY <1>3, <2>1
    <2>3. After(k)
        BY <1>3, <1>18, <2>1, <2>2
    <2>4. PICK b, names : b = at[k + 1] /\ names = First(parts, k - 1)
        OBVIOUS
    <2>5. /\ b - 1 \in Nat /\ b \in Nat
          /\ after[b - 1] = [at |-> "quote", name |-> parts[k], names |-> names]
        <3> HIDE DEF After
        <3> QED
            BY <1>10, <1>16, <2>2, <2>3, <2>4
    <2>6. text[b] = "." /\ b \in 1 .. Len(text)
        <3>0. PICK q : q = Len(QuoteIdentifier(parts[k + 1]))
            OBVIOUS
        <3>3. PICK l : l = Len(seqs[k + 1])
            OBVIOUS
        <3>5. q \in Nat /\ q >= 2 /\ l = q + 1 /\ seqs[k + 1][1] = "."
            BY <1>5, <2>2, <3>0, <3>3
        <3>1. l \in Nat /\ l >= 3 /\ 1 \in 1 .. Len(seqs[k + 1]) /\ seqs[k + 1][1] = "."
            BY <3>3, <3>5
        <3>2. flat[b + 1] = "."
            BY <1>10, <2>2, <2>4, <3>1
        <3>4. b + l <= Len(flat)
            BY <1>10, <2>2, <2>4, <3>3
        <3>6. b \in 1 .. Len(text)
            <4>1. b # 0
                BY <2>5
            <4> QED
                BY <1>11, <1>13, <2>5, <3>1, <3>4, <4>1
        <3> QED
            BY <1>13, <3>2, <3>6
    <2>7. after[b] = NamesStep([at |-> "quote", name |-> parts[k], names |-> names], ".")
        BY <1>14, <2>5, <2>6
    <2>8. after[b] = Between(Append(names, parts[k]))
        BY <2>7 DEF NamesStep, Quote
    <2>9. First(parts, k) = Append(names, parts[k])
        BY <1>2, <2>2, <2>4, FirstGrows
    <2> QED
        BY <2>1, <2>2, <2>4, <2>8, <2>9
<1>19. After(M)
    <2>1. M - 1 \in Nat /\ (M - 1) + 1 = M
        BY <1>3
    <2>2. M - 1 \in T
        <3> HIDE DEF T
        <3> QED
            BY <1>17, <1>18, <2>1, Induction
    <2> QED
        BY <1>3, <2>1, <2>2
<1>20. after[Len(text)] = [at |-> "quote", name |-> parts[M], names |-> First(parts, M - 1)]
    <2>1. M \in 1 .. M
        BY <1>3
    <2> HIDE DEF After
    <2> QED
        BY <1>10, <1>13, <1>16, <1>19, <2>1
<1>21. First(parts, M) = Append(First(parts, M - 1), parts[M]) /\ First(parts, M) = parts
    <2>1. M \in 1 .. Len(parts)
        BY <1>2, <1>3
    <2>2. /\ \A k \in 1 .. Len(parts) : First(parts, k) = Append(First(parts, k - 1), parts[k])
          /\ First(parts, Len(parts)) = parts
        BY FirstGrows, Zenon
    <2> QED
        BY <1>2, <2>1, <2>2, Zenon
<1>22. ReadNames(text) = Append(First(parts, M - 1), parts[M])
    BY <1>14, <1>20
<1> QED
    BY <1>7, <1>8, <1>12, <1>21, <1>22
-----------------------------------------------------------------------------
(* Items and the queries about them *)

USE DEF settings

\* Every object is a sequence of one to three names, none of them empty.
LEMMA Objects ==
    ASSUME NEW o \in Universe
    PROVE  /\ o \in Seq(Seq(STRING)) /\ Len(o) \in 1 .. 3 /\ o # <<>>
           /\ \A k \in 1 .. Len(o) : o[k] \in Seq(STRING) /\ o[k] # <<>>
<1>1. o \in Seq(Names) /\ Len(o) \in 1 .. 3
    BY InteractionsAssumption DEF InteractionsAssumption
<1>2. \A k \in 1 .. Len(o) : o[k] \in Names
    BY <1>1
<1>3. \A k \in 1 .. Len(o) : o[k] \in Seq(STRING) /\ o[k] # <<>>
    BY <1>2 DEF Names
<1>4. o \in Seq(Seq(STRING))
    BY <1>1 DEF Names
<1>5. o # <<>>
    <2>1. Len(<<>>) = 0
        OBVIOUS
    <2> QED
        BY <1>1, <2>1
<1> QED
    BY <1>1, <1>3, <1>4, <1>5

\* What is in an object has the object's names at the front.
LEMMA IsInside ==
    ASSUME NEW i \in Universe, NEW o \in Universe
    PROVE  IsPrefix(i, o) <=> /\ Len(i) <= Len(o)
                              /\ \A k \in 1 .. Len(i) : i[k] = o[k]
<1>1. i \in Seq(Seq(STRING)) /\ o \in Seq(Seq(STRING)) /\ Len(i) \in 1 .. 3 /\ Len(o) \in 1 .. 3
    BY Objects
<1>2. PICK a, b : a = SubSeq(i, 1, Len(i)) /\ b = SubSeq(o, 1, Len(i))
    OBVIOUS
<1>3. ASSUME Len(i) <= Len(o)
      PROVE  a = b <=> \A k \in 1 .. Len(i) : i[k] = o[k]
    <2>1. a \in Seq(Seq(STRING)) /\ Len(a) = Len(i) /\ \A k \in 1 .. Len(i) : a[k] = i[k]
        BY <1>1, <1>2
    <2>2. b \in Seq(Seq(STRING)) /\ Len(b) = Len(i) /\ \A k \in 1 .. Len(i) : b[k] = o[k]
        BY <1>1, <1>2, <1>3
    <2>3. ASSUME \A k \in 1 .. Len(i) : i[k] = o[k] PROVE a = b
        BY <2>1, <2>2, <2>3, SeqEqual
    <2> QED
        BY <2>1, <2>2, <2>3
<1> QED
    BY <1>2, <1>3 DEF IsPrefix

\* A relation has none of the classes that databases and schemas have.
LEMMA RelationClasses ==
    ASSUME NEW type
    PROVE  RelationClass(type) \in {"table", "view", "mview", "external", "extview", "shared"}
<1>1. DOMAIN Spellings = {"table", "view", "mview", "external", "extview", "shared"}
    BY DEF Spellings
<1> QED
    BY <1>1, Zenon DEF RelationClass

\* So an item's class says how deep it is: only a database lists its schemas,
\* only a schema becomes the search path, and no relation lists what is in it.
LEMMA Offers ==
    ASSUME NEW item \in Universe
    PROVE  /\ "schemas" \in Offered(Class(item)) => Len(item) = 1
           /\ "use" \in Offered(Class(item)) => Len(item) = 2
           /\ \A entry \in {"objects", "storage"} :
                 entry \in Offered(Class(item)) => Len(item) <= 2
<1>1. Len(item) \in 1 .. 3
    BY Objects
<1>2. CASE Len(item) = 1
    <2>1. Class(item) = "database"
        BY <1>2 DEF Class
    <2> QED
        BY <1>2, <2>1 DEF Offered, DatabaseMenu, SchemaMenu, RelationMenu
<1>3. CASE Len(item) = 2
    <2>1. Class(item) = "schema"
        BY <1>3 DEF Class
    <2> QED
        BY <1>3, <2>1 DEF Offered, DatabaseMenu, SchemaMenu, RelationMenu
<1>4. CASE Len(item) = 3
    <2>1. PICK c : c = Class(item)
        OBVIOUS
    <2>2. c \in {"table", "view", "mview", "external", "extview", "shared"}
        BY <1>4, <2>1, RelationClasses DEF Class
    <2>3. Offered(c) \cap {"schemas", "use", "objects", "storage"} = {}
        BY <2>2 DEF Offered, DatabaseMenu, SchemaMenu, RelationMenu
    <2> QED
        BY <2>1, <2>3
<1> QED
    BY <1>1, <1>2, <1>3, <1>4

\* A query from a menu selects by the names of its item: of what its view covers,
\* it means the objects that are its item's.
LEMMA ReportMeans ==
    ASSUME NEW item \in Universe, NEW entry \in Offered(Class(item)) \cap Reporting,
           NEW covered \in SUBSET Universe,
           \A o \in covered :
              /\ Len(o) = Report(item, entry).level
              /\ Report(item, entry).source \in SpanningViews \/ o[1] = Connected,
           item[1] = Connected \/ Report(item, entry).source \in SpanningViews
    PROVE  Meant(Report(item, entry), covered) = Below(item) \cap covered
<1>1. PICK query : query = Report(item, entry)
    OBVIOUS
<1>0. PICK depth, level : depth = Len(item) /\ level = query.level
    OBVIOUS
<1>2. PICK ks :
         /\ query.names = By(item, ks)
         /\ query.source \notin SpanningViews \/ 1 \in ks
         /\ depth \in 1 .. level /\ level \in {2, 3}
         /\ \A k \in 2 .. depth : k \in ks
    <2>1. /\ depth \in 1 .. 3
          /\ entry = "schemas" => depth = 1
          /\ entry \in {"objects", "storage"} => depth <= 2
        BY <1>0, Objects, Offers
    <2>2. ASSUME NEW ks \in SUBSET Nat, query.names = By(item, ks),
                 query.source \notin SpanningViews \/ 1 \in ks,
                 depth \in 1 .. level, level \in {2, 3}, 2 .. depth \subseteq ks
          PROVE  \E set : /\ query.names = By(item, set)
                          /\ query.source \notin SpanningViews \/ 1 \in set
                          /\ depth \in 1 .. level /\ level \in {2, 3}
                          /\ \A k \in 2 .. depth : k \in set
        BY <2>2, Zenon
    <2>3. PICK b1, b2, b3, b4, b5 :
             /\ b1 = By(item, 1 .. 3) /\ b2 = By(item, 2 .. 3) /\ b3 = By(item, 1 .. 2)
             /\ b4 = By(item, {1}) /\ b5 = By(item, {2})
        OBVIOUS
    <2>4. CASE entry = "describe"
        <3>1. query = Query("svv_all_columns", 3, b1)
            BY <1>1, <2>3, <2>4 DEF Report, ShowDescribeRelation
        <3>2. query.names = b1 /\ level = 3
            BY <1>0, <3>1 DEF Query
        <3>4. /\ 1 .. 3 \in SUBSET Nat /\ 2 .. depth \subseteq 1 .. 3 /\ depth \in 1 .. level
              /\ level \in {2, 3} /\ 1 \in 1 .. 3
            BY <2>1, <3>2
        <3> QED
            BY <2>2, <2>3, <3>2, <3>4
    <2>5. CASE entry = "design"
        <3>1. query = Query("svv_redshift_columns", 3, b1)
            BY <1>1, <2>3, <2>5 DEF Report, ShowDescribeTableDesign
        <3>2. query.names = b1 /\ level = 3
            BY <1>0, <3>1 DEF Query
        <3>4. /\ 1 .. 3 \in SUBSET Nat /\ 2 .. depth \subseteq 1 .. 3 /\ depth \in 1 .. level
              /\ level \in {2, 3} /\ 1 \in 1 .. 3
            BY <2>1, <3>2
        <3> QED
            BY <2>2, <2>3, <3>2, <3>4
    <2>6. CASE entry \in {"info", "constraints", "location", "mvinfo"}
        <3>1. \E source \in {"svv_table_info", "pg_constraint", "svv_external_tables",
                             "svv_mv_info"} : query = Query(source, 3, b2)
            BY <1>1, <2>3, <2>6 DEF Report, ShowTableInfo, ShowDescribeTableConstraints,
               ShowExternalTableDefinition, ShowMaterializedViewInfo
        <3>2. query.names = b2 /\ level = 3 /\ query.source \notin SpanningViews
            BY <1>0, <3>1 DEF Query, SpanningViews
        <3>4. /\ 2 .. 3 \in SUBSET Nat /\ 2 .. depth \subseteq 2 .. 3 /\ depth \in 1 .. level
              /\ level \in {2, 3}
            BY <2>1, <3>2
        <3> QED
            BY <2>2, <2>3, <3>2, <3>4
    <2>7. CASE entry = "objects"
        <3>1. query = Query("svv_all_tables", 3, b3)
            BY <1>1, <2>3, <2>7 DEF Report, ShowListObjects
        <3>2. query.names = b3 /\ level = 3
            BY <1>0, <3>1 DEF Query
        <3>3. depth \in 1 .. 2
            BY <2>1, <2>7
        <3>4. /\ 1 .. 2 \in SUBSET Nat /\ 2 .. depth \subseteq 1 .. 2 /\ depth \in 1 .. level
              /\ level \in {2, 3} /\ 1 \in 1 .. 2
            BY <3>2, <3>3
        <3> QED
            BY <2>2, <2>3, <3>2, <3>4
    <2>8. CASE entry = "schemas"
        <3>1. query = Query("svv_all_schemas", 2, b4)
            BY <1>1, <2>3, <2>8 DEF Report, ShowListSchemas
        <3>2. query.names = b4 /\ level = 2
            BY <1>0, <3>1 DEF Query
        <3>3. depth = 1
            BY <2>1, <2>8
        <3>4. /\ {1} \in SUBSET Nat /\ 2 .. depth \subseteq {1} /\ depth \in 1 .. level
              /\ level \in {2, 3} /\ 1 \in {1}
            BY <3>2, <3>3
        <3> QED
            BY <2>2, <2>3, <3>2, <3>4
    <2>9. CASE entry = "storage"
        <3>1. query = [Query("svv_table_info", 3, b5) EXCEPT !.largest = TRUE]
            BY <1>1, <2>3, <2>9 DEF Report, ShowStorageSummary
        <3>2. query.names = b5 /\ level = 3 /\ query.source \notin SpanningViews
            BY <1>0, <3>1 DEF Query, SpanningViews
        <3>3. depth \in 1 .. 2
            BY <2>1, <2>9
        <3>4. /\ {2} \in SUBSET Nat /\ 2 .. depth \subseteq {2} /\ depth \in 1 .. level
              /\ level \in {2, 3}
            BY <3>2, <3>3
        <3> QED
            BY <2>2, <2>3, <3>2, <3>4
    <2> QED
        BY <2>4, <2>5, <2>6, <2>7, <2>8, <2>9 DEF Reporting
<1>3. \A k \in 1 .. depth : item[k] \in Seq(STRING) /\ item[k] # AnyName
    BY <1>0, <1>2, Objects DEF AnyName
<1>4. \A k \in 1 .. depth : Named(item[k]) = item[k]
    BY <1>3, LiteralsMeanThemselves DEF Named
<1>5. DOMAIN item = 1 .. depth
    <2>1. item \in Seq(Seq(STRING))
        BY Objects
    <2> QED
        BY <1>0, <1>2, <2>1
<1>6. \A k \in 1 .. 3 : query.names[k] = IF k \in ks \cap 1 .. depth THEN item[k] ELSE AnyName
    BY <1>0, <1>2, <1>4, <1>5 DEF By
<1>7. ASSUME NEW o \in covered
      PROVE  (\A k \in DOMAIN o : query.names[k] \in {AnyName, o[k]}) <=> o \in Below(item)
    <2>1. o \in Universe /\ DOMAIN o = 1 .. level /\ Len(o) = level
        <3>1. o \in Universe /\ o \in Seq(Seq(STRING))
            BY Objects
        <3> QED
            BY <1>1, <1>0, <1>2, <3>1
    <2>2. o \in Below(item) <=> \A k \in 1 .. depth : item[k] = o[k]
        <3>1. IsPrefix(item, o) <=> (/\ Len(item) <= Len(o)
                                     /\ \A k \in 1 .. Len(item) : item[k] = o[k])
            BY <2>1, IsInside
        <3>2. Len(item) <= Len(o)
            BY <1>0, <1>2, <2>1
        <3> QED
            BY <1>0, <1>2, <2>1, <3>1, <3>2 DEF Below
    <2>3. 1 \in ks \/ item[1] = o[1]
        BY <1>1, <1>0, <1>2
    <2>4. ASSUME \A k \in 1 .. level : query.names[k] \in {AnyName, o[k]},
                 NEW k \in 1 .. depth
          PROVE  item[k] = o[k]
        <3>1. k \in 1 .. level /\ k \in 1 .. 3
            BY <1>0, <1>2
        <3>2. CASE k \in ks
            BY <1>3, <1>6, <2>4, <3>1, <3>2
        <3>3. CASE k \notin ks
            <4>1. k = 1
                BY <1>0, <1>2, <3>3
            <4> QED
                BY <2>3, <3>3, <4>1
        <3> QED
            BY <3>2, <3>3
    <2>5. ASSUME \A k \in 1 .. depth : item[k] = o[k], NEW k \in 1 .. level
          PROVE  query.names[k] \in {AnyName, o[k]}
        <3>1. k \in 1 .. 3
            BY <1>0, <1>2
        <3> QED
            BY <1>6, <2>5, <3>1
    <2> QED
        BY <2>1, <2>2, <2>4, <2>5
<1> QED
    BY <1>1, <1>7 DEF Meant

\* A catalog has what its objects are in.
Whole(objects) == \A o \in objects : Len(o) > 1 => Front(o) \in objects

\* The part of the catalog that an object is in is its name but for the last part.
LEMMA Fronts ==
    ASSUME NEW o \in Universe, Len(o) > 1
    PROVE  /\ Front(o) \in Universe \ (Hidden \cup Volatile)
           /\ Len(Front(o)) = Len(o) - 1
           /\ \A k \in 1 .. Len(o) - 1 : Front(o)[k] = o[k]
<1>1. Front(o) \in Universe \ (Hidden \cup Volatile)
    BY InteractionsAssumption DEF InteractionsAssumption
<1>2. o \in Seq(Seq(STRING)) /\ Len(o) \in 1 .. 3
    BY Objects
<1>3. Front(o) = SubSeq(o, 1, Len(o) - 1)
    BY DEF Front
<1> QED
    BY <1>1, <1>2, <1>3

\* An object without a listed child has nothing listed in it.
LEMMA NothingBelow ==
    ASSUME NEW objects \in SUBSET Universe, Whole(objects), NEW item \in Universe,
           {o \in Listed(objects) : Len(o) = Len(item) + 1 /\ IsPrefix(item, o)} = {}
    PROVE  Below(item) \cap Listed(objects) \subseteq {item}
<1> SUFFICES ASSUME NEW o \in Below(item), o \in Listed(objects), o # item
             PROVE  FALSE
    OBVIOUS
<1>1. o \in Universe /\ o \in objects /\ IsPrefix(item, o)
    BY DEF Below, Listed
<1>2. /\ item \in Seq(Seq(STRING)) /\ Len(item) \in 1 .. 3
      /\ o \in Seq(Seq(STRING)) /\ Len(o) \in 1 .. 3
    BY <1>1, Objects
<1>3. Len(item) <= Len(o) /\ \A k \in 1 .. Len(item) : item[k] = o[k]
    BY <1>1, IsInside
<1>4. Len(o) # Len(item)
    BY <1>2, <1>3, SeqEqual
<1>5. Len(o) # Len(item) + 1
    BY <1>1
<1>6. Len(item) = 1 /\ Len(o) = 3
    <2>1. PICK l, m : l = Len(item) /\ m = Len(o)
        OBVIOUS
    <2>2. l \in 1 .. 3 /\ m \in 1 .. 3 /\ l <= m /\ m # l /\ m # l + 1
        BY <1>2, <1>3, <1>4, <1>5, <2>1
    <2>3. l = 1 /\ m = 3
        BY <2>2
    <2> QED
        BY <2>1, <2>3
<1>7. PICK p : p = Front(o)
    OBVIOUS
<1>8. /\ p \in Universe /\ p \notin Hidden /\ p \in objects
      /\ Len(p) = 2 /\ p[1] = o[1]
    <2>1. /\ Front(o) \in Universe \ (Hidden \cup Volatile)
          /\ Len(Front(o)) = Len(o) - 1
          /\ \A k \in 1 .. Len(o) - 1 : Front(o)[k] = o[k]
        <3>1. Len(o) > 1
            BY <1>6
        <3> QED
            BY <1>1, <3>1, Fronts, Zenon
    <2>2. p \in objects
        BY <1>1, <1>6, <1>7 DEF Whole
    <2>3. 1 \in 1 .. Len(o) - 1 /\ Len(o) - 1 = 2
        BY <1>6
    <2> QED
        BY <1>7, <2>1, <2>2, <2>3
<1>9. IsPrefix(item, p)
    <2>1. item[1] = p[1]
        BY <1>3, <1>6, <1>8
    <2>2. \A k \in 1 .. Len(item) : item[k] = p[k]
        BY <1>6, <2>1
    <2>3. IsPrefix(item, p) <=> (/\ Len(item) <= Len(p)
                                 /\ \A k \in 1 .. Len(item) : item[k] = p[k])
        BY <1>8, IsInside
    <2> QED
        BY <1>6, <1>8, <2>2, <2>3
<1>10. p \in Listed(objects) /\ Len(p) = Len(item) + 1
    BY <1>6, <1>8 DEF Listed
<1> QED
    BY <1>9, <1>10

\* The server takes the name in a statement to mean the item it was written for.
LEMMA TargetIsTheItem ==
    ASSUME database \in {<<>>, Connected} \cup TypedNames,
           menu.act \in {"drop", "use", "show"}, menu.item \in Universe,
           menu.act = "use" => Len(menu.item) = 2 /\ InConnected(menu.item, database)
    PROVE  Target = menu.item
<1>1. PICK act, item, depth, parts :
         /\ act = menu.act /\ item = menu.item /\ depth = Len(item)
         /\ parts = Tail(item)
    OBVIOUS
<1>2. /\ item \in Seq(Seq(STRING)) /\ depth \in 1 .. 3 /\ item # <<>>
      /\ \A k \in 1 .. depth : item[k] \in Seq(STRING) /\ item[k] # <<>>
    BY <1>1, Objects
<1>3. item[1] = database => item[1] = Connected
    <2>1. item[1] \in TypedNames => item[1] = Connected
        BY <1>1, InteractionsAssumption DEF InteractionsAssumption
    <2>2. item[1] # <<>>
        BY <1>2
    <2> QED
        BY <2>1, <2>2
<1>4. ReadNames(Dotted(item)) = item
    BY <1>2, DottedNamesMeanThemselves
<1>5. ASSUME depth > 1
      PROVE  /\ parts \in Seq(Seq(STRING)) /\ Len(parts) = depth - 1
             /\ ReadNames(Dotted(parts)) = parts
             /\ <<item[1]>> \o parts = item
    <2>1. parts \in Seq(Seq(STRING)) /\ Len(parts) = depth - 1 /\ parts # <<>>
        <3>1. PICK N : N = Seq(STRING)
            OBVIOUS
        <3>2. item \in Seq(N) /\ item # <<>> /\ Len(item) = depth /\ depth \in 1 .. 3
            BY <1>1, <1>2, <3>1
        <3>3. parts \in Seq(N) /\ Len(parts) = depth - 1
            BY <1>1, <3>2
        <3>4. parts # <<>>
            BY <1>5, <3>2, <3>3
        <3> QED
            BY <3>1, <3>3, <3>4
    <2>2. ReadNames(Dotted(parts)) = parts
        BY <2>1, DottedNamesMeanThemselves
    <2>3. <<item[1]>> \o parts = item
        BY <1>1, <1>2, <1>5
    <2> QED
        BY <2>1, <2>2, <2>3
<1>6. Target = Resolve(NameIn(act, item), depth)
    BY <1>1 DEF Target
<1>7. CASE act = "use"
    <2>1. depth = 2 /\ item[1] = Connected /\ item[2] \in Seq(STRING)
        BY <1>1, <1>2, <1>3, <1>7 DEF InConnected
    <2>2. ReadNames(QuoteIdentifier(item[2])) = <<item[2]>>
        BY <2>1, IdentifiersMeanThemselves
    <2>3. NameIn(act, item) = QuoteIdentifier(item[2])
        BY <1>1, <1>7, <2>1 DEF NameIn
    <2>4. Target = <<Connected>> \o <<item[2]>>
        <3>1. PICK names : names = <<item[2]>>
            OBVIOUS
        <3>2. Len(names) = 1 /\ ReadNames(NameIn(act, item)) = names
            BY <2>2, <2>3, <3>1
        <3>3. Target = <<Connected>> \o names
            BY <1>6, <2>1, <3>2 DEF Resolve
        <3> QED
            BY <3>1, <3>3
    <2>5. PICK a, b : a = item[1] /\ b = item[2]
        OBVIOUS
    <2>6. <<a>> \o <<b>> = item
        <3>1. PICK N : N = Seq(STRING)
            OBVIOUS
        <3>2. item \in Seq(N) /\ Len(item) = 2 /\ a \in N /\ b \in N
            BY <1>1, <1>2, <2>1, <2>5, <3>1
        <3> QED
            BY <2>5, <3>2
    <2> QED
        BY <1>1, <2>1, <2>4, <2>5, <2>6
<1>8. CASE act # "use" /\ depth = 1
    <2>1. NameIn(act, item) = Dotted(item)
        BY <1>1, <1>8 DEF NameIn, QualifiedIdentifier
    <2> QED
        BY <1>1, <1>4, <1>6, <1>8, <2>1 DEF Resolve
<1>9. CASE act # "use" /\ depth > 1
    <2>1. NameIn(act, item) = QueryName(item, database)
        BY <1>1, <1>2, <1>9 DEF NameIn
    <2>2. CASE item[1] = database
        <3>1. NameIn(act, item) = Dotted(parts)
            BY <1>1, <1>9, <2>1, <2>2 DEF QueryName, InConnected
        <3> QED
            BY <1>1, <1>2, <1>3, <1>5, <1>6, <1>9, <2>2, <3>1 DEF Resolve
    <2>3. CASE item[1] # database
        <3>1. NameIn(act, item) = Dotted(item)
            BY <2>1, <2>3 DEF QueryName, InConnected
        <3>2. depth # depth - 1
            BY <1>2
        <3> QED
            BY <1>1, <1>4, <1>6, <3>1, <3>2 DEF Resolve
    <2> QED
        BY <2>2, <2>3
<1> QED
    BY <1>2, <1>7, <1>8, <1>9

-----------------------------------------------------------------------------
(* Menu entries *)

\* An entry under way has an action, and the statement that runs for it is of
\* the kind the action needs.
MenuOK ==
    /\ menu.at # "closed" => menu.act # "none"
    /\ Running => op # "rest" /\ stmt = KindOf(menu.act)

\* Outside of a transaction the main connection sees what is committed.
Agrees == tx = "idle" => view = committed

\* A read-only session has no objects of its own.
SameObjects == readOnly => view.objects = committed.objects

-----------------------------------------------------------------------------
\* Every step of the composition is one of the session's, or none.
LEMMA SessionStep ==
    TypeOKI /\ MenuOK /\ [NextI]_all => [Next]_vars
<1> SUFFICES ASSUME TypeOKI, MenuOK, [NextI]_all PROVE [Next]_vars
  OBVIOUS
<1>1. CASE OpenI
  BY Zenon, <1>1 DEF OpenI, Next
<1>2. CASE Chooses
  BY Zenon, <1>2 DEF Chooses, DropRelation, DropContainer, SetSearchPath,
     RefuseSearchPath, ShowDefinition, Answer, Choose
<1>3. CASE Execute
  <2>1. KindOf(menu.act) \in Kinds
    BY <1>3 DEF Execute, TypeOKI, Menus, MenuOK, KindOf, Kinds
  <2>2. Submit(KindOf(menu.act))
    BY Zenon, <1>3 DEF Execute
  <2> QED
    BY Zenon, <2>1, <2>2 DEF Next
<1>4. CASE EntrySucceeds
  BY Zenon, <1>4 DEF EntrySucceeds, Next
<1>5. CASE EntryReturns
  BY Zenon, <1>5 DEF EntryReturns, Next
<1>6. CASE EntryFetches
  <2>1. FetchAll(menu.number) /\ menu.number \in cursors
    BY Zenon, <1>6 DEF EntryFetches, FetchAll
  <2> QED
    BY Zenon, <2>1 DEF Next
<1>7. ASSUME NEW o \in Universe, OthersCreate(o) \/ OthersDrop(o) PROVE [Next]_vars
  BY Zenon, <1>7 DEF OthersCreate, OthersDrop, Others
<1>8. CASE SessionGoesOn
  <2>1. UserKinds \subseteq Kinds
    BY InteractionsAssumption DEF InteractionsAssumption
  <2> QED
    BY Zenon, <1>8, <2>1 DEF SessionGoesOn, UserSubmits, UserSucceeds, UserReturns,
       UserFetches, Commits, Loses, Continues, Next
<1>9. CASE UNCHANGED all
  BY Zenon, <1>9 DEF all
<1> QED
  BY Zenon, <1>1, <1>2, <1>3, <1>4, <1>5, <1>6, <1>7, <1>8, <1>9 DEF NextI

\* The steps of the session beside an entry leave its statement alone.
LEMMA ContinuesKeeps ==
    Continues \/ Loses \/ Commits => (op # "rest" => op' # "rest" /\ stmt' = stmt)
<1> USE DEF call, AtRest
<1>1. Loses \/ Commits => (op # "rest" => op' # "rest" /\ stmt' = stmt)
  BY DEF Loses, LoseConnection, Commits, CommitButton, CommitButtonFails
<1>2. Continues => (op # "rest" => op' # "rest" /\ stmt' = stmt)
  BY DEF Continues, OpenFails, OpenPooled, ToggleTransactionMode, RollbackButton,
     BeginDone, Fails, FailsDead, Close, AskCancel, SendCancel, CancelFails,
     CancelReturns, CancelLapses
<1> QED
  BY <1>1, <1>2

\* Every step keeps the entry under way in order.
LEMMA MenuStep ==
    TypeOKI /\ MenuOK /\ [NextI]_all => MenuOK'
<1> SUFFICES ASSUME TypeOKI, MenuOK, [NextI]_all PROVE MenuOK'
  OBVIOUS
<1> USE DEF TypeOKI, Menus, MenuOK, Running, NoMenu
<1>1. CASE OpenI
  BY <1>1 DEF OpenI, Open, call
<1>2. CASE Chooses
  BY <1>2 DEF Chooses, DropRelation, DropContainer, SetSearchPath,
     RefuseSearchPath, ShowDefinition, Answer, Choose, vars, call
<1>3. CASE Execute
  BY <1>3 DEF Execute, Submit, KindOf
<1>4. CASE EntrySucceeds
  BY <1>4 DEF EntrySucceeds, Succeeds
<1>5. CASE EntryReturns
  <2>1. menu' = NoMenu \/ (Running /\ menu' = [menu EXCEPT !.at = "fetching"])
    BY Zenon, <1>5 DEF EntryReturns
  <2> QED
    BY <2>1
<1>6. CASE EntryFetches
  BY <1>6 DEF EntryFetches
<1>7. ASSUME NEW o \in Universe, OthersCreate(o) \/ OthersDrop(o) PROVE MenuOK'
  BY <1>7 DEF OthersCreate, OthersDrop, Others, vars, call
<1>8. CASE SessionGoesOn
  <2>1. CASE Continues \/ Loses \/ Commits
    BY <1>8, <2>1, ContinuesKeeps DEF SessionGoesOn
  <2>2. CASE UserFetches(menu.number) \/ \E c \in cursors : UserFetches(c)
    BY <1>8, <2>2 DEF SessionGoesOn, UserFetches, FetchAll, AtRest
  <2>3. CASE ~Running
    BY <1>8, <2>3 DEF SessionGoesOn
  <2> QED
    BY <1>8, <2>1, <2>2, <2>3 DEF SessionGoesOn, UserSubmits, UserSucceeds,
       UserReturns
<1>9. CASE UNCHANGED all
  BY <1>9 DEF all, vars, call
<1> QED
  BY Zenon, <1>1, <1>2, <1>3, <1>4, <1>5, <1>6, <1>7, <1>8, <1>9 DEF NextI

\* Settling takes one side of the catalog for both, or changes nothing.
LEMMA Settling ==
    ASSUME NEW commits, Settle(commits)
    PROVE  /\ committed' \in {view, committed} /\ view' \in {view, committed}
           /\ tx' = "idle" => view' = committed'
           /\ ~commits => committed' = committed
           /\ tx' # "idle" => UNCHANGED catalog
BY DEF Settle, catalog

\* What the session's other steps do to the catalog.
LEMMA SessionGoesOnEffect ==
    ASSUME TypeOKI, MenuOK, Agrees, SessionGoesOn
    PROVE  \/ UNCHANGED <<catalog, server>>
           \/ \E commits \in BOOLEAN :
                 /\ Settle(commits)
                 /\ commits => \/ Commits
                               \/ op = "running" /\ stmt = "commit"
                               \/ LoseConnection /\ durable' # durable
           \/ \E o \in Volatile :
                 /\ ~Running
                 /\ Succeeds
                 /\ stmt = "write"
                 /\ Front(o) \in view.objects
                 /\ Change(With(view, view.objects \cup {o}))
           \/ /\ Running
              /\ LoseConnection
              /\ durable' # durable
              /\ tx = "idle" /\ op = "running" /\ stmt = "write" /\ Writable
              /\ Change(Dropped(Target))
<1>1. CASE \E kind \in UserKinds : UserSubmits(kind)
  BY Zenon, <1>1 DEF UserSubmits, Submit
<1>2. CASE UserSucceeds
  BY <1>2 DEF UserSucceeds, Succeeds
<1>3. CASE UserReturns \/ (\E c \in cursors : UserFetches(c)) \/ Continues
  BY <1>3 DEF UserReturns, UserFetches, Continues
<1>4. CASE Commits
  BY <1>4 DEF Commits
<1>5. CASE Loses
  <2>1. CASE durable' # durable /\ Running
    <3>1. stmt # "commit"
      BY <2>1 DEF TypeOKI, Menus, MenuOK, Running, KindOf
    <3> QED
      BY <1>5, <2>1, <3>1 DEF Loses, LoseConnection
  <2>2. CASE ~(durable' # durable /\ Running)
    BY <1>5, <2>2 DEF Loses
  <2> QED
    BY <2>1, <2>2
<1> QED
  BY Zenon, <1>1, <1>2, <1>3, <1>4, <1>5, SessionGoesOn DEF SessionGoesOn

\* Every step that ends outside of a transaction leaves one catalog.
LEMMA AgreesStep ==
    TypeOKI /\ MenuOK /\ Agrees /\ [NextI]_all => Agrees'
<1> SUFFICES ASSUME TypeOKI, MenuOK, Agrees, [NextI]_all PROVE Agrees'
  OBVIOUS
<1> USE DEF Agrees, catalog, server
<1>1. CASE OpenI
  BY <1>1 DEF OpenI, Open
<1>2. CASE Chooses
  BY <1>2 DEF Chooses, DropRelation, DropContainer, SetSearchPath,
     RefuseSearchPath, ShowDefinition, Answer, Choose, vars
<1>3. CASE Execute
  BY <1>3 DEF Execute, Submit
<1>4. CASE EntrySucceeds
  <2>1. Succeeds /\ stmt # "commit" /\ stmt # "rollback"
    BY <1>4 DEF EntrySucceeds, MenuOK, KindOf, TypeOKI, Menus
  <2>2. tx' = "idle" => tx = "idle"
    BY <2>1 DEF Succeeds
  <2> QED
    BY <1>4, <2>2 DEF EntrySucceeds, Change
<1>5. CASE EntryReturns
  BY Zenon, <1>5, Settling DEF EntryReturns
<1>6. CASE EntryFetches
  BY Zenon, <1>6, Settling DEF EntryFetches
<1>7. ASSUME NEW o \in Universe, OthersCreate(o) \/ OthersDrop(o) PROVE Agrees'
  BY <1>7 DEF OthersCreate, OthersDrop, Others, vars
<1>8. CASE SessionGoesOn
  <2>1. CASE \E commits : Settle(commits)
    BY Zenon, <2>1, Settling
  <2>2. ASSUME NEW after, Change(after), tx = "idle" \/ (Succeeds /\ stmt = "write")
        PROVE  Agrees'
    BY <2>2 DEF Change, Succeeds
  <2>3. CASE UNCHANGED <<catalog, server>>
    BY <2>3
  <2> QED
    BY <1>8, <2>1, <2>2, <2>3, SessionGoesOnEffect
<1>9. CASE UNCHANGED all
  BY <1>9 DEF all, vars
<1> QED
  BY Zenon, <1>1, <1>2, <1>3, <1>4, <1>5, <1>6, <1>7, <1>8, <1>9 DEF NextI

\* A session is read only, or not, for good.
LEMMA EnvStep == [Next]_vars => UNCHANGED env
BY Zenon DEF Next, vars, Open, OpenFails, OpenPooled, ToggleTransactionMode,
   RollbackButton, CommitButton, CommitButtonFails, Submit, BeginDone, BeginFails,
   Succeeds, Fails, FailsDead, Return, FetchAll, LoseConnection, Close, AskCancel,
   SendCancel, CancelFails, CancelReturns, CancelLapses

\* What the catalog's objects are in a read-only session after each step.
LEMMA ReadOnlyStep ==
    ASSUME UniformServer, TypeOKI, MenuOK, Agrees, SameObjects, Shape, Kept,
           [NextI]_all, readOnly
    PROVE  /\ view'.objects = committed'.objects
           /\ committed'.objects # committed.objects => Others
<1> DEFINE Goal == /\ view'.objects = committed'.objects
                   /\ committed'.objects # committed.objects => Others
<1>1. [Next]_vars /\ TypeOK
  BY SessionStep DEF TypeOKI
<1>2. durable' = durable
  <2>1. Kept' /\ readOnly'
    BY Zenon, <1>1, KeptStep, EnvStep DEF env
  <2> QED
    BY <2>1 DEF Kept, ReadOnlyKept
<1>3. op = "running" /\ alive => ~Writable
  BY <1>1 DEF Kept, ReadOnlyKept, Writable
<1>4. view.objects = committed.objects
  BY DEF SameObjects
<1>5. ASSUME UNCHANGED catalog PROVE Goal
  BY <1>4, <1>5 DEF catalog
<1>6. ASSUME NEW commits, Settle(commits) PROVE Goal
  BY <1>4, <1>6, Settling
<1>7. CASE EntrySucceeds
  <2>1. menu.act # "drop"
    BY <1>3, <1>7 DEF EntrySucceeds, MenuOK, KindOf, Succeeds
  <2>2. \/ UNCHANGED catalog
        \/ Change([objects |-> view.objects, path |-> Target])
    BY Zenon, <1>7, <2>1 DEF EntrySucceeds
  <2> QED
    BY <1>4, <2>2 DEF Change, catalog
<1>8. CASE \E o \in Universe : OthersCreate(o) \/ OthersDrop(o)
  BY <1>4, <1>8 DEF OthersCreate, OthersDrop, With
<1>9. CASE SessionGoesOn
  <2>1. ~(Succeeds /\ stmt = "write")
    BY <1>3 DEF Succeeds
  <2> QED
    BY Zenon, <1>2, <1>5, <1>6, <1>9, <2>1, SessionGoesOnEffect DEF catalog
<1> QED
  BY Zenon, <1>5, <1>6, <1>7, <1>8, <1>9 DEF NextI, OpenI, Chooses, DropRelation,
     DropContainer, SetSearchPath, RefuseSearchPath, ShowDefinition, Answer,
     Choose, Execute, EntryReturns, EntryFetches, all, catalog

\* What can change the committed objects in Manual mode.
LEMMA ManualStep ==
    ASSUME TypeOKI, MenuOK, Agrees, ManualInside, [NextI]_all, mode = "Manual",
           committed'.objects # committed.objects
    PROVE  Others \/ Commits \/ (op = "running" /\ stmt = "commit")
<1>1. op = "running" /\ alive => tx # "idle"
  BY DEF ManualInside
<1>2. ~Settle(FALSE) /\ ~UNCHANGED catalog
  BY Settling DEF catalog
<1>3. ASSUME NEW after, Change(after), op = "running", alive PROVE FALSE
  BY <1>1, <1>3 DEF Change
<1>4. CASE EntrySucceeds
  BY <1>2, <1>3, <1>4 DEF EntrySucceeds, Succeeds
<1>5. CASE \E o \in Universe : OthersCreate(o) \/ OthersDrop(o)
  BY Zenon, <1>5 DEF OthersCreate, OthersDrop
<1>6. CASE SessionGoesOn
  <2>1. LoseConnection /\ durable' # durable => op = "running" /\ stmt = "commit"
    BY <1>1 DEF LoseConnection
  <2>2. Succeeds => op = "running" /\ alive
    BY DEF Succeeds
  <2>3. LoseConnection => alive
    BY DEF LoseConnection
  <2>4. \A commits \in BOOLEAN : Settle(commits) => commits
    BY <1>2
  <2> QED
    BY Zenon, <1>2, <1>3, <1>6, <2>1, <2>2, <2>3, <2>4, SessionGoesOnEffect
       DEF catalog
<1> QED
  BY Zenon, <1>2, <1>4, <1>5, <1>6 DEF NextI, OpenI, Chooses, DropRelation,
     DropContainer, SetSearchPath, RefuseSearchPath, ShowDefinition, Answer,
     Choose, Execute, EntryReturns, EntryFetches, all, catalog

\* What a drop or a switch that is done leaves of the catalog when it is announced.
LEMMA AnnounceStep ==
    ASSUME TypeOKI, MenuOK, Agrees, Kept, AutoBare, NextI,
           notice' \in {"dropped", "switched"}, outcome = "done",
           ~(notice' = "switched" /\ mode = "Auto" /\ readOnly /\ ~sessionRO)
    PROVE  view' = view /\ (mode = "Auto" => committed' = view)
<1>1. EntryReturns
  BY Zenon DEF NextI, OpenI, Chooses, DropRelation, DropContainer, SetSearchPath,
     RefuseSearchPath, ShowDefinition, Answer, Choose, Execute, EntrySucceeds,
     EntryFetches, OthersCreate, OthersDrop, Others, SessionGoesOn
<1>2. Running /\ Return /\ Settle(FALSE)
  BY <1>1 DEF EntryReturns, BeginFails
<1>3. op = "answered" /\ stmt = KindOf(menu.act)
  BY <1>2 DEF MenuOK, Return
<1>a. menu.act \in {"drop", "use", "show"}
  BY <1>2 DEF MenuOK, Running, TypeOKI, Menus
<1>b. notice' \in {"none", "could not"} \/
      notice' = (CASE menu.act = "drop" -> "dropped"
                   [] menu.act = "use"  -> "switched"
                   [] menu.act = "show" -> "no definition")
  BY Zenon, <1>1 DEF EntryReturns
<1>c. /\ notice' = "dropped" => stmt = "write"
      /\ notice' = "switched" => stmt = "set"
  BY <1>3, <1>a, <1>b DEF KindOf
<1>4. CASE mode = "Manual"
  <2>1. tx' = tx
    BY <1>2, <1>4 DEF Return, EndImplicitTransaction, server, Failures
  <2> QED
    BY <1>2, <1>4, <2>1 DEF Settle, Agrees, catalog
<1>5. CASE mode = "Auto"
  <2>1. tx = "idle"
    <3>1. CASE notice' = "dropped"
      <4>1. stmt = "write"
        BY <1>c, <3>1
      <4>2. ~readOnly
        BY <1>3, <1>5, <4>1 DEF Kept, ReadOnlyKept, AutoWriteDone
      <4> QED
        BY <1>5, <4>1, <4>2 DEF AutoBare
    <3>2. CASE notice' = "switched"
      <4>1. stmt = "set"
        BY <1>c, <3>2
      <4> QED
        BY <1>5, <3>2, <4>1 DEF AutoBare
    <3> QED
      BY <3>1, <3>2
  <2> QED
    BY <1>2, <2>1, Settling DEF Agrees
<1> QED
  BY <1>4, <1>5 DEF TypeOKI, TypeOK, ValuesOK

\* The catalogs hold objects only.
CatalogOK == committed.objects \subseteq Universe /\ view.objects \subseteq Universe

\* Every step keeps to the objects there may be.
LEMMA CatalogStep ==
    TypeOKI /\ MenuOK /\ Agrees /\ [NextI]_all => CatalogOK'
<1> SUFFICES ASSUME TypeOKI, MenuOK, Agrees, [NextI]_all PROVE CatalogOK'
  OBVIOUS
<1>1. CatalogOK /\ Volatile \subseteq Universe
  BY InteractionsAssumption DEF TypeOKI, CatalogOK, InteractionsAssumption
<1>2. ASSUME UNCHANGED catalog PROVE CatalogOK'
  BY <1>1, <1>2 DEF catalog, CatalogOK
<1>3. ASSUME NEW commits, Settle(commits) PROVE CatalogOK'
  BY <1>1, <1>3, Settling DEF CatalogOK
<1>4. ASSUME NEW after, Change(after), after.objects \subseteq Universe PROVE CatalogOK'
  BY <1>1, <1>4 DEF Change, CatalogOK
<1>5. Dropped(Target).objects \subseteq Universe
  BY <1>1 DEF Dropped, With, CatalogOK
<1>6. CASE EntrySucceeds
  <2>1. [objects |-> view.objects, path |-> Target].objects \subseteq Universe
    BY <1>1 DEF CatalogOK
  <2> QED
    BY Zenon, <1>2, <1>4, <1>5, <1>6, <2>1 DEF EntrySucceeds
<1>7. CASE \E o \in Universe : OthersCreate(o) \/ OthersDrop(o)
  BY <1>1, <1>7 DEF OthersCreate, OthersDrop, With, CatalogOK
<1>8. CASE SessionGoesOn
  <2>1. \A o \in Volatile : With(view, view.objects \cup {o}).objects \subseteq Universe
    BY <1>1 DEF With, CatalogOK
  <2> QED
    BY Zenon, <1>2, <1>3, <1>4, <1>5, <1>8, <2>1, SessionGoesOnEffect DEF catalog
<1> QED
  BY Zenon, <1>2, <1>3, <1>6, <1>7, <1>8 DEF NextI, OpenI, Chooses, DropRelation,
     DropContainer, SetSearchPath, RefuseSearchPath, ShowDefinition, Answer,
     Choose, Execute, EntryReturns, EntryFetches, all, catalog

\* The entry, its notice and the bounds.
EntryOK ==
    /\ allDatabases \in BOOLEAN
    /\ database \in {<<>>, Connected} \cup TypedNames
    /\ menu \in Menus
    /\ notice \in Notices
    /\ changes \in 0..MaxChanges
    /\ menus \in 0..MaxMenus

\* Choosing an entry makes one, whatever it is.
LEMMA ChoosesStep == TypeOKI /\ MenuOK /\ Chooses => EntryOK'
<1> SUFFICES ASSUME TypeOKI, MenuOK, Chooses PROVE EntryOK'
  OBVIOUS
<1> USE DEF EntryOK, NoMenu
<1>a. /\ EntryOK
      /\ menus \in 0..MaxMenus
      /\ MaxMenus \in Nat
  BY Zenon, InteractionsAssumption DEF TypeOKI, InteractionsAssumption
<1>b. menu \in Menus /\ NoMenu \in Menus /\ {"none", "elsewhere"} \subseteq Notices
  BY <1>a DEF Menus, Notices
<1>1. ASSUME NEW act \in {"drop", "use", "show"}, NEW item \in Universe,
             NEW at \in {"asking", "ready"}, NEW asked \in BOOLEAN,
             NEW saw \in SUBSET Universe, Choose(act, item, at, asked, saw)
      PROVE  EntryOK'
  <2>1. menus' = menus + 1 /\ menus < MaxMenus
    BY Zenon, <1>1 DEF Choose
  <2>2. menus' \in 0..MaxMenus
    BY <1>a, <2>1
  <2>3. /\ menu' = [act |-> act, item |-> item, at |-> at, asked |-> asked,
                    saw |-> saw, number |-> 0]
        /\ notice' = "none"
        /\ UNCHANGED <<settings, changes>>
    BY Zenon, <1>1 DEF Choose
  <2>4. menu' \in Menus
    BY <1>1, <2>3 DEF Menus
  <2> QED
    BY Zenon, <1>a, <1>b, <2>2, <2>3, <2>4
<1>2. Listed(committed.objects) \in SUBSET Universe /\ {} \in SUBSET Universe
  BY DEF Listed, TypeOKI
<1>3. \A act : Items(act) \subseteq Universe
  BY DEF Items, Listed
<1>4. ASSUME NEW i \in Universe,
             DropRelation(i) \/ DropContainer(i) \/ SetSearchPath(i) \/ ShowDefinition(i)
      PROVE  EntryOK'
  <2>1. DropRelation(i) \/ SetSearchPath(i) \/ ShowDefinition(i) => EntryOK'
    BY Zenon, <1>1, <1>2 DEF DropRelation, SetSearchPath, ShowDefinition
  <2>2. DropContainer(i) => EntryOK'
    BY <1>1, <1>2 DEF DropContainer
  <2> QED
    BY <1>4, <2>1, <2>2
<1>5. ASSUME NEW i \in Universe, RefuseSearchPath(i) PROVE EntryOK'
  BY Zenon, <1>a, <1>b, <1>5 DEF RefuseSearchPath, bounds
<1>6. ASSUME NEW yes \in BOOLEAN, Answer(yes) PROVE EntryOK'
  <2>1. menu' = NoMenu \/ menu' = [menu EXCEPT !.at = "ready"]
    BY Zenon, <1>6 DEF Answer
  <2>2. menu' \in Menus
    BY <1>b, <2>1 DEF Menus
  <2> QED
    BY Zenon, <1>a, <1>b, <1>6, <2>2 DEF Answer, bounds
<1> QED
  BY <1>3, <1>4, <1>5, <1>6 DEF Chooses

\* Every step keeps the types of what the menus add.
LEMMA EntryStep == TypeOKI /\ MenuOK /\ [NextI]_all => EntryOK'
<1> SUFFICES ASSUME TypeOKI, MenuOK, [NextI]_all PROVE EntryOK'
  OBVIOUS
<1> USE DEF EntryOK, bounds
<1>a. /\ EntryOK
      /\ changes \in 0..MaxChanges
      /\ MaxChanges \in Nat
  BY Zenon, InteractionsAssumption DEF TypeOKI, InteractionsAssumption
<1>b. menu \in Menus /\ NoMenu \in Menus
  BY <1>a DEF Menus, NoMenu
<1>c. {"none", "dropped", "switched", "definition", "no definition",
       "could not"} \subseteq Notices
  BY DEF Notices
<1>d. \A where \in {"running", "fetching"} : [menu EXCEPT !.at = where] \in Menus
  BY <1>b DEF Menus
<1>1. CASE OpenI
  BY Zenon, <1>a, <1>c, <1>1 DEF OpenI
<1>2. CASE Chooses
  BY <1>2, ChoosesStep
<1>3. CASE Execute
  <2>1. n' = n + 1 /\ menu' = [menu EXCEPT !.at = "running", !.number = n']
    BY Zenon, <1>3 DEF Execute, Submit
  <2>2. n \in Nat
    BY SessionAssumption DEF TypeOKI, TypeOK, NumbersOK, SessionAssumption
  <2>3. n' \in Nat
    BY <2>1, <2>2
  <2>4. menu' \in Menus
    BY <1>b, <2>1, <2>3 DEF Menus
  <2> QED
    BY Zenon, <1>a, <1>c, <1>3, <2>4 DEF Execute
<1>4. CASE EntrySucceeds
  BY Zenon, <1>a, <1>c, <1>4 DEF EntrySucceeds
<1>5. CASE EntryReturns
  <2>1. menu' = NoMenu \/ menu' = [menu EXCEPT !.at = "fetching"]
    BY Zenon, <1>5 DEF EntryReturns
  <2>2. menu.act \in {"drop", "use", "show"}
    BY <1>b, <1>5 DEF EntryReturns, MenuOK, Running, Menus
  <2>3. notice' \in {"none", "could not", "dropped", "switched", "no definition"}
    BY <1>5, <2>2 DEF EntryReturns
  <2> QED
    BY Zenon, <1>a, <1>b, <1>c, <1>d, <1>5, <2>1, <2>3 DEF EntryReturns
<1>6. CASE EntryFetches
  BY Zenon, <1>a, <1>b, <1>c, <1>6 DEF EntryFetches
<1>7. ASSUME NEW o \in Universe, OthersCreate(o) \/ OthersDrop(o) PROVE EntryOK'
  <2>1. /\ changes' = changes + 1 /\ changes < MaxChanges
        /\ notice' = "none"
        /\ UNCHANGED <<settings, menu, menus>>
    BY Zenon, <1>7 DEF OthersCreate, OthersDrop, Others
  <2>2. changes' \in 0..MaxChanges
    BY <1>a, <2>1
  <2> QED
    BY Zenon, <1>a, <1>c, <2>1, <2>2
<1>8. CASE SessionGoesOn
  BY Zenon, <1>a, <1>c, <1>8 DEF SessionGoesOn
<1>9. CASE UNCHANGED all
  BY Zenon, <1>a, <1>9 DEF all
<1> QED
  BY Zenon, <1>1, <1>2, <1>3, <1>4, <1>5, <1>6, <1>7, <1>8, <1>9 DEF NextI

-----------------------------------------------------------------------------
(* What an entry acts on *)

\* Both catalogs have what their objects are in.
WholeOK == Whole(committed.objects) /\ Whole(view.objects)

\* An entry is for an object, "Set Search Path" for a schema of the database
\* the session is connected to; and where nobody is asked, the adapter has seen
\* nothing in the object.
ItemOK ==
    /\ menu.act # "none" => phase # "new" /\ menu.item \in Universe
    /\ menu.act = "use" => Len(menu.item) = 2 /\ InConnected(menu.item, database)
    /\ ~menu.asked => Below(menu.item) \cap menu.saw \subseteq {menu.item}

\* A catalog stays whole when an object goes with all that is in it, when one
\* comes into what is there, and when one goes that holds nothing.
LEMMA WholeWithout ==
    ASSUME NEW objects \in SUBSET Universe, Whole(objects), NEW item \in Universe
    PROVE  Whole(objects \ Below(item))
<1> SUFFICES ASSUME NEW o \in objects \ Below(item), Len(o) > 1, Front(o) \in Below(item)
             PROVE  FALSE
    BY DEF Whole
<1>1. PICK p : p = Front(o)
    OBVIOUS
<1>2. /\ p \in Universe /\ Len(p) = Len(o) - 1
      /\ \A k \in 1 .. Len(o) - 1 : p[k] = o[k]
    BY <1>1, Fronts
<1>3. Len(item) <= Len(p) /\ \A k \in 1 .. Len(item) : item[k] = p[k]
    <2>1. IsPrefix(item, p)
        BY <1>1 DEF Below
    <2> QED
        BY <1>2, <2>1, IsInside
<1>4. Len(item) \in 1 .. 3 /\ Len(o) \in 1 .. 3
    BY Objects
<1>5. Len(item) <= Len(o) /\ \A k \in 1 .. Len(item) : item[k] = o[k]
    BY <1>2, <1>3, <1>4
<1> QED
    BY <1>5, IsInside DEF Below

LEMMA WholeWith ==
    ASSUME NEW objects, Whole(objects), NEW o, Front(o) \in objects
    PROVE  Whole(objects \cup {o})
BY DEF Whole

LEMMA WholeWithoutLeaf ==
    ASSUME NEW objects \in SUBSET Universe, Whole(objects), NEW o \in Volatile
    PROVE  Whole(objects \ {o})
BY Fronts DEF Whole

\* Every step leaves the catalogs whole.
LEMMA WholeStep ==
    ASSUME TypeOKI, MenuOK, Agrees, ItemOK, WholeOK, [NextI]_all
    PROVE  WholeOK'
<1>1. WholeOK /\ committed.objects \in SUBSET Universe /\ view.objects \in SUBSET Universe
    BY DEF TypeOKI
<1>2. ASSUME UNCHANGED catalog PROVE WholeOK'
    BY <1>1, <1>2 DEF catalog, WholeOK
<1>3. ASSUME NEW commits, Settle(commits) PROVE WholeOK'
    <2>1. committed' \in {view, committed} /\ view' \in {view, committed}
        BY <1>3, Settling
    <2> QED
        BY <1>1, <2>1 DEF WholeOK
<1>4. ASSUME NEW after, Change(after), Whole(after.objects) PROVE WholeOK'
    BY <1>1, <1>4 DEF Change, WholeOK
<1>5. ASSUME Running, menu.act = "drop" PROVE Whole(Dropped(Target).objects)
    <2>1. Target = menu.item /\ menu.item \in Universe
        <3>1. database \in {<<>>, Connected} \cup TypedNames
            BY DEF TypeOKI
        <3> QED
            BY <1>5, <3>1, TargetIsTheItem DEF ItemOK
    <2>2. Dropped(Target).objects = view.objects \ Below(menu.item)
        BY <2>1 DEF Dropped, With
    <2> QED
        BY <1>1, <2>1, <2>2, WholeWithout DEF WholeOK
<1>6. CASE EntrySucceeds
    <2>1. Whole([objects |-> view.objects, path |-> Target].objects)
        BY <1>1 DEF WholeOK
    <2> QED
        BY Zenon, <1>2, <1>4, <1>5, <1>6, <2>1 DEF EntrySucceeds
<1>7. ASSUME NEW o \in Universe, OthersCreate(o) PROVE WholeOK'
    <2>1. /\ Front(o) \in committed.objects /\ Front(o) \in view.objects
          /\ committed'.objects = committed.objects \cup {o}
          /\ view'.objects = view.objects \cup {o}
        BY <1>7 DEF OthersCreate, With
    <2> QED
        BY <1>1, <2>1, WholeWith DEF WholeOK
<1>8. ASSUME NEW o \in Universe, OthersDrop(o) PROVE WholeOK'
    <2>1. /\ o \in Volatile
          /\ committed'.objects = committed.objects \ {o}
          /\ view'.objects = view.objects \ {o}
        BY <1>8 DEF OthersDrop, With
    <2> QED
        BY <1>1, <2>1, WholeWithoutLeaf DEF WholeOK
<1>9. CASE SessionGoesOn
    <2>1. ASSUME NEW o \in Volatile,
                 Front(o) \in view.objects, Change(With(view, view.objects \cup {o}))
          PROVE  WholeOK'
        <3>1. With(view, view.objects \cup {o}).objects = view.objects \cup {o}
            BY DEF With
        <3> QED
            BY <1>1, <1>4, <2>1, <3>1, WholeWith DEF WholeOK
    <2>2. ASSUME Running, stmt = "write" PROVE menu.act = "drop"
        BY <2>2 DEF TypeOKI, Menus, MenuOK, Running, KindOf
    <2> QED
        BY Zenon, <1>2, <1>3, <1>4, <1>5, <1>9, <2>1, <2>2, SessionGoesOnEffect DEF catalog
<1> QED
    BY Zenon, <1>2, <1>3, <1>6, <1>7, <1>8, <1>9 DEF NextI, OpenI, Chooses, DropRelation,
       DropContainer, SetSearchPath, RefuseSearchPath, ShowDefinition, Answer,
       Choose, Execute, EntryReturns, EntryFetches, all, catalog

\* A session that is open is never new again.
LEMMA PhaseStep == [Next]_vars /\ phase # "new" => phase' # "new"
<1> SUFFICES ASSUME [Next]_vars, phase # "new" PROVE phase' # "new"
    OBVIOUS
<1> USE DEF setup
<1>1. CASE Open \/ OpenFails \/ OpenPooled \/ ToggleTransactionMode \/ RollbackButton
           \/ CommitButton \/ CommitButtonFails \/ Close
    BY <1>1 DEF Open, OpenFails, OpenPooled, ToggleTransactionMode, RollbackButton,
       CommitButton, CommitButtonFails, Close
<1>2. CASE \/ (\E kind \in Kinds : Submit(kind)) \/ BeginDone \/ BeginFails \/ Succeeds
           \/ (\E e \in Failures : Fails(e)) \/ FailsDead \/ Return
           \/ (\E c \in cursors : FetchAll(c)) \/ LoseConnection
    BY <1>2 DEF Submit, BeginDone, BeginFails, Succeeds, Fails, FailsDead, Return,
       FetchAll, LoseConnection
<1>3. CASE AskCancel \/ SendCancel \/ CancelFails \/ CancelReturns \/ CancelLapses
    BY <1>3 DEF AskCancel, SendCancel, CancelFails, CancelReturns, CancelLapses
<1> QED
    BY Zenon, <1>1, <1>2, <1>3 DEF Next, vars, setup

\* Choosing an entry is for an item that it suits.
LEMMA ChoosesItem ==
    ASSUME TypeOKI, WholeOK, ItemOK, Chooses
    PROVE  ItemOK'
<1>1. ASSUME NEW act, NEW item \in Universe, NEW at, NEW asked, NEW saw,
             Choose(act, item, at, asked, saw),
             act = "use" => Len(item) = 2 /\ InConnected(item, database),
             asked \/ Below(item) \cap saw \subseteq {item}
      PROVE  ItemOK'
    <2>1. /\ menu' = [act |-> act, item |-> item, at |-> at, asked |-> asked,
                      saw |-> saw, number |-> 0]
          /\ phase' = "open" /\ database' = database
        BY <1>1 DEF Choose, vars, setup
    <2>2. /\ menu'.act = act /\ menu'.item = item /\ menu'.asked = asked
          /\ menu'.saw = saw
        BY <2>1
    <2> QED
        BY <1>1, <2>1, <2>2 DEF ItemOK, InConnected, Below
<1>2. \A act : \A i \in Items(act) : i \in Universe /\ Reaches(i[1])
    BY DEF Items, Listed
<1>3. ASSUME NEW item \in Universe, DropRelation(item) \/ ShowDefinition(item)
      PROVE  ItemOK'
    <2>1. Choose("drop", item, "asking", TRUE, {}) \/ Choose("show", item, "ready", FALSE, {})
        BY Zenon, <1>3 DEF DropRelation, ShowDefinition
    <2>2. "drop" # "use" /\ "show" # "use" /\ Below(item) \cap {} \subseteq {item}
        OBVIOUS
    <2> QED
        BY Zenon, <1>1, <2>1, <2>2
<1>4. ASSUME NEW item \in Universe, Reaches(item[1]), DropContainer(item)
      PROVE  ItemOK'
    <2>1. CASE Choose("drop", item, "asking", TRUE, {})
        BY <1>1, <2>1
    <2>2. CASE /\ {o \in Listed(committed.objects) :
                      /\ Reaches(item[1])
                      /\ Len(o) = Len(item) + 1
                      /\ IsPrefix(item, o)} = {}
               /\ Choose("drop", item, "ready", FALSE, Listed(committed.objects))
        <3>1. committed.objects \in SUBSET Universe /\ Whole(committed.objects)
            BY DEF TypeOKI, WholeOK
        <3>2. Below(item) \cap Listed(committed.objects) \subseteq {item}
            BY <1>4, <2>2, <3>1, NothingBelow
        <3> QED
            BY <1>1, <2>2, <3>2
    <2> QED
        BY Zenon, <1>4, <2>1, <2>2 DEF DropContainer
<1>5. ASSUME NEW item \in Items("use"), SetSearchPath(item)
      PROVE  ItemOK'
    <2>1. item \in Universe /\ Len(item) = 2 /\ InConnected(item, database)
        <3>1. item \in Universe /\ "use" \in Offered(Class(item))
            BY <1>2, <1>5 DEF Items
        <3> QED
            BY <1>5, <3>1, Offers DEF SetSearchPath
    <2>2. Choose("use", item, "ready", FALSE, {}) /\ Below(item) \cap {} \subseteq {item}
        BY <1>5 DEF SetSearchPath
    <2> QED
        BY <1>1, <2>1, <2>2
<1>6. ASSUME NEW item, RefuseSearchPath(item)
      PROVE  ItemOK'
    BY <1>6 DEF RefuseSearchPath, vars, setup, ItemOK, InConnected, Below
<1>7. ASSUME NEW yes \in BOOLEAN, Answer(yes)
      PROVE  ItemOK'
    <2>1. menu' = NoMenu \/ menu' = [menu EXCEPT !.at = "ready"]
        BY Zenon, <1>7 DEF Answer
    <2>2. /\ menu' = NoMenu => menu'.act = "none" /\ menu'.saw = {}
          /\ menu' # NoMenu => /\ menu'.act = menu.act /\ menu'.item = menu.item
                               /\ menu'.asked = menu.asked /\ menu'.saw = menu.saw
        BY <2>1 DEF NoMenu, TypeOKI, Menus
    <2>3. phase' = phase /\ database' = database
        BY <1>7 DEF Answer, vars, setup
    <2> QED
        BY <2>2, <2>3 DEF ItemOK, InConnected, Below
<1> QED
    BY Zenon, <1>2, <1>3, <1>4, <1>5, <1>6, <1>7 DEF Chooses

\* Every step leaves the entry under way with its item.
LEMMA ItemStep ==
    ASSUME TypeOKI, MenuOK, WholeOK, ItemOK, [NextI]_all
    PROVE  ItemOK'
<1>1. phase # "new" => phase' # "new"
    BY SessionStep, PhaseStep
<1>2. ASSUME \/ menu' = NoMenu
             \/ /\ menu'.act = menu.act /\ menu'.item = menu.item
                /\ menu'.asked = menu.asked /\ menu'.saw = menu.saw,
             database' = database
      PROVE  ItemOK'
    <2>1. menu' = NoMenu => menu'.act = "none" /\ menu'.saw = {}
        BY DEF NoMenu
    <2> QED
        BY <1>1, <1>2, <2>1 DEF ItemOK, InConnected, Below
<1>3. CASE OpenI
    <2>1. phase = "new" /\ menu' = menu
        BY <1>3 DEF OpenI, Open
    <2>2. menu.act \notin {"use"}
        BY <2>1 DEF ItemOK
    <2> QED
        BY <2>1, <2>2 DEF ItemOK, Below
<1>4. CASE Chooses
    BY <1>4, ChoosesItem
<1>5. CASE Execute \/ EntryReturns
    <2>1. \/ menu' = NoMenu
          \/ menu' = [menu EXCEPT !.at = "running", !.number = n']
          \/ menu' = [menu EXCEPT !.at = "fetching"]
        BY Zenon, <1>5 DEF Execute, EntryReturns
    <2>2. database' = database
        BY <1>5 DEF Execute, EntryReturns
    <2>3. menu \in Menus
        BY DEF TypeOKI
    <2> QED
        BY <1>2, <2>1, <2>2, <2>3 DEF Menus
<1>6. CASE EntryFetches
    BY <1>2, <1>6 DEF EntryFetches
<1>7. CASE \/ EntrySucceeds \/ SessionGoesOn \/ UNCHANGED all
           \/ \E o \in Universe : OthersCreate(o) \/ OthersDrop(o)
    <2>1. menu' = menu /\ database' = database
        BY Zenon, <1>7 DEF EntrySucceeds, SessionGoesOn, all, OthersCreate, OthersDrop, Others
    <2> QED
        BY <1>2, <2>1
<1> QED
    BY Zenon, <1>3, <1>4, <1>5, <1>6, <1>7 DEF NextI

\* What a step can take from the main connection's catalog while an entry runs,
\* of what is committed: a drop takes its item with all that is in it.
LEMMA TakesTheItem ==
    ASSUME TypeOKI, MenuOK, Agrees, ItemOK, [NextI]_all, Running, ~Others
    PROVE  (view.objects \ view'.objects) \cap committed.objects \subseteq Below(menu.item)
<1> DEFINE Goal == (view.objects \ view'.objects) \cap committed.objects \subseteq Below(menu.item)
<1> SUFFICES Goal
    OBVIOUS
<1>1. ASSUME UNCHANGED catalog PROVE Goal
    BY <1>1 DEF catalog
<1>2. ASSUME NEW commits, Settle(commits) PROVE Goal
    BY <1>2, Settling
<1>3. Target = menu.item
    <2>1. /\ menu.act \in {"drop", "use", "show"}
          /\ database \in {<<>>, Connected} \cup TypedNames
        BY DEF TypeOKI, Menus, MenuOK, Running
    <2> QED
        BY <2>1, TargetIsTheItem DEF ItemOK
<1>4. ASSUME Change(Dropped(Target)) PROVE Goal
    <2>1. view'.objects = view.objects \ Below(menu.item)
        BY <1>3, <1>4 DEF Change, Dropped, With
    <2> QED
        BY <2>1
<1>5. CASE EntrySucceeds
    <2>1. Change([objects |-> view.objects, path |-> Target]) => Goal
        BY DEF Change
    <2> HIDE DEF Goal
    <2> QED
        BY Zenon, <1>1, <1>4, <1>5, <2>1 DEF EntrySucceeds
<1>6. CASE SessionGoesOn
    <2> HIDE DEF Goal
    <2> QED
        BY Zenon, <1>1, <1>2, <1>4, <1>6, SessionGoesOnEffect DEF catalog
<1>7. CASE \E o \in Universe : OthersCreate(o) \/ OthersDrop(o)
    BY <1>7 DEF OthersCreate, OthersDrop
<1> HIDE DEF Goal
<1> QED
    BY Zenon, <1>1, <1>2, <1>5, <1>6, <1>7 DEF NextI, OpenI, Chooses, DropRelation,
       DropContainer, SetSearchPath, RefuseSearchPath, ShowDefinition, Answer,
       Choose, Execute, EntryReturns, EntryFetches, all, catalog

-----------------------------------------------------------------------------
(* The theorems *)

Entries == TypeOKI /\ MenuOK /\ Agrees

\* Before a session is opened no entry is under way, and one catalog is seen.
LEMMA InitEntries == InitI => Init /\ Entries
<1> SUFFICES ASSUME InitI PROVE Init /\ Entries
  OBVIOUS
<1>1. Init /\ TypeOK
  BY InitHolds DEF InitI
<1>2. CatalogOK /\ view = committed
  BY DEF InitI, CatalogOK
<1>3. EntryOK
  BY InteractionsAssumption DEF InitI, EntryOK, Menus, Notices, NoMenu,
     InteractionsAssumption
<1>4. MenuOK
  BY DEF InitI, MenuOK, NoMenu, Running
<1> QED
  BY Zenon, <1>1, <1>2, <1>3, <1>4 DEF Entries, TypeOKI, CatalogOK, EntryOK, Agrees

\* The variables keep their types, the entry under way its order, and both
\* sides of the catalog agree outside of transactions.
THEOREM EntriesInvariance == SpecI => []Entries
<1>1. InitI => Entries
  BY InitEntries
<1>2. Entries /\ [NextI]_all => Entries'
  <2> SUFFICES ASSUME Entries, [NextI]_all PROVE Entries'
    OBVIOUS
  <2>1. TypeOK'
    BY SessionStep, FlagsStep, ValuesStep, NumbersStep DEF Entries, TypeOKI, TypeOK
  <2>2. CatalogOK' /\ EntryOK' /\ MenuOK' /\ Agrees'
    BY CatalogStep, EntryStep, MenuStep, AgreesStep DEF Entries
  <2> QED
    BY Zenon, <2>1, <2>2 DEF Entries, TypeOKI, CatalogOK, EntryOK
<1> QED
  BY <1>1, <1>2, PTL DEF SpecI

\* The catalog and the menus have their types, for any catalog.
THEOREM InteractionsTypeCorrect == SpecI => []TypeOKI
<1>1. Entries => TypeOKI
  BY DEF Entries
<1> QED
  BY <1>1, EntriesInvariance, PTL

\* The menus only do to the session what a user could: everything proved of
\* RedshiftSession holds beside them.
THEOREM ImplementsSession == SpecI => Spec
<1>1. InitI => Init
  BY InitEntries
<1>2. Entries /\ [NextI]_all => [Next]_vars
  BY SessionStep DEF Entries
<1> QED
  BY <1>1, <1>2, EntriesInvariance, PTL DEF SpecI, Spec

\* From the menus of a read-only session nothing is dropped, whatever objects
\* there are, on a server that answers all its connections alike.
THEOREM ReadOnlyNeverDrops ==
    ASSUME UniformServer PROVE SpecI => ReadOnlyDropsNothing
<1> DEFINE Safe == readOnly /\ committed'.objects # committed.objects => Others
<1>1. InitI => SameObjects
  BY InitEntries DEF InitI, SameObjects
<1>2. Entries /\ Shape /\ Kept /\ SameObjects /\ [NextI]_all => SameObjects'
  <2> SUFFICES ASSUME Entries, Shape, Kept, SameObjects, [NextI]_all, readOnly'
               PROVE  view'.objects = committed'.objects
    BY DEF SameObjects
  <2>1. readOnly
    BY SessionStep, EnvStep DEF Entries, env
  <2> QED
    BY <2>1, ReadOnlyStep DEF Entries
<1>3. Entries /\ Shape /\ Kept /\ SameObjects /\ [NextI]_all => [Safe]_all
  BY ReadOnlyStep DEF Entries
<1> QED
  BY <1>1, <1>2, <1>3, EntriesInvariance, ImplementsSession, ShapeInvariance,
     KeptInvariance, PTL DEF SpecI, ReadOnlyDropsNothing

\* What the user is told was dropped, or switched to, stays so, save for a switch
\* within the transaction that keeps a session read only: with a uniform server.
THEOREM AnnouncementsAreTrue ==
    ASSUME UniformServer PROVE SpecI => AnnouncementsHold
<1> DEFINE True ==
      (/\ notice' \in {"dropped", "switched"}
       /\ outcome = "done"
       /\ ~(notice' = "switched" /\ mode = "Auto" /\ readOnly /\ ~sessionRO)) =>
          /\ view' = view
          /\ mode = "Auto" => committed' = view
<1>1. Entries /\ Kept /\ AutoBare /\ [NextI]_all => [True]_all
  BY AnnounceStep DEF Entries
<1> QED
  BY <1>1, EntriesInvariance, ImplementsSession, KeptInvariance,
     AutoBareInvariance, PTL DEF SpecI, AnnouncementsHold

\* In Manual mode a drop from a menu waits for the user's commit like any write.
THEOREM ManualDropsAlwaysWait == SpecI => ManualDropsWait
<1> DEFINE Waits ==
      mode = "Manual" /\ committed'.objects # committed.objects =>
          Others \/ Commits \/ (op = "running" /\ stmt = "commit")
<1>1. Entries /\ ManualInside /\ [NextI]_all => [Waits]_all
  BY ManualStep DEF Entries
<1> QED
  BY <1>1, EntriesInvariance, ImplementsSession, InsideInvariance, PTL
     DEF SpecI, ManualDropsWait

\* Every query that a menu writes is about its item, for every way to name the
\* objects: about all of them that its view has rows about, or the largest.
THEOREM ReportsAlwaysMatch == SpecI => []ReportsMatchTheItem
<1>1. TypeOKI => ReportsMatchTheItem
  <2> SUFFICES ASSUME TypeOKI, NEW r \in Reports,
                      NEW covered \in Covers(r.query, Listed(view.objects)),
                      r.item[1] = Connected \/ r.query.source \in SpanningViews
               PROVE  /\ \A rows \in Results(r.query, covered) :
                            /\ rows \subseteq r.about
                            /\ \/ rows = r.about \cap covered
                               \/ r.query.largest /\ Cardinality(rows) = LargestTables
                      /\ r.query.source \in CompleteViews =>
                            r.about \cap covered = r.about \cap Listed(view.objects)
    BY Zenon DEF ReportsMatchTheItem
  <2>1. PICK i \in Listed(Universe) :
          \E entry \in Offered(Class(i)) \cap Reporting :
             r = [item |-> i, query |-> Report(i, entry),
                  about |-> {o \in Below(i) : Len(o) = Report(i, entry).level}]
    BY Zenon DEF Reports
  <2>2. PICK entry \in Offered(Class(i)) \cap Reporting :
          r = [item |-> i, query |-> Report(i, entry),
               about |-> {o \in Below(i) : Len(o) = Report(i, entry).level}]
    BY <2>1
  <2>3. PICK query : query = Report(i, entry)
    OBVIOUS
  <2>4. /\ r.item = i /\ r.query = query
        /\ r.about = {o \in Below(i) : Len(o) = query.level}
    BY <2>2, <2>3
  <2>5. i \in Universe /\ Listed(view.objects) \in SUBSET Universe
    BY DEF Listed, TypeOKI
  <2>6. PICK known :
          known = {o \in Listed(view.objects) :
                     /\ Len(o) = query.level
                     /\ query.source \in SpanningViews \/ o[1] = Connected}
    OBVIOUS
  <2>7. /\ covered \in SUBSET known
        /\ query.source \in CompleteViews => covered = known
    BY <2>4, <2>6 DEF Covers
  <2>8. \A o \in covered : /\ o \in Universe
                           /\ Len(o) = query.level
                           /\ query.source \in SpanningViews \/ o[1] = Connected
    BY <2>5, <2>6, <2>7
  <2>9. Meant(query, covered) = Below(i) \cap covered
    BY <2>3, <2>4, <2>5, <2>8, ReportMeans
  <2>10. Meant(query, covered) = r.about \cap covered
    BY <2>4, <2>8, <2>9
  <2>11. ASSUME NEW rows \in Results(r.query, covered)
         PROVE  /\ rows \subseteq r.about
                /\ \/ rows = r.about \cap covered
                   \/ r.query.largest /\ Cardinality(rows) = LargestTables
    <3>1. \/ rows = Meant(query, covered)
          \/ /\ query.largest
             /\ rows \in {set \in SUBSET Meant(query, covered) :
                             Cardinality(set) = LargestTables}
      BY <2>4 DEF Results, kSubset
    <3> QED
      BY <2>4, <2>10, <3>1
  <2>12. ASSUME query.source \in CompleteViews
         PROVE  r.about \cap covered = r.about \cap Listed(view.objects)
    <3>1. query.source \in SpanningViews
      BY <2>12 DEF CompleteViews, SpanningViews
    <3> QED
      BY <2>4, <2>6, <2>7, <2>12, <3>1
  <2> QED
    BY <2>4, <2>11, <2>12
<1> QED
  BY <1>1, InteractionsTypeCorrect, PTL

\* At any time both catalogs are whole, and the entry under way suits its item.
Suits == WholeOK /\ ItemOK

THEOREM SuitsInvariance == SpecI => []Suits
<1>1. InitI => Suits
  <2> SUFFICES ASSUME InitI PROVE Suits
    OBVIOUS
  <2>1. ItemOK
    BY DEF InitI, ItemOK, NoMenu
  <2>2. PICK missing \in SUBSET Volatile : committed.objects = Universe \ missing
    BY DEF InitI
  <2>3. view = committed
    BY DEF InitI
  <2>4. Whole(Universe \ missing)
    BY Fronts DEF Whole
  <2> QED
    BY <2>1, <2>2, <2>3, <2>4 DEF Suits, WholeOK
<1>2. Entries /\ Suits /\ [NextI]_all => Suits'
  BY WholeStep, ItemStep DEF Entries, Suits
<1> QED
  BY <1>1, <1>2, EntriesInvariance, PTL DEF SpecI

\* A menu entry acts on the object whose menu it is, for any objects in any
\* databases, however they are named and however the user spelt the database.
THEOREM EntriesActOnTheirItems == SpecI => ActsOnTheItem
<1> DEFINE Acts ==
      /\ EntrySucceeds /\ menu.act = "drop" =>
             view.objects \ view'.objects = Below(menu.item) \cap view.objects
      /\ EntrySucceeds /\ menu.act = "use" => view'.path = menu.item
<1>1. Entries /\ Suits /\ [NextI]_all => [Acts]_all
  <2> SUFFICES ASSUME Entries, Suits, EntrySucceeds PROVE Acts
    OBVIOUS
  <2>1. Target = menu.item
    <3>1. /\ menu.act \in {"drop", "use", "show"}
          /\ database \in {<<>>, Connected} \cup TypedNames
      BY DEF Entries, TypeOKI, Menus, MenuOK, EntrySucceeds, Running
    <3> QED
      BY <3>1, TargetIsTheItem DEF Suits, ItemOK
  <2>2. CASE menu.act = "drop"
    <3>1. view'.objects = view.objects \ Below(menu.item)
      BY <2>1, <2>2 DEF EntrySucceeds, Change, Dropped, With
    <3> QED
      BY <2>2, <3>1
  <2>3. CASE menu.act = "use"
    <3>1. view' = [objects |-> view.objects, path |-> Target]
      BY <2>3 DEF EntrySucceeds, Change
    <3> QED
      BY <2>1, <2>3, <3>1
  <2> QED
    BY <2>2, <2>3
<1> QED
  BY <1>1, EntriesInvariance, SuitsInvariance, PTL DEF SpecI, ActsOnTheItem

\* A drop that nobody confirmed takes nothing that could be listed when the
\* adapter looked into the item, but the item itself.
THEOREM UnaskedTakesNothingSeen == SpecI => UnaskedTakesOnlyTheUnseen
<1> DEFINE Spares ==
      Running /\ ~menu.asked /\ ~Others =>
          (view.objects \ view'.objects) \cap committed.objects \cap menu.saw
              \subseteq {menu.item}
<1>1. Entries /\ Suits /\ [NextI]_all => [Spares]_all
  <2> SUFFICES ASSUME Entries, Suits, [NextI]_all, Running, ~menu.asked, ~Others
               PROVE  (view.objects \ view'.objects) \cap committed.objects \cap menu.saw
                          \subseteq {menu.item}
    OBVIOUS
  <2>1. (view.objects \ view'.objects) \cap committed.objects \subseteq Below(menu.item)
    BY TakesTheItem DEF Entries, Suits
  <2>2. Below(menu.item) \cap menu.saw \subseteq {menu.item}
    BY DEF Suits, ItemOK
  <2> QED
    BY <2>1, <2>2
<1> QED
  BY <1>1, EntriesInvariance, SuitsInvariance, PTL DEF SpecI, UnaskedTakesOnlyTheUnseen
=============================================================================
