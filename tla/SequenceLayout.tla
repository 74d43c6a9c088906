--------------------------- MODULE SequenceLayout ---------------------------
(***************************************************************************)
(* Induction over the natural numbers for a set of them, and where the     *)
(* pieces of a flattened sequence lie: the facts with which the proofs     *)
(* about patterns, quoted names and connection strings reason about what a *)
(* recursive function computes.                                            *)
(***************************************************************************)
EXTENDS Integers, Sequences, SequencesExt, SequenceTheorems, WellFoundedInduction, TLAPS

\* A set that holds 0 and with each number the next one holds them all.
LEMMA Induction ==
    ASSUME NEW T, 0 \in T, \A n \in Nat : n \in T => n + 1 \in T
    PROVE  \A n \in Nat : n \in T
<1> DEFINE R == OpToRel(<, Nat)
           U == Nat \ T
<1> SUFFICES ASSUME U # {} PROVE FALSE
    OBVIOUS
<1>1. IsWellFoundedOn(R, Nat)
    BY NatLessThanWellFounded, Zenon
<1>2. U \subseteq Nat
    OBVIOUS
<1>3. PICK m \in U : \A y \in U : ~ (<<y, m>> \in R)
    <2> HIDE DEF R, U
    <2> QED BY <1>1, <1>2, WFMin, Zenon
<1>4. m - 1 \in Nat /\ m - 1 < m /\ (m - 1) + 1 = m
    OBVIOUS
<1>5. <<m - 1, m>> \in R
    BY <1>4 DEF OpToRel
<1> QED
    BY <1>3, <1>4, <1>5

\* FlattenSeq() appends one piece after the other.
LEMMA FlattenSeqSteps ==
    ASSUME NEW S, NEW seqs \in Seq(Seq(S))
    PROVE  \E flat \in [0 .. Len(seqs) -> Seq(S)] :
              /\ flat[0] = <<>>
              /\ \A k \in 1 .. Len(seqs) : flat[k] = flat[k - 1] \o seqs[k]
              /\ FlattenSeq(seqs) = flat[Len(seqs)]
<1>0. ASSUME seqs = <<>>
      PROVE  \E flat \in [0 .. Len(seqs) -> Seq(S)] :
                /\ flat[0] = <<>>
                /\ \A k \in 1 .. Len(seqs) : flat[k] = flat[k - 1] \o seqs[k]
                /\ FlattenSeq(seqs) = flat[Len(seqs)]
    <2>1. Len(seqs) = 0 /\ FlattenSeq(seqs) = <<>>
        BY <1>0 DEF FlattenSeq
    <2>2. PICK flat : flat = [k \in 0 .. 0 |-> <<>>]
        OBVIOUS
    <2>3. flat \in [0 .. 0 -> Seq(S)] /\ flat[0] = <<>>
        BY <2>2
    <2> QED
        BY <2>1, <2>3
<1> SUFFICES ASSUME seqs # <<>>
             PROVE  \E flat \in [0 .. Len(seqs) -> Seq(S)] :
                       /\ flat[0] = <<>>
                       /\ \A k \in 1 .. Len(seqs) : flat[k] = flat[k - 1] \o seqs[k]
                       /\ FlattenSeq(seqs) = flat[Len(seqs)]
    BY <1>0
<1> DEFINE D == 1 .. Len(seqs)
           Body(f, i) == IF i = 1 THEN seqs[i] ELSE f[i - 1] \o seqs[i]
           Upto(f, n) == \A i \in D : i <= n => f[i] = Body(f, i)
           T == {n \in Nat : \E f : Upto(f, n)}
<1>1. Len(seqs) \in Nat /\ Len(seqs) # 0
    BY EmptySeq
<1>2. 0 \in T
    BY <1>1
<1>3. ASSUME NEW f, NEW n \in Nat, Upto(f, n)
      PROVE  Upto([i \in D |-> Body(f, i)], n + 1)
    <2> DEFINE g == [i \in D |-> Body(f, i)]
    <2> SUFFICES ASSUME NEW i \in D, i <= n + 1
                 PROVE  g[i] = Body(g, i)
        OBVIOUS
    <2>1. CASE i = 1
        BY <2>1
    <2>2. CASE i # 1
        <3>1. i - 1 \in D /\ i - 1 <= n
            BY <1>1, <2>2
        <3>2. g[i - 1] = f[i - 1]
            BY <1>3, <3>1
        <3> QED
            BY <3>2
    <2> QED
        BY <2>1, <2>2
<1>4. ASSUME NEW n \in Nat, n \in T
      PROVE  n + 1 \in T
    <2>1. PICK f : Upto(f, n)
        BY <1>4
    <2>2. Upto([i \in D |-> Body(f, i)], n + 1)
        BY <1>3, <2>1
    <2> HIDE DEF Upto, Body
    <2> QED
        BY <2>2
<1>5. Len(seqs) \in T
    <2> HIDE DEF T
    <2> QED
        BY <1>1, <1>2, <1>4, Induction
<1>6. PICK f : Upto(f, Len(seqs))
    BY <1>5
<1> DEFINE g == [i \in D |-> Body(f, i)]
<1>7. Upto(g, Len(seqs) + 1)
    <2> HIDE DEF Upto, Body
    <2> QED
        BY <1>1, <1>3, <1>6
<1>8. g = [i \in D |-> Body(g, i)]
    <2> HIDE DEF Body
    <2>1. \A i \in D : g[i] = Body(f, i)
        OBVIOUS
    <2>2. \A i \in D : g[i] = Body(g, i)
        <3> HIDE DEF g
        <3> QED
            BY <1>1, <1>7
    <2> QED
        BY <2>1, <2>2
<1> DEFINE chosen == CHOOSE flatten : flatten = [i \in D |-> Body(flatten, i)]
<1>9. chosen = [i \in D |-> Body(chosen, i)]
    <2> HIDE DEF g
    <2> QED
        BY <1>8
<1>10. FlattenSeq(seqs) = chosen[Len(seqs)]
    BY <1>1 DEF FlattenSeq
<1> HIDE DEF chosen
<1>11. ASSUME NEW k \in D, k # 1
       PROVE  chosen[k] = chosen[k - 1] \o seqs[k]
    BY <1>9, <1>11
<1>12. chosen[1] = seqs[1]
    BY <1>1, <1>9
<1> HIDE DEF Body
<1> DEFINE Typed == {n \in Nat : n + 1 \in D => chosen[n + 1] \in Seq(S)}
<1>13. 0 \in Typed
    BY <1>1, <1>12
<1>14. ASSUME NEW n \in Nat, n \in Typed
       PROVE  n + 1 \in Typed
    <2> SUFFICES ASSUME (n + 1) + 1 \in D
                 PROVE  chosen[(n + 1) + 1] \in Seq(S)
        OBVIOUS
    <2>1. PICK m : m = (n + 1) + 1 /\ m - 1 = n + 1 /\ m \in D /\ m # 1 /\ m - 1 \in D
        BY <1>1
    <2>2. PICK a, b : a = chosen[m - 1] /\ b = seqs[m]
        OBVIOUS
    <2>3. a \in Seq(S) /\ b \in Seq(S)
        BY <1>1, <1>14, <2>1, <2>2
    <2>4. chosen[m] = a \o b
        BY <1>11, <2>1, <2>2
    <2> QED
        BY <2>1, <2>3, <2>4
<1>15. \A k \in D : chosen[k] \in Seq(S)
    <2>1. \A n \in Nat : n \in Typed
        <3> HIDE DEF Typed
        <3> QED
            BY <1>13, <1>14, Induction
    <2> SUFFICES ASSUME NEW k \in D
                 PROVE  chosen[k] \in Seq(S)
        OBVIOUS
    <2>2. k - 1 \in Nat /\ (k - 1) + 1 = k
        BY <1>1
    <2> QED
        BY <2>1, <2>2
<1>16. PICK flat : flat = [k \in 0 .. Len(seqs) |-> IF k = 0 THEN <<>> ELSE chosen[k]]
    OBVIOUS
<1>17. flat \in [0 .. Len(seqs) -> Seq(S)] /\ flat[0] = <<>> /\ \A k \in D : flat[k] = chosen[k]
    BY <1>1, <1>15, <1>16
<1>18. ASSUME NEW k \in D
       PROVE  flat[k] = flat[k - 1] \o seqs[k]
    <2>1. CASE k = 1
        BY <1>1, <1>12, <1>17, <2>1
    <2>2. CASE k # 1
        <3>1. k - 1 \in D
            BY <1>1, <2>2
        <3> QED
            BY <1>11, <1>17, <2>2, <3>1
    <2> QED
        BY <2>1, <2>2
<1>19. FlattenSeq(seqs) = flat[Len(seqs)]
    BY <1>1, <1>10, <1>17
<1> HIDE DEF D
<1>20. \A k \in D : flat[k] = flat[k - 1] \o seqs[k]
    BY <1>18, Zenon
<1> QED
    BY <1>17, <1>19, <1>20 DEF D

\* The pieces lie one after the other in flat: the k-th begins after at[k] elements.
IsLayout(at, seqs, flat) ==
    /\ at \in [1 .. Len(seqs) + 1 -> Nat]
    /\ at[1] = 0
    /\ \A k \in 1 .. Len(seqs) :
          /\ at[k + 1] = at[k] + Len(seqs[k])
          /\ at[k + 1] <= Len(flat)
          /\ \A i \in 1 .. Len(seqs[k]) : flat[at[k] + i] = seqs[k][i]
    /\ Len(flat) = at[Len(seqs) + 1]

\* So they do in a flattened sequence.
LEMMA FlattenSeqLayout ==
    ASSUME NEW S, NEW seqs \in Seq(Seq(S))
    PROVE  /\ FlattenSeq(seqs) \in Seq(S)
           /\ \E at : IsLayout(at, seqs, FlattenSeq(seqs))
<1> DEFINE L == Len(seqs)
           D == 1 .. L
<1>1. L \in Nat /\ seqs \in [D -> Seq(S)]
    OBVIOUS
<1>2. PICK flat \in [0 .. L -> Seq(S)] :
         /\ flat[0] = <<>>
         /\ \A k \in D : flat[k] = flat[k - 1] \o seqs[k]
         /\ FlattenSeq(seqs) = flat[L]
    BY FlattenSeqSteps
<1> HIDE DEF L
<1>3. PICK at : at = [k \in 1 .. L + 1 |-> Len(flat[k - 1])]
    OBVIOUS
<1>4. /\ at \in [1 .. L + 1 -> Nat]
      /\ at[1] = 0
      /\ at[L + 1] = Len(flat[L])
    BY <1>1, <1>2, <1>3
<1>5. ASSUME NEW k \in D
      PROVE  /\ at[k + 1] = at[k] + Len(seqs[k])
             /\ at[k + 1] <= Len(flat[k])
             /\ \A i \in 1 .. Len(seqs[k]) : flat[k][at[k] + i] = seqs[k][i]
    <2>1. PICK a, b : a = flat[k - 1] /\ b = seqs[k]
        OBVIOUS
    <2>2. k - 1 \in 0 .. L /\ k \in 1 .. L + 1 /\ k + 1 \in 1 .. L + 1 /\ (k + 1) - 1 = k
        BY <1>1
    <2>3. a \in Seq(S) /\ b \in Seq(S) /\ flat[k] = a \o b
        BY <1>1, <1>2, <2>1, <2>2
    <2>4. at[k] = Len(a) /\ at[k + 1] = Len(a \o b)
        BY <1>3, <2>1, <2>2, <2>3
    <2>5. /\ Len(a \o b) = Len(a) + Len(b)
          /\ \A i \in 1 .. Len(b) : (a \o b)[Len(a) + i] = b[i]
          /\ Len(a \o b) \in Nat
        BY <2>3
    <2>6. \A i \in 1 .. Len(seqs[k]) : flat[k][at[k] + i] = seqs[k][i]
        BY <2>1, <2>3, <2>4, <2>5
    <2>7. at[k + 1] = at[k] + Len(seqs[k])
        BY <2>1, <2>4, <2>5
    <2>8. at[k + 1] <= Len(flat[k])
        BY <2>3, <2>4, <2>5
    <2> QED
        BY <2>6, <2>7, <2>8
<1> DEFINE Piece(n, k) ==
              /\ at[k] + Len(seqs[k]) <= Len(flat[n])
              /\ \A i \in 1 .. Len(seqs[k]) : flat[n][at[k] + i] = seqs[k][i]
           T == {n \in Nat : n <= L => \A k \in 1 .. n : Piece(n, k)}
<1>6. ASSUME NEW n \in 0 .. L, n + 1 <= L, NEW k \in 1 .. n, Piece(n, k)
      PROVE  Piece(n + 1, k)
    <2>1. n + 1 \in D /\ n \in 0 .. L /\ k \in D /\ k \in 1 .. L + 1
        <3>1. n + 1 <= L
            BY <1>6, Zenon
        <3> HIDE DEF Piece
        <3> QED
            BY <1>1, <3>1
    <2>2. PICK a, b, piece, m :
             a = flat[n] /\ b = seqs[n + 1] /\ piece = seqs[k] /\ m = at[k]
        OBVIOUS
    <2>3. a \in Seq(S) /\ b \in Seq(S) /\ piece \in Seq(S) /\ m \in Nat
        BY <1>1, <1>4, <2>1, <2>2
    <2>4. flat[n + 1] = a \o b
        <3>1. (n + 1) - 1 = n
            OBVIOUS
        <3> QED
            BY <1>2, <2>1, <2>2, <3>1
    <2>5. /\ m + Len(piece) <= Len(a)
          /\ \A i \in 1 .. Len(piece) : a[m + i] = piece[i]
        BY <1>6, <2>2
    <2>6. /\ m + Len(piece) <= Len(a \o b)
          /\ \A i \in 1 .. Len(piece) : (a \o b)[m + i] = piece[i]
        <3>1. /\ Len(a) \in Nat /\ Len(b) \in Nat /\ Len(piece) \in Nat
              /\ Len(a \o b) = Len(a) + Len(b)
              /\ \A j \in 1 .. Len(a) : (a \o b)[j] = a[j]
            BY <2>3
        <3>2. \A i \in 1 .. Len(piece) : m + i \in 1 .. Len(a)
            BY <2>3, <2>5, <3>1
        <3> QED
            BY <2>3, <2>5, <3>1, <3>2
    <2> QED
        BY <2>2, <2>4, <2>6
<1>7. 0 \in T
    OBVIOUS
<1>8. ASSUME NEW n \in Nat, n \in T
      PROVE  n + 1 \in T
    <2> SUFFICES ASSUME n + 1 <= L, NEW k \in 1 .. n + 1
                 PROVE  Piece(n + 1, k)
        OBVIOUS
    <2>1. CASE k = n + 1
        BY <1>1, <1>5, <2>1
    <2>2. CASE k \in 1 .. n
        <3>1. n \in 0 .. L /\ Piece(n, k)
            BY <1>1, <1>8, <2>2
        <3> HIDE DEF Piece
        <3> QED
            BY <1>6, <2>2, <3>1
    <2> QED
        BY <2>1, <2>2
<1>9. \A k \in D : Piece(L, k)
    <2>1. L \in T
        <3> HIDE DEF T
        <3> QED
            BY <1>1, <1>7, <1>8, Induction
    <2> HIDE DEF Piece
    <2> QED
        BY <1>1, <2>1
<1>10. ASSUME NEW k \in D
       PROVE  /\ at[k + 1] = at[k] + Len(seqs[k])
              /\ at[k + 1] <= Len(FlattenSeq(seqs))
              /\ \A i \in 1 .. Len(seqs[k]) : FlattenSeq(seqs)[at[k] + i] = seqs[k][i]
    BY <1>2, <1>5, <1>9
<1>11. FlattenSeq(seqs) \in Seq(S)
    BY <1>1, <1>2
<1> HIDE DEF D
<1>12. IsLayout(at, seqs, FlattenSeq(seqs))
    BY <1>2, <1>4, <1>10 DEF IsLayout, D, L
<1> QED
    BY <1>11, <1>12

\* e is an element of the sequence.
Holds(seq, e) == \E i \in 1 .. Len(seq) : seq[i] = e

\* One sequence after another holds the elements of both.
LEMMA HoldsConcatenated ==
    ASSUME NEW S, NEW a \in Seq(S), NEW b \in Seq(S), NEW e
    PROVE  Holds(a \o b, e) <=> Holds(a, e) \/ Holds(b, e)
<1>1. PICK both, m, n : both = a \o b /\ m = Len(a) /\ n = Len(b)
    OBVIOUS
<1>2. /\ m \in Nat /\ n \in Nat /\ Len(both) = m + n
      /\ \A i \in 1 .. m : both[i] = a[i]
      /\ \A i \in 1 .. n : both[m + i] = b[i]
    BY <1>1
<1>3. ASSUME NEW i \in 1 .. m + n, both[i] = e
      PROVE  Holds(a, e) \/ Holds(b, e)
    <2>1. CASE i <= m
        BY <1>1, <1>2, <1>3, <2>1 DEF Holds
    <2>2. CASE ~(i <= m)
        <3>1. i - m \in 1 .. n /\ m + (i - m) = i
            BY <1>2, <2>2
        <3>2. b[i - m] = e
            BY <1>2, <1>3, <3>1
        <3> QED
            BY <1>1, <3>1, <3>2, Zenon DEF Holds
    <2> QED
        BY <2>1, <2>2
<1>4. ASSUME NEW i \in 1 .. m, a[i] = e
      PROVE  i \in 1 .. m + n /\ both[i] = e
    BY <1>2, <1>4
<1>5. ASSUME NEW i \in 1 .. n, b[i] = e
      PROVE  m + i \in 1 .. m + n /\ both[m + i] = e
    BY <1>2, <1>5
<1>6. Holds(both, e) <=> \E i \in 1 .. m + n : both[i] = e
    BY <1>2, Zenon DEF Holds
<1>7. Holds(a, e) => Holds(both, e)
    BY <1>1, <1>4, <1>6, Zenon DEF Holds
<1>8. Holds(b, e) => Holds(both, e)
    BY <1>1, <1>5, <1>6, Zenon DEF Holds
<1>9. Holds(both, e) => Holds(a, e) \/ Holds(b, e)
    BY <1>3, <1>6, Zenon
<1> QED
    BY <1>1, <1>7, <1>8, <1>9, Zenon

\* A flattened sequence holds the elements of its pieces and no others.
LEMMA FlattenSeqElements ==
    ASSUME NEW S, NEW seqs \in Seq(Seq(S))
    PROVE  \A e : Holds(FlattenSeq(seqs), e) <=> \E k \in 1 .. Len(seqs) : Holds(seqs[k], e)
<1> SUFFICES ASSUME NEW e
             PROVE  Holds(FlattenSeq(seqs), e) <=> \E k \in 1 .. Len(seqs) : Holds(seqs[k], e)
    OBVIOUS
<1>1. PICK flat, L : flat = FlattenSeq(seqs) /\ L = Len(seqs)
    OBVIOUS
<1>2. flat \in Seq(S) /\ Len(flat) \in Nat /\ L \in Nat
    BY <1>1, FlattenSeqLayout
<1>3. \A k \in 1 .. L : Len(seqs[k]) \in Nat
    <2> SUFFICES ASSUME NEW k \in 1 .. L PROVE Len(seqs[k]) \in Nat
        OBVIOUS
    <2>1. seqs[k] \in Seq(S)
        BY <1>1
    <2> QED
        BY <2>1
<1>4. PICK at : IsLayout(at, seqs, flat)
    BY <1>1, FlattenSeqLayout
<1>5. /\ at \in [1 .. L + 1 -> Nat] /\ at[1] = 0 /\ at[L + 1] = Len(flat)
      /\ \A k \in 1 .. L : /\ at[k + 1] = at[k] + Len(seqs[k])
                           /\ at[k + 1] <= Len(flat)
                           /\ \A i \in 1 .. Len(seqs[k]) : flat[at[k] + i] = seqs[k][i]
    BY <1>1, <1>4 DEF IsLayout
<1> DEFINE Placed(n) == \A j \in 1 .. at[n + 1] :
                           \E k \in 1 .. L : \E i \in 1 .. Len(seqs[k]) : j = at[k] + i
           T == {n \in Nat : n <= L => Placed(n)}
<1>6. 0 \in T
    <2>1. 0 + 1 = 1 /\ at[1] = 0
        BY <1>5
    <2> QED
        BY <2>1
<1>7. ASSUME NEW n \in Nat, n \in T
      PROVE  n + 1 \in T
    <2> SUFFICES ASSUME n + 1 <= L
                 PROVE  Placed(n + 1)
        OBVIOUS
    <2>1. PICK m : m = n + 1
        OBVIOUS
    <2>2. m \in 1 .. L /\ m \in 1 .. L + 1 /\ m + 1 \in 1 .. L + 1 /\ n <= L
        BY <1>2, <2>1
    <2>3. Placed(n)
        BY <1>7, <2>2
    <2>4. PICK a, b : a = at[m] /\ b = Len(seqs[m])
        OBVIOUS
    <2>5. a \in Nat /\ b \in Nat /\ at[m + 1] = a + b
        BY <1>3, <1>5, <2>2, <2>4
    <2> SUFFICES ASSUME NEW j \in 1 .. a + b
                 PROVE  \E k \in 1 .. L : \E i \in 1 .. Len(seqs[k]) : j = at[k] + i
        BY <2>1, <2>5
    <2>6. CASE j <= a
        <3>1. j \in 1 .. at[n + 1]
            BY <2>1, <2>4, <2>5, <2>6
        <3> QED
            BY <2>3, <3>1
    <2>7. CASE ~(j <= a)
        <3>1. j - a \in 1 .. b /\ j = a + (j - a)
            BY <2>5, <2>7
        <3> QED
            BY <2>2, <2>4, <3>1
    <2> QED
        BY <2>6, <2>7
<1>8. Placed(L)
    <2>1. L \in T
        <3> HIDE DEF T
        <3> QED
            BY <1>2, <1>6, <1>7, Induction
    <2> QED
        BY <1>2, <2>1
<1>9. ASSUME NEW j \in 1 .. Len(flat), flat[j] = e
      PROVE  \E k \in 1 .. L : Holds(seqs[k], e)
    <2>1. PICK k \in 1 .. L : \E i \in 1 .. Len(seqs[k]) : j = at[k] + i
        BY <1>5, <1>8
    <2>2. PICK i \in 1 .. Len(seqs[k]) : j = at[k] + i
        BY <2>1
    <2>3. flat[j] = seqs[k][i]
        BY <1>5, <2>2
    <2> QED
        BY <1>9, <2>3 DEF Holds
<1>10. ASSUME NEW k \in 1 .. L, NEW i \in 1 .. Len(seqs[k]), seqs[k][i] = e
       PROVE  \E j \in 1 .. Len(flat) : flat[j] = e
    <2>1. PICK a, l, N : a = at[k] /\ l = Len(seqs[k]) /\ N = Len(flat)
        OBVIOUS
    <2>2. a \in Nat /\ l \in Nat /\ N \in Nat
        <3>1. k \in 1 .. L + 1
            BY <1>2
        <3> QED
            BY <1>2, <1>3, <1>5, <2>1, <3>1
    <2>3. a + l <= N /\ flat[a + i] = seqs[k][i]
        BY <1>5, <2>1
    <2>4. i \in 1 .. l
        BY <2>1, Zenon
    <2>5. a + i \in 1 .. N
        BY <2>2, <2>3, <2>4
    <2> QED
        BY <1>10, <2>1, <2>3, <2>5
<1> QED
    BY <1>1, <1>9, <1>10 DEF Holds
=============================================================================
