--------------------------- MODULE SequenceLemmas ---------------------------
(***************************************************************************)
(* Induction over data, and what it gives of the operators on sequences    *)
(* that the models of the test programs use.                               *)
(*                                                                         *)
(* A proof by induction on n looks at the least n for which the statement  *)
(* fails (LeastNumber).                                                    *)
(***************************************************************************)
EXTENDS Integers, Sequences, FiniteSets, FiniteSetTheorems, TLAPS
-----------------------------------------------------------------------------
\* Every non-empty set of natural numbers has a least element: the shortest of
\* the intervals from 0 to its elements, of which none is a part of a shorter one.
LEMMA LeastNumber ==
  ASSUME NEW T \in SUBSET Nat, T # {}
  PROVE  \E m \in T : \A n \in T : m <= n
<1> DEFINE F == {0 .. n : n \in T}
<1>1. F # {} /\ \A S \in F : S \subseteq Nat /\ IsFiniteSet(S)
  <2>1. ASSUME NEW n \in T PROVE 0 .. n \subseteq Nat /\ IsFiniteSet(0 .. n)
    BY FS_Interval
  <2> QED
    BY <2>1
<1>2. F \subseteq FiniteSubsetsOf(Nat)
  <2> HIDE DEF F
  <2> QED
    BY <1>1 DEF FiniteSubsetsOf
<1>3. \E S \in F : \A U \in F : ~(<<U, S>> \in StrictSubsetOrdering(Nat))
  <2> HIDE DEF F
  <2> QED
    BY <1>1, <1>2, FS_StrictSubsetOrderingWellFounded, WFMin
<1>4. PICK m \in T : \A n \in T : ~(<<0 .. n, 0 .. m>> \in StrictSubsetOrdering(Nat))
  BY <1>3
<1>5. ASSUME NEW n \in T, n < m PROVE FALSE
  <2>1. 0 .. n \subseteq 0 .. m /\ 0 .. n # 0 .. m
    <3>1. m \in 0 .. m /\ m \notin 0 .. n
      BY <1>5
    <3> QED
      BY <1>5, <3>1
  <2>2. 0 .. n \in SUBSET Nat /\ 0 .. m \in SUBSET Nat
    OBVIOUS
  <2>3. <<0 .. n, 0 .. m>> \in (SUBSET Nat) \X (SUBSET Nat)
    BY <2>2
  <2> QED
    BY <1>4, <2>1, <2>3 DEF StrictSubsetOrdering
<1> QED
  BY <1>5

\* The form in which it is used: a set of numbers that holds 0 and with each
\* number up to m the next one, holds all numbers up to m.
LEMMA Induction ==
  ASSUME NEW m \in Nat, NEW T, 0 \in T, \A n \in 0 .. m - 1 : n \in T => n + 1 \in T
  PROVE  0 .. m \subseteq T
<1> DEFINE U == {n \in 0 .. m : n \notin T}
<1> SUFFICES ASSUME U # {} PROVE FALSE
  OBVIOUS
<1>1. PICK n \in U : \A k \in U : n <= k
  <2>1. U \in SUBSET Nat
    OBVIOUS
  <2> HIDE DEF U
  <2> QED
    BY <2>1, LeastNumber
<1>2. n # 0 /\ n \in 0 .. m
  OBVIOUS
<1>3. n - 1 \in 0 .. m - 1 /\ n - 1 \notin U
  BY <1>1, <1>2
<1>4. n - 1 + 1 \in T
  BY <1>3
<1> QED
  BY <1>2, <1>4
-----------------------------------------------------------------------------
(* SequencesExt!FlattenSeq of sequences of one length. *)

\* The equation by which it is defined, and the definition.
Joins(g, s, n) == g = [i \in 1 .. n |-> IF i = 1 THEN s[i] ELSE g[i - 1] \o s[i]]

Flattened(s) == IF Len(s) = 0 THEN s ELSE (CHOOSE g : Joins(g, s, Len(s)))[Len(s)]

\* The equation has a solution for every length.
LEMMA JoinsExist ==
  ASSUME NEW s, NEW m \in Nat
  PROVE  \E g : Joins(g, s, m)
<1> DEFINE T == {n \in Nat : \E g : Joins(g, s, n)}
<1>1. 0 \in T
  <2>1. Joins([i \in 1 .. 0 |-> 0], s, 0)
    BY DEF Joins
  <2> QED
    BY <2>1
<1>2. ASSUME NEW n \in 0 .. m - 1, n \in T PROVE n + 1 \in T
  <2>1. PICK g : Joins(g, s, n)
    BY <1>2
  <2>0. \A i \in 1 .. n : g[i] = IF i = 1 THEN s[i] ELSE g[i - 1] \o s[i]
    BY <2>1 DEF Joins
  <2> DEFINE next == IF n + 1 = 1 THEN s[n + 1] ELSE g[n] \o s[n + 1]
             h == [i \in 1 .. n + 1 |-> IF i = n + 1 THEN next ELSE g[i]]
  <2>2. ASSUME NEW i \in 1 .. n + 1
        PROVE  h[i] = IF i = 1 THEN s[i] ELSE h[i - 1] \o s[i]
    <3>1. CASE i = n + 1
      BY <3>1
    <3>2. CASE i \in 1 .. n
      <4>1. h[i] = g[i] /\ g[i] = IF i = 1 THEN s[i] ELSE g[i - 1] \o s[i]
        BY <2>0, <3>2
      <4>2. i # 1 => h[i - 1] = g[i - 1]
        BY <3>2
      <4> QED
        BY <4>1, <4>2
    <3> QED
      BY <3>1, <3>2
  <2>3. h = [i \in 1 .. n + 1 |-> IF i = 1 THEN s[i] ELSE h[i - 1] \o s[i]]
    BY <2>2
  <2> HIDE DEF h
  <2>4. Joins(h, s, n + 1)
    BY <2>3 DEF Joins
  <2> QED
    BY <2>4
<1> HIDE DEF T
<1>3. 0 .. m \subseteq T
  BY <1>1, <1>2, Induction
<1> QED
  BY <1>3 DEF T

\* Where the block after the i-th one of length L starts.  A product of two
\* unknowns is kept from the provers by its name.
Past(i, L) == i * L

\* The blocks lie one behind the other.
LEMMA Blocks ==
  ASSUME NEW L \in Nat
  PROVE  /\ Past(0, L) = 0
         /\ \A i \in Nat : Past(i, L) \in Nat /\ Past(i + 1, L) = Past(i, L) + L
         /\ \A i, j \in Nat : j <= i => Past(j, L) <= Past(i, L)
<1>1. ASSUME NEW i \in Nat PROVE i * L \in Nat /\ (i + 1) * L = i * L + L
  OBVIOUS
<1>2. ASSUME NEW i \in Nat, NEW j \in Nat, j <= i PROVE j * L <= i * L
  <2>1. i - j \in Nat /\ (i - j) * L \in Nat /\ i * L = j * L + (i - j) * L
    BY <1>2
  <2>2. j * L \in Nat
    OBVIOUS
  <2> QED
    BY <2>1, <2>2
<1>3. 0 * L = 0
  OBVIOUS
<1> QED
  BY <1>1, <1>2, <1>3 DEF Past

\* The blocks of f are s[1] .. s[i].
Laid(f, i, s, S, L) ==
  /\ f \in Seq(S) /\ Len(f) = Past(i, L)
  /\ \A j \in 1 .. i : \A k \in 1 .. L : f[Past(j - 1, L) + k] = s[j][k]
  /\ \A x \in 1 .. Past(i, L) : \E j \in 1 .. i : \E k \in 1 .. L : x = Past(j - 1, L) + k

\* The definition of \o.
LEMMA Concatenation ==
  ASSUME NEW S, NEW a \in Seq(S), NEW b \in Seq(S)
  PROVE  /\ a \o b \in Seq(S) /\ Len(a \o b) = Len(a) + Len(b)
         /\ \A x \in 1 .. Len(a) + Len(b) :
              (a \o b)[x] = IF x <= Len(a) THEN a[x] ELSE b[x - Len(a)]
OBVIOUS

\* s is made of three sequences over S in a row.
InARow(s, a, b, c, S) ==
  /\ s \in Seq(S) /\ Len(s) = Len(a) + Len(b) + Len(c)
  /\ \A i \in 1 .. Len(a) : s[i] = a[i]
  /\ \A i \in 1 .. Len(b) : s[Len(a) + i] = b[i]
  /\ \A i \in 1 .. Len(c) : s[Len(a) + Len(b) + i] = c[i]

\* Three sequences joined are the three in a row.
LEMMA ThreeInARow ==
  ASSUME NEW S, NEW a \in Seq(S), NEW b \in Seq(S), NEW c \in Seq(S)
  PROVE  InARow(a \o b \o c, a, b, c, S)
<1> DEFINE ab == a \o b
           s == ab \o c
<1>1. /\ ab \in Seq(S) /\ Len(ab) = Len(a) + Len(b)
      /\ \A x \in 1 .. Len(a) + Len(b) : ab[x] = IF x <= Len(a) THEN a[x] ELSE b[x - Len(a)]
  BY Concatenation
<1> HIDE DEF ab
<1>3. /\ s \in Seq(S) /\ Len(s) = Len(ab) + Len(c)
      /\ \A x \in 1 .. Len(ab) + Len(c) : s[x] = IF x <= Len(ab) THEN ab[x] ELSE c[x - Len(ab)]
  <2>1. ab \in Seq(S)
    BY <1>1
  <2> QED
    BY <2>1, Concatenation, Zenon
<1>4. Len(a) \in Nat /\ Len(b) \in Nat /\ Len(c) \in Nat
  OBVIOUS
<1> HIDE DEF s
<1>5. ASSUME NEW i \in 1 .. Len(a) PROVE s[i] = a[i]
  BY <1>1, <1>3, <1>4
<1>6. ASSUME NEW i \in 1 .. Len(b) PROVE s[Len(a) + i] = b[i]
  <2>1. Len(a) + i \in 1 .. Len(ab) /\ ~(Len(a) + i <= Len(a)) /\ Len(a) + i - Len(a) = i
    BY <1>1, <1>4
  <2>2. s[Len(a) + i] = ab[Len(a) + i]
    BY <1>1, <1>3, <1>4, <2>1
  <2> QED
    BY <1>1, <2>1, <2>2
<1>7. ASSUME NEW i \in 1 .. Len(c) PROVE s[Len(a) + Len(b) + i] = c[i]
  <2>1. /\ Len(ab) + i \in 1 .. Len(ab) + Len(c) /\ ~(Len(ab) + i <= Len(ab))
        /\ Len(ab) + i - Len(ab) = i
    BY <1>1, <1>4
  <2>2. s[Len(ab) + i] = c[i]
    BY <1>3, <2>1
  <2> QED
    BY <1>1, <2>2
<1>8. InARow(s, a, b, c, S)
  BY <1>1, <1>3, <1>4, <1>5, <1>6, <1>7 DEF InARow
<1> QED
  BY <1>8 DEF s, ab

\* One more block of the same length.
LEMMA LaidNext ==
  ASSUME NEW S, NEW s \in Seq(Seq(S)), NEW L \in Nat, NEW i \in Nat, i + 1 \in 1 .. Len(s),
         Len(s[i + 1]) = L, NEW f, Laid(f, i, s, S, L)
  PROVE  Laid(f \o s[i + 1], i + 1, s, S, L)
<1> DEFINE h == f \o s[i + 1]
           N == Past(i, L)
<1>1. N \in Nat /\ Past(i + 1, L) = N + L
  BY Blocks
<1>2. s[i + 1] \in Seq(S) /\ f \in Seq(S) /\ Len(f) = N
  BY DEF Laid
<1> HIDE DEF N
<1>3. /\ h \in Seq(S) /\ Len(h) = N + L
      /\ \A x \in 1 .. N : h[x] = f[x]
      /\ \A k \in 1 .. L : h[N + k] = s[i + 1][k]
  <2>1. Len(s[i + 1]) = L
    OBVIOUS
  <2>2. /\ h \in Seq(S) /\ Len(h) = N + L
        /\ \A x \in 1 .. N + L : h[x] = IF x <= N THEN f[x] ELSE s[i + 1][x - N]
    <3> DEFINE b == s[i + 1]
    <3>1. b \in Seq(S) /\ Len(b) = L
      BY <1>2, <2>1
    <3> HIDE DEF b
    <3>2. /\ f \o b \in Seq(S) /\ Len(f \o b) = Len(f) + Len(b)
          /\ \A x \in 1 .. Len(f) + Len(b) :
               (f \o b)[x] = IF x <= Len(f) THEN f[x] ELSE b[x - Len(f)]
      BY <1>2, <3>1, Concatenation
    <3>3. /\ f \o b \in Seq(S) /\ Len(f \o b) = N + L
          /\ \A x \in 1 .. N + L : (f \o b)[x] = IF x <= N THEN f[x] ELSE b[x - N]
      BY <1>2, <3>1, <3>2
    <3> QED
      BY <3>3 DEF b
  <2> HIDE DEF h
  <2>4. ASSUME NEW k \in 1 .. L PROVE h[N + k] = s[i + 1][k]
    <3>1. N + k \in 1 .. N + L /\ ~(N + k <= N) /\ (N + k) - N = k
      BY <1>1
    <3> QED
      BY <2>2, <3>1
  <2> QED
    BY <1>1, <2>2, <2>4
<1> HIDE DEF h
<1>4. ASSUME NEW j \in 1 .. i + 1, NEW k \in 1 .. L PROVE h[Past(j - 1, L) + k] = s[j][k]
  <2>1. CASE j = i + 1
    <3>1. Past(j - 1, L) = N
      BY <2>1 DEF N
    <3> QED
      BY <1>3, <2>1, <3>1
  <2>2. CASE j \in 1 .. i
    <3>1. j - 1 \in Nat /\ (j - 1) + 1 = j /\ j <= i
      BY <2>2
    <3>2. Past(j - 1, L) \in Nat /\ Past(j, L) = Past(j - 1, L) + L /\ Past(j, L) <= N
      <4>1. Past(j - 1, L) \in Nat /\ Past((j - 1) + 1, L) = Past(j - 1, L) + L
        BY <3>1, Blocks
      <4>2. Past(j, L) <= Past(i, L)
        BY <2>2, Blocks
      <4> QED
        BY <3>1, <4>1, <4>2 DEF N
    <3>3. Past(j - 1, L) + k \in 1 .. N
      BY <1>1, <3>2
    <3>4. f[Past(j - 1, L) + k] = s[j][k]
      BY <2>2 DEF Laid
    <3> QED
      BY <1>3, <3>3, <3>4
  <2>3. j = i + 1 \/ j \in 1 .. i
    OBVIOUS
  <2> QED
    BY <2>1, <2>2, <2>3
<1>5. ASSUME NEW x \in 1 .. N + L
      PROVE  \E j \in 1 .. i + 1 : \E k \in 1 .. L : x = Past(j - 1, L) + k
  <2>1. CASE x \in 1 .. N
    <3>1. PICK j \in 1 .. i, k \in 1 .. L : x = Past(j - 1, L) + k
      BY <2>1 DEF Laid, N
    <3>2. j \in 1 .. i + 1
      OBVIOUS
    <3> QED
      BY <3>1, <3>2
  <2>2. CASE x > N
    <3> DEFINE k == x - N
    <3>1. k \in 1 .. L /\ x = N + k
      BY <1>1, <2>2
    <3>2. i + 1 \in 1 .. i + 1 /\ (i + 1) - 1 = i
      OBVIOUS
    <3>3. x = Past((i + 1) - 1, L) + k
      BY <3>1, <3>2 DEF N
    <3> QED
      BY <3>1, <3>2, <3>3
  <2> QED
    BY <1>1, <2>1, <2>2
<1>6. Laid(h, i + 1, s, S, L)
  BY <1>1, <1>3, <1>4, <1>5 DEF Laid
<1> QED
  BY <1>6 DEF h

\* FlattenSeq puts blocks of one length side by side.
LEMMA FlattenedIsLaid ==
  ASSUME NEW S, NEW s \in Seq(Seq(S)), NEW L \in Nat, \A i \in 1 .. Len(s) : Len(s[i]) = L
  PROVE  Laid(Flattened(s), Len(s), s, S, L)
<1>0. Len(s) \in Nat /\ Past(0, L) = 0
  BY Blocks
<1>1. CASE Len(s) = 0
  <2>1. Flattened(s) = << >>
    BY <1>1 DEF Flattened
  <2> QED
    BY <1>0, <1>1, <2>1 DEF Laid
<1>2. CASE Len(s) # 0
  <2>1. PICK g : Joins(g, s, Len(s)) /\ Flattened(s) = g[Len(s)]
    BY <1>0, <1>2, JoinsExist DEF Flattened
  <2>2. \A i \in 1 .. Len(s) : g[i] = IF i = 1 THEN s[i] ELSE g[i - 1] \o s[i]
    BY <2>1 DEF Joins
  <2> DEFINE T == {n \in Nat : n = 0 \/ Laid(g[n], n, s, S, L)}
  <2>3. 0 \in T
    OBVIOUS
  <2>4. ASSUME NEW n \in 0 .. Len(s) - 1, n \in T PROVE Laid(g[n + 1], n + 1, s, S, L)
    <3>0. n \in Nat /\ n + 1 \in 1 .. Len(s) /\ Len(s[n + 1]) = L
      BY <1>0
    <3>1. CASE n = 0
      <4>1. Laid(<< >>, 0, s, S, L)
        BY <1>0 DEF Laid
      <4>2. Laid(<< >> \o s[n + 1], n + 1, s, S, L)
        BY <4>1, <3>0, <3>1, LaidNext
      <4>3. s[n + 1] \in Seq(S)
        BY <3>0
      <4>4. << >> \o s[n + 1] = s[n + 1]
        BY <4>3
      <4>5. g[n + 1] = s[n + 1]
        BY <2>2, <3>0, <3>1
      <4> QED
        BY <4>2, <4>4, <4>5
    <3>2. CASE n # 0
      <4>1. Laid(g[n], n, s, S, L)
        BY <2>4, <3>2
      <4>2. n + 1 # 1 /\ (n + 1) - 1 = n
        BY <3>0, <3>2
      <4>3. g[n + 1] = g[n] \o s[n + 1]
        BY <2>2, <3>0, <4>2
      <4> QED
        BY <3>0, <4>1, <4>3, LaidNext
    <3> QED
      BY <3>1, <3>2
  <2>5. ASSUME NEW n \in 0 .. Len(s) - 1, n \in T PROVE n + 1 \in T
    <3>1. Laid(g[n + 1], n + 1, s, S, L) /\ n + 1 \in Nat
      BY <2>4, <2>5
    <3> QED
      BY <3>1
  <2> HIDE DEF T
  <2>6. 0 .. Len(s) \subseteq T
    BY <1>0, <2>3, <2>5, Induction
  <2>7. Len(s) \in T
    BY <1>0, <2>6
  <2> QED
    BY <1>2, <2>1, <2>7 DEF T
<1> QED
  BY <1>1, <1>2
=============================================================================
