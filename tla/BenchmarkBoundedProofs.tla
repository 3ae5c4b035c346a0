----------------------- MODULE BenchmarkBoundedProofs -----------------------
(***************************************************************************)
(* No assertion of benchmark_bounded.cpp fails, for every Capacity >= 3,   *)
(* every number of elements and every interleaving.                        *)
(*                                                                         *)
(* A test on one thread is followed by two numbers: how many pushes and    *)
(* how many pops have succeeded.  At says what they are before each line   *)
(* of each test, Expected what a call must answer then; the scripts agree  *)
(* with that (the lemmas on lines), and so does the ring (CallInv).        *)
(***************************************************************************)
EXTENDS BenchmarkBounded, LockfreeSpscBoundedProofs, SequenceLemmas

\* a is the answer to a call before which n pushes and m pops have succeeded.
Expected(o, a, n, m) ==
  /\ o \in {"try_push", "try_emplace"} => a = IF n - m < Capacity THEN True ELSE False
  /\ o \in {"try_pop", "peek"} => a = IF m < n THEN m + 1 ELSE False
  /\ o = "size" => a = n - m
  /\ o = "empty" => a = IF n = m THEN True ELSE False

PushedAfter(o, n, m) ==
  IF o \in {"try_push", "try_emplace"} /\ n - m < Capacity THEN n + 1 ELSE n

PoppedAfter(o, n, m) == IF o = "try_pop" /\ m < n THEN m + 1 ELSE m

Clamp(x, c) == IF x < 0 THEN 0 ELSE IF x > c THEN c ELSE x

\* The lines of one round of the test WrapAround.
RoundLength == 2 * Capacity + 2

InRound(i, n, m) ==
  \E j \in 1 .. 5, k \in 1 .. RoundLength :
    /\ i = Past(j - 1, RoundLength) + k
    /\ n = Past(j - 1, Capacity) + Clamp(k - 1, Capacity)
    /\ m = Past(j - 1, Capacity) + Clamp(k - Capacity - 2, Capacity)

\* Before line i of test t, n pushes and m pops have succeeded.
At(t, i, n, m) ==
  \/ t = "basic" /\ i \in 1 .. 13 /\ n = Clamp(i - 3, 3) /\ m = Clamp(i - 8, 3)
  \/ /\ t = "capacity" /\ i \in 1 .. Capacity + 5
     /\ n = IF i = Capacity + 5 THEN Capacity + 1 ELSE Clamp(i - 1, Capacity)
     /\ m = Clamp(i - Capacity - 3, 1)
  \/ t = "peek" /\ i \in 1 .. 7 /\ n = Clamp(i - 2, 2) /\ m = 0
  \/ t = "emplace" /\ i \in 1 .. 5 /\ n = Clamp(i - 1, 2) /\ m = Clamp(i - 3, 2)
  \/ /\ t = "wrap"
     /\ \/ InRound(i, n, m)
        \/ i = Past(5, RoundLength) + 1 /\ n = Past(5, Capacity) /\ m = Past(5, Capacity)
  \/ t = "spsc" /\ i \in 1 .. 2 /\ n = Elements /\ m = Elements

\* Line x, reached after n pushes and m pops, is one the ring answers as the
\* program asserts, and the test goes on from what it leaves.
Right(t, i, x, n, m) ==
  /\ x[1] \in {"try_push", "try_emplace", "try_pop", "peek", "size", "empty"}
  /\ x[2] = Ignored \/ Expected(x[1], x[2], n, m)
  /\ n \in Nat /\ m \in Nat
  /\ At(t, i + 1, PushedAfter(x[1], n, m), PoppedAfter(x[1], n, m))

Lines == {"try_push", "try_emplace", "try_pop", "peek", "size", "empty"} \X Int
-----------------------------------------------------------------------------
(* The lines of the tests. *)

\* Rep(n, x) is n times the line x.
LEMMA Repeated ==
  ASSUME NEW n \in Nat, NEW x \in Lines
  PROVE  /\ Rep(n, x) \in Seq(Lines) /\ Len(Rep(n, x)) = n
         /\ \A i \in 1 .. n : Rep(n, x)[i] = x
BY DEF Rep

\* BasicPushPop is two questions, three pushes and seven more lines.
LEMMA BasicLines ==
  /\ BasicPushPop \in Seq(Lines) /\ Len(BasicPushPop) = 12
  /\ \A i \in 1 .. 2 : BasicPushPop[i] = << <<"empty", True>>, <<"size", 0>> >>[i]
  /\ \A i \in 1 .. 3 : BasicPushPop[2 + i] = <<"try_push", True>>
  /\ \A i \in 1 .. 7 : BasicPushPop[5 + i] =
       << <<"empty", False>>, <<"size", 3>>, <<"try_pop", 1>>, <<"try_pop", 2>>,
          <<"try_pop", 3>>, <<"empty", True>>, <<"try_pop", False>> >>[i]
<1> DEFINE a == << <<"empty", True>>, <<"size", 0>> >>
           b == Rep(3, <<"try_push", True>>)
           c == << <<"empty", False>>, <<"size", 3>>, <<"try_pop", 1>>, <<"try_pop", 2>>,
                   <<"try_pop", 3>>, <<"empty", True>>, <<"try_pop", False>> >>
<1>1. a \in Seq(Lines) /\ Len(a) = 2
  BY DEF Lines, True
<1>2. b \in Seq(Lines) /\ Len(b) = 3 /\ \A i \in 1 .. 3 : b[i] = <<"try_push", True>>
  <2>1. <<"try_push", True>> \in Lines
    BY DEF Lines, True
  <2> QED
    BY <2>1, Repeated
<1>3. c \in Seq(Lines) /\ Len(c) = 7
  BY DEF Lines, True, False
<1>4. BasicPushPop = a \o b \o c
  BY DEF BasicPushPop
<1> HIDE DEF a, b, c
<1>5. InARow(BasicPushPop, a, b, c, Lines)
  BY <1>1, <1>2, <1>3, <1>4, ThreeInARow, Zenon
<1>6. /\ Len(BasicPushPop) = 12
      /\ \A i \in 1 .. 2 : BasicPushPop[i] = a[i]
      /\ \A i \in 1 .. 3 : BasicPushPop[2 + i] = b[i]
      /\ \A i \in 1 .. 7 : BasicPushPop[5 + i] = c[i]
  BY <1>1, <1>2, <1>3, <1>5 DEF InARow
<1> QED
  BY <1>2, <1>5, <1>6 DEF a, c, InARow

\* Each of its twelve lines asserts what the ring answers there.
LEMMA BasicIsRight ==
  ASSUME NEW i \in 1 .. 12, NEW n, NEW m, At("basic", i, n, m)
  PROVE  Right("basic", i, BasicPushPop[i], n, m)
<1>1. n = Clamp(i - 3, 3) /\ m = Clamp(i - 8, 3)
  BY DEF At
<1> USE BasicLines, ProgramAssumption, CapacityAssumption
    DEF Right, At, Clamp, Expected, PushedAfter, PoppedAfter, True, False
<1>2. CASE i \in 1 .. 2
  BY <1>1, <1>2
<1>3. CASE i \in 3 .. 5
  <2>1. PICK j \in 1 .. 3 : i = 2 + j
    BY <1>3
  <2> QED
    BY <1>1, <1>3, <2>1
<1>4. CASE i \in 6 .. 12
  <2>1. PICK j \in 1 .. 7 : i = 5 + j
    <3>1. i - 5 \in 1 .. 7 /\ i = 5 + (i - 5)
      BY <1>4
    <3> QED
      BY <3>1
  <2> QED
    BY <1>1, <1>4, <2>1
<1> QED
  BY <1>2, <1>3, <1>4

\* BoundedCapacity is Capacity pushes and four more lines.
LEMMA CapacityLines ==
  /\ BoundedCapacity \in Seq(Lines) /\ Len(BoundedCapacity) = Capacity + 4
  /\ \A i \in 1 .. Capacity : BoundedCapacity[i] = <<"try_push", True>>
  /\ \A i \in 1 .. 4 : BoundedCapacity[Capacity + i] =
       << <<"try_push", False>>, <<"size", Capacity>>, <<"try_pop", 1>>, <<"try_push", True>> >>[i]
<1> DEFINE a == Rep(Capacity, <<"try_push", True>>)
           b == << <<"try_push", False>>, <<"size", Capacity>>, <<"try_pop", 1>>,
                   <<"try_push", True>> >>
<1>1. /\ a \in Seq(Lines) /\ Len(a) = Capacity
      /\ \A i \in 1 .. Capacity : a[i] = <<"try_push", True>>
  <2>1. <<"try_push", True>> \in Lines /\ Capacity \in Nat
    BY CapacityAssumption DEF Lines, True
  <2> QED
    BY <2>1, Repeated
<1>2. b \in Seq(Lines) /\ Len(b) = 4
  BY CapacityAssumption DEF Lines, True, False
<1>3. BoundedCapacity = a \o b
  BY DEF BoundedCapacity
<1> HIDE DEF a, b
<1>4. /\ a \o b \in Seq(Lines) /\ Len(a \o b) = Len(a) + Len(b)
      /\ \A x \in 1 .. Len(a) + Len(b) :
           (a \o b)[x] = IF x <= Len(a) THEN a[x] ELSE b[x - Len(a)]
  BY <1>1, <1>2, Concatenation, Zenon
<1>5. /\ BoundedCapacity \in Seq(Lines) /\ Len(BoundedCapacity) = Capacity + 4
      /\ \A x \in 1 .. Capacity + 4 :
           BoundedCapacity[x] = IF x <= Capacity THEN a[x] ELSE b[x - Capacity]
  BY <1>1, <1>2, <1>3, <1>4, Zenon
<1>6. ASSUME NEW i \in 1 .. 4 PROVE BoundedCapacity[Capacity + i] = b[i]
  <2>1. /\ Capacity + i \in 1 .. Capacity + 4 /\ ~(Capacity + i <= Capacity)
        /\ (Capacity + i) - Capacity = i
    BY CapacityAssumption
  <2> QED
    BY <1>5, <2>1
<1>7. ASSUME NEW i \in 1 .. Capacity PROVE BoundedCapacity[i] = <<"try_push", True>>
  BY <1>1, <1>5, CapacityAssumption
<1> QED
  BY <1>5, <1>6, <1>7 DEF b

\* The push that finds the ring full is right to fail, the one after the pop to
\* succeed.
LEMMA CapacityIsRight ==
  ASSUME NEW i \in 1 .. Capacity + 4, NEW n, NEW m, At("capacity", i, n, m)
  PROVE  Right("capacity", i, BoundedCapacity[i], n, m)
<1>1. /\ n = IF i = Capacity + 5 THEN Capacity + 1 ELSE Clamp(i - 1, Capacity)
      /\ m = Clamp(i - Capacity - 3, 1)
  BY DEF At
<1> USE CapacityLines, ProgramAssumption, CapacityAssumption
    DEF Right, At, Clamp, Expected, PushedAfter, PoppedAfter, True, False
<1>2. CASE i \in 1 .. Capacity
  BY <1>1, <1>2
<1>3. CASE i > Capacity
  <2>1. PICK j \in 1 .. 4 : i = Capacity + j
    <3>1. i - Capacity \in 1 .. 4 /\ i = Capacity + (i - Capacity)
      BY <1>3
    <3> QED
      BY <3>1
  <2> QED
    BY <1>1, <1>3, <2>1
<1> QED
  BY <1>2, <1>3

\* Peek moves nothing, so that only the pushes count here.
LEMMA PeekIsRight ==
  ASSUME NEW i \in 1 .. Len(Peek), NEW n, NEW m, At("peek", i, n, m)
  PROVE  Right("peek", i, Peek[i], n, m)
<1>1. Len(Peek) = 6
  BY DEF Peek
<1>2. n = Clamp(i - 2, 2) /\ m = 0 /\ i \in 1 .. 6
  BY <1>1 DEF At
<1> QED
  BY <1>2, ProgramAssumption, CapacityAssumption
  DEF Peek, Right, At, Clamp, Expected, PushedAfter, PoppedAfter, True, False, Ignored

\* try_emplace counts like try_push.
LEMMA EmplaceIsRight ==
  ASSUME NEW i \in 1 .. Len(Emplace), NEW n, NEW m, At("emplace", i, n, m)
  PROVE  Right("emplace", i, Emplace[i], n, m)
<1>1. Len(Emplace) = 4
  BY DEF Emplace
<1>2. n = Clamp(i - 1, 2) /\ m = Clamp(i - 3, 2) /\ i \in 1 .. 4
  BY <1>1 DEF At
<1> QED
  BY <1>2, ProgramAssumption, CapacityAssumption
  DEF Emplace, Right, At, Clamp, Expected, PushedAfter, PoppedAfter, True, False

\* The lines of one round.
Round(j) ==
  Rep(Capacity, <<"try_push", True>>) \o << <<"try_push", False>> >>
  \o [i \in 1 .. Capacity |-> <<"try_pop", (j - 1) * Capacity + i>>]
  \o << <<"empty", True>> >>

\* A round is Capacity pushes, one too many, Capacity pops and empty().
LEMMA RoundLines ==
  ASSUME NEW j \in 1 .. 5
  PROVE  /\ Round(j) \in Seq(Lines) /\ Len(Round(j)) = RoundLength
         /\ \A k \in 1 .. Capacity : Round(j)[k] = <<"try_push", True>>
         /\ Round(j)[Capacity + 1] = <<"try_push", False>>
         /\ \A k \in 1 .. Capacity :
              Round(j)[Capacity + 1 + k] = <<"try_pop", Past(j - 1, Capacity) + k>>
         /\ Round(j)[RoundLength] = <<"empty", True>>
<1> DEFINE a == Rep(Capacity, <<"try_push", True>>)
           b == << <<"try_push", False>> >>
           c == [i \in 1 .. Capacity |-> <<"try_pop", (j - 1) * Capacity + i>>]
           d == << <<"empty", True>> >>
           abc == a \o b \o c
<1>0. Capacity \in Nat
  BY CapacityAssumption
<1>1. /\ a \in Seq(Lines) /\ Len(a) = Capacity
      /\ \A i \in 1 .. Capacity : a[i] = <<"try_push", True>>
  <2>1. <<"try_push", True>> \in Lines
    BY DEF Lines, True
  <2> QED
    BY <1>0, <2>1, Repeated
<1>2. b \in Seq(Lines) /\ Len(b) = 1 /\ b[1] = <<"try_push", False>>
  BY DEF Lines, False
<1>3. /\ c \in Seq(Lines) /\ Len(c) = Capacity
      /\ \A i \in 1 .. Capacity : c[i] = <<"try_pop", Past(j - 1, Capacity) + i>>
  <2>1. Past(j - 1, Capacity) \in Nat /\ Past(j - 1, Capacity) = (j - 1) * Capacity
    BY <1>0, Blocks DEF Past
  <2>2. c = [i \in 1 .. Capacity |-> <<"try_pop", Past(j - 1, Capacity) + i>>]
    BY <2>1
  <2> HIDE DEF c
  <2>3. \A i \in 1 .. Capacity : <<"try_pop", Past(j - 1, Capacity) + i>> \in Lines
    BY <1>0, <2>1 DEF Lines
  <2>4. c \in [1 .. Capacity -> Lines]
    BY <2>2, <2>3, Zenon
  <2>5. c \in Seq(Lines) /\ Len(c) = Capacity
    BY <1>0, <2>4
  <2>6. \A i \in 1 .. Capacity : c[i] = <<"try_pop", Past(j - 1, Capacity) + i>>
    BY <2>2, Zenon
  <2> QED
    BY <2>5, <2>6
<1>4. d \in Seq(Lines) /\ Len(d) = 1 /\ d[1] = <<"empty", True>>
  BY DEF Lines, True
<1>5. Round(j) = abc \o d
  BY DEF Round
<1> HIDE DEF a, b, c, d
<1>6. InARow(abc, a, b, c, Lines)
  BY <1>1, <1>2, <1>3, ThreeInARow, Zenon
<1> HIDE DEF abc
<1>7. /\ abc \in Seq(Lines) /\ Len(abc) = 2 * Capacity + 1
      /\ \A i \in 1 .. Capacity : abc[i] = <<"try_push", True>>
      /\ abc[Capacity + 1] = <<"try_push", False>>
      /\ \A i \in 1 .. Capacity :
           abc[Capacity + 1 + i] = <<"try_pop", Past(j - 1, Capacity) + i>>
  BY <1>0, <1>1, <1>2, <1>3, <1>6 DEF InARow
<1>8. /\ abc \o d \in Seq(Lines) /\ Len(abc \o d) = Len(abc) + Len(d)
      /\ \A x \in 1 .. Len(abc) + Len(d) :
           (abc \o d)[x] = IF x <= Len(abc) THEN abc[x] ELSE d[x - Len(abc)]
  BY <1>4, <1>7, Concatenation, Zenon
<1>9. /\ Round(j) \in Seq(Lines) /\ Len(Round(j)) = RoundLength
      /\ \A x \in 1 .. 2 * Capacity + 1 : Round(j)[x] = abc[x]
      /\ Round(j)[RoundLength] = d[1]
  <2> DEFINE r == Round(j)
  <2>1. r \in Seq(Lines) /\ Len(r) = Len(abc) + Len(d)
        /\ \A x \in 1 .. Len(abc) + Len(d) : r[x] = IF x <= Len(abc) THEN abc[x] ELSE d[x - Len(abc)]
    BY <1>5, <1>8, Zenon
  <2> HIDE DEF r
  <2>2. r \in Seq(Lines) /\ Len(r) = 2 * Capacity + 2
        /\ \A x \in 1 .. 2 * Capacity + 2 :
             r[x] = IF x <= 2 * Capacity + 1 THEN abc[x] ELSE d[x - (2 * Capacity + 1)]
    BY <1>0, <1>4, <1>7, <2>1
  <2>3. r[2 * Capacity + 2] = d[1]
    BY <1>0, <2>2
  <2>4. \A x \in 1 .. 2 * Capacity + 1 : r[x] = abc[x]
    BY <1>0, <2>2
  <2> QED
    BY <2>2, <2>3, <2>4 DEF r, RoundLength
<1>10. ASSUME NEW k \in 1 .. Capacity
       PROVE  /\ Round(j)[k] = <<"try_push", True>>
              /\ Round(j)[Capacity + 1 + k] = <<"try_pop", Past(j - 1, Capacity) + k>>
  <2>1. k \in 1 .. 2 * Capacity + 1 /\ Capacity + 1 + k \in 1 .. 2 * Capacity + 1
    BY <1>0
  <2>2. Round(j)[k] = abc[k] /\ Round(j)[Capacity + 1 + k] = abc[Capacity + 1 + k]
    BY <1>9, <2>1, Zenon
  <2> QED
    BY <1>7, <2>2, Zenon
<1>11. Round(j)[Capacity + 1] = <<"try_push", False>>
  <2>1. Capacity + 1 \in 1 .. 2 * Capacity + 1
    BY <1>0
  <2> QED
    BY <1>7, <1>9, <2>1, Zenon
<1>12. Round(j)[RoundLength] = <<"empty", True>>
  BY <1>4, <1>9, Zenon
<1> QED
  BY <1>9, <1>10, <1>11, <1>12, Zenon

\* The rounds lie one behind the other.
LEMMA WrapLines ==
  /\ WrapAround \in Seq(Lines) /\ Len(WrapAround) = Past(5, RoundLength)
  /\ \A j \in 1 .. 5, k \in 1 .. RoundLength :
       WrapAround[Past(j - 1, RoundLength) + k] = Round(j)[k]
<1> DEFINE s == [j \in 1 .. 5 |-> Round(j)]
<1>1. WrapAround = Flattened(s)
  BY DEF WrapAround, Round, Seqs!FlattenSeq, Flattened, Joins
<1>2. s \in Seq(Seq(Lines)) /\ Len(s) = 5 /\ \A j \in 1 .. 5 : s[j] = Round(j)
  <2>1. \A j \in 1 .. 5 : Round(j) \in Seq(Lines)
    BY RoundLines
  <2> QED
    BY <2>1
<1>3. RoundLength \in Nat
  BY CapacityAssumption DEF RoundLength
<1> HIDE DEF s
<1>4. \A j \in 1 .. Len(s) : Len(s[j]) = RoundLength
  BY <1>2, RoundLines
<1>5. Laid(Flattened(s), Len(s), s, Lines, RoundLength)
  BY <1>2, <1>3, <1>4, FlattenedIsLaid
<1>6. Laid(WrapAround, 5, s, Lines, RoundLength)
  BY <1>1, <1>2, <1>5
<1> QED
  BY <1>2, <1>6 DEF Laid

\* Each round begins and ends with an empty ring, Capacity items further on.
LEMMA WrapIsRight ==
  ASSUME NEW i \in 1 .. Len(WrapAround), NEW n, NEW m, At("wrap", i, n, m)
  PROVE  Right("wrap", i, WrapAround[i], n, m)
<1>0. Capacity \in Nat /\ Capacity >= 3 /\ RoundLength \in Nat /\ RoundLength = 2 * Capacity + 2
  BY ProgramAssumption, CapacityAssumption DEF RoundLength
<1>1. /\ Past(0, Capacity) = 0 /\ Past(0, RoundLength) = 0
      /\ \A x \in Nat : /\ Past(x, Capacity) \in Nat
                        /\ Past(x + 1, Capacity) = Past(x, Capacity) + Capacity
                        /\ Past(x, RoundLength) \in Nat
                        /\ Past(x + 1, RoundLength) = Past(x, RoundLength) + RoundLength
  BY <1>0, Blocks
<1>2. PICK j \in 1 .. 5, k \in 1 .. RoundLength :
        /\ i = Past(j - 1, RoundLength) + k
        /\ n = Past(j - 1, Capacity) + Clamp(k - 1, Capacity)
        /\ m = Past(j - 1, Capacity) + Clamp(k - Capacity - 2, Capacity)
  <2>1. i # Past(5, RoundLength) + 1
    BY WrapLines, <1>1
  <2> QED
    BY <2>1 DEF At, InRound
<1> DEFINE p == Past(j - 1, Capacity)
           r == Past(j - 1, RoundLength)
<1>4. /\ p \in Nat /\ r \in Nat
      /\ Past(j, Capacity) = p + Capacity /\ Past(j, RoundLength) = r + RoundLength
  <2>1. j - 1 \in Nat /\ (j - 1) + 1 = j
    OBVIOUS
  <2> QED
    BY <1>1, <2>1
<1> HIDE DEF p, r
<1>5. i = r + k /\ n = p + Clamp(k - 1, Capacity) /\ m = p + Clamp(k - Capacity - 2, Capacity)
  BY <1>2 DEF p, r
<1>3. /\ k \in 1 .. Capacity => WrapAround[i] = <<"try_push", True>>
      /\ k = Capacity + 1 => WrapAround[i] = <<"try_push", False>>
      /\ \A x \in 1 .. Capacity : k = Capacity + 1 + x => WrapAround[i] = <<"try_pop", p + x>>
      /\ k = RoundLength => WrapAround[i] = <<"empty", True>>
  <2>1. WrapAround[i] = Round(j)[k]
    BY <1>2, WrapLines
  <2> QED
    BY <2>1, RoundLines, Zenon DEF p
\* Where a line that is not the last one of its round leads to.
<1>6. ASSUME k < RoundLength, NEW a, NEW b,
             a = p + Clamp(k, Capacity), b = p + Clamp(k - Capacity - 1, Capacity)
      PROVE  At("wrap", i + 1, a, b)
  <2>1. /\ k + 1 \in 1 .. RoundLength /\ i + 1 = r + (k + 1)
        /\ a = p + Clamp((k + 1) - 1, Capacity)
        /\ b = p + Clamp((k + 1) - Capacity - 2, Capacity)
    <3>1. (k + 1) - 1 = k /\ (k + 1) - Capacity - 2 = k - Capacity - 1
      BY <1>0
    <3> QED
      BY <1>0, <1>4, <1>5, <1>6, <3>1
  <2> QED
    BY <2>1 DEF At, InRound, p, r
<1> USE <1>0, <1>4, <1>5
<1>7. CASE k \in 1 .. Capacity
  <2>1. n = p + k - 1 /\ m = p
    BY <1>7 DEF Clamp
  <2>2. At("wrap", i + 1, n + 1, m)
    <3>1. n + 1 = p + Clamp(k, Capacity) /\ m = p + Clamp(k - Capacity - 1, Capacity)
      BY <1>7, <2>1 DEF Clamp
    <3> QED
      BY <1>6, <1>7, <3>1
  <2>3. /\ PushedAfter("try_push", n, m) = n + 1 /\ PoppedAfter("try_push", n, m) = m
        /\ Expected("try_push", True, n, m)
    BY <1>7, <2>1 DEF PushedAfter, PoppedAfter, Expected
  <2>4. n \in Nat /\ m \in Nat
    BY <1>7, <2>1
  <2>5. WrapAround[i] = <<"try_push", True>>
    BY <1>3, <1>7, Zenon
  <2>6. At("wrap", i + 1, PushedAfter("try_push", n, m), PoppedAfter("try_push", n, m))
    BY <2>2, <2>3, Zenon
  <2>7. WrapAround[i][1] = "try_push" /\ WrapAround[i][2] = True
    BY <2>5
  <2> QED
    BY <2>3, <2>4, <2>6, <2>7 DEF Right
<1>8. CASE k = Capacity + 1
  <2>1. n = p + Capacity /\ m = p
    BY <1>8 DEF Clamp
  <2>2. At("wrap", i + 1, n, m)
    <3>1. n = p + Clamp(k, Capacity) /\ m = p + Clamp(k - Capacity - 1, Capacity)
      BY <1>8, <2>1 DEF Clamp
    <3> QED
      BY <1>6, <1>8, <3>1
  <2>3. /\ PushedAfter("try_push", n, m) = n /\ PoppedAfter("try_push", n, m) = m
        /\ Expected("try_push", False, n, m)
    BY <2>1 DEF PushedAfter, PoppedAfter, Expected
  <2>4. n \in Nat /\ m \in Nat
    BY <1>8, <2>1
  <2>5. WrapAround[i] = <<"try_push", False>>
    BY <1>3, <1>8, Zenon
  <2>6. At("wrap", i + 1, PushedAfter("try_push", n, m), PoppedAfter("try_push", n, m))
    BY <2>2, <2>3, Zenon
  <2>7. WrapAround[i][1] = "try_push" /\ WrapAround[i][2] = False
    BY <2>5
  <2> QED
    BY <2>3, <2>4, <2>6, <2>7 DEF Right
<1>9. CASE k \in Capacity + 2 .. 2 * Capacity + 1
  <2>0. PICK x \in 1 .. Capacity : k = Capacity + 1 + x
    <3>1. k - Capacity - 1 \in 1 .. Capacity /\ k = Capacity + 1 + (k - Capacity - 1)
      BY <1>9
    <3> QED
      BY <3>1
  <2>1. n = p + Capacity /\ m = p + x - 1
    BY <2>0 DEF Clamp
  <2>2. At("wrap", i + 1, n, m + 1)
    <3>1. n = p + Clamp(k, Capacity) /\ m + 1 = p + Clamp(k - Capacity - 1, Capacity)
      BY <2>0, <2>1 DEF Clamp
    <3> QED
      BY <1>6, <1>9, <3>1
  <2>3. /\ PushedAfter("try_pop", n, m) = n /\ PoppedAfter("try_pop", n, m) = m + 1
        /\ Expected("try_pop", p + x, n, m)
    BY <2>1 DEF PushedAfter, PoppedAfter, Expected
  <2>4. n \in Nat /\ m \in Nat
    BY <2>0, <2>1
  <2>5. WrapAround[i] = <<"try_pop", p + x>>
    BY <1>3, <2>0, Zenon
  <2>6. At("wrap", i + 1, PushedAfter("try_pop", n, m), PoppedAfter("try_pop", n, m))
    BY <2>2, <2>3, Zenon
  <2>7. WrapAround[i][1] = "try_pop" /\ WrapAround[i][2] = p + x
    BY <2>5
  <2> QED
    BY <2>3, <2>4, <2>6, <2>7 DEF Right
<1>10. CASE k = RoundLength
  <2>1. n = p + Capacity /\ m = p + Capacity
    BY <1>10 DEF Clamp
  <2>2. At("wrap", i + 1, n, m)
    <3>1. i + 1 = Past(j, RoundLength) + 1 /\ n = Past(j, Capacity) /\ m = Past(j, Capacity)
      BY <1>10, <2>1
    <3>2. CASE j = 5
      BY <3>1, <3>2 DEF At
    <3>3. CASE j < 5
      <4>1. /\ j + 1 \in 1 .. 5 /\ (j + 1) - 1 = j /\ 1 \in 1 .. RoundLength
            /\ i + 1 = Past((j + 1) - 1, RoundLength) + 1
            /\ n = Past((j + 1) - 1, Capacity) + Clamp(1 - 1, Capacity)
            /\ m = Past((j + 1) - 1, Capacity) + Clamp(1 - Capacity - 2, Capacity)
        BY <3>1, <3>3 DEF Clamp
      <4>2. InRound(i + 1, n, m)
        <5> DEFINE y == j + 1
                   l == 1
        <5>1. y \in 1 .. 5 /\ l \in 1 .. RoundLength
              /\ i + 1 = Past(y - 1, RoundLength) + l
              /\ n = Past(y - 1, Capacity) + Clamp(l - 1, Capacity)
              /\ m = Past(y - 1, Capacity) + Clamp(l - Capacity - 2, Capacity)
          BY <4>1
        <5> HIDE DEF y, l
        <5> QED
          BY <5>1 DEF InRound
      <4> QED
        BY <4>2 DEF At
    <3> QED
      BY <3>2, <3>3
  <2>3. /\ PushedAfter("empty", n, m) = n /\ PoppedAfter("empty", n, m) = m
        /\ Expected("empty", True, n, m)
    BY <2>1 DEF PushedAfter, PoppedAfter, Expected
  <2>4. n \in Nat /\ m \in Nat
    BY <1>10, <2>1
  <2>5. WrapAround[i] = <<"empty", True>>
    BY <1>3, <1>10, Zenon
  <2>6. At("wrap", i + 1, PushedAfter("empty", n, m), PoppedAfter("empty", n, m))
    BY <2>2, <2>3, Zenon
  <2>7. WrapAround[i][1] = "empty" /\ WrapAround[i][2] = True
    BY <2>5
  <2> QED
    BY <2>3, <2>4, <2>6, <2>7 DEF Right
<1> QED
  BY <1>7, <1>8, <1>9, <1>10

\* After both loops nothing is left.
LEMMA SpscIsRight ==
  ASSUME NEW i \in 1 .. 1, NEW n, NEW m, At("spsc", i, n, m)
  PROVE  Right("spsc", i, <<"empty", True>>, n, m)
BY ElementsAssumption, MaxItemsAssumption
DEF Right, At, Expected, PushedAfter, PoppedAfter, True, False

\* Every line of every test is right.
LEMMA ScriptsAreRight ==
  ASSUME NEW t \in Tests, NEW i \in 1 .. Len(Statements[t]), NEW n, NEW m, At(t, i, n, m)
  PROVE  Right(t, i, Statements[t][i], n, m)
<1>1. t \in {"basic", "capacity", "peek", "emplace", "wrap", "spsc"}
  BY DEF Tests, Statements
<1>2. CASE t = "basic"
  <2>1. Statements[t] = BasicPushPop
    BY <1>2 DEF Statements
  <2> QED
    BY <1>2, <2>1, BasicLines, BasicIsRight
<1>3. CASE t = "capacity"
  <2>1. Statements[t] = BoundedCapacity
    BY <1>3 DEF Statements
  <2> QED
    BY <1>3, <2>1, CapacityLines, CapacityIsRight
<1>4. CASE t = "peek"
  <2>1. Statements[t] = Peek
    BY <1>4 DEF Statements
  <2> QED
    BY <1>4, <2>1, PeekIsRight
<1>5. CASE t = "emplace"
  <2>1. Statements[t] = Emplace
    BY <1>5 DEF Statements
  <2> QED
    BY <1>5, <2>1, EmplaceIsRight
<1>6. CASE t = "wrap"
  <2>1. Statements[t] = WrapAround
    BY <1>6 DEF Statements
  <2> QED
    BY <1>6, <2>1, WrapIsRight
<1>7. CASE t = "spsc"
  <2>1. Statements[t] = << <<"empty", True>> >>
    BY <1>7 DEF Statements
  <2>2. i \in 1 .. 1 /\ Statements[t][i] = <<"empty", True>>
    BY <2>1
  <2> QED
    BY <1>7, <2>2, SpscIsRight
<1> QED
  BY <1>1, <1>2, <1>3, <1>4, <1>5, <1>6, <1>7
-----------------------------------------------------------------------------
(* The calls of one thread, which sees all its stores: what the ring does   *)
(* in a call before which n pushes and m pops have succeeded.               *)

PushingInv(o, n, m) ==
  /\ op["P"] = o /\ pc["C"] = "idle" /\ Len(got) = m
  /\ \/ pc["P"] \in {"check", "reload", "write", "publish"} /\ Len(tail) = n + 1
     \/ pc["P"] = "idle" /\ n - m < Capacity /\ Len(tail) = n + 2
     \/ pc["P"] = "idle" /\ n - m = Capacity /\ Len(tail) = n + 1

PoppingInv(o, n, m) ==
  /\ op["C"] = o /\ pc["P"] = "idle" /\ Len(tail) = n + 1
  /\ \/ pc["C"] \in {"check", "reload", "read"} /\ Len(got) = m
     \/ pc["C"] = "release" /\ o = "try_pop" /\ Len(got) = m + 1
     \/ pc["C"] = "idle" /\ m = n /\ Len(got) = m
     \/ pc["C"] = "idle" /\ m < n /\ o = "try_pop" /\ Len(got) = m + 1
     \/ pc["C"] = "idle" /\ m < n /\ o = "peek" /\ Len(got) = m /\ peeked = m + 1

QueryingInv(o, n, m) ==
  /\ op["P"] = o /\ pc["C"] = "idle" /\ Len(tail) = n + 1 /\ Len(got) = m
  /\ \/ pc["P"] = "load_head"
     \/ pc["P"] = "load_tail" /\ loaded["P"] = Newest(head)
     \/ pc["P"] = "idle" /\ Expected(o, answer["P"], n, m)

CallInv(o, n, m) ==
  /\ n \in Nat /\ m \in Nat
  /\ \/ o \in {"try_push", "try_emplace"} /\ PushingInv(o, n, m)
     \/ o \in {"try_pop", "peek"} /\ PoppingInv(o, n, m)
     \/ o \in {"size", "empty"} /\ QueryingInv(o, n, m)

\* A push of main's goes on as PushingInv says,
LEMMA PushRuns ==
  ASSUME IInv, NEW o, NEW n, NEW m, CallInv(o, n, m), PushStep,
         pc["P"] = "reload" => seenHead' = Len(head)
  PROVE  CallInv(o, n, m)'
<1>0. /\ o \in {"try_push", "try_emplace"} /\ PushingInv(o, n, m) /\ n \in Nat /\ m \in Nat
      /\ pc \in [Threads -> Labels]
  BY DEF CallInv, PoppingInv, QueryingInv, PushStep, PushCheck, PushReload, PushWrite, PushThrow,
     PushPublish, IInv, TypeOK, ThreadTypes
<1>1. /\ UNCHANGED <<op, got, head>> /\ pc["P"] # "idle" /\ Len(tail) = n + 1
      /\ op["P"] = o /\ pc["C"] = "idle" /\ Len(got) = m /\ Len(head) = m + 1
  <2>1. UNCHANGED <<op, got, head>> /\ pc["P"] # "idle"
    BY DEF PushStep, PushCheck, PushReload, PushWrite, PushThrow, PushPublish, memVars, consVars
  <2>2. pc["C"] = "idle" => Len(got) = Len(head) - 1
    BY DEF IInv, ControlInv
  <2> QED
    BY <1>0, <2>1, <2>2, Numbers DEF PushingInv
<1>2. SUFFICES /\ pc'["C"] = "idle"
               /\ \/ pc'["P"] \in {"check", "reload", "write", "publish"} /\ Len(tail') = n + 1
                  \/ pc'["P"] = "idle" /\ n - m < Capacity /\ Len(tail') = n + 2
                  \/ pc'["P"] = "idle" /\ n - m = Capacity /\ Len(tail') = n + 1
  BY <1>0, <1>1 DEF CallInv, PushingInv
<1>3. CASE PushCheck
  BY <1>0, <1>1, <1>3 DEF PushCheck, Goto, Threads, memVars
<1>4. ASSUME NEW k \in 1 .. Len(head), PushReload(k)
      PROVE  /\ pc'["C"] = "idle" /\ Len(tail') = n + 1
             /\ pc'["P"] = "write" \/ (pc'["P"] = "idle" /\ n - m = Capacity)
  <2>1. k = Len(head) /\ tail' = tail
    BY <1>4 DEF PushReload, AfterLoad, memVars
  <2>2. IsFullAt(head[k]) <=> Len(tail) - k = Capacity
    <3>1. Len(tail) - k <= Capacity
      BY <2>1, Numbers
    <3> QED
      BY <3>1, FullIff DEF IInv
  <2>3. Goto("P", IF IsFullAt(head[k]) THEN "idle" ELSE "write")
    BY <1>0, <1>1, <1>4 DEF PushReload
  <2> QED
    BY <1>0, <1>1, <2>1, <2>2, <2>3 DEF Goto, Threads
<1>5. CASE PushWrite
  BY <1>0, <1>1, <1>5 DEF PushWrite, Goto, Threads
<1>6. CASE PushThrow
  BY <1>6, ProgramAssumption DEF PushThrow
<1>7. CASE PushPublish
  <2>1. Len(tail) - hcAt < Capacity
    BY <1>7 DEF PushPublish, IInv, DistanceInv
  <2>2. n - m < Capacity
    BY <1>0, <1>1, <2>1, Numbers, CapacityAssumption
  <2>3. Len(tail') = n + 2
    <3>1. Newest(tail) \in Slots /\ tail \in Seq(Slots)
      BY Numbers, IndexesAreSlots DEF Newest, IInv, TypeOK, MemberTypes
    <3>2. NextIdx(Newest(tail)) \in Slots
      BY <3>1, NextIdxWraps
    <3> QED
      BY <1>0, <1>1, <1>7, <3>1, <3>2, AppendFacts DEF PushPublish
  <2> QED
    BY <1>0, <1>1, <1>7, <2>2, <2>3 DEF PushPublish, Goto, Threads
<1> QED
  BY <1>3, <1>4, <1>5, <1>6, <1>7 DEF PushStep

\* a pop or a peek as PoppingInv says,
LEMMA PopRuns ==
  ASSUME IInv, NEW o, NEW n, NEW m, CallInv(o, n, m), PopStep,
         pc["C"] = "reload" => seenTail' = Len(tail)
  PROVE  CallInv(o, n, m)'
<1>0. /\ o \in {"try_pop", "peek"} /\ PoppingInv(o, n, m) /\ n \in Nat /\ m \in Nat
      /\ pc \in [Threads -> Labels]
  BY DEF CallInv, PushingInv, QueryingInv, PopStep, PopCheck, PopReload, PopRead, PeekRead, PopThrow,
     PopRelease, IInv, TypeOK, ThreadTypes
<1>1. /\ UNCHANGED <<op, tail>> /\ pc["C"] # "idle" /\ Len(tail) = n + 1
      /\ op["C"] = o /\ pc["P"] = "idle"
      /\ \/ pc["C"] \in {"check", "reload", "read"} /\ Len(got) = m /\ Len(head) = m + 1
         \/ /\ pc["C"] = "release" /\ o = "try_pop" /\ Len(got) = m + 1
            /\ Len(head) = m + 1 /\ m < n
  <2>1. /\ UNCHANGED <<op, tail>> /\ pc["C"] # "idle"
    BY DEF PopStep, PopCheck, PopReload, PopRead, PeekRead, PopThrow,
       PopRelease, memVars
  <2>2. /\ Len(got) = IF pc["C"] = "release" THEN Len(head) ELSE Len(head) - 1
        /\ pc["C"] = "release" => Len(head) < tcAt
    BY DEF IInv, ControlInv, DistanceInv
  <2> QED
    BY <1>0, <2>1, <2>2, Numbers DEF PoppingInv
<1>2. SUFFICES /\ pc'["P"] = "idle"
               /\ \/ pc'["C"] \in {"check", "reload", "read"} /\ Len(got') = m
                  \/ pc'["C"] = "release" /\ o = "try_pop" /\ Len(got') = m + 1
                  \/ pc'["C"] = "idle" /\ m = n /\ Len(got') = m
                  \/ pc'["C"] = "idle" /\ m < n /\ o = "try_pop" /\ Len(got') = m + 1
                  \/ /\ pc'["C"] = "idle" /\ m < n /\ o = "peek" /\ Len(got') = m
                     /\ peeked' = m + 1
  BY <1>0, <1>1 DEF CallInv, PoppingInv
<1>3. CASE PopCheck
  BY <1>0, <1>1, <1>3 DEF PopCheck, Goto, Threads, consVars
<1>4. ASSUME NEW k \in 1 .. Len(tail), PopReload(k)
      PROVE  /\ pc'["P"] = "idle" /\ Len(got') = m
             /\ pc'["C"] = "read" \/ (pc'["C"] = "idle" /\ m = n)
  <2>1. k = Len(tail) /\ got' = got /\ pc["C"] = "reload"
    BY <1>4 DEF PopReload, AfterLoad
  <2>2. IsEmptyAt(tail[k]) <=> k = Len(head)
    <3>1. k \in Len(head) .. Len(tail) /\ Len(tail) - Len(head) <= Capacity
      BY <2>1, Numbers
    <3> QED
      BY <3>1, EmptyIff DEF IInv
  <2>3. Goto("C", IF ~IsEmptyAt(tail[k]) THEN "read" ELSE "idle")
    BY <1>0, <1>1, <1>4 DEF PopReload
  <2> QED
    BY <1>0, <1>1, <2>1, <2>2, <2>3 DEF Goto, Threads
<1>5. CASE PeekRead
  <2>1. /\ pc["C"] = "read" /\ o = "peek" /\ peeked' = arr[head[Len(head)]] /\ got' = got
        /\ pc' = [pc EXCEPT !["C"] = "idle"]
    BY <1>1, <1>5 DEF PeekRead, Newest, Goto
  <2>2. Len(head) < Len(tail) /\ arr[head[Len(head)]] = Len(head)
    BY <2>1, AtRead
  <2> QED
    BY <1>0, <1>1, <2>1, <2>2 DEF Threads
<1>6. CASE PopRead
  <2>1. /\ pc["C"] = "read" /\ o = "try_pop" /\ got' = Append(got, arr[head[Len(head)]])
        /\ pc' = [pc EXCEPT !["C"] = "release"]
    BY <1>0, <1>1, <1>6 DEF PopRead, Newest, Goto
  <2>2. Len(got') = Len(got) + 1
    <3>1. got \in Seq(0 .. MaxItems) /\ arr[head[Len(head)]] \in 0 .. MaxItems
      <4>1. arr[head[Len(head)]] = Len(head) /\ Len(head) <= MaxItems
        BY <2>1, AtRead
      <4> QED
        BY <4>1, Numbers, MaxItemsAssumption DEF IInv, TypeOK, ThreadTypes
    <3> QED
      BY <2>1, <3>1, AppendFacts
  <2> QED
    BY <1>0, <1>1, <2>1, <2>2 DEF Threads
<1>7. CASE PopThrow
  BY <1>7, ProgramAssumption DEF PopThrow
<1>8. CASE PopRelease
  BY <1>0, <1>1, <1>8 DEF PopRelease, Goto, Threads
<1> QED
  BY <1>3, <1>4, <1>5, <1>6, <1>7, <1>8 DEF PopStep

\* and size() or empty() as QueryingInv says.
LEMMA QueryRuns ==
  ASSUME IInv, NEW o, NEW n, NEW m, CallInv(o, n, m), QueryStep("P"),
         pc["P"] = "load_head" => seenHead' = Len(head)
  PROVE  CallInv(o, n, m)'
<1>0. /\ o \in {"size", "empty"} /\ QueryingInv(o, n, m) /\ n \in Nat /\ m \in Nat
      /\ pc \in [Threads -> Labels] /\ loaded \in [Threads -> Slots]
      /\ answer \in [Threads -> Slots \cup {NoAnswer}]
  BY DEF CallInv, PushingInv, PoppingInv, QueryStep, QueryHead, QueryTail, IInv, TypeOK, ThreadTypes
<1>1. /\ UNCHANGED <<op, got, head, tail>> /\ pc["P"] # "idle" /\ Len(tail) = n + 1
      /\ op["P"] = o /\ pc["C"] = "idle" /\ Len(got) = m /\ Len(head) = m + 1
  <2>1. UNCHANGED <<op, got, head, tail>> /\ pc["P"] # "idle"
    BY DEF QueryStep, QueryHead, QueryTail, memVars, consVars
  <2>2. pc["C"] = "idle" => Len(got) = Len(head) - 1
    BY DEF IInv, ControlInv
  <2> QED
    BY <1>0, <2>1, <2>2, Numbers DEF QueryingInv
<1>2. SUFFICES /\ pc'["C"] = "idle"
               /\ \/ pc'["P"] = "load_head"
                  \/ pc'["P"] = "load_tail" /\ loaded'["P"] = Newest(head)
                  \/ pc'["P"] = "idle" /\ Expected(o, answer'["P"], n, m)
  BY <1>0, <1>1 DEF CallInv, QueryingInv, Newest, Expected
<1>3. ASSUME NEW k \in 1 .. Len(head), QueryHead("P", k)
      PROVE  pc'["C"] = "idle" /\ pc'["P"] = "load_tail" /\ loaded'["P"] = Newest(head)
  <2>1. k = Len(head)
    BY <1>3 DEF QueryHead, AfterLoad
  <2> QED
    BY <1>0, <1>1, <1>3, <2>1 DEF QueryHead, Goto, Threads, Newest
<1>4. ASSUME NEW k \in 1 .. Len(tail), QueryTail("P", k)
      PROVE  pc'["C"] = "idle" /\ pc'["P"] = "idle" /\ Expected(o, answer'["P"], n, m)
  <2>1. /\ k = Len(tail) /\ pc["P"] = "load_tail" /\ pc' = [pc EXCEPT !["P"] = "idle"]
        /\ answer'["P"] = IF o = "size" THEN SizeOf(loaded["P"], tail[k])
                          ELSE IF EmptyOf(loaded["P"], tail[k]) THEN 1 ELSE 0
    BY <1>0, <1>1, <1>4 DEF QueryTail, Goto, Threads
  <2>2. loaded["P"] = tail[m + 1] /\ k = n + 1 /\ m + 1 \in 1 .. Len(tail)
    BY <1>0, <1>1, <2>1, Numbers, IndexesAreSlots DEF QueryingInv, Newest
  <2>3. CASE o = "size"
    <3>1. SizeOf(tail[m + 1], tail[n + 1]) = (n + 1) - (m + 1)
      BY <1>1, <2>1, <2>2, Numbers, SizeIsDistance
    <3>2. answer'["P"] = n - m
      BY <1>0, <2>1, <2>2, <2>3, <3>1
    <3> QED
      BY <1>0, <1>1, <2>1, <2>3, <3>2 DEF Expected, Threads
  <2>4. CASE o = "empty"
    <3>1. IsEmptyAt(tail[k]) <=> k = Len(head)
      <4>1. k \in Len(head) .. Len(tail) /\ Len(tail) - Len(head) <= Capacity
        BY <2>1, Numbers
      <4> QED
        BY <4>1, EmptyIff DEF IInv
    <3>2. EmptyOf(loaded["P"], tail[k]) <=> n = m
      BY <1>0, <1>1, <2>1, <2>2, <3>1, IndexesAreSlots, Numbers DEF EmptyOf, IsEmptyAt, Newest
    <3> QED
      BY <1>0, <1>1, <2>1, <2>4, <3>2 DEF Expected, Threads, True, False
  <2> QED
    BY <1>0, <2>3, <2>4
<1> QED
  BY <1>3, <1>4 DEF QueryStep
-----------------------------------------------------------------------------
(* The program. *)

MainInv ==
  /\ test \in Tests /\ line \in Nat \ {0}
  /\ main \in {"test", "call", "done", "join_producer", "join_consumer"}
  /\ main \in {"join_producer", "join_consumer"} => test = "spsc" /\ line = 1
  /\ main = "join_consumer" => Len(tail) = Elements + 1 /\ pc["P"] = "idle"
  /\ main = "test" => /\ \A t \in Threads : pc[t] = "idle"
                      /\ At(test, line, Len(tail) - 1, Len(got))
  /\ main = "call" =>
       /\ line \in 1 .. Len(Statements[test])
       /\ At(test, line, before.pushed, before.popped)
       /\ CallInv(Statements[test][line][1], before.pushed, before.popped)

\* Each test starts at its first line with an empty ring.
LEMMA MainStarts == MainInit => MainInv
<1> SUFFICES ASSUME MainInit PROVE MainInv
  OBVIOUS
<1>1. /\ test \in Tests /\ line = 1 /\ Len(tail) = 1 /\ Len(got) = 0
      /\ \A t \in Threads : pc[t] = "idle"
      /\ main = IF test = "spsc" THEN "join_producer" ELSE "test"
  BY DEF MainInit, Init
<1>2. test # "spsc" => At(test, 1, 0, 0)
  <2>0. Capacity \in Nat /\ Capacity >= 3
    BY CapacityAssumption, ProgramAssumption
  <2>1. test \in {"basic", "capacity", "peek", "emplace", "wrap", "spsc"}
    BY <1>1 DEF Tests, Statements
  <2>2. ASSUME test = "wrap" PROVE InRound(1, 0, 0)
    <3> DEFINE j == 1
               k == 1
    <3>1. /\ j \in 1 .. 5 /\ k \in 1 .. RoundLength
          /\ 1 = Past(j - 1, RoundLength) + k
          /\ 0 = Past(j - 1, Capacity) + Clamp(k - 1, Capacity)
          /\ 0 = Past(j - 1, Capacity) + Clamp(k - Capacity - 2, Capacity)
      BY <2>0, Blocks DEF RoundLength, Clamp
    <3> HIDE DEF j, k
    <3> QED
      BY <3>1 DEF InRound
  <2> QED
    BY <2>0, <2>1, <2>2 DEF At, Clamp
<1> QED
  BY <1>1, <1>2 DEF MainInv

\* A statement of a test begins.
LEMMA StatementStarts ==
  ASSUME IInv, MainInv, Statement
  PROVE  MainInv'
<1>0. PICK o, n, m : o = Statements[test][line][1] /\ n = Len(tail) - 1 /\ m = Len(got)
  OBVIOUS
<1> USE <1>0
<1>1. /\ main = "test" /\ line \in 1 .. Len(Statements[test]) /\ Operation(o)
      /\ main' = "call" /\ UNCHANGED <<test, line>>
      /\ before'.pushed = n /\ before'.popped = m
  BY DEF Statement, MainInv
<1>2. /\ \A t \in Threads : pc[t] = "idle"
      /\ At(test, line, n, m) /\ test \in Tests
  BY <1>1 DEF MainInv
<1>3. Right(test, line, Statements[test][line], n, m)
  BY <1>1, <1>2, ScriptsAreRight
<1>4. /\ o \in {"try_push", "try_emplace", "try_pop", "peek", "size", "empty"}
      /\ n \in Nat /\ m \in Nat
  BY <1>3 DEF Right
<1> HIDE <1>0
<1>5. UNCHANGED <<tail, got>> /\ Len(tail) = n + 1 /\ Len(got) = m
  BY <1>0, <1>1, <1>4, Numbers DEF Operation, PushCall, PopCall, QueryCall, memVars, consVars
<1>6. pc \in [Threads -> Labels] /\ DOMAIN op = Threads
  BY DEF IInv, TypeOK, ThreadTypes
<1>7. CallInv(o, n, m)'
  <2>1. CASE o \in {"try_push", "try_emplace"}
    <3>1. PushCall(o)
      BY <1>1, <2>1 DEF Operation, PopOps, QueryOps
    <3> QED
      BY <1>2, <1>4, <1>5, <1>6, <2>1, <3>1 DEF PushCall, Call, Goto, Threads, CallInv, PushingInv
  <2>2. CASE o \in {"try_pop", "peek"}
    <3>1. PopCall(o)
      BY <1>1, <2>2 DEF Operation, PushOps, QueryOps
    <3> QED
      BY <1>2, <1>4, <1>5, <1>6, <2>2, <3>1 DEF PopCall, Call, Goto, Threads, CallInv, PoppingInv
  <2>3. CASE o \in {"size", "empty"}
    <3>1. QueryCall("P", o)
      BY <1>1, <2>3 DEF Operation, PushOps, PopOps
    <3> QED
      BY <1>2, <1>4, <1>5, <1>6, <2>3, <3>1
      DEF QueryCall, Call, Goto, Threads, CallInv, QueryingInv
  <2> QED
    BY <1>4, <2>1, <2>2, <2>3
<1>8. At(test, line, n, m)'
  BY <1>1, <1>2, <1>5 DEF At
<1> QED
  BY <1>0, <1>1, <1>2, <1>5, <1>7, <1>8 DEF MainInv

\* When the call is over, the ring has answered as the program asserts.
LEMMA AnswersAreRight ==
  ASSUME IInv, NEW o, NEW n, NEW m, NEW a, CallInv(o, n, m), Expected(o, a, n, m),
         n = before.pushed, m = before.popped,
         \A t \in Threads : pc[t] = "idle"
  PROVE  /\ Answer(o) = a
         /\ Len(tail) - 1 = PushedAfter(o, n, m) /\ Len(got) = PoppedAfter(o, n, m)
<1>1. n \in Nat /\ m \in Nat /\ pc["P"] = "idle" /\ pc["C"] = "idle"
  BY DEF CallInv, Threads
<1>2. CASE o \in {"try_push", "try_emplace"}
  <2>1. PushingInv(o, n, m)
    BY <1>2 DEF CallInv
  <2>2. Answer(o) = IF Len(tail) - 1 > n THEN True ELSE False
    BY <1>2 DEF Answer, PushOps, QueryOps
  <2>3. /\ Len(got) = m
        /\ \/ n - m < Capacity /\ Len(tail) = n + 2
           \/ n - m = Capacity /\ Len(tail) = n + 1
    BY <1>1, <2>1 DEF PushingInv
  <2>4. a = IF n - m < Capacity THEN True ELSE False
    BY <1>2 DEF Expected
  <2> QED
    BY <1>1, <1>2, <2>2, <2>3, <2>4, CapacityAssumption DEF PushedAfter, PoppedAfter
<1>3. CASE o = "try_pop"
  <2>1. PoppingInv(o, n, m)
    BY <1>3 DEF CallInv
  <2>2. Answer(o) = IF Len(got) > m THEN got[Len(got)] ELSE False
    BY <1>3 DEF Answer, PushOps, QueryOps
  <2>3. /\ Len(tail) = n + 1
        /\ (m = n /\ Len(got) = m) \/ (m < n /\ Len(got) = m + 1)
    BY <1>1, <1>3, <2>1 DEF PoppingInv
  <2>4. \A x \in 1 .. Len(got) : got[x] = x
    BY DEF IInv, DataInv
  <2>5. a = IF m < n THEN m + 1 ELSE False
    BY <1>3 DEF Expected
  <2> QED
    BY <1>1, <1>3, <2>2, <2>3, <2>4, <2>5 DEF PushedAfter, PoppedAfter
<1>4. CASE o = "peek"
  <2>1. PoppingInv(o, n, m)
    BY <1>4 DEF CallInv
  <2>2. Answer(o) = peeked
    BY <1>4 DEF Answer, PushOps, QueryOps
  <2>3. /\ Len(tail) = n + 1 /\ Len(got) = m
        /\ m = n \/ (m < n /\ peeked = m + 1)
    BY <1>1, <1>4, <2>1 DEF PoppingInv
  <2>4. ASSUME m = n PROVE peeked = 0
    <3>1. Len(head) = m + 1
      BY <1>1, <2>3, Numbers DEF IInv, ControlInv
    <3>2. peeked # NoItem => Len(head) < tcAt
      BY DEF IInv, PeekInv
    <3> QED
      BY <1>1, <2>3, <2>4, <3>1, <3>2, Numbers DEF NoItem
  <2>5. a = IF m < n THEN m + 1 ELSE False
    BY <1>4 DEF Expected
  <2> QED
    BY <1>1, <1>4, <2>2, <2>3, <2>4, <2>5 DEF PushedAfter, PoppedAfter, False
<1>5. CASE o \in {"size", "empty"}
  <2>1. QueryingInv(o, n, m)
    BY <1>5 DEF CallInv
  <2>2. Answer(o) = answer["P"]
    BY <1>5 DEF Answer, PushOps, QueryOps
  <2>3. Len(tail) = n + 1 /\ Len(got) = m /\ Expected(o, answer["P"], n, m)
    BY <1>1, <2>1 DEF QueryingInv
  <2>4. answer["P"] = a
    BY <1>5, <2>3 DEF Expected
  <2> QED
    BY <1>1, <1>5, <2>2, <2>3, <2>4 DEF PushedAfter, PoppedAfter
<1> QED
  BY <1>2, <1>3, <1>4, <1>5 DEF CallInv

\* There is always an answer to expect.
LEMMA SomethingIsExpected == ASSUME NEW o, NEW n, NEW m PROVE \E a : Expected(o, a, n, m)
<1>1. CASE o \in {"try_push", "try_emplace"}
  <2> WITNESS IF n - m < Capacity THEN True ELSE False
  <2> QED
    BY <1>1 DEF Expected
<1>2. CASE o \in {"try_pop", "peek"}
  <2> WITNESS IF m < n THEN m + 1 ELSE False
  <2> QED
    BY <1>2 DEF Expected
<1>3. CASE o = "size"
  <2> WITNESS n - m
  <2> QED
    BY <1>3 DEF Expected
<1>4. CASE o \notin {"try_push", "try_emplace", "try_pop", "peek", "size"}
  <2> WITNESS IF n = m THEN True ELSE False
  <2> QED
    BY <1>4 DEF Expected
<1> QED
  BY <1>1, <1>2, <1>3, <1>4

\* So the assertion holds, and the test is at the next line.
LEMMA AssertionHolds ==
  ASSUME IInv, MainInv, AssertAnswer
  PROVE  MainInv'
<1> DEFINE o == Statements[test][line][1]
           a == Statements[test][line][2]
           n == before.pushed
           m == before.popped
<1>1. /\ main = "call" /\ \A t \in Threads : pc[t] = "idle"
      /\ main' = IF a \in {Ignored, Answer(o)} THEN "test" ELSE "aborted"
      /\ line' = line + 1 /\ UNCHANGED <<test, tail, got, pc>>
  BY DEF AssertAnswer, vars, memVars, consVars
<1>2. /\ line \in 1 .. Len(Statements[test]) /\ At(test, line, n, m)
      /\ CallInv(o, n, m) /\ test \in Tests /\ line \in Nat
  BY <1>1 DEF MainInv
<1>3. Right(test, line, Statements[test][line], n, m)
  BY <1>2, ScriptsAreRight
<1>4. (a = Ignored \/ Expected(o, a, n, m)) /\ At(test, line + 1, PushedAfter(o, n, m), PoppedAfter(o, n, m))
  BY <1>3 DEF Right
<1>5. /\ a \in {Ignored, Answer(o)}
      /\ Len(tail) - 1 = PushedAfter(o, n, m) /\ Len(got) = PoppedAfter(o, n, m)
  <2>1. PICK b : Expected(o, b, n, m)
    BY SomethingIsExpected
  <2>2. Len(tail) - 1 = PushedAfter(o, n, m) /\ Len(got) = PoppedAfter(o, n, m)
    BY <1>1, <1>2, <2>1, AnswersAreRight
  <2>3. Expected(o, a, n, m) => Answer(o) = a
    BY <1>1, <1>2, AnswersAreRight
  <2> QED
    BY <1>4, <2>2, <2>3
<1>6. main' = "test" /\ line' \in Nat \ {0}
  BY <1>1, <1>2, <1>5
<1>7. At(test, line + 1, Len(tail) - 1, Len(got))
  BY <1>4, <1>5
<1>8. At(test, line, Len(tail) - 1, Len(got))'
  BY <1>1, <1>7 DEF At
<1> QED
  BY <1>1, <1>2, <1>6, <1>8 DEF MainInv

\* Before the joins and after them the loops do not disturb main: they are at
\* their ends.
LEMMA LoopsAreOver ==
  ASSUME IInv, MainInv, main \in {"test", "call"}, test = "spsc"
  PROVE  Len(tail) > Elements /\ Len(got) >= Elements
<1>1. Elements \in Nat /\ Len(tail) \in Nat /\ Len(got) \in Nat
  BY Numbers, ElementsAssumption, MaxItemsAssumption
<1>2. CASE main = "test"
  <2>1. Len(tail) - 1 = Elements /\ Len(got) = Elements
    BY <1>2 DEF MainInv, At
  <2> QED
    BY <1>1, <2>1
<1>3. CASE main = "call"
  <2>1. /\ before.pushed = Elements /\ before.popped = Elements
        /\ CallInv(Statements[test][line][1], before.pushed, before.popped)
    BY <1>3 DEF MainInv, At
  <2>2. Len(tail) >= Elements + 1 /\ Len(got) >= Elements
    BY <1>1, <2>1 DEF CallInv, PushingInv, PoppingInv, QueryingInv
  <2> QED
    BY <1>1, <2>2
<1> QED
  BY <1>2, <1>3

\* A call of one of the loops comes before the joins.
LEMMA LoopsHold ==
  ASSUME IInv, MainInv, Producer \/ Consumer
  PROVE  MainInv'
<1>1. /\ UNCHANGED <<test, main, line, before, tail>> /\ test = "spsc"
      /\ pc \in [Threads -> Labels]
      /\ \/ pc' = [pc EXCEPT !["C"] = "check"]
         \/ Len(tail) <= Elements
  BY DEF Producer, Consumer, mainVars, PushCall, PopCall, Call, Goto, memVars, IInv, TypeOK, ThreadTypes
<1>2. main \notin {"test", "call"}
  <2>1. Len(tail) <= Elements \/ Len(got) < Elements
    BY DEF Producer, Consumer
  <2> QED
    BY <2>1, LoopsAreOver, Numbers, <1>1, ElementsAssumption, MaxItemsAssumption
<1>3. main = "join_consumer" => Len(tail) = Elements + 1 /\ pc'["P"] = "idle"
  BY <1>1, ElementsAssumption, MaxItemsAssumption DEF MainInv, Threads
<1> QED
  BY <1>1, <1>2, <1>3 DEF MainInv

\* When both loops are joined, the results are the numbers from 1 to Elements.
LEMMA JoinsHold ==
  ASSUME IInv, MainInv, JoinProducer \/ JoinConsumer
  PROVE  MainInv'
<1>1. UNCHANGED <<test, line, tail, got, pc>> /\ test \in Tests /\ test = "spsc" /\ line = 1
  BY DEF JoinProducer, JoinConsumer, MainInv, vars, memVars, consVars
<1>2. CASE JoinProducer
  <2>1. main' = "join_consumer" /\ Len(tail) = Elements + 1 /\ pc["P"] = "idle"
    BY <1>2 DEF JoinProducer
  <2> QED
    BY <1>1, <2>1 DEF MainInv
<1>3. CASE JoinConsumer
  <2>1. /\ Len(got) = Elements /\ pc["C"] = "idle"
        /\ main' = IF got = [i \in 1 .. Elements |-> i] THEN "test" ELSE "aborted"
        /\ Len(tail) = Elements + 1 /\ pc["P"] = "idle"
    BY <1>3 DEF JoinConsumer, MainInv
  <2>2. got = [i \in 1 .. Elements |-> i]
    <3>1. got \in Seq(0 .. MaxItems) /\ \A i \in 1 .. Len(got) : got[i] = i
      BY DEF IInv, TypeOK, ThreadTypes, DataInv
    <3> QED
      BY <2>1, <3>1
  <2>3. At("spsc", 1, Len(tail) - 1, Len(got))
    BY <2>1, ElementsAssumption, MaxItemsAssumption DEF At
  <2>4. At(test, line, Len(tail) - 1, Len(got))'
    BY <1>1, <2>3 DEF At
  <2>5. main' = "test" /\ \A t \in Threads : pc'[t] = "idle"
    BY <1>1, <2>1, <2>2 DEF Threads
  <2> QED
    BY <1>1, <2>4, <2>5 DEF MainInv
<1> QED
  BY <1>2, <1>3

\* A step inside a call.
LEMMA CallsHold ==
  ASSUME IInv, MainInv, ProducerRuns \/ ConsumerRuns \/ MainQueries
  PROVE  MainInv'
<1>1. /\ UNCHANGED <<test, main, line, before>> /\ SeesAllStores
      /\ PushStep \/ PopStep \/ QueryStep("P")
  BY DEF ProducerRuns, ConsumerRuns, MainQueries, InQueue, mainVars
<1>2. /\ PushStep => pc["P"] # "idle"
      /\ QueryStep("P") => pc["P"] # "idle"
      /\ PopStep => tail' = tail /\ pc["C"] # "idle" /\ (pc["P"] = "idle" => pc'["P"] = "idle")
  <2>1. pc \in [Threads -> Labels]
    BY DEF IInv, TypeOK, ThreadTypes
  <2> QED
    BY <2>1 DEF PushStep, PopStep, QueryStep, PushCheck, PushReload, PushWrite, PushThrow, PushPublish,
       PopCheck, PopReload, PopRead, PeekRead, PopThrow, PopRelease, QueryHead, QueryTail,
       memVars, Goto, Threads
<1>3. main # "test"
  BY <1>1, <1>2 DEF MainInv, Threads
<1>4. CASE main = "call"
  <2>0. PICK o, n, m : o = Statements[test][line][1] /\ n = before.pushed /\ m = before.popped
    OBVIOUS
  <2>1. CallInv(o, n, m) /\ At(test, line, n, m)
    BY <1>4, <2>0 DEF MainInv
  <2>2. /\ pc["P"] \in {"reload", "load_head"} => seenHead' = Len(head)
        /\ pc["C"] = "reload" => seenTail' = Len(tail)
    BY <1>1, <1>4 DEF SeesAllStores
  <2>3. CallInv(o, n, m)'
    BY <1>1, <2>1, <2>2, PushRuns, PopRuns, QueryRuns
  <2>4. At(test, line, n, m)'
    BY <1>1, <2>1 DEF At
  <2> QED
    BY <1>1, <1>4, <2>0, <2>3, <2>4 DEF MainInv
<1>5. CASE main # "call"
  BY <1>1, <1>2, <1>3, <1>5 DEF MainInv
<1> QED
  BY <1>4, <1>5

\* Every step of the program keeps MainInv.
LEMMA MainHolds == IInv /\ MainInv /\ [MainNext]_allVars => MainInv'
<1> SUFFICES ASSUME IInv, MainInv, [MainNext]_allVars PROVE MainInv'
  OBVIOUS
<1>1. CASE EndOfTest
  BY <1>1 DEF EndOfTest, MainInv
<1>2. CASE UNCHANGED allVars
  <2>1. UNCHANGED <<test, main, line, before, pc, op, head, tail, got, peeked, loaded, answer>>
    BY <1>2 DEF allVars, vars, mainVars, memVars, consVars, queryVars
  <2> QED
    BY <2>1 DEF MainInv, CallInv, PushingInv, PoppingInv, QueryingInv, At, Newest, Expected
<1> QED
  BY <1>1, <1>2, StatementStarts, AssertionHolds, LoopsHold, JoinsHold, CallsHold
  DEF MainNext, MainRuns

\* The steps of the program are steps of the queue.
LEMMA ProgramUsesQueue == MainNext => Next \/ UNCHANGED vars
BY DEF MainNext, MainRuns, JoinProducer, JoinConsumer, Statement, AssertAnswer, EndOfTest, Producer,
   Consumer, ProducerRuns, ConsumerRuns, MainQueries, InQueue, Operation, Next, NewCall, Threads,
   PushOps, PopOps

\* In every behaviour of the program the queue's invariant and main's hold.
THEOREM ProgramInvariant == MainSpec => [](IInv /\ MainInv)
<1>1. MainInit => IInv /\ MainInv
  BY InitInv, MainStarts DEF MainInit
<1>2. IInv /\ MainInv /\ [MainNext]_allVars => IInv' /\ MainInv'
  <2>1. [MainNext]_allVars => [Next]_vars
    BY ProgramUsesQueue DEF allVars
  <2> QED
    BY <2>1, NextInv, MainHolds
<1> QED
  BY <1>1, <1>2, PTL DEF MainSpec

\* benchmark_bounded.cpp 42-163: no assertion of run_tests fails.
THEOREM AllTestsPass == MainSpec => []AllTestsPassed
<1>1. MainInv => AllTestsPassed
  BY DEF MainInv, AllTestsPassed
<1> QED
  BY <1>1, ProgramInvariant, PTL
=============================================================================
