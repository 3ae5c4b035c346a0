----------------------- MODULE TestSpscUnboundedProofs ----------------------
(***************************************************************************)
(* No assertion of test_spsc_unbounded.cpp fails and no node outlives its  *)
(* queue, for every number of elements, every set of addresses large       *)
(* enough and every interleaving.                                          *)
(*                                                                         *)
(* A test on one thread is followed by two numbers: how many pushes and    *)
(* how many pops have succeeded.  At says what they are before each line   *)
(* of each test, Expected what a call must answer then; the scripts agree  *)
(* with that (the lemmas on lines), and so does the list (CallInv).        *)
(***************************************************************************)
EXTENDS TestSpscUnbounded, LockfreeSpscUnboundedProofs, SequenceLemmas

\* a is the answer to a call before which n pushes and m pops have succeeded.
Expected(o, a, n, m) ==
  /\ o \in {"push", "emplace"} => a = True
  /\ o \in {"try_pop", "peek"} => a = IF m < n THEN m + 1 ELSE False
  /\ o = "size" => a = n - m
  /\ o = "empty" => a = IF n = m THEN True ELSE False

PushedAfter(o, n, m) == IF o \in {"push", "emplace"} THEN n + 1 ELSE n

PoppedAfter(o, n, m) == IF o = "try_pop" /\ m < n THEN m + 1 ELSE m

Clamp(x, c) == IF x < 0 THEN 0 ELSE IF x > c THEN c ELSE x

\* Before line i of test t, n pushes and m pops have succeeded.
At(t, i, n, m) ==
  \/ t = "basic" /\ i \in 1 .. 13 /\ n = Clamp(i - 3, 3) /\ m = Clamp(i - 8, 3)
  \/ t = "peek" /\ i \in 1 .. 9 /\ n = Clamp(i - 2, 2) /\ m = Clamp(i - 7, 1)
  \/ t = "emplace" /\ i \in 1 .. 6 /\ n = Clamp(i - 1, 2) /\ m = Clamp(i - 3, 2)
  \/ t = "empty" /\ i \in 1 .. 9 /\ n = Clamp(i - 5, 1) /\ m = Clamp(i - 7, 1)
  \/ /\ t = "burst" /\ i \in 1 .. 2 * Elements + 3
     /\ n = Clamp(i - 1, Elements) /\ m = Clamp(i - Elements - 2, Elements)
  \/ t = "spsc" /\ i \in 1 .. 2 /\ n = Elements /\ m = Elements

\* Line x, reached after n pushes and m pops, is one the list answers as the
\* program asserts, and the test goes on from what it leaves.
Right(t, i, x, n, m) ==
  /\ x[1] \in {"push", "emplace", "try_pop", "peek", "size", "empty"}
  /\ Expected(x[1], x[2], n, m)
  /\ n \in Nat /\ m \in Nat
  /\ At(t, i + 1, PushedAfter(x[1], n, m), PoppedAfter(x[1], n, m))

Lines == {"push", "emplace", "try_pop", "peek", "size", "empty"} \X Int

\* The loops have at least one round.
LEMMA Counts == Elements \in Nat \ {0} /\ MaxItems \in Nat
BY ElementsAssumption, ItemsAssumption
-----------------------------------------------------------------------------
(* The lines of the tests. *)

\* Rep(n, x) is n times the line x.
LEMMA Repeated ==
  ASSUME NEW n \in Nat, NEW x \in Lines
  PROVE  /\ Rep(n, x) \in Seq(Lines) /\ Len(Rep(n, x)) = n
         /\ \A i \in 1 .. n : Rep(n, x)[i] = x
BY DEF Rep

\* test_basic_push_pop: two questions, three pushes, seven lines.
LEMMA BasicLines ==
  /\ test_basic_push_pop \in Seq(Lines) /\ Len(test_basic_push_pop) = 12
  /\ \A i \in 1 .. 2 : test_basic_push_pop[i] = << <<"empty", True>>, <<"size", 0>> >>[i]
  /\ \A i \in 1 .. 3 : test_basic_push_pop[2 + i] = <<"push", True>>
  /\ \A i \in 1 .. 7 : test_basic_push_pop[5 + i] =
       << <<"empty", False>>, <<"size", 3>>, <<"try_pop", 1>>, <<"try_pop", 2>>,
          <<"try_pop", 3>>, <<"empty", True>>, <<"try_pop", False>> >>[i]
<1> DEFINE a == << <<"empty", True>>, <<"size", 0>> >>
           b == Rep(3, <<"push", True>>)
           c == << <<"empty", False>>, <<"size", 3>>, <<"try_pop", 1>>, <<"try_pop", 2>>,
                   <<"try_pop", 3>>, <<"empty", True>>, <<"try_pop", False>> >>
<1>1. a \in Seq(Lines) /\ Len(a) = 2
  BY DEF Lines, True
<1>2. b \in Seq(Lines) /\ Len(b) = 3 /\ \A i \in 1 .. 3 : b[i] = <<"push", True>>
  <2>1. <<"push", True>> \in Lines
    BY DEF Lines, True
  <2> QED
    BY <2>1, Repeated
<1>3. c \in Seq(Lines) /\ Len(c) = 7
  BY DEF Lines, True, False
<1>4. test_basic_push_pop = a \o b \o c
  BY DEF test_basic_push_pop
<1> HIDE DEF a, b, c
<1>5. InARow(test_basic_push_pop, a, b, c, Lines)
  BY <1>1, <1>2, <1>3, <1>4, ThreeInARow, Zenon
<1>6. /\ Len(test_basic_push_pop) = 12
      /\ \A i \in 1 .. 2 : test_basic_push_pop[i] = a[i]
      /\ \A i \in 1 .. 3 : test_basic_push_pop[2 + i] = b[i]
      /\ \A i \in 1 .. 7 : test_basic_push_pop[5 + i] = c[i]
  BY <1>1, <1>2, <1>3, <1>5 DEF InARow
<1> QED
  BY <1>2, <1>5, <1>6 DEF a, c, InARow

\* Each of its twelve lines asserts what the list answers there.
LEMMA BasicIsRight ==
  ASSUME NEW i \in 1 .. 12, NEW n, NEW m, At("basic", i, n, m)
  PROVE  Right("basic", i, test_basic_push_pop[i], n, m)
<1>1. n = Clamp(i - 3, 3) /\ m = Clamp(i - 8, 3)
  BY DEF At
<1> USE BasicLines DEF Right, At, Clamp, Expected, PushedAfter, PoppedAfter, True, False
<1>2. CASE i \in 1 .. 2
  BY <1>1, <1>2
<1>3. CASE i \in 3 .. 5
  <2>1. PICK j \in 1 .. 3 : i = 2 + j
    BY <1>3
  <2> QED
    BY <1>1, <1>3, <2>1
<1>4. CASE i \in 6 .. 12
  <2>1. PICK j \in 1 .. 7 : i = 5 + j
    <3>1. i - 5 \in 1 .. 7 /\ i = 5 + (i - 5)
      BY <1>4
    <3> QED
      BY <3>1
  <2> QED
    BY <1>1, <1>4, <2>1
<1> QED
  BY <1>2, <1>3, <1>4

\* A peek moves nothing: the item it answers with is the next one to be popped.
LEMMA PeekIsRight ==
  ASSUME NEW i \in 1 .. Len(test_peek), NEW n, NEW m, At("peek", i, n, m)
  PROVE  Right("peek", i, test_peek[i], n, m)
<1>1. Len(test_peek) = 8
  BY DEF test_peek
<1>2. n = Clamp(i - 2, 2) /\ m = Clamp(i - 7, 1) /\ i \in 1 .. 8
  BY <1>1 DEF At
<1> QED
  BY <1>2 DEF test_peek, Right, At, Clamp, Expected, PushedAfter, PoppedAfter, True, False

\* emplace counts like push.
LEMMA EmplaceIsRight ==
  ASSUME NEW i \in 1 .. Len(test_emplace), NEW n, NEW m, At("emplace", i, n, m)
  PROVE  Right("emplace", i, test_emplace[i], n, m)
<1>1. Len(test_emplace) = 5
  BY DEF test_emplace
<1>2. n = Clamp(i - 1, 2) /\ m = Clamp(i - 3, 2) /\ i \in 1 .. 5
  BY <1>1 DEF At
<1> QED
  BY <1>2 DEF test_emplace, Right, At, Clamp, Expected, PushedAfter, PoppedAfter, True, False

\* An empty list answers every pop and peek with false.
LEMMA EmptyIsRight ==
  ASSUME NEW i \in 1 .. Len(test_empty_queue), NEW n, NEW m, At("empty", i, n, m)
  PROVE  Right("empty", i, test_empty_queue[i], n, m)
<1>1. Len(test_empty_queue) = 8
  BY DEF test_empty_queue
<1>2. n = Clamp(i - 5, 1) /\ m = Clamp(i - 7, 1) /\ i \in 1 .. 8
  BY <1>1 DEF At
<1> QED
  BY <1>2 DEF test_empty_queue, Right, At, Clamp, Expected, PushedAfter, PoppedAfter, True, False

\* test_burst_drain: Elements pushes, a question, Elements pops, a question.
LEMMA BurstLines ==
  /\ test_burst_drain \in Seq(Lines) /\ Len(test_burst_drain) = 2 * Elements + 2
  /\ \A k \in 1 .. Elements : test_burst_drain[k] = <<"push", True>>
  /\ test_burst_drain[Elements + 1] = <<"size", Elements>>
  /\ \A k \in 1 .. Elements : test_burst_drain[Elements + 1 + k] = <<"try_pop", k>>
  /\ test_burst_drain[2 * Elements + 2] = <<"empty", True>>
<1> DEFINE a == Rep(Elements, <<"push", True>>)
           b == << <<"size", Elements>> >>
           c == [i \in 1 .. Elements |-> <<"try_pop", i>>]
           d == << <<"empty", True>> >>
           abc == a \o b \o c
           r == test_burst_drain
<1>0. Elements \in Nat
  BY Counts
<1>1. /\ a \in Seq(Lines) /\ Len(a) = Elements
      /\ \A i \in 1 .. Elements : a[i] = <<"push", True>>
  <2>1. <<"push", True>> \in Lines
    BY DEF Lines, True
  <2> QED
    BY <1>0, <2>1, Repeated
<1>2. b \in Seq(Lines) /\ Len(b) = 1 /\ b[1] = <<"size", Elements>>
  BY <1>0 DEF Lines
<1>3. /\ c \in Seq(Lines) /\ Len(c) = Elements
      /\ \A i \in 1 .. Elements : c[i] = <<"try_pop", i>>
  <2>1. \A i \in 1 .. Elements : <<"try_pop", i>> \in Lines
    BY <1>0 DEF Lines
  <2>2. c \in [1 .. Elements -> Lines]
    BY <2>1, Zenon
  <2> QED
    BY <1>0, <2>2
<1>4. d \in Seq(Lines) /\ Len(d) = 1 /\ d[1] = <<"empty", True>>
  BY DEF Lines, True
<1>5. r = abc \o d
  BY DEF test_burst_drain
<1> HIDE DEF a, b, c, d
<1>6. InARow(abc, a, b, c, Lines)
  BY <1>1, <1>2, <1>3, ThreeInARow, Zenon
<1> HIDE DEF abc
<1>7. /\ abc \in Seq(Lines) /\ Len(abc) = 2 * Elements + 1
      /\ \A i \in 1 .. Elements : abc[i] = <<"push", True>>
      /\ abc[Elements + 1] = <<"size", Elements>>
      /\ \A i \in 1 .. Elements : abc[Elements + 1 + i] = <<"try_pop", i>>
  BY <1>0, <1>1, <1>2, <1>3, <1>6 DEF InARow
<1>8. /\ abc \o d \in Seq(Lines) /\ Len(abc \o d) = Len(abc) + Len(d)
      /\ \A x \in 1 .. Len(abc) + Len(d) :
           (abc \o d)[x] = IF x <= Len(abc) THEN abc[x] ELSE d[x - Len(abc)]
  BY <1>4, <1>7, Concatenation, Zenon
<1>9. /\ r \in Seq(Lines) /\ Len(r) = Len(abc) + Len(d)
      /\ \A x \in 1 .. Len(abc) + Len(d) : r[x] = IF x <= Len(abc) THEN abc[x] ELSE d[x - Len(abc)]
  BY <1>5, <1>8, Zenon
<1> HIDE DEF r
<1>10. /\ Len(r) = 2 * Elements + 2
       /\ \A x \in 1 .. 2 * Elements + 2 :
            r[x] = IF x <= 2 * Elements + 1 THEN abc[x] ELSE d[x - (2 * Elements + 1)]
  BY <1>0, <1>4, <1>7, <1>9
<1>11. r[2 * Elements + 2] = d[1] /\ \A x \in 1 .. 2 * Elements + 1 : r[x] = abc[x]
  BY <1>0, <1>10
<1>12. ASSUME NEW k \in 1 .. Elements
       PROVE  r[k] = <<"push", True>> /\ r[Elements + 1 + k] = <<"try_pop", k>>
  <2>1. k \in 1 .. 2 * Elements + 1 /\ Elements + 1 + k \in 1 .. 2 * Elements + 1
    BY <1>0
  <2>2. r[k] = abc[k] /\ r[Elements + 1 + k] = abc[Elements + 1 + k]
    BY <1>11, <2>1, Zenon
  <2> QED
    BY <1>7, <2>2, Zenon
<1>13. r[Elements + 1] = <<"size", Elements>>
  <2>1. Elements + 1 \in 1 .. 2 * Elements + 1
    BY <1>0
  <2> QED
    BY <1>7, <1>11, <2>1, Zenon
<1>14. r[2 * Elements + 2] = <<"empty", True>>
  BY <1>4, <1>11, Zenon
<1>15. /\ r \in Seq(Lines) /\ Len(r) = 2 * Elements + 2
       /\ \A k \in 1 .. Elements : r[k] = <<"push", True>>
       /\ r[Elements + 1] = <<"size", Elements>>
       /\ \A k \in 1 .. Elements : r[Elements + 1 + k] = <<"try_pop", k>>
       /\ r[2 * Elements + 2] = <<"empty", True>>
  BY <1>9, <1>10, <1>12, <1>13, <1>14, Zenon
<1> QED
  BY <1>15 DEF r

\* The pops answer with the items in the order of the pushes.
LEMMA BurstIsRight ==
  ASSUME NEW i \in 1 .. 2 * Elements + 2, NEW n, NEW m, At("burst", i, n, m)
  PROVE  Right("burst", i, test_burst_drain[i], n, m)
<1>0. Elements \in Nat /\ Elements >= 1
  BY Counts
<1>1. n = Clamp(i - 1, Elements) /\ m = Clamp(i - Elements - 2, Elements)
  BY DEF At
\* Where the line leads to.
<1>2. ASSUME NEW a, NEW b, a = Clamp(i, Elements), b = Clamp(i - Elements - 1, Elements)
      PROVE  At("burst", i + 1, a, b)
  <2>1. /\ i + 1 \in 1 .. 2 * Elements + 3
        /\ a = Clamp((i + 1) - 1, Elements) /\ b = Clamp((i + 1) - Elements - 2, Elements)
    <3>1. (i + 1) - 1 = i /\ (i + 1) - Elements - 2 = i - Elements - 1
      BY <1>0
    <3> QED
      BY <1>0, <1>2, <3>1
  <2> QED
    BY <2>1 DEF At
<1>3. n \in Nat /\ m \in Nat
  BY <1>0, <1>1 DEF Clamp
<1>4. ASSUME NEW o \in {"push", "try_pop", "size", "empty"}, NEW a,
             test_burst_drain[i] = <<o, a>>, Expected(o, a, n, m),
             PushedAfter(o, n, m) = Clamp(i, Elements),
             PoppedAfter(o, n, m) = Clamp(i - Elements - 1, Elements)
      PROVE  Right("burst", i, test_burst_drain[i], n, m)
  <2>1. At("burst", i + 1, PushedAfter(o, n, m), PoppedAfter(o, n, m))
    BY <1>2, <1>4, Zenon
  <2>2. test_burst_drain[i][1] = o /\ test_burst_drain[i][2] = a
    BY <1>4
  <2> QED
    BY <1>3, <1>4, <2>1, <2>2 DEF Right
<1>5. CASE i \in 1 .. Elements
  <2>1. test_burst_drain[i] = <<"push", True>>
    BY <1>5, BurstLines, Zenon
  <2>2. /\ Expected("push", True, n, m)
        /\ PushedAfter("push", n, m) = Clamp(i, Elements)
        /\ PoppedAfter("push", n, m) = Clamp(i - Elements - 1, Elements)
    BY <1>0, <1>1, <1>5 DEF Expected, PushedAfter, PoppedAfter, Clamp
  <2> QED
    BY <1>4, <2>1, <2>2
<1>6. CASE i = Elements + 1
  <2>1. test_burst_drain[i] = <<"size", Elements>>
    BY <1>6, BurstLines, Zenon
  <2>2. /\ Expected("size", Elements, n, m)
        /\ PushedAfter("size", n, m) = Clamp(i, Elements)
        /\ PoppedAfter("size", n, m) = Clamp(i - Elements - 1, Elements)
    BY <1>0, <1>1, <1>6 DEF Expected, PushedAfter, PoppedAfter, Clamp
  <2> QED
    BY <1>4, <2>1, <2>2
<1>7. CASE i \in Elements + 2 .. 2 * Elements + 1
  <2>0. PICK k \in 1 .. Elements : i = Elements + 1 + k
    <3>1. i - Elements - 1 \in 1 .. Elements /\ i = Elements + 1 + (i - Elements - 1)
      BY <1>0, <1>7
    <3> QED
      BY <3>1
  <2>1. test_burst_drain[i] = <<"try_pop", k>>
    BY <2>0, BurstLines, Zenon
  <2>2. /\ Expected("try_pop", k, n, m)
        /\ PushedAfter("try_pop", n, m) = Clamp(i, Elements)
        /\ PoppedAfter("try_pop", n, m) = Clamp(i - Elements - 1, Elements)
    BY <1>0, <1>1, <2>0 DEF Expected, PushedAfter, PoppedAfter, Clamp
  <2> QED
    BY <1>4, <2>1, <2>2
<1>8. CASE i = 2 * Elements + 2
  <2>1. test_burst_drain[i] = <<"empty", True>>
    BY <1>8, BurstLines, Zenon
  <2>2. /\ Expected("empty", True, n, m)
        /\ PushedAfter("empty", n, m) = Clamp(i, Elements)
        /\ PoppedAfter("empty", n, m) = Clamp(i - Elements - 1, Elements)
    BY <1>0, <1>1, <1>8 DEF Expected, PushedAfter, PoppedAfter, Clamp
  <2> QED
    BY <1>4, <2>1, <2>2
<1> QED
  BY <1>0, <1>5, <1>6, <1>7, <1>8

\* After both loops nothing is left.
LEMMA SpscIsRight ==
  ASSUME NEW i \in 1 .. 1, NEW n, NEW m, At("spsc", i, n, m)
  PROVE  Right("spsc", i, <<"empty", True>>, n, m)
BY Counts DEF Right, At, Expected, PushedAfter, PoppedAfter, True, False

\* Every line of every test is right.
LEMMA ScriptsAreRight ==
  ASSUME NEW t \in Tests, NEW i \in 1 .. Len(Statements[t]), NEW n, NEW m, At(t, i, n, m)
  PROVE  Right(t, i, Statements[t][i], n, m)
<1>1. t \in {"basic", "peek", "emplace", "empty", "burst", "spsc"}
  BY DEF Tests, Statements
<1>2. CASE t = "basic"
  <2>1. Statements[t] = test_basic_push_pop
    BY <1>2 DEF Statements
  <2> QED
    BY <1>2, <2>1, BasicLines, BasicIsRight
<1>3. CASE t = "peek"
  <2>1. Statements[t] = test_peek
    BY <1>3 DEF Statements
  <2> QED
    BY <1>3, <2>1, PeekIsRight
<1>4. CASE t = "emplace"
  <2>1. Statements[t] = test_emplace
    BY <1>4 DEF Statements
  <2> QED
    BY <1>4, <2>1, EmplaceIsRight
<1>5. CASE t = "empty"
  <2>1. Statements[t] = test_empty_queue
    BY <1>5 DEF Statements
  <2> QED
    BY <1>5, <2>1, EmptyIsRight
<1>6. CASE t = "burst"
  <2>1. Statements[t] = test_burst_drain
    BY <1>6 DEF Statements
  <2> QED
    BY <1>6, <2>1, BurstLines, BurstIsRight
<1>7. CASE t = "spsc"
  <2>1. Statements[t] = << <<"empty", True>> >>
    BY <1>7 DEF Statements
  <2>2. i \in 1 .. 1 /\ Statements[t][i] = <<"empty", True>>
    BY <2>1
  <2> QED
    BY <1>7, <2>2, SpscIsRight
<1> QED
  BY <1>1, <1>2, <1>3, <1>4, <1>5, <1>6, <1>7
-----------------------------------------------------------------------------
(* The calls of one thread, which sees all its stores: what the list does   *)
(* in a call before which n pushes and m pops have succeeded.               *)

PushingInv(o, n, m) ==
  /\ op["P"] = o /\ pc["C"] = "idle" /\ Len(got) = m
  /\ \/ pc["P"] \in {"alloc", "data", "publish"} /\ pushed = n
     \/ pc["P"] \in {"advance", "idle"} /\ pushed = n + 1

PoppingInv(o, n, m) ==
  /\ op["C"] = o /\ pc["P"] = "idle" /\ pushed = n
  /\ \/ pc["C"] = "load" /\ Len(got) = m
     \/ pc["C"] = "read" /\ m < n /\ Len(got) = m
     \/ pc["C"] \in {"advance", "delete"} /\ o = "try_pop" /\ m < n /\ Len(got) = m + 1
     \/ pc["C"] = "idle" /\ m = n /\ Len(got) = m
     \/ pc["C"] = "idle" /\ m < n /\ o = "try_pop" /\ Len(got) = m + 1
     \/ pc["C"] = "idle" /\ m < n /\ o = "peek" /\ Len(got) = m /\ peeked = m + 1

QueryingInv(o, n, m) ==
  /\ op["C"] = o /\ pc["P"] = "idle" /\ pushed = n /\ Len(got) = m
  /\ \/ pc["C"] = "first"
     \/ pc["C"] = "walk" /\ o = "size" /\ (cur["C"] = Null => count["C"] = n - m)
     \/ pc["C"] = "idle" /\ Expected(o, answer["C"], n, m)

CallInv(o, n, m) ==
  /\ n \in Nat /\ m \in Nat
  /\ \/ o \in {"push", "emplace"} /\ PushingInv(o, n, m)
     \/ o \in {"try_pop", "peek"} /\ PoppingInv(o, n, m)
     \/ o \in {"size", "empty"} /\ QueryingInv(o, n, m)

\* The functions that the steps of a call update.
LEMMA Updates ==
  ASSUME IInv
  PROVE  /\ DOMAIN pc = Threads /\ DOMAIN op = Threads
         /\ DOMAIN cur = Threads /\ DOMAIN count = Threads /\ DOMAIN answer = Threads
BY Numbers DEF IInv, TypeOK

\* The nodes allocated have serials without a gap, up to that of the stub; they
\* are no more than the items, so that there is memory for one more.
LEMMA MemoryLasts ==
  ASSUME IInv, leaked = {}, pc["P"] = "alloc"
  PROVE  live # Addr
<1> DEFINE Oldest == IF pc["C"] = "delete" THEN Len(got) ELSE Low
           Serials == Oldest .. pushed + 1
           g == [k \in Serials |-> CHOOSE a \in live : Ser(a) = k]
<1>1. /\ ~Gone /\ Detached = IF pc["C"] = "delete" THEN {old_head} ELSE {}
      /\ pc["C"] \in {"advance", "delete"} => Len(got) >= 1
      /\ pc["C"] = "delete" => old_head \in live /\ Ser(old_head) = Len(got)
  BY DEF Gone, Detached, IInv, ControlInv, ConsumerInv
<1>2. pushed + 1 <= MaxItems
  BY Numbers DEF IInv, ControlInv
<1>3. IsFiniteSet(Serials) /\ Cardinality(Serials) <= MaxItems
  <2>1. /\ Oldest \in Int /\ pushed + 1 \in Int /\ ~(Oldest > pushed + 1)
        /\ (pushed + 1) - Oldest + 1 <= MaxItems
    BY <1>1, <1>2, Numbers DEF Low
  <2> QED
    BY <2>1, FS_Interval
<1>4. ASSUME NEW k \in Serials PROVE \E a \in live : Ser(a) = k
  <2>1. CASE k >= Low
    <3>1. PICK a \in Addr : Ser(a) = k
      BY <2>1, Numbers DEF IInv, ChainInv
    <3> QED
      BY <1>1, <2>1, <3>1, LinkedIsLive
  <2>2. CASE ~(k >= Low)
    BY <1>1, <2>2, Numbers DEF Low
  <2> QED
    BY <2>1, <2>2
<1>5. ASSUME NEW a \in live PROVE \E k \in Serials : g[k] = a
  <2>0. a \in Addr /\ (Ser(a) >= Low \/ (pc["C"] = "delete" /\ a = old_head))
    <3>1. First = Low
      BY <1>1, HeadIsFirst
    <3>2. a \in Addr /\ (Ser(a) >= First \/ a \in Detached)
      BY Numbers DEF IInv, LiveInv
    <3> QED
      BY <1>1, <3>1, <3>2
  <2>1. a \in Addr /\ Ser(a) >= Oldest /\ Oldest >= 1
    BY <1>1, <2>0, Numbers DEF Low
  <2>2. Ser(a) \in Serials /\ Ser(a) >= 1
    BY <2>1, Numbers DEF Low
  <2>3. g[Ser(a)] \in live /\ Ser(g[Ser(a)]) = Ser(a)
    BY <1>4, <2>2
  <2>4. g[Ser(a)] \in Addr
    BY <2>3 DEF IInv, TypeOK
  <2>5. g[Ser(a)] = a
    <3> HIDE DEF g
    <3> QED
      BY <2>1, <2>2, <2>3, <2>4, SerialsAreUnique
  <2> QED
    BY <2>2, <2>5
<1>6. IsFiniteSet(live) /\ Cardinality(live) <= MaxItems
  <2> DEFINE T == {g[k] : k \in Serials}
  <2>1. IsFiniteSet(T) /\ Cardinality(T) <= Cardinality(Serials)
    <3>1. g \in [Serials -> live]
      BY <1>4
    <3>2. g \in Surjection(Serials, T)
      BY <3>1 DEF Surjection
    <3> QED
      BY <1>3, <3>2, FS_Surjection
  <2>2. live \subseteq T
    BY <1>5
  <2>3. IsFiniteSet(live) /\ Cardinality(live) <= Cardinality(T)
    BY <2>1, <2>2, FS_Subset
  <2>4. Cardinality(live) \in Nat /\ Cardinality(T) \in Nat /\ Cardinality(Serials) \in Nat
    BY <1>3, <2>1, <2>3, FS_CardinalityType
  <2> QED
    BY <1>3, <2>1, <2>3, <2>4, Counts
<1>7. Cardinality(live) \in Nat
  BY <1>6, FS_CardinalityType
<1> QED
  BY <1>6, <1>7, ProgramAssumption, Counts

\* A push of main's goes on as PushingInv says,
LEMMA PushRuns ==
  ASSUME IInv, leaked = {}, NEW o, NEW n, NEW m, CallInv(o, n, m), PushStep
  PROVE  CallInv(o, n, m)'
<1>0. /\ o \in {"push", "emplace"} /\ PushingInv(o, n, m) /\ n \in Nat /\ m \in Nat
      /\ DOMAIN pc = Threads
  BY Updates DEF CallInv, PoppingInv, QueryingInv, PushStep, PushAlloc, PushNoNode, PushData,
     PushThrow, PushPublish, PushAdvance
<1>1. /\ UNCHANGED <<op, got>> /\ pc["P"] # "idle" /\ op["P"] = o
      /\ pc["C"] = "idle" /\ Len(got) = m
  BY <1>0 DEF PushStep, PushAlloc, PushNoNode, PushData, PushThrow, PushPublish, PushAdvance,
     consVars, PushingInv
<1>2. SUFFICES /\ pc'["C"] = "idle"
               /\ \/ pc'["P"] \in {"alloc", "data", "publish"} /\ pushed' = n
                  \/ pc'["P"] \in {"advance", "idle"} /\ pushed' = n + 1
  BY <1>0, <1>1 DEF CallInv, PushingInv
<1>3. ASSUME NEW a \in Addr, PushAlloc(a) PROVE pc' = [pc EXCEPT !["P"] = "data"] /\ pushed' = n
  BY <1>0, <1>3 DEF PushAlloc, PushingInv, Goto
<1>4. CASE PushNoNode
  BY <1>1, <1>4, MemoryLasts, ProgramAssumption DEF PushNoNode
<1>5. CASE PushData
  BY <1>0, <1>1, <1>5 DEF PushData, PushingInv, Goto, Threads
<1>6. CASE PushThrow
  BY <1>6, ProgramAssumption DEF PushThrow
<1>7. CASE PushPublish
  BY <1>0, <1>1, <1>7 DEF PushPublish, PushingInv, Goto, Threads
<1>8. CASE PushAdvance
  BY <1>0, <1>1, <1>8 DEF PushAdvance, PushingInv, Goto, Threads
<1> QED
  BY <1>0, <1>1, <1>3, <1>4, <1>5, <1>6, <1>7, <1>8 DEF PushStep, Threads

\* In a call, head is the node of the next item, and its next is null if there
\* is no item.
LEMMA NextTells ==
  ASSUME IInv, ~Gone, pc["C"] # "advance"
  PROVE  /\ nodes[head].next = Null => pushed = Len(got)
         /\ nodes[head].next # Null => Len(got) < pushed
<1>1. head \in Addr /\ Ser(head) = Len(got) + 1 /\ Ser(head) >= Low
  BY HeadIsFirst, Numbers DEF Low
<1>2. /\ Ser(head) = pushed + 1 => Nxt(head) = Null
      /\ Ser(head) # pushed + 1 => Nxt(head) \in Addr
  BY <1>1, LinkedIsLive
<1> QED
  BY <1>1, <1>2, Numbers, NullAssumption DEF Nxt

\* a pop or a peek as PoppingInv says,
LEMMA PopRuns ==
  ASSUME IInv, NEW o, NEW n, NEW m, CallInv(o, n, m), PopStep,
         pc["C"] = "load" => next_node' = nodes[head].next
  PROVE  CallInv(o, n, m)'
<1>0. /\ o \in {"try_pop", "peek"} /\ PoppingInv(o, n, m) /\ n \in Nat /\ m \in Nat
      /\ DOMAIN pc = Threads
  BY Updates DEF CallInv, PushingInv, QueryingInv, PopStep, PopLoad, PeekRead, PopRead, PopThrow,
     PopAdvance, PopDelete
<1>1. /\ UNCHANGED <<op, pushed>> /\ pc["C"] # "idle" /\ pushed = n
      /\ op["C"] = o /\ pc["P"] = "idle"
  BY <1>0 DEF PopStep, PopLoad, PeekRead, PopRead, PopThrow, PopAdvance, PopDelete, PoppingInv
<1>2. SUFFICES /\ pc'["P"] = "idle"
               /\ \/ pc'["C"] = "load" /\ Len(got') = m
                  \/ pc'["C"] = "read" /\ m < n /\ Len(got') = m
                  \/ pc'["C"] \in {"advance", "delete"} /\ o = "try_pop" /\ m < n /\ Len(got') = m + 1
                  \/ pc'["C"] = "idle" /\ m = n /\ Len(got') = m
                  \/ pc'["C"] = "idle" /\ m < n /\ o = "try_pop" /\ Len(got') = m + 1
                  \/ /\ pc'["C"] = "idle" /\ m < n /\ o = "peek" /\ Len(got') = m
                     /\ peeked' = m + 1
  BY <1>0, <1>1 DEF CallInv, PoppingInv
<1>3. ASSUME NEW x, PopLoad(x)
      PROVE  /\ pc'["P"] = "idle" /\ Len(got') = m
             /\ (pc'["C"] = "read" /\ m < n) \/ (pc'["C"] = "idle" /\ m = n)
  <2>1. /\ pc["C"] = "load" /\ x = nodes[head].next /\ got' = got
        /\ pc' = [pc EXCEPT !["C"] = IF x # Null THEN "read" ELSE "idle"]
    BY <1>0, <1>1, <1>3 DEF PopLoad, Goto
  <2>2. ~Gone /\ Len(got) = m
    BY <1>0, <2>1 DEF Gone, PoppingInv
  <2>3. x = Null => n = m
    BY <1>1, <2>1, <2>2, NextTells
  <2>4. x # Null => m < n
    BY <1>1, <2>1, <2>2, NextTells
  <2> QED
    BY <1>0, <1>1, <2>1, <2>2, <2>3, <2>4 DEF Threads
<1>4. CASE PeekRead
  <2>1. /\ pc["C"] = "read" /\ o = "peek" /\ peeked' = Dat(head) /\ got' = got
        /\ pc' = [pc EXCEPT !["C"] = "idle"]
    BY <1>1, <1>4 DEF PeekRead, Dat, Goto
  <2>2. Len(got) = m /\ m < n
    BY <1>0, <2>1 DEF PoppingInv
  <2>3. peeked' = m + 1
    BY <2>1, <2>2, ReadFacts
  <2> QED
    BY <1>0, <1>1, <2>1, <2>2, <2>3 DEF Threads
<1>5. CASE PopRead
  <2>1. /\ pc["C"] = "read" /\ o = "try_pop" /\ got' = Append(got, Dat(head))
        /\ pc' = [pc EXCEPT !["C"] = "advance"]
    BY <1>0, <1>1, <1>5 DEF PopRead, Dat, Goto
  <2>2. Len(got) = m /\ m < n
    BY <1>0, <2>1 DEF PoppingInv
  <2>3. Len(got') = m + 1
    BY <2>1, <2>2, Numbers
  <2> QED
    BY <1>0, <1>1, <2>1, <2>2, <2>3 DEF Threads
<1>6. CASE PopThrow
  BY <1>6, ProgramAssumption DEF PopThrow
<1>7. CASE PopAdvance
  BY <1>0, <1>1, <1>7 DEF PopAdvance, PoppingInv, Goto, Threads
<1>8. CASE PopDelete
  BY <1>0, <1>1, <1>8 DEF PopDelete, PoppingInv, Goto, Threads, consVars
<1> QED
  BY <1>3, <1>4, <1>5, <1>6, <1>7, <1>8 DEF PopStep

\* and size() or empty() as QueryingInv says: the walk ends behind the last
\* item.
LEMMA QueryRuns ==
  ASSUME IInv, NEW o, NEW n, NEW m, CallInv(o, n, m), QueryStep("C"),
         pc["C"] = "first" /\ op["C"] = "size" => cur'["C"] = nodes[head].next,
         pc["C"] = "first" /\ op["C"] = "empty" =>
           answer'["C"] = IF nodes[head].next = Null THEN 1 ELSE 0,
         pc["C"] = "walk" /\ cur["C"] # Null => cur'["C"] = nodes[cur["C"]].next
  PROVE  CallInv(o, n, m)'
<1>0. /\ o \in {"size", "empty"} /\ QueryingInv(o, n, m) /\ n \in Nat /\ m \in Nat
      /\ DOMAIN pc = Threads /\ DOMAIN cur = Threads /\ DOMAIN count = Threads
      /\ DOMAIN answer = Threads
  BY Updates DEF CallInv, PushingInv, PoppingInv, QueryStep, QueryFirst, QueryWalk, QueryReturn
<1>1. /\ UNCHANGED <<op, got, pushed>> /\ pc["C"] # "idle" /\ pushed = n /\ Len(got) = m
      /\ op["C"] = o /\ pc["P"] = "idle"
  BY <1>0 DEF QueryStep, QueryFirst, QueryWalk, QueryReturn, consVars, QueryingInv
<1>2. SUFFICES /\ pc'["P"] = "idle"
               /\ \/ pc'["C"] = "walk" /\ o = "size" /\ (cur'["C"] = Null => count'["C"] = n - m)
                  \/ pc'["C"] = "idle" /\ Expected(o, answer'["C"], n, m)
  BY <1>0, <1>1 DEF CallInv, QueryingInv, Expected
<1>3. ASSUME NEW x, QueryFirst("C", x)
      PROVE  /\ pc'["P"] = "idle"
             /\ \/ pc'["C"] = "walk" /\ o = "size" /\ (cur'["C"] = Null => count'["C"] = n - m)
                \/ pc'["C"] = "idle" /\ Expected(o, answer'["C"], n, m)
  <2>1. /\ pc["C"] = "first" /\ count' = count
        /\ pc' = [pc EXCEPT !["C"] = IF o = "empty" THEN "idle" ELSE "walk"]
    BY <1>1, <1>3 DEF QueryFirst, Goto
  <2>2. ~Gone /\ count["C"] = 0
    BY <2>1 DEF Gone, IInv, WalkInv
  <2>3. /\ nodes[head].next = Null => n = m
        /\ nodes[head].next # Null => m < n
    BY <1>1, <2>1, <2>2, NextTells
  <2>4. CASE o = "size"
    BY <1>0, <1>1, <2>1, <2>2, <2>3, <2>4 DEF Threads
  <2>5. CASE o = "empty"
    <3>1. answer'["C"] = IF nodes[head].next = Null THEN 1 ELSE 0
      BY <1>1, <2>1, <2>5
    <3>2. Expected(o, answer'["C"], n, m)
      BY <1>0, <2>3, <2>5, <3>1 DEF Expected, True, False
    <3> QED
      BY <1>0, <1>1, <2>1, <2>5, <3>2 DEF Threads
  <2> QED
    BY <1>0, <2>4, <2>5
<1>4. ASSUME NEW x, QueryWalk("C", x)
      PROVE  /\ pc' = pc /\ pc["C"] = "walk" /\ o = "size"
             /\ cur'["C"] = Null => count'["C"] = n - m
  <2>1. /\ pc["C"] = "walk" /\ cur["C"] # Null /\ pc' = pc
        /\ cur'["C"] = nodes[cur["C"]].next /\ count'["C"] = count["C"] + 1
    BY <1>0, <1>4 DEF QueryWalk, Threads
  <2>2. o = "size"
    BY <1>0, <2>1 DEF QueryingInv
  <2>3. /\ ~Gone /\ Low = m + 1 /\ cur["C"] \in Addr /\ Ser(cur["C"]) >= Low
        /\ count["C"] = Ser(cur["C"]) - Low - 1
    BY <1>0, <1>1, <2>1, Numbers DEF Gone, Low, IInv, WalkInv
  <2>4. cur'["C"] = Null => Ser(cur["C"]) = n + 1
    BY <1>1, <2>1, <2>3, LinkedIsLive, NullAssumption DEF Nxt
  <2> QED
    BY <1>0, <2>1, <2>2, <2>3, <2>4
<1>5. CASE QueryReturn("C")
  <2>1. /\ pc["C"] = "walk" /\ cur["C"] = Null /\ pc' = [pc EXCEPT !["C"] = "idle"]
        /\ answer'["C"] = count["C"]
    BY <1>0, <1>5 DEF QueryReturn, Goto, Threads
  <2>2. o = "size" /\ count["C"] = n - m
    BY <1>0, <2>1 DEF QueryingInv
  <2> QED
    BY <1>0, <1>1, <2>1, <2>2 DEF Threads, Expected
<1> QED
  BY <1>1, <1>3, <1>4, <1>5 DEF QueryStep
-----------------------------------------------------------------------------
(* The program. *)

MainInv ==
  /\ test \in Tests /\ line \in Nat \ {0} /\ leaked = {}
  /\ main \in {"test", "call", "destroy", "done", "join_producer", "join_consumer"}
  /\ main \in {"join_producer", "join_consumer"} => test = "spsc" /\ line = 1
  /\ main = "join_consumer" => pushed = Elements /\ pc["P"] = "idle"
  /\ main = "test" => /\ \A t \in Threads : pc[t] = "idle"
                      /\ At(test, line, pushed, Len(got))
  /\ main = "call" =>
       /\ line \in 1 .. Len(Statements[test])
       /\ At(test, line, before.pushed, before.popped)
       /\ CallInv(Statements[test][line][1], before.pushed, before.popped)
  /\ main \in {"destroy", "done"} => Gone
  /\ main = "done" => pc["C"] = "destroyed"

\* Each test starts at its first line with an empty list.
LEMMA MainStarts == MainInit => MainInv
<1> SUFFICES ASSUME MainInit PROVE MainInv
  OBVIOUS
<1>1. /\ test \in Tests /\ line = 1 /\ pushed = 0 /\ Len(got) = 0 /\ leaked = {}
      /\ \A t \in Threads : pc[t] = "idle"
      /\ main = IF test = "spsc" THEN "join_producer" ELSE "test"
  BY DEF MainInit, Init
<1>2. test \in {"basic", "peek", "emplace", "empty", "burst", "spsc"}
  BY <1>1 DEF Tests, Statements
<1>3. test # "spsc" => At(test, 1, 0, 0)
  BY <1>2, Counts DEF At, Clamp
<1> QED
  BY <1>1, <1>3 DEF MainInv

\* A statement of a test begins.
LEMMA StatementStarts ==
  ASSUME IInv, MainInv, Statement
  PROVE  MainInv'
<1>0. PICK o, n, m : o = Statements[test][line][1] /\ n = pushed /\ m = Len(got)
  OBVIOUS
<1> USE <1>0
<1>1. /\ main = "test" /\ line \in 1 .. Len(Statements[test]) /\ Operation(o)
      /\ main' = "call" /\ UNCHANGED <<test, line>>
      /\ before'.pushed = n /\ before'.popped = m
  BY DEF Statement, MainInv
<1>2. /\ \A t \in Threads : pc[t] = "idle"
      /\ At(test, line, n, m) /\ test \in Tests /\ leaked = {}
  BY <1>1 DEF MainInv
<1>3. Right(test, line, Statements[test][line], n, m)
  BY <1>1, <1>2, ScriptsAreRight
<1>4. /\ o \in {"push", "emplace", "try_pop", "peek", "size", "empty"}
      /\ n \in Nat /\ m \in Nat
  BY <1>3 DEF Right
<1> HIDE <1>0
<1>5. UNCHANGED <<pushed, got, leaked>> /\ pushed = n /\ Len(got) = m
  BY <1>0, <1>1 DEF Operation, PushCall, PopCall, QueryCall, prodVars, consVars
<1>6. DOMAIN pc = Threads /\ DOMAIN op = Threads
  BY Updates
<1>7. CallInv(o, n, m)'
  <2>1. CASE o \in {"push", "emplace"}
    <3>1. PushCall(o)
      BY <1>1, <2>1 DEF Operation, PopOps, QueryOps
    <3> QED
      BY <1>2, <1>4, <1>5, <1>6, <2>1, <3>1 DEF PushCall, Call, Goto, Threads, CallInv, PushingInv
  <2>2. CASE o \in {"try_pop", "peek"}
    <3>1. PopCall(o)
      BY <1>1, <2>2 DEF Operation, PushOps, QueryOps
    <3> QED
      BY <1>2, <1>4, <1>5, <1>6, <2>2, <3>1 DEF PopCall, Call, Goto, Threads, CallInv, PoppingInv
  <2>3. CASE o \in {"size", "empty"}
    <3>1. QueryCall("C", o)
      BY <1>1, <2>3 DEF Operation, PushOps, PopOps
    <3> QED
      BY <1>2, <1>4, <1>5, <1>6, <2>3, <3>1
      DEF QueryCall, Call, Goto, Threads, CallInv, QueryingInv
  <2> QED
    BY <1>4, <2>1, <2>2, <2>3
<1>8. At(test, line, n, m)'
  BY <1>1, <1>2, <1>5 DEF At
<1> QED
  BY <1>0, <1>1, <1>2, <1>5, <1>7, <1>8 DEF MainInv

\* When the call is over, the list has answered as the program asserts.
LEMMA AnswersAreRight ==
  ASSUME IInv, NEW o, NEW n, NEW m, NEW a, CallInv(o, n, m), Expected(o, a, n, m),
         n = before.pushed, m = before.popped,
         \A t \in Threads : pc[t] = "idle"
  PROVE  /\ Answer(o) = a
         /\ pushed = PushedAfter(o, n, m) /\ Len(got) = PoppedAfter(o, n, m)
<1>1. n \in Nat /\ m \in Nat /\ pc["P"] = "idle" /\ pc["C"] = "idle"
  BY DEF CallInv, Threads
<1>2. CASE o \in {"push", "emplace"}
  <2>1. PushingInv(o, n, m)
    BY <1>2 DEF CallInv
  <2>2. Answer(o) = IF pushed > n THEN True ELSE False
    BY <1>2 DEF Answer, PushOps, QueryOps
  <2>3. Len(got) = m /\ pushed = n + 1
    BY <1>1, <2>1 DEF PushingInv
  <2>4. a = True
    BY <1>2 DEF Expected
  <2> QED
    BY <1>1, <1>2, <2>2, <2>3, <2>4 DEF PushedAfter, PoppedAfter
<1>3. CASE o = "try_pop"
  <2>1. PoppingInv(o, n, m)
    BY <1>3 DEF CallInv
  <2>2. Answer(o) = IF Len(got) > m THEN got[Len(got)] ELSE False
    BY <1>3 DEF Answer, PushOps, QueryOps
  <2>3. pushed = n /\ ((m = n /\ Len(got) = m) \/ (m < n /\ Len(got) = m + 1))
    BY <1>1, <1>3, <2>1 DEF PoppingInv
  <2>4. \A x \in 1 .. Len(got) : got[x] = x
    BY DEF IInv, DataInv
  <2>5. a = IF m < n THEN m + 1 ELSE False
    BY <1>3 DEF Expected
  <2> QED
    BY <1>1, <1>3, <2>2, <2>3, <2>4, <2>5 DEF PushedAfter, PoppedAfter
<1>4. CASE o = "peek"
  <2>1. PoppingInv(o, n, m)
    BY <1>4 DEF CallInv
  <2>2. Answer(o) = peeked
    BY <1>4 DEF Answer, PushOps, QueryOps
  <2>3. pushed = n /\ Len(got) = m /\ (m = n \/ (m < n /\ peeked = m + 1))
    BY <1>1, <1>4, <2>1 DEF PoppingInv
  <2>4. ASSUME m = n PROVE peeked = 0
    <3>1. peeked # NoItem => Len(got) < seen
      BY <1>1 DEF IInv, PeekInv
    <3> QED
      BY <2>3, <2>4, <3>1, Numbers DEF NoItem
  <2>5. a = IF m < n THEN m + 1 ELSE False
    BY <1>4 DEF Expected
  <2> QED
    BY <1>1, <1>4, <2>2, <2>3, <2>4, <2>5 DEF PushedAfter, PoppedAfter, False
<1>5. CASE o \in {"size", "empty"}
  <2>1. QueryingInv(o, n, m)
    BY <1>5 DEF CallInv
  <2>2. Answer(o) = answer["C"]
    BY <1>5 DEF Answer, PushOps, QueryOps
  <2>3. pushed = n /\ Len(got) = m /\ Expected(o, answer["C"], n, m)
    BY <1>1, <2>1 DEF QueryingInv
  <2>4. answer["C"] = a
    BY <1>5, <2>3 DEF Expected
  <2> QED
    BY <1>1, <1>5, <2>2, <2>3, <2>4 DEF PushedAfter, PoppedAfter
<1> QED
  BY <1>2, <1>3, <1>4, <1>5 DEF CallInv

\* So the assertion holds, and the test is at the next line.
LEMMA AssertionHolds ==
  ASSUME IInv, MainInv, AssertAnswer
  PROVE  MainInv'
<1> DEFINE o == Statements[test][line][1]
           a == Statements[test][line][2]
           n == before.pushed
           m == before.popped
<1>1. /\ main = "call" /\ \A t \in Threads : pc[t] = "idle"
      /\ main' = IF Answer(o) = a THEN "test" ELSE "aborted"
      /\ line' = line + 1 /\ UNCHANGED <<test, pushed, got, pc, leaked>>
  BY DEF AssertAnswer, vars, prodVars, consVars
<1>2. /\ line \in 1 .. Len(Statements[test]) /\ At(test, line, n, m)
      /\ CallInv(o, n, m) /\ test \in Tests /\ line \in Nat /\ leaked = {}
  BY <1>1 DEF MainInv
<1>3. Right(test, line, Statements[test][line], n, m)
  BY <1>2, ScriptsAreRight
<1>4. Expected(o, a, n, m) /\ At(test, line + 1, PushedAfter(o, n, m), PoppedAfter(o, n, m))
  BY <1>3 DEF Right
<1>5. /\ Answer(o) = a
      /\ pushed = PushedAfter(o, n, m) /\ Len(got) = PoppedAfter(o, n, m)
  BY <1>1, <1>2, <1>4, AnswersAreRight
<1>6. main' = "test" /\ line' \in Nat \ {0}
  BY <1>1, <1>2, <1>5
<1>7. At(test, line + 1, pushed, Len(got))
  BY <1>4, <1>5
<1>8. At(test, line, pushed, Len(got))'
  BY <1>1, <1>7 DEF At
<1> QED
  BY <1>1, <1>2, <1>6, <1>8 DEF MainInv

\* Before the joins and after them the loops do not disturb main: they are at
\* their ends.
LEMMA LoopsAreOver ==
  ASSUME IInv, MainInv, main \in {"test", "call"}, test = "spsc"
  PROVE  pushed >= Elements /\ Len(got) >= Elements
<1>1. Elements \in Nat /\ pushed \in Nat /\ Len(got) \in Nat
  BY Numbers, Counts
<1>2. CASE main = "test"
  BY <1>1, <1>2 DEF MainInv, At
<1>3. CASE main = "call"
  <2>1. /\ before.pushed = Elements /\ before.popped = Elements
        /\ CallInv(Statements[test][line][1], before.pushed, before.popped)
    BY <1>3 DEF MainInv, At
  <2> QED
    BY <1>1, <2>1 DEF CallInv, PushingInv, PoppingInv, QueryingInv
<1> QED
  BY <1>2, <1>3

\* A call of one of the loops comes before the joins.
LEMMA LoopsHold ==
  ASSUME IInv, MainInv, Producer \/ Consumer
  PROVE  MainInv'
<1>1. /\ UNCHANGED <<test, main, line, before, pushed, leaked>> /\ test = "spsc"
      /\ DOMAIN pc = Threads /\ ~Gone
      /\ \/ pc' = [pc EXCEPT !["C"] = "load"]
         \/ pushed < Elements
  BY Updates DEF Producer, Consumer, mainVars, PushCall, PopCall, Call, Goto, prodVars,
     IInv, ControlInv, Gone
<1>2. main \notin {"test", "call"}
  <2>1. pushed < Elements \/ Len(got) < Elements
    BY DEF Producer, Consumer
  <2> QED
    BY <2>1, LoopsAreOver, Numbers, <1>1, Counts
<1>3. main \notin {"destroy", "done"}
  BY <1>1 DEF MainInv
<1>4. main = "join_consumer" => pushed = Elements /\ pc'["P"] = "idle"
  BY <1>1, Counts DEF MainInv, Threads
<1> QED
  BY <1>1, <1>2, <1>3, <1>4 DEF MainInv

\* When both loops are joined, the results are the numbers from 1 to Elements.
LEMMA JoinsHold ==
  ASSUME IInv, MainInv, JoinProducer \/ JoinConsumer
  PROVE  MainInv'
<1>1. /\ UNCHANGED <<test, line, pushed, got, pc, leaked>>
      /\ test \in Tests /\ test = "spsc" /\ line = 1 /\ leaked = {}
  BY DEF JoinProducer, JoinConsumer, MainInv, vars, prodVars, consVars
<1>2. CASE JoinProducer
  <2>1. main' = "join_consumer" /\ pushed = Elements /\ pc["P"] = "idle"
    BY <1>2 DEF JoinProducer
  <2> QED
    BY <1>1, <2>1 DEF MainInv
<1>3. CASE JoinConsumer
  <2>1. /\ Len(got) = Elements /\ pc["C"] = "idle"
        /\ main' = IF got = [i \in 1 .. Elements |-> i] THEN "test" ELSE "aborted"
        /\ pushed = Elements /\ pc["P"] = "idle"
    BY <1>3 DEF JoinConsumer, MainInv
  <2>2. got = [i \in 1 .. Elements |-> i]
    <3>1. got \in Seq(0 .. MaxItems) /\ \A i \in 1 .. Len(got) : got[i] = i
      BY DEF IInv, TypeOK, DataInv
    <3> QED
      BY <2>1, <3>1
  <2>3. At("spsc", 1, pushed, Len(got))
    BY <2>1 DEF At
  <2>4. At(test, line, pushed, Len(got))'
    BY <1>1, <2>3 DEF At
  <2>5. main' = "test" /\ \A t \in Threads : pc'[t] = "idle"
    BY <1>1, <2>1, <2>2 DEF Threads
  <2> QED
    BY <1>1, <2>4, <2>5 DEF MainInv
<1> QED
  BY <1>2, <1>3

\* The queue goes out of scope.
LEMMA EndHolds ==
  ASSUME IInv, MainInv, LeaveScope \/ EndOfTest
  PROVE  MainInv'
<1>1. UNCHANGED <<test, line, leaked>> /\ test \in Tests /\ line \in Nat \ {0} /\ leaked = {}
  BY DEF LeaveScope, EndOfTest, DtorCall, MainInv, vars, prodVars
<1>2. CASE LeaveScope
  BY <1>1, <1>2 DEF LeaveScope, DtorCall, Gone, MainInv
<1>3. CASE EndOfTest
  BY <1>1, <1>3 DEF EndOfTest, Gone, MainInv, vars
<1> QED
  BY <1>2, <1>3

\* A step inside a call, of main's or of a thread's.
LEMMA CallsHold ==
  ASSUME IInv, MainInv, InQueue(PushStep) \/ InQueue(PopStep) \/ InQueue(QueryStep("C"))
  PROVE  MainInv'
<1>1. /\ UNCHANGED <<test, main, line, before>> /\ SeesAllLinks
      /\ PushStep \/ PopStep \/ QueryStep("C")
  BY DEF InQueue, mainVars
<1>2. /\ UNCHANGED leaked
      /\ PushStep => pc["P"] \notin {"idle", "joined"}
      /\ PopStep \/ QueryStep("C") =>
           /\ pushed' = pushed /\ pc'["P"] = pc["P"]
           /\ pc["C"] \notin {"idle", "destroy", "destroyed"}
  <2>1. DOMAIN pc = Threads
    BY Updates
  <2>2. ~PushThrow /\ ~PopThrow
    BY ProgramAssumption DEF PushThrow, PopThrow
  <2>3. PushStep => UNCHANGED leaked /\ pc["P"] \notin {"idle", "joined"}
    BY <2>2 DEF PushStep, PushAlloc, PushNoNode, PushData, PushPublish, PushAdvance, prodVars
  <2>4. PopStep => /\ UNCHANGED <<leaked, pushed>> /\ pc'["P"] = pc["P"]
                   /\ pc["C"] \notin {"idle", "destroy", "destroyed"}
    BY <2>1, <2>2 DEF PopStep, PopLoad, PeekRead, PopRead, PopAdvance, PopDelete, prodVars, Goto, Threads
  <2>5. QueryStep("C") => /\ UNCHANGED <<leaked, pushed>> /\ pc'["P"] = pc["P"]
                          /\ pc["C"] \notin {"idle", "destroy", "destroyed"}
    BY <2>1 DEF QueryStep, QueryFirst, QueryWalk, QueryReturn, prodVars, Goto, Threads
  <2> QED
    BY <1>1, <2>3, <2>4, <2>5
<1>3. main \notin {"test", "destroy", "done"}
  BY <1>1, <1>2 DEF MainInv, Threads, Gone, IInv, ControlInv
<1>4. CASE main = "call"
  <2>0. PICK o, n, m : o = Statements[test][line][1] /\ n = before.pushed /\ m = before.popped
    OBVIOUS
  <2>1. CallInv(o, n, m) /\ At(test, line, n, m) /\ leaked = {}
    BY <1>4, <2>0 DEF MainInv
  <2>2. /\ pc["C"] = "load" => next_node' = nodes[head].next
        /\ pc["C"] = "first" /\ op["C"] = "size" => cur'["C"] = nodes[head].next
        /\ pc["C"] = "first" /\ op["C"] = "empty" =>
             answer'["C"] = IF nodes[head].next = Null THEN 1 ELSE 0
        /\ pc["C"] = "walk" /\ cur["C"] # Null => cur'["C"] = nodes[cur["C"]].next
    BY <1>1, <1>4 DEF SeesAllLinks
  <2>3. CallInv(o, n, m)'
    BY <1>1, <2>1, <2>2, PushRuns, PopRuns, QueryRuns
  <2>4. At(test, line, n, m)'
    BY <1>1, <2>1 DEF At
  <2> QED
    BY <1>1, <1>2, <1>4, <2>0, <2>3, <2>4 DEF MainInv
<1>5. CASE main # "call"
  BY <1>1, <1>2, <1>3, <1>5 DEF MainInv
<1> QED
  BY <1>4, <1>5

\* A step of the destructor.
LEMMA DtorHolds ==
  ASSUME IInv, MainInv, InQueue(DtorStep)
  PROVE  MainInv'
<1>1. /\ UNCHANGED <<test, main, line, before, leaked, pushed>> /\ pc["C"] = "destroy"
      /\ pc' = pc \/ pc' = [pc EXCEPT !["C"] = "destroyed"]
      /\ DOMAIN pc = Threads
  BY Updates DEF InQueue, DtorStep, DtorDelete, DtorReturn, Goto, mainVars, prodVars
<1>2. pc'["P"] = pc["P"] /\ pc'["C"] \in {"destroy", "destroyed"}
  BY <1>1 DEF Threads
<1>3. main \notin {"test", "call", "done"}
  BY <1>1 DEF MainInv, Threads, CallInv, PushingInv, PoppingInv, QueryingInv
<1> QED
  BY <1>1, <1>2, <1>3 DEF MainInv, Gone

\* Every step of the program keeps MainInv.
LEMMA MainHolds == IInv /\ MainInv /\ [MainNext]_allVars => MainInv'
<1> SUFFICES ASSUME IInv, MainInv, [MainNext]_allVars PROVE MainInv'
  OBVIOUS
<1>1. CASE UNCHANGED allVars
  <2>1. UNCHANGED <<test, main, line, before, pc, op, pushed, got, peeked, cur, count, answer, leaked>>
    BY <1>1 DEF allVars, vars, mainVars, prodVars, consVars, queryVars
  <2> QED
    BY <2>1 DEF MainInv, CallInv, PushingInv, PoppingInv, QueryingInv, At, Expected, Gone
<1> QED
  BY <1>1, StatementStarts, AssertionHolds, LoopsHold, JoinsHold, EndHolds, CallsHold, DtorHolds
  DEF MainNext

\* The steps of the program are steps of the queue.
LEMMA ProgramUsesQueue == MainNext => Next \/ UNCHANGED vars
BY ElementsAssumption DEF MainNext, JoinProducer, JoinConsumer, Statement, AssertAnswer, LeaveScope,
   EndOfTest, Producer, Consumer, InQueue, Operation, Next, NewCall, PushOps, PopOps

\* In every behaviour of the program the queue's invariant and main's hold.
THEOREM ProgramInvariant == MainSpec => [](IInv /\ MainInv)
<1>1. MainInit => IInv /\ MainInv
  BY InvStarts, MainStarts DEF MainInit
<1>2. IInv /\ MainInv /\ [MainNext]_allVars => IInv' /\ MainInv'
  <2>1. [MainNext]_allVars => [Next]_vars
    BY ProgramUsesQueue DEF allVars
  <2>2. QueryThreads \subseteq {"C"}
    BY ElementsAssumption
  <2> QED
    BY <2>1, <2>2, InvNext, MainHolds
<1> QED
  BY <1>1, <1>2, PTL DEF MainSpec

\* Neither main nor the producer thread, which does not expect it, ever meets a
\* std::bad_alloc, however far the consumer is behind.
THEOREM NoBadAlloc == MainSpec => [](pc["P"] = "alloc" => live # Addr)
<1>1. IInv /\ MainInv => (pc["P"] = "alloc" => live # Addr)
  BY MemoryLasts DEF MainInv
<1> QED
  BY <1>1, ProgramInvariant, PTL

\* test_spsc_unbounded.cpp 15-162: no assertion fails, and when a queue is gone
\* every node that was ever allocated for it has been deleted.
THEOREM AllTestsPass == MainSpec => []AllTestsPassed
<1>1. ASSUME IInv, MainInv, main = "done" PROVE live = {}
  <2>1. pc["C"] = "destroyed" /\ leaked = {}
    BY <1>1 DEF MainInv
  <2>2. head = Null /\ pc["P"] = "joined" /\ First = pushed + 2 /\ Detached = {}
    BY <1>1, <2>1 DEF IInv, ConsumerInv, ControlInv, Gone, First, Detached
  <2>3. \A a \in live : ~(Ser(a) >= First)
    BY <1>1, <2>2, Numbers
  <2> QED
    BY <1>1, <2>2, <2>3 DEF IInv, LiveInv
<1>2. IInv /\ MainInv => AllTestsPassed
  BY <1>1 DEF MainInv, AllTestsPassed
<1> QED
  BY <1>2, ProgramInvariant, PTL
=============================================================================
