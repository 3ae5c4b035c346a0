--------------------------- MODULE MpmcTestProofs ---------------------------
(***************************************************************************)
(* Proofs about MpmcTest, for any number of threads and of items.          *)
(*                                                                         *)
(* audit_items is satisfied with vectors of the expected length without    *)
(* duplicates.  TestInvariant adds to the invariant of the list who does   *)
(* what, how many items each has had, and where main is.  Counting does    *)
(* the rest: there are as many items as there are places for them.         *)
(***************************************************************************)
EXTENDS MpmcTest, BlockingMpmcUnboundedProofs, SequenceLemmas

(* audit_items: what its counting says of a vector. *)

Injective(s) == \A i, j \in DOMAIN s : s[i] = s[j] => i = j

\* Whether the i-th element is to come before the j-th.
Before(s, i, j) == s[i] < s[j] \/ (s[i] = s[j] /\ i < j)

\* The places that Rank gives are those of a sorted permutation.
LEMMA Ranks ==
  ASSUME NEW s \in Seq(Int)
  PROVE  /\ \A i \in 1 .. Len(s) : Rank(s, i) \in 1 .. Len(s)
         /\ \A i, j \in 1 .. Len(s) : Before(s, i, j) => Rank(s, i) < Rank(s, j)
         /\ \A i, j \in 1 .. Len(s) : Rank(s, i) = Rank(s, j) => i = j
         /\ \A k \in 1 .. Len(s) : \E i \in 1 .. Len(s) : Rank(s, i) = k
<1> DEFINE n == Len(s)
           Upto(i) == {j \in 1 .. n : s[j] < s[i] \/ (s[j] = s[i] /\ j <= i)}
<1>0. n \in Nat /\ DOMAIN s = 1 .. n /\ \A i \in 1 .. n : s[i] \in Int
  OBVIOUS
<1>1. IsFiniteSet(1 .. n) /\ Cardinality(1 .. n) = n
  <2> HIDE DEF n
  <2>1. 1 \in Int /\ n \in Int /\ (IF 1 > n THEN 0 ELSE n - 1 + 1) = n
    BY <1>0
  <2> QED
    BY <2>1, FS_Interval
<1>2. \A i \in 1 .. n : Rank(s, i) = Cardinality(Upto(i))
  BY <1>0 DEF Rank
<1>3. ASSUME NEW i \in 1 .. n
      PROVE  IsFiniteSet(Upto(i)) /\ Cardinality(Upto(i)) \in 1 .. n
  <2>1. Upto(i) \in SUBSET (1 .. n) /\ i \in Upto(i)
    BY <1>0
  <2> HIDE DEF Upto
  <2>2. IsFiniteSet(Upto(i)) /\ Cardinality(Upto(i)) <= n
    BY <1>1, <2>1, FS_Subset
  <2>3. Cardinality(Upto(i)) \in Nat /\ Cardinality(Upto(i)) # 0
    BY <2>1, <2>2, FS_CardinalityType, FS_EmptySet
  <2> QED
    BY <1>0, <2>2, <2>3
<1>4. ASSUME NEW i \in 1 .. n, NEW j \in 1 .. n, Before(s, i, j)
      PROVE  Cardinality(Upto(i)) < Cardinality(Upto(j))
  <2>1. Upto(i) \subseteq Upto(j) /\ j \in Upto(j) /\ j \notin Upto(i)
    BY <1>0, <1>4 DEF Before
  <2> HIDE DEF Upto
  <2>2. Cardinality(Upto(i)) <= Cardinality(Upto(j)) /\ Cardinality(Upto(i)) # Cardinality(Upto(j))
    BY <1>3, <2>1, FS_Subset
  <2> QED
    BY <1>3, <2>2
<1>5. ASSUME NEW i \in 1 .. n, NEW j \in 1 .. n, i # j
      PROVE  Before(s, i, j) \/ Before(s, j, i)
  BY <1>0, <1>5 DEF Before
<1> HIDE DEF Upto
<1>6. ASSUME NEW i \in 1 .. n, NEW j \in 1 .. n, i # j
      PROVE  Cardinality(Upto(i)) # Cardinality(Upto(j))
  BY <1>3, <1>4, <1>5, <1>6
<1> DEFINE rank == [i \in 1 .. n |-> Cardinality(Upto(i))]
<1>7. rank \in Injection(1 .. n, 1 .. n)
  BY <1>3, <1>6 DEF Injection, IsInjective
<1> HIDE DEF rank
<1>8. rank \in Surjection(1 .. n, 1 .. n)
  BY <1>1, <1>7, FS_Injection
<1>9. \A k \in 1 .. n : \E i \in 1 .. n : Cardinality(Upto(i)) = k
  BY <1>8 DEF Surjection, rank
<1> HIDE DEF n
<1>10. /\ \A i \in 1 .. n : Rank(s, i) \in 1 .. n
       /\ \A i, j \in 1 .. n : Before(s, i, j) => Rank(s, i) < Rank(s, j)
       /\ \A i, j \in 1 .. n : Rank(s, i) = Rank(s, j) => i = j
       /\ \A k \in 1 .. n : \E i \in 1 .. n : Rank(s, i) = k
  BY <1>2, <1>3, <1>4, <1>6, <1>9
<1> QED
  BY <1>10 DEF n

\* Sorted returns the elements at their places.
LEMMA SortedIs ==
  ASSUME NEW s \in Seq(Int)
  PROVE  /\ Sorted(s) \in Seq(Int) /\ Len(Sorted(s)) = Len(s)
         /\ \A i \in 1 .. Len(s) : Sorted(s)[Rank(s, i)] = s[i]
<1> DEFINE n == Len(s)
           at(k) == CHOOSE i \in 1 .. n : Rank(s, i) = k
<1>1. n \in Nat /\ DOMAIN s = 1 .. n /\ \A i \in 1 .. n : s[i] \in Int
  OBVIOUS
<1>2. Sorted(s) = [k \in 1 .. n |-> s[at(k)]]
  BY <1>1 DEF Sorted
<1>3. \A k \in 1 .. n : at(k) \in 1 .. n /\ Rank(s, at(k)) = k
  BY Ranks
<1> HIDE DEF at, n
<1>4. Sorted(s) \in Seq(Int) /\ Len(Sorted(s)) = n
  BY <1>1, <1>2, <1>3
<1>5. ASSUME NEW i \in 1 .. n PROVE Sorted(s)[Rank(s, i)] = s[i]
  <2>1. Rank(s, i) \in 1 .. n
    BY Ranks DEF n
  <2>2. at(Rank(s, i)) = i
    BY <1>3, <2>1, Ranks DEF n
  <2> QED
    BY <1>2, <2>1, <2>2
<1> QED
  BY <1>4, <1>5 DEF n

\* Sorting brings equal elements together.
LEMMA NoDuplicates ==
  ASSUME NEW s \in Seq(Int)
  PROVE  /\ Duplicates(Sorted(s)) \in Nat
         /\ Duplicates(Sorted(s)) = 0 <=> Injective(s)
<1> DEFINE n == Len(s)
           t == Sorted(s)
           D == {i \in 2 .. n : t[i] = t[i - 1]}
<1>1. n \in Nat /\ DOMAIN s = 1 .. n /\ \A i \in 1 .. n : s[i] \in Int
  OBVIOUS
<1>2. Duplicates(t) = Cardinality(D)
  BY SortedIs DEF Duplicates
<1>3. IsFiniteSet(D)
  <2>1. IsFiniteSet(2 .. n) /\ D \in SUBSET (2 .. n)
    BY <1>1, FS_Interval
  <2> HIDE DEF D
  <2> QED
    BY <2>1, FS_Subset
<1>4. Cardinality(D) \in Nat /\ (Cardinality(D) = 0 <=> D = {})
  <2> HIDE DEF D
  <2> QED
    BY <1>3, FS_CardinalityType, FS_EmptySet
<1>5. ASSUME NEW k \in 1 .. n PROVE \E i \in 1 .. n : Rank(s, i) = k /\ t[k] = s[i]
  <2>1. PICK i \in 1 .. n : Rank(s, i) = k
    BY Ranks
  <2>2. t[Rank(s, i)] = s[i]
    BY SortedIs
  <2> QED
    BY <2>1, <2>2
<1>6. \A i \in 1 .. n : Rank(s, i) \in 1 .. n /\ t[Rank(s, i)] = s[i]
  BY Ranks, SortedIs
<1>7. \A i, j \in 1 .. n : Before(s, i, j) => Rank(s, i) < Rank(s, j)
  BY Ranks
<1> HIDE DEF t, n
<1>8. ASSUME Injective(s) PROVE D = {}
  <2> SUFFICES ASSUME NEW k \in 2 .. n, t[k] = t[k - 1] PROVE FALSE
    OBVIOUS
  <2>1. k \in 1 .. n /\ k - 1 \in 1 .. n /\ k # k - 1
    BY <1>1
  <2>2. PICK i \in 1 .. n : Rank(s, i) = k /\ t[k] = s[i]
    BY <1>5, <2>1
  <2>3. PICK j \in 1 .. n : Rank(s, j) = k - 1 /\ t[k - 1] = s[j]
    BY <1>5, <2>1
  <2>4. s[i] = s[j]
    BY <2>2, <2>3
  <2>5. i = j
    BY <1>1, <1>8, <2>4 DEF Injective
  <2> QED
    BY <2>1, <2>2, <2>3, <2>5
<1>9. ASSUME D = {}, NEW a \in 1 .. n, NEW b \in 1 .. n, s[a] = s[b], a < b PROVE FALSE
  <2>1. Rank(s, a) < Rank(s, b)
    BY <1>7, <1>9 DEF Before
  <2> DEFINE k == Rank(s, a) + 1
  <2>2. k \in 2 .. n /\ k \in 1 .. n /\ k - 1 = Rank(s, a) /\ k <= Rank(s, b)
    <3>1. Rank(s, a) \in 1 .. n /\ Rank(s, b) \in 1 .. n
      BY <1>6
    <3> QED
      BY <1>1, <2>1, <3>1
  <2> HIDE DEF k
  <2>3. PICK i \in 1 .. n : Rank(s, i) = k /\ t[k] = s[i]
    BY <1>5, <2>2
  <2>4. ~Before(s, i, a) /\ ~Before(s, b, i)
    <3>1. /\ Rank(s, a) \in Int /\ Rank(s, b) \in Int /\ Rank(s, i) = k
          /\ k = Rank(s, a) + 1 /\ k <= Rank(s, b)
      <4>1. Rank(s, a) \in 1 .. n /\ Rank(s, b) \in 1 .. n
        BY <1>6
      <4> QED
        BY <1>1, <2>2, <2>3, <4>1
    <3>2. ~(Rank(s, i) < Rank(s, a)) /\ ~(Rank(s, b) < Rank(s, i))
      BY <3>1
    <3> QED
      BY <1>7, <3>2
  <2>5. s[i] = s[a]
    BY <1>1, <1>9, <2>4 DEF Before
  <2>6. t[k] = t[k - 1]
    BY <1>6, <2>2, <2>3, <2>5
  <2> QED
    BY <1>9, <2>2, <2>6
<1>10. ASSUME D = {} PROVE Injective(s)
  <2> SUFFICES ASSUME NEW a \in 1 .. n, NEW b \in 1 .. n, s[a] = s[b] PROVE a = b
    BY <1>1 DEF Injective
  <2> HIDE DEF D
  <2>1. a < b \/ b < a \/ a = b
    OBVIOUS
  <2> QED
    BY <1>9, <1>10, <2>1
<1> HIDE DEF D
<1>11. Duplicates(t) \in Nat /\ (Duplicates(t) = 0 <=> Injective(s))
  BY <1>2, <1>4, <1>8, <1>10
<1> QED
  BY <1>11 DEF t

\* audit_items is satisfied with the vectors of the expected length without
\* duplicates, and with no other.
LEMMA AuditOk ==
  ASSUME NEW s \in Seq(Int), NEW n \in Nat
  PROVE  Ok(audit_items(s, n)) <=> Injective(s) /\ Len(s) = n
<1>1. Len(s) \in Nat /\ Duplicates(Sorted(s)) \in Nat
  BY NoDuplicates
<1>2. Ok(audit_items(s, n)) <=>
        Duplicates(Sorted(s)) = 0 /\ n - (Len(s) - Duplicates(Sorted(s))) = 0
  BY DEF Ok, audit_items
<1> QED
  BY <1>1, <1>2, NoDuplicates

-----------------------------------------------------------------------------
(* The inductive invariant of the test program: that of the list, IInv, and: *)

\* Producers only push, consumers only wait_and_pop, and nothing gets lost.
RoleInv ==
  /\ \A t \in Threads : pc[t] \in PushLabels \cup {"notify"} => t \in Producers
  /\ \A t \in Threads : pc[t] \in {"lock_head", "get_tail", "block", "waiting", "unlink", "read"} =>
                         t \in Consumers /\ op[t] = "wait_and_pop"
  /\ \A t \in Threads : pc[t] # "walk" /\ (t \notin Consumers => got[t] = << >>)
  /\ dropped = {}

\* Nobody exceeds its share; the counter of a consumer is behind at most between calls.
ShareInv ==
  /\ counted \in [Consumers -> Nat]
  /\ \A p \in Producers : CountOf(p) <= ItemsPerProducer
  /\ \A p \in Pushing : CountOf(p) < ItemsPerProducer
  /\ \A c \in Consumers :
       /\ counted[c] <= Len(got[c]) /\ Len(got[c]) <= ItemsPerConsumer
       /\ pc[c] \notin {"idle", "destroy"} =>
            counted[c] = Len(got[c]) /\ Len(got[c]) < ItemsPerConsumer

\* What main knows when it has come to a line of the test.
PhaseInv ==
  /\ main \in {"join_producers", "join_consumers", "audit", "stop_watchdog", "join_watcher",
               "destroy_queue", "done"}
  /\ main # "join_producers" => \A p \in Producers : CountOf(p) = ItemsPerProducer
  /\ main \notin {"join_producers", "join_consumers"} =>
       \A c \in Consumers : counted[c] = ItemsPerConsumer
  /\ main \in {"join_watcher", "destroy_queue", "done"} => stop
  /\ (\E t \in Threads : pc[t] = "destroy") => main \in {"destroy_queue", "done"}
  /\ ~failed

TInv == IInv /\ RoleInv /\ ShareInv /\ PhaseInv
-----------------------------------------------------------------------------
\* A step of the test is a step of the queue, or leaves the queue alone.
LEMMA TestSteps == ASSUME [TestNext]_allVars PROVE [Next]_vars
<1>1. ASSUME NEW t \in Threads, ThreadRuns(t) \/ Wakes(t) PROVE [Next]_vars
  BY <1>1 DEF ThreadRuns, Wakes, Producer, ConsumerLoop, Consumer, Count, Next, NewCall, PopOps
<1>2. CASE MainRuns
  BY <1>2 DEF MainRuns, JoinProducers, JoinConsumers, AuditResults, StopWatchdog, JoinWatcher,
              DestroyQueue, Next, NewCall
<1>3. CASE WatcherRuns
  BY <1>3 DEF WatcherRuns, WatchStart, WatchLoop, WatchSample, WatchCheck
<1>4. CASE UNCHANGED allVars
  BY <1>4 DEF allVars, codeVars
<1> QED
  BY <1>1, <1>2, <1>3, <1>4 DEF TestNext, TestStep

\* The shares of the test.
LEMMA Shares ==
  /\ ItemsPerProducer \in Nat /\ ItemsPerConsumer \in Nat /\ ~MayThrow
  /\ IsFiniteSet(Producers) /\ IsFiniteSet(Consumers)
  /\ Cardinality(Producers) \in Nat /\ Cardinality(Consumers) \in Nat
  /\ Producers \subseteq Threads /\ Consumers \subseteq Threads
  /\ Producers = 0 .. Cardinality(Producers) - 1 /\ Producers \cap Consumers = {}
  /\ Total = Cardinality(Producers) * ItemsPerProducer
  /\ Total = Cardinality(Consumers) * ItemsPerConsumer /\ Total \in Nat
<1>1. Producers \subseteq Threads /\ Consumers \subseteq Threads
  BY DEF Threads
<1>2. IsFiniteSet(Producers) /\ IsFiniteSet(Consumers)
  BY <1>1, ThreadsAssumption, FS_Subset
<1>3. Cardinality(Producers) \in Nat /\ Cardinality(Consumers) \in Nat
  BY <1>2, FS_CardinalityType
<1>4. \A m, n \in Nat : m * n \in Nat
  OBVIOUS
<1> QED
  BY <1>1, <1>2, <1>3, <1>4, SharesAssumption DEF Total

\* The invariant holds before the threads start.
LEMMA TInvStarts == TestInit => TInv
<1> SUFFICES ASSUME TestInit PROVE TInv
  OBVIOUS
<1>1. IInv
  BY InvStarts DEF TestInit
<1>2. /\ pc = [t \in Threads |-> "idle"] /\ entered = << >>
      /\ got = [t \in Threads |-> << >>] /\ dropped = {}
  BY DEF TestInit, Init
<1>3. RoleInv
  BY <1>2 DEF RoleInv, PushLabels
<1>4. \A p : CountOf(p) = 0
  <2>1. \A p : {i \in 1 .. Len(entered) : entered[i][1] = p} = {}
    BY <1>2
  <2> QED
    BY <2>1, FS_EmptySet DEF CountOf
<1>5. Pushing = {}
  BY <1>2 DEF Pushing
<1>6. ShareInv
  <2>1. counted = [c \in Consumers |-> 0]
    BY DEF TestInit
  <2>2. \A c \in Consumers : got[c] = << >> /\ pc[c] = "idle"
    BY <1>2, Shares
  <2> QED
    BY <1>4, <1>5, <2>1, <2>2, Shares DEF ShareInv
<1>7. PhaseInv
  BY <1>2 DEF PhaseInv, TestInit
<1> QED
  BY <1>1, <1>3, <1>6, <1>7 DEF TInv

PopLabels == {"lock_head", "get_tail", "block", "waiting", "unlink", "read"}

\* A thread goes from one label to another: what it must see to, for each part
\* of the invariant.
LEMMA RoleMoves ==
  ASSUME IInv, RoleInv, NEW t \in Threads, NEW l \in Labels, pc' = [pc EXCEPT ![t] = l],
         l \in PushLabels \cup {"notify"} => t \in Producers,
         l \in PopLabels => t \in Consumers /\ op'[t] = "wait_and_pop",
         l # "walk", \A u \in Threads \ {t} : op'[u] = op[u],
         \A u \in Threads : u \notin Consumers => got'[u] = got[u],
         dropped' = dropped
  PROVE  RoleInv'
<1>1. pc'[t] = l /\ \A u \in Threads \ {t} : pc'[u] = pc[u]
  BY DEF IInv, TypeOK, ThreadTypes
<1> QED
  BY <1>1 DEF RoleInv, PopLabels

\* The same for the shares.
LEMMA ShareMoves ==
  ASSUME IInv, ShareInv, NEW t \in Threads, NEW l \in Labels, pc' = [pc EXCEPT ![t] = l],
         l \in PushLabels => pc[t] \in PushLabels,
         l \notin {"idle", "destroy"} => pc[t] \notin {"idle", "destroy"},
         entered' = entered, got' = got, counted' = counted
  PROVE  ShareInv'
<1>1. pc'[t] = l /\ \A u \in Threads \ {t} : pc'[u] = pc[u]
  BY DEF IInv, TypeOK, ThreadTypes
<1>2. Pushing' \subseteq Pushing
  BY <1>1 DEF Pushing, PushLabels
<1>3. \A p : CountOf(p)' = CountOf(p)
  BY CountSame
<1>4. \A c \in Consumers : pc'[c] \notin {"idle", "destroy"} => pc[c] \notin {"idle", "destroy"}
  BY <1>1, Shares
<1> QED
  BY <1>2, <1>3, <1>4 DEF ShareInv

\* The same for main.
LEMMA PhaseMoves ==
  ASSUME IInv, PhaseInv, NEW t \in Threads, NEW l \in Labels \ {"destroy"},
         pc' = [pc EXCEPT ![t] = l],
         entered' = entered, UNCHANGED <<testVars, dogVars>>
  PROVE  PhaseInv'
<1>1. pc'[t] = l /\ \A u \in Threads \ {t} : pc'[u] = pc[u]
  BY DEF IInv, TypeOK, ThreadTypes
<1>2. \A p : CountOf(p)' = CountOf(p)
  BY CountSame
<1>3. (\E u \in Threads : pc'[u] = "destroy") => \E u \in Threads : pc[u] = "destroy"
  BY <1>1
<1> QED
  BY <1>2, <1>3 DEF PhaseInv, testVars, dogVars

\* Most steps of a thread inside a call touch no more than that.
LEMMA QuietThread ==
  ASSUME TInv, NEW t \in Threads, NEW l \in Labels \ {"destroy", "walk"},
         pc' = [pc EXCEPT ![t] = l],
         l \in PushLabels => pc[t] \in PushLabels,
         l # "notify",
         l \in PopLabels => pc[t] \in PopLabels /\ op' = op,
         \A u \in Threads \ {t} : op'[u] = op[u],
         entered' = entered, got' = got, dropped' = dropped,
         UNCHANGED <<testVars, dogVars>>
  PROVE  RoleInv' /\ ShareInv' /\ PhaseInv'
<1>1. l \in Labels /\ l # "walk" /\ l \in Labels \ {"destroy"}
  OBVIOUS
<1>2. l \in PushLabels \cup {"notify"} => t \in Producers
  BY DEF TInv, RoleInv
<1>3. l \in PopLabels => t \in Consumers /\ op'[t] = "wait_and_pop"
  BY DEF TInv, RoleInv, PopLabels
<1>4. l \notin {"idle", "destroy"} => pc[t] \notin {"idle", "destroy"}
  BY DEF Labels, PushLabels, PopLabels
<1>5. counted' = counted
  BY DEF testVars
<1>6. RoleInv'
  BY <1>1, <1>2, <1>3, RoleMoves DEF TInv
<1>7. ShareInv'
  BY <1>1, <1>4, <1>5, ShareMoves DEF TInv
<1>8. PhaseInv'
  BY <1>1, PhaseMoves DEF TInv
<1> QED
  BY <1>6, <1>7, <1>8

\* The steps of push.
LEMMA PushKeepsShares ==
  ASSUME TInv, NEW t \in Threads, PushStep(t), UNCHANGED <<testVars, dogVars>>
  PROVE  RoleInv' /\ ShareInv' /\ PhaseInv'
<1> USE DEF PushLabels, PopLabels, Labels
<1>1. ASSUME NEW a \in Addr, PushAlloc(t, a) PROVE RoleInv' /\ ShareInv' /\ PhaseInv'
  <2>1. /\ pc[t] = "alloc" /\ pc' = [pc EXCEPT ![t] = "lock_tail"]
        /\ op' = op /\ entered' = entered /\ got' = got /\ dropped' = dropped
    BY <1>1 DEF PushAlloc, Goto, histVars
  <2> QED
    BY <2>1, QuietThread
<1>2. CASE PushThrow(t)
  <2>1. /\ pc[t] = "alloc" /\ pc' = [pc EXCEPT ![t] = "idle"] /\ op' = [op EXCEPT ![t] = "none"]
        /\ entered' = entered /\ got' = got /\ dropped' = dropped
    BY <1>2 DEF PushThrow, Return, Goto, histVars
  <2>2. \A u \in Threads \ {t} : op'[u] = op[u]
    BY <2>1, OpOf DEF TInv
  <2> QED
    BY <2>1, <2>2, QuietThread
<1>3. CASE PushLock(t)
  <2>1. /\ pc[t] = "lock_tail" /\ pc' = [pc EXCEPT ![t] = "fill"]
        /\ op' = op /\ entered' = entered /\ got' = got /\ dropped' = dropped
    BY <1>3 DEF PushLock, Goto, histVars
  <2> QED
    BY <2>1, QuietThread
<1>4. CASE PushFill(t)
  <2>1. /\ pc[t] = "fill" /\ pc' = [pc EXCEPT ![t] = "advance"]
        /\ op' = op /\ entered' = entered /\ got' = got /\ dropped' = dropped
    BY <1>4 DEF PushFill, Goto, histVars
  <2> QED
    BY <2>1, QuietThread
<1>5. CASE PushAdvance(t)
  <2>1. /\ pc[t] = "advance" /\ pc' = [pc EXCEPT ![t] = "notify"] /\ op' = op
        /\ entered' = Append(entered, value[t])
        /\ got' = got /\ dropped' = dropped /\ counted' = counted /\ main' = main
        /\ failed' = failed /\ stop' = stop
    BY <1>5 DEF PushAdvance, Goto, testVars, dogVars
  <2>2. /\ t \in Producers /\ t \in Pushing /\ value[t] = <<t, CountOf(t) + 1>>
        /\ value[t] \in Item /\ CountOf(t) \in 0 .. Pushed /\ Pushing' = Pushing \ {t}
    BY <1>5, NewItem DEF TInv
  <2>3. entered \in Seq(Item) /\ Pushed \in Nat
    BY Numbers DEF TInv, IInv, TypeOK, HistoryTypes
  <2>4. \A p : CountOf(p)' = IF t = p THEN CountOf(p) + 1 ELSE CountOf(p)
    BY <2>1, <2>2, <2>3, CountOfAppend
  <2>5. RoleInv'
    BY <2>1, <2>2, RoleMoves DEF TInv
  <2>6. pc'[t] = "notify" /\ \A u \in Threads \ {t} : pc'[u] = pc[u]
    BY <2>1 DEF TInv, IInv, TypeOK, ThreadTypes
  <2>7. ShareInv'
    <3>1. \A p \in Producers : CountOf(p)' <= ItemsPerProducer
      BY <2>2, <2>4, Shares DEF TInv, ShareInv
    <3>2. \A p \in Pushing' : CountOf(p)' < ItemsPerProducer
      BY <2>2, <2>4 DEF TInv, ShareInv
    <3>3. \A c \in Consumers : pc'[c] = pc[c]
      BY <2>2, <2>6, Shares
    <3> QED
      BY <2>1, <3>1, <3>2, <3>3 DEF TInv, ShareInv
  <2>8. PhaseInv'
    <3>1. main = "join_producers"
      BY <2>2, Shares DEF TInv, ShareInv, PhaseInv
    <3>2. ~\E u \in Threads : pc[u] = "destroy"
      BY <3>1 DEF TInv, PhaseInv
    <3>3. ~\E u \in Threads : pc'[u] = "destroy"
      BY <2>6, <3>2
    <3> QED
      BY <2>1, <3>1, <3>3 DEF TInv, PhaseInv
  <2> QED
    BY <2>5, <2>7, <2>8
<1>6. CASE PushNotify(t)
  <2>1. /\ pc[t] = "notify" /\ op' = [op EXCEPT ![t] = "none"]
        /\ entered' = entered /\ got' = got /\ dropped' = dropped /\ counted' = counted
        /\ main' = main /\ failed' = failed /\ stop' = stop
    BY <1>6 DEF PushNotify, histVars, testVars, dogVars
  <2>2. t \in Producers /\ \A u \in Threads \ {t} : op'[u] = op[u]
    BY <2>1, OpOf DEF TInv, RoleInv
  <2>3. /\ pc'[t] = "idle"
        /\ \A u \in Threads \ {t} : pc'[u] = pc[u] \/ (pc[u] = "waiting" /\ pc'[u] = "lock_head")
    BY <1>6, <2>1 DEF PushNotify, Waiters, Goto, TInv, IInv, TypeOK, ThreadTypes
  <2>4. \A p : CountOf(p)' = CountOf(p)
    BY <2>1, CountSame
  <2>5. RoleInv'
    BY <2>1, <2>2, <2>3 DEF TInv, RoleInv
  <2>6. ShareInv'
    <3>1. Pushing' \subseteq Pushing
      BY <2>3 DEF Pushing
    <3>2. \A c \in Consumers : pc'[c] \notin {"idle", "destroy"} => pc[c] \notin {"idle", "destroy"}
      BY <2>2, <2>3, Shares
    <3> QED
      BY <2>1, <2>4, <3>1, <3>2 DEF TInv, ShareInv
  <2>7. PhaseInv'
    <3>1. (\E u \in Threads : pc'[u] = "destroy") => \E u \in Threads : pc[u] = "destroy"
      BY <2>3
    <3> QED
      BY <2>1, <2>4, <3>1 DEF TInv, PhaseInv
  <2> QED
    BY <2>5, <2>6, <2>7
<1> QED
  BY <1>1, <1>2, <1>3, <1>4, <1>5, <1>6 DEF PushStep

\* The steps of wait_and_pop.
LEMMA PopKeepsShares ==
  ASSUME TInv, NEW t \in Threads, PopStep(t) \/ LockHead(t) \/ WakeSpuriously(t),
         UNCHANGED <<testVars, dogVars>>
  PROVE  RoleInv' /\ ShareInv' /\ PhaseInv'
<1> USE DEF PushLabels, PopLabels, Labels
<1>1. CASE LockHead(t)
  <2>1. /\ pc[t] = "lock_head" /\ pc' = [pc EXCEPT ![t] = "get_tail"]
        /\ op' = op /\ entered' = entered /\ got' = got /\ dropped' = dropped
    BY <1>1 DEF LockHead, Goto, histVars
  <2> QED
    BY <2>1, QuietThread
<1>2. CASE WakeSpuriously(t)
  <2>1. /\ pc[t] = "waiting" /\ pc' = [pc EXCEPT ![t] = "lock_head"]
        /\ op' = op /\ entered' = entered /\ got' = got /\ dropped' = dropped
    BY <1>2 DEF WakeSpuriously, Goto, histVars
  <2> QED
    BY <2>1, QuietThread
<1>3. CASE WaitCheck(t)
  <2>1. PICK l \in {"unlink", "block"} :
          /\ pc[t] = "get_tail" /\ pc' = [pc EXCEPT ![t] = l]
          /\ op' = op /\ entered' = entered /\ got' = got /\ dropped' = dropped
    BY <1>3 DEF WaitCheck, Goto, histVars
  <2> QED
    BY <2>1, QuietThread
<1>4. CASE WaitBlock(t)
  <2>1. /\ pc[t] = "block" /\ pc' = [pc EXCEPT ![t] = "waiting"]
        /\ op' = op /\ entered' = entered /\ got' = got /\ dropped' = dropped
    BY <1>4 DEF WaitBlock, Goto, histVars
  <2> QED
    BY <2>1, QuietThread
<1>5. CASE TryCheck(t)
  BY <1>5 DEF TryCheck, TInv, RoleInv
<1>6. CASE PopUnlink(t)
  <2>1. /\ pc[t] = "unlink" /\ pc' = [pc EXCEPT ![t] = "read"]
        /\ op' = op /\ entered' = entered /\ got' = got /\ dropped' = dropped
    BY <1>6 DEF PopUnlink, Goto
  <2> QED
    BY <2>1, QuietThread
<1>7. CASE PopThrow(t)
  BY <1>7, Shares DEF PopThrow
<1>8. CASE PopRead(t)
  <2>1. /\ pc[t] = "read" /\ pc' = [pc EXCEPT ![t] = "idle"] /\ op' = [op EXCEPT ![t] = "none"]
        /\ got' = [got EXCEPT ![t] = Append(@, nodes[own[t]].data)]
        /\ entered' = entered /\ dropped' = dropped
    BY <1>8 DEF PopRead, Return, Goto
  <2>2. t \in Consumers /\ \A u \in Threads \ {t} : op'[u] = op[u]
    BY <2>1, OpOf DEF TInv, RoleInv
  <2>3. got \in [Threads -> Seq(Item)]
    BY DEF TInv, IInv, TypeOK, HistoryTypes
  <2>4. Len(got'[t]) = Len(got[t]) + 1 /\ \A u \in Threads \ {t} : got'[u] = got[u]
    BY <2>1, <2>3
  <2>5. pc'[t] = "idle" /\ \A u \in Threads \ {t} : pc'[u] = pc[u]
    BY <2>1 DEF TInv, IInv, TypeOK, ThreadTypes
  <2>6. RoleInv'
    <3>1. \A u \in Threads : u \notin Consumers => got'[u] = got[u]
      BY <2>2, <2>4
    <3> QED
      BY <2>1, <2>2, <3>1, RoleMoves DEF TInv
  <2>7. ShareInv'
    <3>1. \A p : CountOf(p)' = CountOf(p)
      BY <2>1, CountSame
    <3>2. Pushing' \subseteq Pushing
      BY <2>5 DEF Pushing
    <3>3. counted' = counted
      BY DEF testVars
    <3>4. /\ counted[t] = Len(got[t]) /\ Len(got[t]) < ItemsPerConsumer
          /\ Len(got[t]) \in Nat /\ ItemsPerConsumer \in Nat
      BY <2>1, <2>2, <2>3, Shares DEF TInv, ShareInv
    <3>5. counted'[t] <= Len(got'[t]) /\ Len(got'[t]) <= ItemsPerConsumer
      BY <2>4, <3>3, <3>4
    <3>6. \A c \in Consumers \ {t} : got'[c] = got[c] /\ pc'[c] = pc[c]
      BY <2>4, <2>5, Shares
    <3> QED
      BY <2>5, <3>1, <3>2, <3>3, <3>5, <3>6 DEF TInv, ShareInv
  <2>8. PhaseInv'
    BY <2>1, PhaseMoves DEF TInv
  <2> QED
    BY <2>6, <2>7, <2>8
<1> QED
  BY <1>1, <1>2, <1>3, <1>4, <1>5, <1>6, <1>7, <1>8 DEF PopStep

\* Nobody asks for size() or empty().
LEMMA NoQueries == ASSUME TInv, NEW t \in Threads, QueryStep(t) PROVE FALSE
BY DEF QueryStep, EmptyCheck, SizeSnap, SizeWalk, SizeReturn, TInv, RoleInv

\* The loops of the producers and of the consumers.
LEMMA CallsKeepShares ==
  ASSUME TInv, NEW t \in Threads,
         \/ t \in Producers /\ Producer(t)
         \/ t \in Consumers /\ ConsumerLoop(t)
  PROVE  RoleInv' /\ ShareInv' /\ PhaseInv'
<1>1. CASE t \in Producers /\ Producer(t)
  <2>1. /\ pc[t] = "idle" /\ pc' = [pc EXCEPT ![t] = "alloc"] /\ op' = [op EXCEPT ![t] = "push"]
        /\ CountOf(t) < ItemsPerProducer /\ t \notin Consumers
        /\ entered' = entered /\ got' = got /\ dropped' = dropped
        /\ UNCHANGED <<testVars, dogVars>> /\ counted' = counted
    BY <1>1, Shares DEF Producer, PushCall, Call, Goto, histVars, testVars
  <2>2. \A u \in Threads \ {t} : op'[u] = op[u]
    BY <2>1, OpOf DEF TInv
  <2>3. pc'[t] = "alloc" /\ \A u \in Threads \ {t} : pc'[u] = pc[u]
    BY <2>1 DEF TInv, IInv, TypeOK, ThreadTypes
  <2>4. "alloc" \in Labels /\ "alloc" \notin PopLabels
    BY DEF Labels, PopLabels
  <2>5. RoleInv'
    BY <1>1, <2>1, <2>2, <2>4, RoleMoves DEF TInv
  <2>6. ShareInv'
    <3>1. \A p : CountOf(p)' = CountOf(p)
      BY <2>1, CountSame
    <3>2. Pushing' \subseteq Pushing \cup {t}
      BY <2>3 DEF Pushing
    <3>3. \A c \in Consumers : pc'[c] = pc[c]
      BY <2>1, <2>3, Shares
    <3> QED
      BY <2>1, <3>1, <3>2, <3>3 DEF TInv, ShareInv
  <2>7. PhaseInv'
    BY <2>1, <2>4, PhaseMoves DEF TInv
  <2> QED
    BY <2>5, <2>6, <2>7
<1>2. CASE t \in Consumers /\ Consumer(t)
  <2>1. /\ pc[t] = "idle" /\ pc' = [pc EXCEPT ![t] = "lock_head"]
        /\ op' = [op EXCEPT ![t] = "wait_and_pop"]
        /\ counted[t] = Len(got[t]) /\ counted[t] < ItemsPerConsumer
        /\ entered' = entered /\ got' = got /\ dropped' = dropped
        /\ UNCHANGED <<testVars, dogVars>> /\ counted' = counted
    BY <1>2 DEF Consumer, PopCall, Call, Goto, histVars, testVars
  <2>2. op'[t] = "wait_and_pop" /\ \A u \in Threads \ {t} : op'[u] = op[u]
    BY <2>1, OpOf DEF TInv
  <2>3. pc'[t] = "lock_head" /\ \A u \in Threads \ {t} : pc'[u] = pc[u]
    BY <2>1 DEF TInv, IInv, TypeOK, ThreadTypes
  <2>4. "lock_head" \in Labels \ {"destroy"} /\ "lock_head" \notin PushLabels
    BY DEF Labels, PushLabels
  <2>5. RoleInv'
    BY <1>2, <2>1, <2>2, <2>4, RoleMoves DEF TInv
  <2>6. ShareInv'
    <3>1. \A p : CountOf(p)' = CountOf(p)
      BY <2>1, CountSame
    <3>2. Pushing' \subseteq Pushing
      BY <2>3 DEF Pushing
    <3>3. \A c \in Consumers : c = t \/ pc'[c] = pc[c]
      BY <2>3, Shares
    <3> QED
      BY <2>1, <3>1, <3>2, <3>3 DEF TInv, ShareInv
  <2>7. PhaseInv'
    BY <2>1, <2>4, PhaseMoves DEF TInv
  <2> QED
    BY <2>5, <2>6, <2>7
<1>3. CASE t \in Consumers /\ Count(t)
  <2>1. /\ pc[t] = "idle" /\ counted[t] < Len(got[t])
        /\ counted' = [counted EXCEPT ![t] = @ + 1]
        /\ UNCHANGED vars /\ main' = main /\ failed' = failed /\ stop' = stop
    BY <1>3 DEF Count, dogVars
  <2>2. /\ pc' = pc /\ op' = op /\ entered' = entered /\ got' = got /\ dropped' = dropped
    BY <2>1 DEF vars, histVars
  <2>3. \A p : CountOf(p)' = CountOf(p)
    BY <2>2, CountSame
  <2>4. counted \in [Consumers -> Nat] /\ Len(got[t]) \in Nat /\ Len(got[t]) <= ItemsPerConsumer
    BY <1>3, Shares DEF TInv, IInv, TypeOK, HistoryTypes, ShareInv
  <2>5. /\ counted'[t] = counted[t] + 1 /\ \A c \in Consumers \ {t} : counted'[c] = counted[c]
        /\ counted' \in [Consumers -> Nat]
    BY <1>3, <2>1, <2>4
  <2>6. RoleInv'
    BY <2>2 DEF TInv, RoleInv
  <2>7. ShareInv'
    <3>1. Pushing' = Pushing
      BY <2>2 DEF Pushing
    <3>2. counted'[t] <= Len(got[t])
      BY <1>3, <2>1, <2>4, <2>5
    <3> QED
      BY <1>3, <2>1, <2>2, <2>3, <2>5, <3>1, <3>2 DEF TInv, ShareInv
  <2>8. PhaseInv'
    <3>1. counted[t] \in Nat /\ counted[t] < ItemsPerConsumer
      BY <1>3, <2>1, <2>4, Shares
    <3>2. main \in {"join_producers", "join_consumers"}
      BY <1>3, <3>1, Shares DEF TInv, PhaseInv
    <3> QED
      BY <2>1, <2>2, <2>3, <3>2 DEF TInv, PhaseInv
  <2> QED
    BY <2>6, <2>7, <2>8
<1> QED
  BY <1>1, <1>2, <1>3 DEF ConsumerLoop
-----------------------------------------------------------------------------
(* Counting. *)

Produced == Producers \X (1 .. ItemsPerProducer)
Places   == Consumers \X (1 .. ItemsPerConsumer)

\* There are as many items to produce as there are places to receive them in.
LEMMA SameNumber ==
  /\ IsFiniteSet(Produced) /\ IsFiniteSet(Places)
  /\ Cardinality(Produced) = Total /\ Cardinality(Places) = Total
<1>1. ASSUME NEW n \in Nat PROVE IsFiniteSet(1 .. n) /\ Cardinality(1 .. n) = n
  <2>1. 1 \in Int /\ n \in Int /\ (IF 1 > n THEN 0 ELSE n - 1 + 1) = n
    OBVIOUS
  <2> QED
    BY <2>1, FS_Interval
<1>2. /\ IsFiniteSet(Produced)
      /\ Cardinality(Produced) = Cardinality(Producers) * Cardinality(1 .. ItemsPerProducer)
  BY <1>1, Shares, FS_Product DEF Produced
<1>3. /\ IsFiniteSet(Places)
      /\ Cardinality(Places) = Cardinality(Consumers) * Cardinality(1 .. ItemsPerConsumer)
  BY <1>1, Shares, FS_Product DEF Places
<1>4. Cardinality(1 .. ItemsPerProducer) = ItemsPerProducer
      /\ Cardinality(1 .. ItemsPerConsumer) = ItemsPerConsumer
  BY <1>1, Shares
<1> QED
  BY <1>2, <1>3, <1>4, Shares

\* Only the items of the test enter the queue.
LEMMA EnteredIsProduced ==
  ASSUME TInv, NEW i \in 1 .. Pushed PROVE entered[i] \in Produced
<1>1. entered[i] \in Producers \X (1 .. MaxItems)
  BY DEF TInv, IInv, CountInv
<1>2. PICK p \in Producers, n \in 1 .. MaxItems : entered[i] = <<p, n>>
  BY <1>1
<1>3. entered[i][2] <= CountOf(p)
  BY <1>2 DEF TInv, IInv, CountInv
<1>4. CountOf(p) <= ItemsPerProducer /\ CountOf(p) \in Nat
  BY CountOfType, Numbers DEF TInv, ShareInv
<1>5. n \in 1 .. ItemsPerProducer
  BY <1>2, <1>3, <1>4, Shares
<1> QED
  BY <1>2, <1>5 DEF Produced

\* A producer that has pushed its share has pushed each of its items.
LEMMA AllEntered ==
  ASSUME TInv, \A p \in Producers : CountOf(p) = ItemsPerProducer, NEW x \in Produced
  PROVE  \E i \in 1 .. Pushed : entered[i] = x
<1>1. PICK p \in Producers, n \in 1 .. ItemsPerProducer : x = <<p, n>>
  BY DEF Produced
<1> DEFINE S == {i \in 1 .. Len(entered) : entered[i][1] = p}
           f == [i \in S |-> entered[i][2]]
<1>2. Cardinality(S) = ItemsPerProducer
  BY DEF CountOf
<1>3. ASSUME NEW i \in S
      PROVE  i \in 1 .. Pushed /\ entered[i] = <<p, entered[i][2]>>
             /\ entered[i][2] \in 1 .. ItemsPerProducer
  <2>1. i \in 1 .. Pushed /\ entered[i][1] = p
    BY DEF Pushed
  <2>2. entered[i] \in Producers \X (1 .. ItemsPerProducer)
    BY <2>1, EnteredIsProduced DEF Produced
  <2> QED
    BY <2>1, <2>2
<1>4. IsFiniteSet(1 .. ItemsPerProducer) /\ Cardinality(1 .. ItemsPerProducer) = ItemsPerProducer
  <2>1. 1 \in Int /\ ItemsPerProducer \in Int /\ ItemsPerProducer \in Nat
        /\ (IF 1 > ItemsPerProducer THEN 0 ELSE ItemsPerProducer - 1 + 1) = ItemsPerProducer
    BY Shares
  <2> QED
    BY <2>1, FS_Interval
<1>5. f \in Injection(S, 1 .. ItemsPerProducer)
  <2>1. f \in [S -> 1 .. ItemsPerProducer]
    BY <1>3
  <2>2. ASSUME NEW i \in S, NEW j \in S, f[i] = f[j] PROVE i = j
    <3>1. entered[i] = entered[j] /\ i \in 1 .. Pushed /\ j \in 1 .. Pushed
      <4>1. entered[i] = <<p, entered[i][2]>> /\ i \in 1 .. Pushed
        BY <1>3
      <4>2. entered[j] = <<p, entered[j][2]>> /\ j \in 1 .. Pushed
        BY <1>3
      <4>3. entered[i][2] = entered[j][2]
        BY <2>2
      <4> QED
        BY <4>1, <4>2, <4>3
    <3> QED
      BY <3>1, EnteredOnce DEF TInv
  <2> HIDE DEF S, f
  <2> QED
    BY <2>1, <2>2 DEF Injection, IsInjective
<1> HIDE DEF f
<1>6. f \in Surjection(S, 1 .. ItemsPerProducer)
  <2> HIDE DEF S
  <2> QED
    BY <1>2, <1>4, <1>5, FS_Injection
<1>7. PICK i \in S : f[i] = n
  <2> HIDE DEF S
  <2> QED
    BY <1>6 DEF Surjection
<1>8. i \in 1 .. Pushed /\ entered[i] = <<p, entered[i][2]>> /\ entered[i][2] = n
  BY <1>3, <1>7 DEF f
<1> QED
  BY <1>1, <1>8

\* What a consumer has received was produced, and nobody else has it.
LEMMA GotOnce ==
  ASSUME TInv, NEW c \in Consumers, NEW m \in 1 .. Len(got[c])
  PROVE  /\ got[c][m] \in Produced
         /\ \A d \in Consumers : \A n \in 1 .. Len(got[d]) :
              got[d][n] = got[c][m] => d = c /\ n = m
<1>1. ASSUME NEW d \in Consumers, NEW n \in 1 .. Len(got[d])
      PROVE  /\ got[d][n] \in Produced /\ <<d, n>> \in Holders(got[d][n])
             /\ \E i \in 1 .. Popped : i \in 1 .. Pushed /\ got[d][n] = entered[i]
  <2>1. d \in Threads /\ Len(got[d]) \in Nat /\ DOMAIN got[d] = 1 .. Len(got[d])
    BY Shares DEF TInv, IInv, TypeOK, HistoryTypes
  <2>2. PICK i \in n .. Popped : got[d][n] = entered[i]
    BY <2>1, Parts DEF TInv, GotPopped
  <2>3. i \in 1 .. Popped /\ i \in 1 .. Pushed /\ n \in 1 .. MaxItems
    BY <2>1, <2>2, Numbers DEF TInv
  <2>4. got[d][n] \in Produced
    BY <2>2, <2>3, EnteredIsProduced
  <2>5. <<d, n>> \in Holders(got[d][n])
    BY <2>1, <2>3 DEF Holders
  <2> QED
    BY <2>2, <2>3, <2>4, <2>5
<1>2. ASSUME NEW d \in Consumers, NEW n \in 1 .. Len(got[d]), got[d][n] = got[c][m]
      PROVE  d = c /\ n = m
  <2>1. PICK i \in 1 .. Popped : i \in 1 .. Pushed /\ got[c][m] = entered[i]
    BY <1>1
  <2>2. i <= Popped /\ \E h : Holders(got[c][m]) = {h}
    <3>1. i <= Popped
      BY <2>1, Numbers DEF TInv
    <3>2. HolderInv
      BY Parts DEF TInv
    <3>3. \E h : Holders(entered[i]) = {h}
      BY <2>1, <3>1, <3>2 DEF HolderInv
    <3> QED
      BY <2>1, <3>1, <3>3
  <2>3. <<d, n>> \in Holders(got[c][m]) /\ <<c, m>> \in Holders(got[c][m])
    BY <1>1, <1>2
  <2> QED
    BY <2>2, <2>3
<1> QED
  BY <1>1, <1>2

\* Consumers that have received their shares have received every item.
LEMMA AllGot ==
  ASSUME TInv, \A c \in Consumers : Len(got[c]) = ItemsPerConsumer, NEW x \in Produced
  PROVE  \E c \in Consumers : \E m \in 1 .. ItemsPerConsumer : got[c][m] = x
<1> DEFINE f == [h \in Places |-> got[h[1]][h[2]]]
<1>1. f \in [Places -> Produced]
  BY GotOnce DEF Places
<1>2. ASSUME NEW g \in Places, NEW h \in Places, f[g] = f[h] PROVE g = h
  <2>1. /\ g = <<g[1], g[2]>> /\ h = <<h[1], h[2]>>
        /\ g[1] \in Consumers /\ h[1] \in Consumers
        /\ g[2] \in 1 .. Len(got[g[1]]) /\ h[2] \in 1 .. Len(got[h[1]])
    <3>1. ASSUME NEW k \in Places
          PROVE  k = <<k[1], k[2]>> /\ k[1] \in Consumers /\ k[2] \in 1 .. ItemsPerConsumer
      BY DEF Places
    <3> QED
      BY <3>1
  <2>2. got[g[1]][g[2]] = got[h[1]][h[2]]
    BY <1>2
  <2>3. g[1] = h[1] /\ g[2] = h[2]
    BY <2>1, <2>2, GotOnce
  <2> QED
    BY <2>1, <2>3
<1> HIDE DEF f
<1>3. f \in Injection(Places, Produced)
  BY <1>1, <1>2 DEF Injection, IsInjective
<1>4. f \in Surjection(Places, Produced)
  BY <1>3, SameNumber, FS_Injection
<1>5. PICK h \in Places : f[h] = x
  BY <1>4 DEF Surjection
<1>6. h[1] \in Consumers /\ h[2] \in 1 .. ItemsPerConsumer /\ got[h[1]][h[2]] = x
  BY <1>5 DEF f, Places
<1> QED
  BY <1>6

\* If every item has been produced and popped, and no pop is running, then nobody
\* waits for the rest of its share.
LEMMA NobodyLacks ==
  ASSUME TInv, \A p \in Producers : CountOf(p) = ItemsPerProducer, Popped = Pushed,
         \A t \in Threads : pc[t] # "read", NEW d \in Consumers
  PROVE  Len(got[d]) = ItemsPerConsumer
<1>1. ASSUME NEW x \in Produced
      PROVE  \E h \in Places : h[2] \in 1 .. Len(got[h[1]]) /\ got[h[1]][h[2]] = x
  <2>1. PICK i \in 1 .. Pushed : entered[i] = x
    BY AllEntered
  <2>2. i <= Popped
    BY <2>1, Numbers DEF TInv
  <2>3. PICK h : Holders(x) = {h}
    BY <2>1, <2>2, Parts DEF TInv, HolderInv
  <2>4. h \in Holders(x) /\ x \notin dropped
    BY <2>3 DEF TInv, RoleInv
  <2>5. h \in Threads \X (1 .. MaxItems) /\ h[2] \in DOMAIN got[h[1]] /\ got[h[1]][h[2]] = x
    BY <2>4 DEF Holders
  <2>6. h[2] \in 1 .. Len(got[h[1]]) /\ h[1] \in Threads
    BY <2>5 DEF TInv, IInv, TypeOK, HistoryTypes
  <2>7. h[1] \in Consumers
    BY <2>6 DEF TInv, RoleInv
  <2>8. Len(got[h[1]]) <= ItemsPerConsumer /\ Len(got[h[1]]) \in Nat
    BY <2>6, <2>7 DEF TInv, ShareInv, IInv, TypeOK, HistoryTypes
  <2>9. h[2] \in 1 .. ItemsPerConsumer
    BY <2>6, <2>8, Shares
  <2>10. h \in Places
    BY <2>5, <2>7, <2>9 DEF Places
  <2> QED
    BY <2>5, <2>6, <2>10
<1> DEFINE f == [x \in Produced |->
                   CHOOSE h \in Places : h[2] \in 1 .. Len(got[h[1]]) /\ got[h[1]][h[2]] = x]
<1>2. \A x \in Produced : /\ f[x] \in Places /\ f[x][2] \in 1 .. Len(got[f[x][1]])
                          /\ got[f[x][1]][f[x][2]] = x
  BY <1>1
<1>3. f \in [Produced -> Places]
  BY <1>2
<1> HIDE DEF f
<1>4. f \in Injection(Produced, Places)
  <2>1. \A x, y \in Produced : f[x] = f[y] => x = y
    BY <1>2
  <2> QED
    BY <1>3, <2>1 DEF Injection, IsInjective
<1>5. f \in Surjection(Produced, Places)
  BY <1>4, SameNumber, FS_Injection
<1>6. Len(got[d]) <= ItemsPerConsumer /\ Len(got[d]) \in Nat
  BY Shares DEF TInv, ShareInv, IInv, TypeOK, HistoryTypes
<1>7. CASE ItemsPerConsumer = 0
  BY <1>6, <1>7
<1>8. CASE ItemsPerConsumer # 0
  <2>1. <<d, ItemsPerConsumer>> \in Places
    BY <1>8, Shares DEF Places
  <2>2. PICK x \in Produced : f[x] = <<d, ItemsPerConsumer>>
    BY <1>5, <2>1 DEF Surjection
  <2>3. ItemsPerConsumer \in 1 .. Len(got[d])
    BY <1>2, <2>2
  <2> QED
    BY <1>6, <2>3
<1> QED
  BY <1>7, <1>8
-----------------------------------------------------------------------------
(* What main hands to audit_items. *)

\* An instance of the community modules has its own copy of FiniteSets.
LEMMA SameCardinality == \A S : Seqs!Cardinality(S) = Cardinality(S)
BY DEF Seqs!Cardinality, Cardinality

\* The consumers in the order in which their results are merged.
LEMMA ConsumerOrder ==
  LET n == Cardinality(Consumers)
      f == Seqs!SetToSeq(Consumers)
  IN  f \in [1 .. n -> Consumers] /\ \A i, j \in 1 .. n : f[i] = f[j] => i = j
<1> DEFINE n == Cardinality(Consumers)
<1>1. ExistsBijection(1 .. n, Consumers)
  BY Shares, FS_CardinalityType
<1>2. PICK g \in Bijection(1 .. n, Consumers) : TRUE
  BY <1>1 DEF ExistsBijection
<1>3. g \in [1 .. n -> Consumers] /\ Seqs!IsInjective(g)
  BY <1>2 DEF Bijection, Injection, IsInjective, Seqs!IsInjective
<1> HIDE DEF n
<1> DEFINE f == CHOOSE h \in [1 .. n -> Consumers] : Seqs!IsInjective(h)
<1>4. f \in [1 .. n -> Consumers] /\ Seqs!IsInjective(f)
  BY <1>3
<1>5. Seqs!SetToSeq(Consumers) = f
  BY SameCardinality DEF Seqs!SetToSeq, n
<1> HIDE DEF f
<1>6. /\ f \in [1 .. n -> Consumers]
      /\ \A i, j \in 1 .. n : f[i] = f[j] => i = j
  BY <1>4 DEF Seqs!IsInjective
<1> QED
  BY <1>5, <1>6 DEF n

\* Different items are different ints.
LEMMA Numbering ==
  /\ \A x \in Produced : Number(x) \in Int
  /\ \A x, y \in Produced : Number(x) = Number(y) => x = y
<1> DEFINE L == ItemsPerProducer
<1>1. L \in Nat /\ \A p \in Producers : p \in Nat
  BY Shares
<1>2. ASSUME NEW x \in Produced
      PROVE  /\ x[1] \in Nat /\ x[2] \in 1 .. L /\ x = <<x[1], x[2]>>
             /\ Number(x) = Past(x[1], L) + x[2] - 1 /\ Past(x[1], L) \in Nat
  <2>1. x[1] \in Nat /\ x[2] \in 1 .. L /\ x = <<x[1], x[2]>>
    BY <1>1 DEF Produced
  <2>2. Past(x[1], L) \in Nat
    BY <1>1, <2>1, Blocks
  <2>3. Number(x) = Past(x[1], L) + x[2] - 1
    BY DEF Number, Past
  <2> QED
    BY <2>1, <2>2, <2>3
<1> HIDE DEF L
<1>3. ASSUME NEW x \in Produced, NEW y \in Produced, x[1] < y[1] PROVE Number(x) < Number(y)
  <2>1. x[1] + 1 \in Nat /\ y[1] \in Nat /\ x[1] \in Nat /\ x[1] + 1 <= y[1]
    BY <1>2, <1>3
  <2>2. Past(x[1] + 1, L) = Past(x[1], L) + L /\ Past(x[1] + 1, L) <= Past(y[1], L)
    BY <1>1, <2>1, Blocks
  <2>3. /\ x[2] \in 1 .. L /\ y[2] \in 1 .. L /\ Past(x[1], L) \in Nat /\ Past(y[1], L) \in Nat
        /\ Number(x) = Past(x[1], L) + x[2] - 1 /\ Number(y) = Past(y[1], L) + y[2] - 1
    BY <1>2
  <2> QED
    BY <1>1, <2>2, <2>3
<1>4. ASSUME NEW x \in Produced PROVE Number(x) \in Int
  <2>1. Number(x) = Past(x[1], L) + x[2] - 1 /\ x[2] \in 1 .. L /\ Past(x[1], L) \in Nat
    BY <1>2
  <2> QED
    BY <1>1, <2>1
<1>5. ASSUME NEW x \in Produced, NEW y \in Produced, Number(x) = Number(y) PROVE x = y
  <2>1. x[1] \in Nat /\ y[1] \in Nat /\ Number(x) \in Int /\ Number(y) \in Int
    BY <1>2, <1>4
  <2>2. ~(x[1] < y[1]) /\ ~(y[1] < x[1])
    BY <1>3, <1>5, <2>1
  <2>3. x[1] = y[1]
    BY <2>1, <2>2
  <2>4. /\ Number(x) = Past(x[1], L) + x[2] - 1 /\ Number(y) = Past(x[1], L) + y[2] - 1
        /\ x[2] \in 1 .. L /\ y[2] \in 1 .. L /\ Past(x[1], L) \in Nat
    BY <1>2, <2>3
  <2>5. x[2] = y[2]
    <3>1. Past(x[1], L) + x[2] - 1 = Past(x[1], L) + y[2] - 1
      BY <1>5, <2>4
    <3>2. \A b \in Nat : \A m, n \in 1 .. L : b + m - 1 = b + n - 1 => m = n
      BY <1>1
    <3> QED
      BY <2>4, <3>1, <3>2
  <2>6. x = <<x[1], x[2]>> /\ y = <<y[1], y[2]>>
    BY <1>2
  <2> QED
    BY <2>3, <2>5, <2>6
<1> QED
  BY <1>4, <1>5

\* The results of the consumers, once they have received their shares.
LEMMA ResultsAre ==
  ASSUME TInv, \A c \in Consumers : Len(got[c]) = ItemsPerConsumer
  PROVE  /\ Results \in Seq(Seq(Int)) /\ Len(Results) = Cardinality(Consumers)
         /\ \A i \in 1 .. Cardinality(Consumers) : Len(Results[i]) = ItemsPerConsumer
         /\ \A i, j \in 1 .. Cardinality(Consumers) : \A k, l \in 1 .. ItemsPerConsumer :
              Results[i][k] = Results[j][l] => i = j /\ k = l
<1> DEFINE n == Cardinality(Consumers)
           f == Seqs!SetToSeq(Consumers)
<1>1. n \in Nat /\ f \in [1 .. n -> Consumers] /\ \A i, j \in 1 .. n : f[i] = f[j] => i = j
  BY Shares, ConsumerOrder
<1>2. \A c \in Consumers : got[c] \in Seq(Item) /\ DOMAIN got[c] = 1 .. ItemsPerConsumer
  BY Shares DEF TInv, IInv, TypeOK, HistoryTypes
<1>3. /\ DOMAIN Results = 1 .. n
      /\ \A i \in 1 .. n : Results[i] = [k \in DOMAIN got[f[i]] |-> Number(got[f[i]][k])]
      /\ Results = [i \in 1 .. n |-> Results[i]]
  BY DEF Results
<1> HIDE DEF n, f
<1>4. ASSUME NEW i \in 1 .. n
      PROVE  /\ f[i] \in Consumers
             /\ Results[i] = [k \in 1 .. ItemsPerConsumer |-> Number(got[f[i]][k])]
             /\ \A k \in 1 .. ItemsPerConsumer :
                  /\ got[f[i]][k] \in Produced /\ k \in 1 .. Len(got[f[i]])
                  /\ Results[i][k] = Number(got[f[i]][k]) /\ Results[i][k] \in Int
  <2>1. f[i] \in Consumers
    BY <1>1
  <2>2. Results[i] = [k \in 1 .. ItemsPerConsumer |-> Number(got[f[i]][k])]
    BY <1>2, <1>3, <2>1
  <2>3. ASSUME NEW k \in 1 .. ItemsPerConsumer
        PROVE  /\ got[f[i]][k] \in Produced /\ k \in 1 .. Len(got[f[i]])
               /\ Results[i][k] = Number(got[f[i]][k]) /\ Results[i][k] \in Int
    <3>1. got[f[i]][k] \in Produced /\ k \in 1 .. Len(got[f[i]])
      BY <2>1, GotOnce
    <3>2. Results[i][k] = Number(got[f[i]][k])
      BY <2>2
    <3> QED
      BY <3>1, <3>2, Numbering
  <2> QED
    BY <2>1, <2>2, <2>3
<1>5. \A i \in 1 .. n : Results[i] \in Seq(Int) /\ Len(Results[i]) = ItemsPerConsumer
  <2> SUFFICES ASSUME NEW i \in 1 .. n
               PROVE  Results[i] \in Seq(Int) /\ Len(Results[i]) = ItemsPerConsumer
    OBVIOUS
  <2> DEFINE r == Results[i]
  <2>1. r = [k \in 1 .. ItemsPerConsumer |-> Number(got[f[i]][k])]
        /\ \A k \in 1 .. ItemsPerConsumer : r[k] \in Int
    BY <1>4
  <2> HIDE DEF r
  <2>2. r \in [1 .. ItemsPerConsumer -> Int] /\ ItemsPerConsumer \in Nat
    BY <2>1, Shares
  <2>3. r \in Seq(Int) /\ Len(r) = ItemsPerConsumer
    BY <2>2
  <2> QED
    BY <2>3 DEF r
<1>6. Results \in Seq(Seq(Int)) /\ Len(Results) = n
  <2>1. Results \in [1 .. n -> Seq(Int)]
    BY <1>3, <1>5
  <2> QED
    BY <1>1, <2>1
<1>7. ASSUME NEW i \in 1 .. n, NEW j \in 1 .. n, NEW k \in 1 .. ItemsPerConsumer,
             NEW l \in 1 .. ItemsPerConsumer, Results[i][k] = Results[j][l]
      PROVE  i = j /\ k = l
  <2>1. /\ got[f[i]][k] \in Produced /\ k \in 1 .. Len(got[f[i]])
        /\ Results[i][k] = Number(got[f[i]][k])
        /\ got[f[j]][l] \in Produced /\ l \in 1 .. Len(got[f[j]])
        /\ Results[j][l] = Number(got[f[j]][l])
    BY <1>4
  <2>2. got[f[i]][k] = got[f[j]][l]
    BY <1>7, <2>1, Numbering
  <2>3. f[i] = f[j] /\ k = l
    <3>1. f[i] \in Consumers /\ f[j] \in Consumers
      BY <1>4
    <3> QED
      BY <2>1, <2>2, <3>1, GotOnce
  <2> QED
    BY <1>1, <2>3
<1> QED
  BY <1>5, <1>6, <1>7 DEF n

\* The vector that is audited holds one int per item, none of them twice.
LEMMA AllIs ==
  ASSUME TInv, \A c \in Consumers : Len(got[c]) = ItemsPerConsumer
  PROVE  All \in Seq(Int) /\ Len(All) = Total /\ Injective(All)
<1> DEFINE n == Cardinality(Consumers)
           L == ItemsPerConsumer
<1>1. n \in Nat /\ L \in Nat /\ Total = Past(n, L)
  BY Shares DEF Past
<1>2. /\ Results \in Seq(Seq(Int)) /\ Len(Results) = n
      /\ \A i \in 1 .. n : Len(Results[i]) = L
      /\ \A i, j \in 1 .. n : \A k, l \in 1 .. L : Results[i][k] = Results[j][l] => i = j /\ k = l
  BY ResultsAre
<1>3. All = Flattened(Results)
  BY DEF All, Seqs!FlattenSeq, Flattened, Joins
<1> HIDE DEF n, L
<1>4. Laid(All, n, Results, Int, L)
  <2>1. \A i \in 1 .. Len(Results) : Len(Results[i]) = L
    BY <1>2
  <2>2. Laid(Flattened(Results), Len(Results), Results, Int, L)
    BY <1>1, <1>2, <2>1, FlattenedIsLaid
  <2> QED
    BY <1>2, <1>3, <2>2
<1>5. /\ All \in Seq(Int) /\ Len(All) = Total
      /\ \A j \in 1 .. n : \A k \in 1 .. L : All[Past(j - 1, L) + k] = Results[j][k]
      /\ \A x \in 1 .. Total : \E j \in 1 .. n : \E k \in 1 .. L : x = Past(j - 1, L) + k
  BY <1>1, <1>4 DEF Laid
<1>6. ASSUME NEW x \in 1 .. Total, NEW y \in 1 .. Total, All[x] = All[y] PROVE x = y
  <2>1. PICK i \in 1 .. n, k \in 1 .. L : x = Past(i - 1, L) + k
    BY <1>5
  <2>2. PICK j \in 1 .. n, l \in 1 .. L : y = Past(j - 1, L) + l
    BY <1>5
  <2>3. Results[i][k] = Results[j][l]
    <3>1. All[x] = Results[i][k]
      BY <1>5, <2>1
    <3>2. All[y] = Results[j][l]
      BY <1>5, <2>2
    <3> QED
      BY <1>6, <3>1, <3>2
  <2>4. \A b \in 1 .. L : Results[i][k] = Results[j][b] => i = j /\ k = b
    <3>1. \A c, d \in 1 .. L : Results[i][c] = Results[j][d] => i = j /\ c = d
      BY <1>2
    <3> QED
      BY <3>1
  <2>5. i = j /\ k = l
    BY <2>3, <2>4
  <2> QED
    BY <2>1, <2>2, <2>5
<1>7. DOMAIN All = 1 .. Total
  BY <1>5
<1> QED
  BY <1>5, <1>6, <1>7 DEF Injective

\* The audit of full shares finds nothing.
LEMMA AuditIsOk ==
  ASSUME TInv, \A c \in Consumers : Len(got[c]) = ItemsPerConsumer
  PROVE  Ok(audit_items(All, Total))
BY AllIs, AuditOk, Shares
-----------------------------------------------------------------------------
(* The invariant. *)

\* A step of main or of the watcher that leaves the queue alone.
LEMMA QueueStays ==
  ASSUME TInv, UNCHANGED vars, counted' = counted
  PROVE  RoleInv' /\ ShareInv' /\ \A p : CountOf(p)' = CountOf(p)
<1>1. pc' = pc /\ op' = op /\ entered' = entered /\ got' = got /\ dropped' = dropped
  BY DEF vars, histVars
<1>2. Pushing' = Pushing /\ \A p : CountOf(p)' = CountOf(p)
  BY <1>1, CountSame DEF Pushing
<1> QED
  BY <1>1, <1>2 DEF TInv, RoleInv, ShareInv

\* A consumer that has counted its share has received it.
LEMMA CountedIsGot ==
  ASSUME TInv, NEW c \in Consumers, counted[c] = ItemsPerConsumer
  PROVE  Len(got[c]) = ItemsPerConsumer
<1>1. Len(got[c]) \in Nat /\ counted[c] <= Len(got[c]) /\ Len(got[c]) <= ItemsPerConsumer
  BY Shares DEF TInv, ShareInv, IInv, TypeOK, HistoryTypes
<1> QED
  BY <1>1, Shares

\* The steps of main: its joins, its audit, and what ends the test.
LEMMA MainKeepsShares == ASSUME TInv, MainRuns PROVE RoleInv' /\ ShareInv' /\ PhaseInv'
<1>1. CASE JoinProducers
  <2>1. /\ main = "join_producers" /\ main' = "join_consumers" /\ ProducersDone
        /\ UNCHANGED vars /\ counted' = counted /\ failed' = failed /\ stop' = stop
    BY <1>1 DEF JoinProducers, dogVars
  <2>2. RoleInv' /\ ShareInv' /\ \A p : CountOf(p)' = CountOf(p)
    BY <2>1, QueueStays
  <2>3. ~\E t \in Threads : pc'[t] = "destroy"
    BY <2>1 DEF TInv, PhaseInv, vars
  <2> QED
    BY <2>1, <2>2, <2>3 DEF TInv, PhaseInv, ProducersDone
<1>2. CASE JoinConsumers
  <2>1. /\ main = "join_consumers" /\ main' = "audit" /\ ConsumersDone
        /\ UNCHANGED vars /\ counted' = counted /\ failed' = failed /\ stop' = stop
    BY <1>2 DEF JoinConsumers, dogVars
  <2>2. RoleInv' /\ ShareInv' /\ \A p : CountOf(p)' = CountOf(p)
    BY <2>1, QueueStays
  <2>3. ~\E t \in Threads : pc'[t] = "destroy"
    BY <2>1 DEF TInv, PhaseInv, vars
  <2> QED
    BY <2>1, <2>2, <2>3 DEF TInv, PhaseInv, ConsumersDone
<1>3. CASE AuditResults
  <2>1. /\ main = "audit" /\ main' = "stop_watchdog" /\ failed' = ~Ok(audit_items(All, Total))
        /\ UNCHANGED vars /\ counted' = counted /\ stop' = stop
    BY <1>3 DEF AuditResults, dogVars
  <2>2. RoleInv' /\ ShareInv' /\ \A p : CountOf(p)' = CountOf(p)
    BY <2>1, QueueStays
  <2>3. ~\E t \in Threads : pc'[t] = "destroy"
    BY <2>1 DEF TInv, PhaseInv, vars
  <2>4. \A c \in Consumers : counted[c] = ItemsPerConsumer
    BY <2>1 DEF TInv, PhaseInv
  <2>5. Ok(audit_items(All, Total))
    BY <2>4, CountedIsGot, AuditIsOk
  <2> QED
    BY <2>1, <2>2, <2>3, <2>4, <2>5 DEF TInv, PhaseInv
<1>4. CASE StopWatchdog
  <2>1. /\ main = "stop_watchdog" /\ main' = "join_watcher" /\ stop' = TRUE
        /\ UNCHANGED vars /\ counted' = counted /\ failed' = failed
    BY <1>4 DEF StopWatchdog
  <2>2. RoleInv' /\ ShareInv' /\ \A p : CountOf(p)' = CountOf(p)
    BY <2>1, QueueStays
  <2>3. ~\E t \in Threads : pc'[t] = "destroy"
    BY <2>1 DEF TInv, PhaseInv, vars
  <2> QED
    BY <2>1, <2>2, <2>3 DEF TInv, PhaseInv
<1>5. CASE JoinWatcher
  <2>1. /\ main = "join_watcher" /\ main' = "destroy_queue"
        /\ pc' = [t \in Threads |-> "destroy"] /\ op' = op
        /\ entered' = entered /\ got' = got /\ dropped' = dropped
        /\ counted' = counted /\ failed' = failed /\ stop' = stop
    BY <1>5 DEF JoinWatcher, DtorCall, histVars, dogVars
  <2>2. \A p : CountOf(p)' = CountOf(p)
    BY <2>1, CountSame
  <2>3. Pushing' = {}
    BY <2>1 DEF Pushing
  <2>4. RoleInv'
    BY <2>1 DEF TInv, RoleInv, PushLabels
  <2>5. ShareInv'
    BY <2>1, <2>2, <2>3, Shares DEF TInv, ShareInv
  <2>6. PhaseInv'
    BY <2>1, <2>2 DEF TInv, PhaseInv
  <2> QED
    BY <2>4, <2>5, <2>6
<1>6. CASE DestroyQueue
  <2>1. /\ main = "destroy_queue" /\ main' \in {"destroy_queue", "done"}
        /\ pc' = pc /\ op' = op /\ entered' = entered /\ got' = got /\ dropped' = dropped
        /\ counted' = counted /\ failed' = failed /\ stop' = stop
    BY <1>6 DEF DestroyQueue, DtorDelete, histVars, dogVars, vars
  <2>2. \A p : CountOf(p)' = CountOf(p)
    BY <2>1, CountSame
  <2>3. Pushing' = Pushing
    BY <2>1 DEF Pushing
  <2>4. RoleInv'
    BY <2>1 DEF TInv, RoleInv
  <2>5. ShareInv'
    BY <2>1, <2>2, <2>3 DEF TInv, ShareInv
  <2>6. PhaseInv'
    BY <2>1, <2>2 DEF TInv, PhaseInv
  <2> QED
    BY <2>4, <2>5, <2>6
<1> QED
  BY <1>1, <1>2, <1>3, <1>4, <1>5, <1>6 DEF MainRuns

\* The watcher only looks.
LEMMA WatcherKeepsShares == ASSUME TInv, WatcherRuns PROVE RoleInv' /\ ShareInv' /\ PhaseInv'
<1>1. /\ UNCHANGED vars /\ main' = main /\ counted' = counted /\ failed' = failed /\ stop' = stop
  BY DEF WatcherRuns, WatchStart, WatchLoop, WatchSample, WatchCheck, testVars
<1>2. RoleInv' /\ ShareInv' /\ \A p : CountOf(p)' = CountOf(p)
  BY <1>1, QueueStays
<1>3. pc' = pc
  BY <1>1 DEF vars
<1> QED
  BY <1>1, <1>2, <1>3 DEF TInv, PhaseInv

\* Every step of the test keeps the invariant.
LEMMA TInvNext == ASSUME TInv, [TestNext]_allVars PROVE TInv'
<1>1. IInv'
  BY TestSteps, InvNext DEF TInv
<1> SUFFICES RoleInv' /\ ShareInv' /\ PhaseInv'
  BY <1>1 DEF TInv
<1>2. ASSUME NEW t \in Threads, ThreadRuns(t) PROVE RoleInv' /\ ShareInv' /\ PhaseInv'
  <2>1. CASE Step(t) /\ UNCHANGED <<testVars, dogVars>>
    BY <2>1, PushKeepsShares, PopKeepsShares, NoQueries DEF Step
  <2>2. CASE t \in Producers /\ Producer(t)
    BY <2>2, CallsKeepShares
  <2>3. CASE t \in Consumers /\ ConsumerLoop(t)
    BY <2>3, CallsKeepShares
  <2> QED
    BY <1>2, <2>1, <2>2, <2>3 DEF ThreadRuns
<1>3. ASSUME NEW t \in Threads, Wakes(t) PROVE RoleInv' /\ ShareInv' /\ PhaseInv'
  BY <1>3, PopKeepsShares DEF Wakes
<1>4. CASE MainRuns
  BY <1>4, MainKeepsShares
<1>5. CASE WatcherRuns
  BY <1>5, WatcherKeepsShares
<1>6. CASE UNCHANGED allVars
  <2>1. UNCHANGED vars /\ main' = main /\ counted' = counted /\ failed' = failed /\ stop' = stop
    BY <1>6 DEF allVars, codeVars, testVars, dogVars
  <2>2. RoleInv' /\ ShareInv' /\ \A p : CountOf(p)' = CountOf(p)
    BY <2>1, QueueStays
  <2>3. pc' = pc
    BY <2>1 DEF vars
  <2> QED
    BY <2>1, <2>2, <2>3 DEF TInv, PhaseInv
<1> QED
  BY <1>2, <1>3, <1>4, <1>5, <1>6 DEF TestNext, TestStep

\* At any time of the test the queue is intact, nobody has had more than its
\* share, and main is where the counts allow it to be.
THEOREM TestInvariant == TestSpec => []TInv
<1>1. TInv /\ [TestNext]_allVars => TInv'
  BY TInvNext
<1> QED
  BY <1>1, TInvStarts, PTL DEF TestSpec

\* test_concurrent.cpp 101-104, 145-152: with any number of threads and of items
\* the audit passes, and the consumers have received exactly what was produced.
THEOREM TestPasses == TestSpec => []AuditPasses
<1>1. ASSUME TInv, main = "done"
      PROVE  UNION {{got[c][i] : i \in DOMAIN got[c]} : c \in Consumers} = Produced
  <2>1. \A c \in Consumers : Len(got[c]) = ItemsPerConsumer
    <3>1. \A c \in Consumers : counted[c] = ItemsPerConsumer
      BY <1>1 DEF TInv, PhaseInv
    <3> QED
      BY <1>1, <3>1, CountedIsGot
  <2>2. \A c \in Consumers : DOMAIN got[c] = 1 .. Len(got[c])
    BY <1>1, Shares DEF TInv, IInv, TypeOK, HistoryTypes
  <2>3. ASSUME NEW c \in Consumers, NEW i \in DOMAIN got[c] PROVE got[c][i] \in Produced
    BY <1>1, <2>2, GotOnce
  <2>4. ASSUME NEW x \in Produced
        PROVE  \E c \in Consumers : \E i \in DOMAIN got[c] : got[c][i] = x
    <3>1. PICK c \in Consumers, i \in 1 .. ItemsPerConsumer : got[c][i] = x
      BY <1>1, <2>1, AllGot
    <3>2. i \in DOMAIN got[c]
      BY <2>1, <2>2
    <3> QED
      BY <3>1, <3>2
  <2> QED
    BY <2>3, <2>4
<1>2. TInv => AuditPasses
  BY <1>1 DEF AuditPasses, TInv, PhaseInv, Produced
<1> QED
  BY <1>2, TestInvariant, PTL

\* A stall of the whole test, as the watcher would have to report it.
Stall == /\ head # tail /\ Waiters # {}
         /\ Waiters = {t \in Threads : pc[t] # "idle"}
         /\ \A p \in Producers : CountOf(p) = ItemsPerProducer

\* When nothing could run, all items are there and a consumer sleeps beside one.
LEMMA StalledIs == ASSUME TInv, Stalled, ~stop PROVE Stall
<1>1. main \in {"join_producers", "join_consumers"}
  BY DEF TInv, PhaseInv, Stalled, MainCanRun
<1>2. ASSUME NEW t \in Threads PROVE pc[t] \in {"idle", "waiting"}
  <2>1. pc[t] # "destroy"
    BY <1>1 DEF TInv, PhaseInv
  <2>2. \A u \in Threads : ~CanGoOn(u)
    BY DEF Stalled, ThreadCanRun
  <2> QED
    BY <2>1, <2>2, SomeoneCanGoOn DEF TInv
<1>3. ASSUME NEW p \in Producers PROVE pc[p] = "idle" /\ CountOf(p) = ItemsPerProducer
  <2>1. p \in Threads /\ p \notin Consumers
    BY Shares
  <2>2. pc[p] = "idle"
    BY <1>2, <2>1 DEF TInv, RoleInv
  <2>3. ~(CountOf(p) < ItemsPerProducer)
    BY <2>1, <2>2 DEF Stalled, ThreadCanRun
  <2>4. CountOf(p) <= ItemsPerProducer /\ CountOf(p) \in Nat
    BY CountOfType, Numbers DEF TInv, ShareInv
  <2> QED
    BY <2>2, <2>3, <2>4, Shares
<1>4. main = "join_consumers" /\ ~ConsumersDone
  BY <1>1, <1>3 DEF Stalled, MainCanRun, ProducersDone
<1>5. PICK c \in Consumers : counted[c] # ItemsPerConsumer
  BY <1>4 DEF ConsumersDone
<1>6. c \in Threads /\ counted[c] < ItemsPerConsumer
  BY <1>5, Shares DEF TInv, ShareInv, IInv, TypeOK, HistoryTypes
<1>7. pc[c] = "waiting"
  BY <1>2, <1>6 DEF Stalled, ThreadCanRun
<1>8. Len(got[c]) # ItemsPerConsumer
  BY <1>5, <1>7 DEF TInv, ShareInv
<1>9. head # tail
  <2>1. ~Gone
    BY <1>2 DEF Gone
  <2>2. \A t \in Threads : pc[t] # "read"
    BY <1>2
  <2>3. Popped # Pushed
    BY <1>3, <1>8, <2>2, NobodyLacks
  <2> QED
    BY <2>1, <2>3, Ends DEF TInv
<1>10. Waiters # {} /\ Waiters = {t \in Threads : pc[t] # "idle"}
  BY <1>2, <1>6, <1>7 DEF Waiters
<1> QED
  BY <1>3, <1>9, <1>10 DEF Stall

\* The counter is as far as the watcher's last load of it, and further as soon as
\* a consumer has finished an iteration since.
WorkInv ==
  /\ progress \in Nat /\ last \in Nat /\ now \in Nat
  /\ watcher \in {"loop", "sleep"} => last <= progress /\ (worked => last < progress)
  /\ watcher = "check" => now <= progress /\ (worked => now < progress)

LEMMA WorkHolds == ASSUME WorkInv, [TestNext]_allVars PROVE WorkInv'
<1>1. CASE UNCHANGED allVars
  BY <1>1 DEF WorkInv, allVars, codeVars, testVars, dogVars
<1> SUFFICES ASSUME TestNext PROVE WorkInv'
  BY <1>1
<1>2. worked' = (~Reloads /\ (worked \/ counted' # counted))
  BY DEF TestNext
<1>3. ASSUME WatcherRuns PROVE WorkInv'
  <2>1. counted' = counted /\ progress' = progress
    BY <1>3 DEF WatcherRuns, WatchStart, WatchLoop, WatchSample, WatchCheck, testVars
  <2>2. CASE WatchStart \/ WatchSample
    <3>1. Reloads
      BY <2>2 DEF WatchStart, WatchSample, Reloads
    <3>2. ~worked'
      BY <1>2, <3>1, Zenon
    <3> QED
      BY <2>1, <2>2, <3>2 DEF WatchStart, WatchSample, WorkInv
  <2>3. worked' => worked
    BY <1>2, <2>1, Zenon
  <2>4. CASE WatchLoop
    BY <2>1, <2>3, <2>4 DEF WatchLoop, WorkInv
  <2>5. CASE WatchCheck
    BY <2>1, <2>3, <2>5 DEF WatchCheck, WorkInv
  <2> QED
    BY <1>3, <2>2, <2>4, <2>5 DEF WatcherRuns
<1>4. ASSUME UNCHANGED <<counted, progress, watcher, last, now>> PROVE WorkInv'
  <2>1. worked' => worked
    BY <1>2, <1>4, Zenon
  <2> QED
    BY <1>4, <2>1 DEF WorkInv
<1>5. ASSUME MainRuns PROVE UNCHANGED <<counted, progress, watcher, last, now>>
  BY <1>5 DEF MainRuns, JoinProducers, JoinConsumers, AuditResults, StopWatchdog, JoinWatcher,
              DestroyQueue, dogVars
<1>6. ASSUME NEW t \in Threads, ThreadRuns(t) \/ Wakes(t) PROVE WorkInv'
  <2>1. CASE t \in Consumers /\ Count(t)
    BY <2>1 DEF Count, dogVars, WorkInv
  <2>2. CASE ~(t \in Consumers /\ Count(t))
    BY <1>4, <1>6, <2>2 DEF ThreadRuns, Wakes, Producer, ConsumerLoop, Consumer, testVars, dogVars
  <2> QED
    BY <2>1, <2>2
<1> QED
  BY <1>3, <1>4, <1>5, <1>6 DEF TestNext, TestStep

LEMMA WorkInvariant == TestSpec => []WorkInv
<1>1. TestInit => WorkInv
  BY DEF TestInit, WorkInv
<1>2. WorkInv /\ [TestNext]_allVars => WorkInv'
  BY WorkHolds
<1> QED
  BY <1>1, <1>2, PTL DEF TestSpec

\* A sample that finds the counter where it was is one of a stall.
LEMMA SampleIsOfStall ==
  ASSUME WorkInv, WatchSample, progress <= last PROVE Stalled
BY DEF WorkInv, WatchSample, LongEnough

\* The watcher reports only what it has seen in a sample.
LEMMA SampleIs ==
  ASSUME WorkInv, TestNext, watcher = "sleep", watcher' = "check", now' <= last PROVE Stalled
<1>1. WatchSample
  BY DEF TestNext, TestStep, MainRuns, JoinProducers, JoinConsumers, AuditResults, StopWatchdog,
         JoinWatcher, DestroyQueue, ThreadRuns, Producer, ConsumerLoop, Consumer, Count, Wakes,
         dogVars, WatcherRuns, WatchStart, WatchLoop, WatchCheck
<1>2. now' = progress
  BY <1>1 DEF WatchSample
<1> QED
  BY <1>1, <1>2, SampleIsOfStall

\* test_helpers.hpp 44-50: the watcher never mistakes anything for a stall but
\* the one there is: all items produced, nobody inside a lock, and a consumer
\* that sleeps although the queue is not empty.
THEOREM AlarmsAreTrue == TestSpec => NoFalseAlarm
<1> DEFINE Alarm == watcher = "sleep" /\ watcher' = "check" /\ now' <= last /\ ~stop
<1>1. TInv /\ WorkInv /\ [TestNext]_allVars => [Alarm => Stall]_allVars
  BY SampleIs, StalledIs
<1> QED
  BY <1>1, TestInvariant, WorkInvariant, PTL DEF TestSpec, NoFalseAlarm, Stall

\* What the watcher knows between its sample and its check.
WatchInv == ~fired /\ (watcher = "check" /\ ~stop => ~(now <= last))

\* A sample that shows no progress before the end would be one of a lost wakeup.
LEMMA WatchHolds ==
  ASSUME TInv, WorkInv, WakeInv, WatchInv, [TestNext]_allVars PROVE WatchInv'
<1>1. CASE WatchSample
  <2>1. ASSUME ~stop PROVE ~(progress <= last)
    <3>1. SUFFICES ASSUME progress <= last PROVE FALSE
      OBVIOUS
    <3>2. Stall
      BY <1>1, <2>1, <3>1, SampleIsOfStall, StalledIs
    <3>3. \A t \in Threads : pc[t] \in {"idle", "waiting"}
      BY <3>2 DEF Stall, Waiters
    <3> QED
      BY <3>2, <3>3, WakeSuffices DEF Stall, NoLostWakeup, TInv
  <2> QED
    BY <1>1, <2>1 DEF WatchSample, WatchInv
<1>2. CASE WatchCheck
  BY <1>2 DEF WatchCheck, WatchInv
<1>3. CASE WatchStart \/ WatchLoop
  BY <1>3 DEF WatchStart, WatchLoop, WatchInv
<1>4. CASE UNCHANGED <<watcher, last, now, fired>> /\ (stop' = stop \/ stop' = TRUE)
  BY <1>4 DEF WatchInv
<1>5. ASSUME MainRuns PROVE UNCHANGED <<watcher, last, now, fired>> /\ (stop' = stop \/ stop' = TRUE)
  BY <1>5 DEF MainRuns, JoinProducers, JoinConsumers, AuditResults, StopWatchdog, JoinWatcher,
              DestroyQueue, dogVars
<1>6. ASSUME NEW t \in Threads, ThreadRuns(t) \/ Wakes(t)
      PROVE  UNCHANGED <<watcher, last, now, fired, stop>>
  BY <1>6 DEF ThreadRuns, Wakes, Producer, ConsumerLoop, Consumer, Count, dogVars
<1>7. CASE UNCHANGED allVars
  BY <1>4, <1>7 DEF allVars, codeVars, dogVars
<1> QED
  BY <1>1, <1>2, <1>3, <1>4, <1>5, <1>6, <1>7 DEF TestNext, TestStep, WatcherRuns

\* The two together, as long as no notification has been in vain.
LEMMA GapHolds ==
  ASSUME TInv, WorkInv, ~missed => WakeInv /\ WatchInv, [TestNext]_allVars, ~missed'
  PROVE  WakeInv' /\ WatchInv'
<1>1. ~missed /\ [Next /\ WaitersBlockFirst]_vars
  <2>1. [Next]_vars
    BY TestSteps
  <2>2. CASE TestNext
    <3>1. missed' = (missed \/ ~WaitersBlockFirst)
      BY <2>2 DEF TestNext
    <3>2. ~missed /\ WaitersBlockFirst
      BY <3>1, Zenon
    <3> QED
      BY <2>1, <3>2
  <2>3. CASE UNCHANGED allVars
    BY <2>3 DEF allVars, codeVars
  <2> QED
    BY <2>2, <2>3
<1> QED
  BY <1>1, WakeHolds, WatchHolds DEF TInv

\* test_helpers.hpp 44-50, test_edge.cpp 12-13 and 61-62: for any number of threads
\* and of items, nothing but a notification between a consumer's predicate and its
\* block ever loses a wakeup or makes the watcher fail the test.
THEOREM OneCauseOfStalls == TestSpec => []OnlyTheGapStalls
<1> DEFINE GapInv == ~missed => WakeInv /\ WatchInv
<1>1. TestInit => GapInv
  BY WakeStarts DEF TestInit, WatchInv
<1>2. TInv /\ WorkInv /\ GapInv /\ [TestNext]_allVars => GapInv'
  BY GapHolds
<1>3. TInv /\ GapInv => OnlyTheGapStalls
  BY WakeSuffices DEF WatchInv, OnlyTheGapStalls, TInv
<1> QED
  BY <1>1, <1>2, <1>3, TestInvariant, WorkInvariant, PTL DEF TestSpec

\* What audit_items finds out about a vector of any length.
LEMMA AuditCountsEach ==
  ASSUME NEW n \in Nat, NEW s \in Seq(0 .. n - 1)
  PROVE  Ok(audit_items(s, n)) <=>
           \A v \in 0 .. n - 1 : Cardinality({i \in DOMAIN s : s[i] = v}) = 1
<1> DEFINE V == 0 .. n - 1
           At(v) == {i \in DOMAIN s : s[i] = v}
           I == 1 .. Len(s)
<1>1. /\ Len(s) \in Nat /\ DOMAIN s = I /\ s \in [I -> V] /\ s \in Seq(Int)
  OBVIOUS
<1>2. /\ IsFiniteSet(V) /\ Cardinality(V) = n
      /\ IsFiniteSet(I) /\ Cardinality(I) = Len(s)
  <2>1. IsFiniteSet(V) /\ Cardinality(V) = n
    <3>1. 0 \in Int /\ n - 1 \in Int /\ (IF 0 > n - 1 THEN 0 ELSE (n - 1) - 0 + 1) = n
      OBVIOUS
    <3> QED
      BY <3>1, FS_Interval
  <2>2. IsFiniteSet(I) /\ Cardinality(I) = Len(s)
    <3> DEFINE k == Len(s)
    <3>1. 1 \in Int /\ k \in Int /\ (IF 1 > k THEN 0 ELSE k - 1 + 1) = k
      BY <1>1
    <3> QED
      BY <3>1, FS_Interval
  <2> QED
    BY <2>1, <2>2
<1>3. Ok(audit_items(s, n)) <=> Injective(s) /\ Len(s) = n
  BY <1>1, AuditOk
<1>4. ASSUME NEW v \in V
      PROVE  IsFiniteSet(At(v)) /\ (Cardinality(At(v)) = 1 <=> \E i : At(v) = {i})
  <2>1. At(v) \in SUBSET I
    BY <1>1
  <2> HIDE DEF At, I
  <2>2. IsFiniteSet(At(v))
    BY <1>2, <2>1, FS_Subset
  <2> QED
    BY <2>2, FS_Singleton
<1> HIDE DEF V, I
<1>5. ASSUME Injective(s), Len(s) = n, NEW v \in V PROVE \E i : At(v) = {i}
  <2>1. s \in Injection(I, V)
    BY <1>1, <1>5 DEF Injection, IsInjective, Injective
  <2>2. s \in Surjection(I, V)
    BY <1>2, <1>5, <2>1, FS_Injection
  <2>3. PICK i \in I : s[i] = v
    BY <2>2 DEF Surjection
  <2>4. At(v) = {i}
    BY <1>1, <1>5, <2>3 DEF Injective
  <2> QED
    BY <2>4
<1>6. ASSUME \A v \in V : \E i : At(v) = {i} PROVE Injective(s) /\ Len(s) = n
  <2>1. ASSUME NEW i \in I, NEW j \in I, s[i] = s[j] PROVE i = j
    <3>1. s[i] \in V /\ i \in At(s[i]) /\ j \in At(s[i])
      BY <1>1, <2>1
    <3> HIDE DEF At
    <3> QED
      BY <1>6, <3>1
  <2>2. ASSUME NEW v \in V PROVE \E i \in I : s[i] = v
    <3>1. PICK i : At(v) = {i}
      BY <1>6
    <3>2. i \in At(v)
      BY <3>1
    <3> QED
      BY <1>1, <3>2
  <2>3. s \in Injection(I, V) /\ s \in Surjection(I, V)
    BY <1>1, <2>1, <2>2 DEF Injection, IsInjective, Surjection
  <2>4. Len(s) = n
    BY <1>2, <2>3, FS_Injection
  <2> QED
    BY <1>1, <2>1, <2>4 DEF Injective
<1>7. Ok(audit_items(s, n)) <=> \A v \in V : Cardinality(At(v)) = 1
  <2> HIDE DEF At
  <2> QED
    BY <1>3, <1>4, <1>5, <1>6
<1> QED
  BY <1>7 DEF V

\* test_helpers.hpp 11-23: audit_items is satisfied with the multiset of what was
\* produced and with no other vector, whatever the bound on its length.
THEOREM AuditIsExact == TestSpec => []AuditIsMultisetEquality
<1>1. ASSUME NEW n \in 1 .. AuditBound - 1, NEW s \in Seqs!BoundedSeq(0 .. n - 1, AuditBound)
      PROVE  Ok(audit_items(s, n)) <=>
               \A v \in 0 .. n - 1 : Cardinality({i \in DOMAIN s : s[i] = v}) = 1
  <2>1. PICK m \in 0 .. AuditBound : s \in [1 .. m -> 0 .. n - 1]
    BY DEF Seqs!BoundedSeq, Seqs!SeqOf
  <2>2. n \in Nat /\ m \in Nat
    BY SharesAssumption
  <2>3. s \in Seq(0 .. n - 1)
    BY <2>1, <2>2
  <2> QED
    BY <2>2, <2>3, AuditCountsEach
<1>2. AuditIsMultisetEquality
  BY <1>1 DEF AuditIsMultisetEquality
<1> QED
  BY <1>2, PTL
=============================================================================
