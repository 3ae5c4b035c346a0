------------------------ MODULE StdMutexQueueProofs ------------------------
(***************************************************************************)
(* Proofs about StdMutexQueue, for any number of producers, consumers and  *)
(* pushes.                                                                 *)
(*                                                                         *)
(* No wakeup is lost because of a count (WakeInv): while somebody sleeps,  *)
(* there are at most as many items as threads that are bound to look at    *)
(* the queue or to notify somebody who will.                               *)
(***************************************************************************)
EXTENDS StdMutexQueue, FiniteSetTheorems, SequenceTheorems, TLAPS

ProducerLabels == {"idle", "lock_push", "push", "notify"}
ConsumerLabels == {"idle", "lock_pop", "check", "block", "waiting", "front"}
Holding        == {"push", "notify", "check", "block", "front"}

\* What a thread knows by holding the mutex.
MutexInv ==
  /\ \A p \in Producers : pc[p] \in ProducerLabels
  /\ \A c \in Consumers : pc[c] \in ConsumerLabels
  /\ \A t \in Threads : pc[t] \in Holding <=> mtx = t
  /\ \A c \in Consumers : pc[c] = "block" => q = << >>
  /\ \A c \in Consumers : pc[c] = "front" => q # << >>

\* The threads that will notify a sleeper or look at the queue themselves.
Busy == {t \in Threads : pc[t] \in {"notify", "lock_pop", "check", "front"}}

WakeInv == Waiters # {} => Len(q) <= Cardinality(Busy)

\* A push that a producer has started, and whether it is in the queue.
Entered(p, n) == n < pushes[p] \/ (n = pushes[p] /\ pc[p] \notin {"lock_push", "push"})

OnceInv ==
  /\ \A i, j \in 1 .. Len(q) : i # j => q[i] # q[j]
  /\ \A i \in 1 .. Len(q) : Entered(q[i][1], q[i][2])
  /\ \A p \in Producers : pc[p] \in {"lock_push", "push"} => pushes[p] >= 1

IInv == TypeOK /\ MutexInv /\ WakeInv /\ OnceInv
------------------------------------------------------------------------------
\* Every step keeps the types,
LEMMA TypesHold == TypeOK /\ MutexInv /\ OnceInv /\ [Next]_vars => TypeOK'
<1> SUFFICES ASSUME TypeOK, MutexInv, OnceInv, [Next]_vars PROVE TypeOK'
  OBVIOUS
<1> USE DEF TypeOK, Goto, Threads, Items
<1>1. ASSUME NEW p \in Producers, PushCall(p) PROVE TypeOK'
  BY <1>1, PushesAssumption DEF PushCall
<1>2. ASSUME NEW p \in Producers, PushBack(p) PROVE TypeOK'
  <2>1. <<p, pushes[p]>> \in Items
    BY <1>2, PushesAssumption DEF PushBack, OnceInv
  <2> QED
    BY <1>2, <2>1 DEF PushBack
<1>3. ASSUME NEW p \in Producers, PushNotify(p) PROVE TypeOK'
  BY <1>3 DEF PushNotify, Waiters
<1>4. ASSUME NEW c \in Consumers, PopCall(c) PROVE TypeOK'
  BY <1>4 DEF PopCall
<1>5. ASSUME NEW c \in Consumers, PopCheck(c) PROVE TypeOK'
  BY <1>5 DEF PopCheck
<1>6. ASSUME NEW c \in Consumers, PopBlock(c) PROVE TypeOK'
  BY <1>6 DEF PopBlock
<1>7. ASSUME NEW c \in Consumers, WakeSpuriously(c) PROVE TypeOK'
  BY <1>7 DEF WakeSpuriously
<1>8. ASSUME NEW c \in Consumers, PopFront(c) PROVE TypeOK'
  <2>1. q # << >>
    BY <1>8 DEF PopFront, MutexInv
  <2>2. Head(q) \in Items /\ Tail(q) \in Seq(Items)
    BY <2>1
  <2> QED
    BY <1>8, <2>2 DEF PopFront
<1>9. ASSUME NEW t \in Threads, Lock(t) PROVE TypeOK'
  BY <1>9 DEF Lock
<1>10. CASE UNCHANGED vars
  BY <1>10 DEF vars
<1> QED
  BY <1>1, <1>2, <1>3, <1>4, <1>5, <1>6, <1>7, <1>8, <1>9, <1>10 DEF Next

\* the ownership of the mutex,
LEMMA MutexHolds == TypeOK /\ MutexInv /\ [Next]_vars => MutexInv'
<1> SUFFICES ASSUME TypeOK, MutexInv, [Next]_vars PROVE MutexInv'
  OBVIOUS
<1> USE DEF TypeOK, MutexInv, Goto, Threads, Holding, ProducerLabels, ConsumerLabels
<1>1. ASSUME NEW p \in Producers, PushCall(p) PROVE MutexInv'
  BY <1>1, RolesAssumption DEF PushCall
<1>2. ASSUME NEW p \in Producers, PushBack(p) PROVE MutexInv'
  BY <1>2, RolesAssumption DEF PushBack
<1>3. ASSUME NEW p \in Producers, PushNotify(p) PROVE MutexInv'
  BY <1>3, RolesAssumption, FreeAssumption DEF PushNotify, Waiters
<1>4. ASSUME NEW c \in Consumers, PopCall(c) PROVE MutexInv'
  BY <1>4, RolesAssumption DEF PopCall
<1>5. ASSUME NEW c \in Consumers, PopCheck(c) PROVE MutexInv'
  BY <1>5, RolesAssumption DEF PopCheck
<1>6. ASSUME NEW c \in Consumers, PopBlock(c) PROVE MutexInv'
  BY <1>6, RolesAssumption, FreeAssumption DEF PopBlock
<1>7. ASSUME NEW c \in Consumers, WakeSpuriously(c) PROVE MutexInv'
  BY <1>7, RolesAssumption DEF WakeSpuriously
<1>8. ASSUME NEW c \in Consumers, PopFront(c) PROVE MutexInv'
  BY <1>8, RolesAssumption, FreeAssumption DEF PopFront
<1>9. ASSUME NEW t \in Threads, Lock(t) PROVE MutexInv'
  BY <1>9, RolesAssumption, FreeAssumption DEF Lock
<1>10. CASE UNCHANGED vars
  BY <1>10 DEF vars
<1> QED
  BY <1>1, <1>2, <1>3, <1>4, <1>5, <1>6, <1>7, <1>8, <1>9, <1>10 DEF Next

\* Steps that neither change the queue nor start or finish a push.
LEMMA OnceFrame ==
  ASSUME TypeOK, OnceInv, UNCHANGED <<q, pushes>>,
         \A p \in Producers :
           pc'[p] \in {"lock_push", "push"} <=> pc[p] \in {"lock_push", "push"}
  PROVE  OnceInv'
<1>1. ASSUME NEW i \in 1 .. Len(q) PROVE q[i][1] \in Producers
  BY DEF TypeOK, Items
<1>2. \A i \in 1 .. Len(q) : Entered(q[i][1], q[i][2])'
  BY <1>1 DEF OnceInv, Entered
<1> QED
  BY <1>2 DEF OnceInv

\* and that no item is in the queue twice.
LEMMA OnceHolds == TypeOK /\ MutexInv /\ OnceInv /\ [Next]_vars => OnceInv'
<1> SUFFICES ASSUME TypeOK, MutexInv, OnceInv, [Next]_vars PROVE OnceInv'
  OBVIOUS
<1> USE RolesAssumption, PushesAssumption
<1>0. ASSUME NEW i \in 1 .. Len(q)
      PROVE  q[i] \in Items /\ q[i][1] \in Producers /\ q[i][2] \in Nat
             /\ q[i] = <<q[i][1], q[i][2]>>
  BY DEF TypeOK, Items
<1>1. ASSUME NEW p \in Producers, PushCall(p) PROVE OnceInv'
  <2>1. /\ q' = q /\ pushes' = [pushes EXCEPT ![p] = @ + 1] /\ pushes[p] \in Nat
        /\ pc' = [pc EXCEPT ![p] = "lock_push"] /\ pc[p] = "idle"
        /\ pushes \in [Producers -> 0 .. MaxPushes] /\ p \in DOMAIN pc
    BY <1>1 DEF PushCall, Goto, TypeOK, Threads
  <2>2. ASSUME NEW i \in 1 .. Len(q) PROVE Entered(q[i][1], q[i][2])'
    <3>1. Entered(q[i][1], q[i][2])
      BY DEF OnceInv
    <3> QED
      BY <1>0, <2>1, <3>1 DEF Entered
  <2> QED
    BY <2>1, <2>2 DEF OnceInv
<1>2. ASSUME NEW p \in Producers, PushBack(p) PROVE OnceInv'
  <2> DEFINE x == <<p, pushes[p]>>
  <2>1. /\ q' = Append(q, x) /\ pushes' = pushes /\ pc[p] = "push"
        /\ pc' = [pc EXCEPT ![p] = "notify"] /\ q \in Seq(Items)
        /\ pc \in [Threads -> ProducerLabels \cup ConsumerLabels] /\ p \in Threads
    BY <1>2 DEF PushBack, Goto, TypeOK, Threads, ProducerLabels, ConsumerLabels
  <2>2. pushes[p] \in 1 .. MaxPushes /\ x \in Items
    BY <2>1 DEF OnceInv, TypeOK, Items
  <2>3. /\ Len(q') = Len(q) + 1 /\ q'[Len(q) + 1] = x
        /\ \A i \in 1 .. Len(q) : q'[i] = q[i]
    BY <2>1, <2>2
  <2>4. ASSUME NEW i \in 1 .. Len(q) PROVE q[i] # x /\ Entered(q[i][1], q[i][2])'
    <3>1. Entered(q[i][1], q[i][2])
      BY DEF OnceInv
    <3>2. ~Entered(p, pushes[p])
      BY <2>1, <2>2 DEF Entered
    <3>3. q[i] # x
      BY <3>1, <3>2
    <3>4. Entered(q[i][1], q[i][2])'
      BY <1>0, <2>1, <2>3, <3>1 DEF Entered, Threads
    <3> QED
      BY <3>3, <3>4
  <2>5. \A i, j \in 1 .. Len(q') : i # j => q'[i] # q'[j]
    <3>1. \A i \in 1 .. Len(q') : i \in 1 .. Len(q) \/ i = Len(q) + 1
      BY <2>1, <2>3
    <3> QED
      BY <2>3, <2>4, <3>1 DEF OnceInv
  <2>6. ASSUME NEW i \in 1 .. Len(q') PROVE Entered(q[i][1], q[i][2])'
    <3>1. i \in 1 .. Len(q) \/ i = Len(q) + 1
      BY <2>1, <2>3
    <3>2. CASE i \in 1 .. Len(q)
      BY <2>4, <3>2
    <3>3. CASE i = Len(q) + 1
      <4>1. q'[i][1] = p /\ q'[i][2] = pushes[p]
        BY <2>3, <3>3
      <4> QED
        BY <2>1, <4>1 DEF Entered
    <3> QED
      BY <3>1, <3>2, <3>3
  <2>7. \A r \in Producers : pc'[r] \in {"lock_push", "push"} => pushes'[r] >= 1
    BY <2>1 DEF OnceInv, Threads
  <2> QED
    BY <2>5, <2>6, <2>7 DEF OnceInv
<1>3. ASSUME NEW p \in Producers, PushNotify(p) PROVE OnceInv'
  <2>1. UNCHANGED <<q, pushes>> /\ \A r \in Producers :
           pc'[r] \in {"lock_push", "push"} <=> pc[r] \in {"lock_push", "push"}
    BY <1>3 DEF PushNotify, Waiters, Goto, TypeOK, Threads
  <2> QED
    BY <2>1, OnceFrame
<1>4. ASSUME NEW c \in Consumers,
             PopCall(c) \/ PopCheck(c) \/ PopBlock(c) \/ WakeSpuriously(c)
      PROVE  OnceInv'
  <2>1. UNCHANGED <<q, pushes>> /\ \A r \in Producers :
           pc'[r] \in {"lock_push", "push"} <=> pc[r] \in {"lock_push", "push"}
    BY <1>4 DEF PopCall, PopCheck, PopBlock, WakeSpuriously, Goto, TypeOK, Threads
  <2> QED
    BY <2>1, OnceFrame
<1>5. ASSUME NEW c \in Consumers, PopFront(c) PROVE OnceInv'
  <2>1. /\ q' = Tail(q) /\ q # << >> /\ pushes' = pushes /\ q \in Seq(Items)
        /\ \A r \in Producers :
             pc'[r] \in {"lock_push", "push"} <=> pc[r] \in {"lock_push", "push"}
    BY <1>5 DEF PopFront, MutexInv, Goto, TypeOK, Threads
  <2>2. /\ Len(q') = Len(q) - 1 /\ \A i \in 1 .. Len(q') : q'[i] = q[i + 1]
        /\ \A i \in 1 .. Len(q') : i + 1 \in 1 .. Len(q)
    BY <2>1
  <2>3. ASSUME NEW i \in 1 .. Len(q') PROVE Entered(q[i][1], q[i][2])'
    <3>1. i + 1 \in 1 .. Len(q) /\ Entered(q[i + 1][1], q[i + 1][2])
      BY <2>2 DEF OnceInv
    <3> QED
      BY <1>0, <2>1, <2>2, <3>1 DEF Entered
  <2>4. \A i, j \in 1 .. Len(q') : i # j => q'[i] # q'[j]
    BY <2>2 DEF OnceInv
  <2> QED
    BY <2>1, <2>3, <2>4 DEF OnceInv
<1>6. ASSUME NEW t \in Threads, Lock(t) PROVE OnceInv'
  <2>1. UNCHANGED <<q, pushes>> /\ \A r \in Producers :
           pc'[r] \in {"lock_push", "push"} <=> pc[r] \in {"lock_push", "push"}
    BY <1>6 DEF Lock, Goto, TypeOK, Threads, MutexInv, ProducerLabels
  <2> QED
    BY <2>1, OnceFrame
<1>7. CASE UNCHANGED vars
  BY <1>7, OnceFrame DEF vars
<1> QED
  BY <1>1, <1>2, <1>3, <1>4, <1>5, <1>6, <1>7 DEF Next

\* The threads bound to look at the queue are finitely many.
LEMMA BusyIsCounted ==
  /\ IsFiniteSet(Busy) /\ Cardinality(Busy) \in Nat
  /\ \A S : S \subseteq Threads => IsFiniteSet(S) /\ Cardinality(S) \in Nat
<1>1. ASSUME NEW S \in SUBSET Threads PROVE IsFiniteSet(S) /\ Cardinality(S) \in Nat
  BY FiniteAssumption, FS_Subset, FS_CardinalityType DEF Threads
<1> QED
  BY <1>1 DEF Busy

\* Steps after which as many threads are busy, or more, and nobody new sleeps.
LEMMA WakeFrame ==
  ASSUME TypeOK, WakeInv, q' = q, Busy \subseteq Busy', Busy' \subseteq Threads,
         Waiters' # {} => Waiters # {}
  PROVE  WakeInv'
<1>1. Cardinality(Busy) <= Cardinality(Busy')
  BY BusyIsCounted, FS_Subset
<1>2. Cardinality(Busy) \in Nat /\ Cardinality(Busy') \in Nat /\ Len(q) \in Nat
  BY BusyIsCounted DEF TypeOK
<1> QED
  BY <1>1, <1>2 DEF WakeInv

\* Every step keeps the count of those who will wake a sleeper.
LEMMA WakeHolds == TypeOK /\ MutexInv /\ WakeInv /\ [Next]_vars => WakeInv'
<1> SUFFICES ASSUME TypeOK, MutexInv, WakeInv, [Next]_vars PROVE WakeInv'
  OBVIOUS
<1> USE RolesAssumption
<1>0. /\ Busy' \subseteq Threads /\ Cardinality(Busy) \in Nat /\ Cardinality(Busy') \in Nat
      /\ IsFiniteSet(Busy) /\ IsFiniteSet(Busy') /\ Len(q) \in Nat
      /\ pc \in [Threads -> ProducerLabels \cup ConsumerLabels]
  BY BusyIsCounted DEF TypeOK, Busy, ProducerLabels, ConsumerLabels
<1>1. ASSUME NEW p \in Producers, PushCall(p) PROVE WakeInv'
  <2>1. q' = q /\ Busy \subseteq Busy' /\ (Waiters' # {} => Waiters # {})
    BY <1>0, <1>1 DEF PushCall, Goto, Busy, Waiters, Threads
  <2> QED
    BY <1>0, <2>1, WakeFrame
<1>2. ASSUME NEW p \in Producers, PushBack(p) PROVE WakeInv'
  <2>1. /\ Len(q') = Len(q) + 1 /\ Busy' = Busy \cup {p} /\ p \notin Busy
        /\ (Waiters' # {} => Waiters # {})
    <3>1. Len(q') = Len(q) + 1
      BY <1>2 DEF PushBack, TypeOK
    <3> QED
      BY <1>0, <1>2, <3>1 DEF PushBack, Goto, Busy, Waiters, Threads
  <2>2. Cardinality(Busy') = Cardinality(Busy) + 1
    BY <1>0, <2>1, FS_AddElement
  <2> QED
    BY <1>0, <2>1, <2>2 DEF WakeInv
<1>3. ASSUME NEW p \in Producers, PushNotify(p) PROVE WakeInv'
  <2>1. CASE Waiters = {}
    <3>1. Waiters' = {}
      BY <1>0, <1>3, <2>1 DEF PushNotify, Goto, Waiters, Threads
    <3> QED
      BY <3>1 DEF WakeInv
  <2>2. CASE Waiters # {}
    <3>1. PICK w \in Waiters : pc' = [pc EXCEPT ![p] = "idle", ![w] = "lock_pop"]
      BY <1>3, <2>2 DEF PushNotify
    <3>2. /\ q' = q /\ Busy' = (Busy \ {p}) \cup {w} /\ p \in Busy /\ w \notin Busy
          /\ w # p
      BY <1>0, <1>3, <3>1 DEF PushNotify, Busy, Waiters, Threads
    <3>3. IsFiniteSet(Busy \ {p}) /\ Cardinality(Busy \ {p}) = Cardinality(Busy) - 1
      BY <1>0, <3>2, FS_RemoveElement
    <3>4. Cardinality(Busy') = Cardinality(Busy)
      BY <1>0, <3>2, <3>3, FS_AddElement
    <3> QED
      BY <2>2, <3>2, <3>4 DEF WakeInv
  <2> QED
    BY <2>1, <2>2
<1>4. ASSUME NEW c \in Consumers, PopCall(c) \/ WakeSpuriously(c) PROVE WakeInv'
  <2>1. q' = q /\ Busy \subseteq Busy' /\ (Waiters' # {} => Waiters # {})
    BY <1>0, <1>4 DEF PopCall, WakeSpuriously, Goto, Busy, Waiters, Threads
  <2> QED
    BY <1>0, <2>1, WakeFrame
<1>5. ASSUME NEW c \in Consumers, PopCheck(c) PROVE WakeInv'
  <2>1. CASE q # << >>
    <3>1. q' = q /\ Busy \subseteq Busy' /\ (Waiters' # {} => Waiters # {})
      BY <1>0, <1>5, <2>1 DEF PopCheck, Goto, Busy, Waiters, Threads
    <3> QED
      BY <1>0, <3>1, WakeFrame
  <2>2. CASE q = << >>
    <3>1. Len(q') = 0
      BY <1>5, <2>2 DEF PopCheck
    <3> QED
      BY <1>0, <3>1 DEF WakeInv
  <2> QED
    BY <2>1, <2>2
<1>6. ASSUME NEW c \in Consumers, PopBlock(c) PROVE WakeInv'
  <2>1. Len(q') = 0
    BY <1>6 DEF PopBlock, MutexInv
  <2> QED
    BY <1>0, <2>1 DEF WakeInv
<1>7. ASSUME NEW c \in Consumers, PopFront(c) PROVE WakeInv'
  <2>1. /\ Len(q') = Len(q) - 1
    BY <1>7 DEF PopFront, TypeOK, MutexInv
  <2>2. Busy' = Busy \ {c} /\ c \in Busy /\ (Waiters' # {} => Waiters # {})
    BY <1>0, <1>7 DEF PopFront, Goto, Busy, Waiters, Threads
  <2>3. Cardinality(Busy') = Cardinality(Busy) - 1
    BY <1>0, <2>2, FS_RemoveElement
  <2> QED
    BY <1>0, <2>1, <2>2, <2>3 DEF WakeInv
<1>8. ASSUME NEW t \in Threads, Lock(t) PROVE WakeInv'
  <2>1. q' = q /\ Busy \subseteq Busy' /\ (Waiters' # {} => Waiters # {})
    BY <1>0, <1>8 DEF Lock, Goto, Busy, Waiters
  <2> QED
    BY <1>0, <2>1, WakeFrame
<1>9. CASE UNCHANGED vars
  <2>1. q' = q /\ Busy' = Busy /\ Waiters' = Waiters
    BY <1>9 DEF vars, Busy, Waiters
  <2> QED
    BY <2>1 DEF WakeInv
<1> QED
  BY <1>1, <1>2, <1>3, <1>4, <1>5, <1>6, <1>7, <1>8, <1>9 DEF Next

\* The invariant holds at the start, when nobody sleeps and the queue is empty.
LEMMA InvStarts == Init => IInv
<1> SUFFICES ASSUME Init PROVE IInv
  OBVIOUS
<1>1. TypeOK
  BY PushesAssumption DEF Init, TypeOK, Items
<1>2. MutexInv
  BY FreeAssumption DEF Init, MutexInv, Threads, ProducerLabels, ConsumerLabels, Holding
<1>3. WakeInv /\ OnceInv
  BY DEF Init, WakeInv, Waiters, Threads, OnceInv
<1> QED
  BY <1>1, <1>2, <1>3 DEF IInv

\* The inductive invariant holds of every behaviour of the class.
THEOREM Invariant == Spec => []IInv
<1>1. IInv /\ [Next]_vars => IInv'
  BY TypesHold, MutexHolds, WakeHolds, OnceHolds DEF IInv
<1> QED
  BY InvStarts, <1>1, PTL DEF Spec

\* Members, threads and histories keep their types.
THEOREM TypeCorrect == Spec => []TypeOK
<1>1. IInv => TypeOK
  BY DEF IInv
<1> QED
  BY <1>1, Invariant, PTL

\* benchmark_bounded.cpp 31-33: a consumer that has seen an item in the queue
\* still finds it there when it takes front().
FrontExists == \A c \in Consumers : pc[c] = "front" => q # << >>

\* benchmark_bounded.cpp 31-33: front() is never called on an empty std::queue.
THEOREM FrontIsThere == Spec => []FrontExists
<1>1. IInv => FrontExists
  BY DEF IInv, MutexInv, FrontExists
<1> QED
  BY <1>1, Invariant, PTL

\* benchmark_bounded.cpp 25-35: no consumer sleeps beside an item when nothing
\* else is going on, however many producers and consumers there are.
THEOREM WakeupsReachConsumers == Spec => []NoLostWakeup
<1>1. IInv => NoLostWakeup
  <2> SUFFICES ASSUME IInv, \A t \in Threads : pc[t] \in {"idle", "waiting"}, Waiters # {}
               PROVE  q = << >>
    BY DEF NoLostWakeup
  <2>1. Busy = {}
    BY DEF Busy
  <2>2. Len(q) <= 0 /\ q \in Seq(Items)
    BY <2>1, FS_EmptySet DEF IInv, WakeInv, TypeOK
  <2> QED
    BY <2>2
<1> QED
  BY <1>1, Invariant, PTL
------------------------------------------------------------------------------
(* Refinement of FifoQueue. *)

\* The first n numbers are n.
LEMMA IntervalSize == ASSUME NEW n \in Nat PROVE Cardinality(1 .. n) = n
<1>1. Cardinality(1 .. n) = IF 1 > n THEN 0 ELSE n - 1 + 1
  BY ONLY n \in Nat, FS_Interval
<1> QED
  BY <1>1

\* While a push is on its way its item is not in the queue, so there is room.
LEMMA RoomForPush ==
  ASSUME IInv, NEW p \in Producers, pc[p] = "push"
  PROVE  Len(q) < Cardinality(Items)
<1> DEFINE x == <<p, pushes[p]>>
           Others == Items \ {x}
<1>1. /\ q \in Seq(Items) /\ Len(q) \in Nat /\ x \in Items
  BY PushesAssumption DEF IInv, TypeOK, OnceInv, Items
<1>2. IsFiniteSet(Items)
  <2>1. IsFiniteSet(Producers) /\ IsFiniteSet(1 .. MaxPushes)
    BY FiniteAssumption, PushesAssumption, FS_Subset, FS_Interval
  <2> QED
    BY <2>1, FS_Product DEF Items
<1>3. IsFiniteSet(Others) /\ Cardinality(Others) = Cardinality(Items) - 1
  BY <1>1, <1>2, FS_RemoveElement
<1>4. ASSUME NEW i \in 1 .. Len(q) PROVE q[i] \in Others
  <2>1. Entered(q[i][1], q[i][2]) /\ q[i] \in Items
    BY <1>1 DEF IInv, OnceInv
  <2>2. ~Entered(p, pushes[p])
    BY <1>1, PushesAssumption DEF Entered, IInv, TypeOK
  <2> QED
    BY <2>1, <2>2
<1>5. q \in Injection(1 .. Len(q), Others)
  <2>1. q \in [1 .. Len(q) -> Others]
    BY <1>1, <1>4
  <2>2. \A i, j \in DOMAIN q : q[i] = q[j] => i = j
    BY <1>1 DEF IInv, OnceInv
  <2> QED
    BY <2>1, <2>2 DEF Injection, IsInjective
<1>6. Cardinality(1 .. Len(q)) = Len(q)
  BY <1>1, IntervalSize
<1>7. Len(q) <= Cardinality(Others)
  BY <1>3, <1>5, <1>6, FS_Injection
<1> QED
  BY <1>1, <1>2, <1>3, <1>7, FS_CardinalityType

\* std::queue, mutex and condition variable are one FIFO queue, whose pushes
\* and pops take effect one at a time.
THEOREM BaselineIsFifo == Spec => RefinesFifo
<1>1. Init => Fifo!Init
  BY DEF Init, Fifo!Init
<1>2. IInv /\ [Next]_vars => [Fifo!Next]_<<q, taken>>
  <2> SUFFICES ASSUME IInv, [Next]_vars PROVE Fifo!Next \/ UNCHANGED <<q, taken>>
    OBVIOUS
  <2>1. ASSUME NEW p \in Producers, PushBack(p) PROVE Fifo!Next
    <3>1. Len(q) < Cardinality(Items)
      BY <2>1, RoomForPush DEF PushBack
    <3>2. <<p, pushes[p]>> \in Items
      BY <2>1, PushesAssumption DEF PushBack, IInv, TypeOK, OnceInv, Items
    <3> QED
      BY <2>1, <3>1, <3>2 DEF PushBack, Fifo!Next, Fifo!Push
  <2>2. ASSUME NEW c \in Consumers, PopFront(c) PROVE Fifo!Next
    BY <2>2 DEF PopFront, IInv, MutexInv, Fifo!Next, Fifo!Pop
  <2>3. ASSUME NEW p \in Producers, PushCall(p) \/ PushNotify(p)
        PROVE  UNCHANGED <<q, taken>>
    BY <2>3 DEF PushCall, PushNotify
  <2>4. ASSUME NEW c \in Consumers,
               PopCall(c) \/ PopCheck(c) \/ PopBlock(c) \/ WakeSpuriously(c)
        PROVE  UNCHANGED <<q, taken>>
    BY <2>4 DEF PopCall, PopCheck, PopBlock, WakeSpuriously
  <2>5. ASSUME NEW t \in Threads, Lock(t) PROVE UNCHANGED <<q, taken>>
    BY <2>5 DEF Lock
  <2> QED
    BY <2>1, <2>2, <2>3, <2>4, <2>5 DEF Next, vars
<1> QED
  BY <1>1, <1>2, Invariant, PTL DEF Spec, RefinesFifo, Fifo!Spec, Fifo!fifoVars
=============================================================================
